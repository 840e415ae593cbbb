---------------------------- MODULE CajaPosProofs ----------------------------
(***************************************************************************)
(* What holds of the cash registers for any shifts, accounts, cashiers,    *)
(* payment methods and amounts and any number of connections:              *)
(*   - IInv, the inductive invariant: which rows each transaction has      *)
(*     locked and that nobody else has them, that what it read under a     *)
(*     lock is still so, and what the sums of the closed shifts are;       *)
(*   - that no transactions wait for one another (SinAbrazos), since what  *)
(*     a step leaves waiting is never waited for by its holder;            *)
(*   - that each step is one of LibroCaja or none (CajaImplementaLibro).   *)
(* A closing adds up one row at a time: SumasProofs has what a sum becomes *)
(* when one of its terms changes.                                          *)
(***************************************************************************)
EXTENDS CajaPos, SumasProofs

-----------------------------------------------------------------------------
(* The inductive invariant.                                                *)

\* What each transaction has locked: the account from its first statement,
\* the shift it changes the totals of, the shift cash goes in or out of.
ConCuenta(x) == tx[x].op \in {"COBRAR", "ANULAR", "CORREGIR"}
ConTurno(x) ==
    \/ tx[x].op = "CERRAR"
    \/ tx[x].op \in {"ANULAR", "CORREGIR"} /\ tx[x].paso >= 2
ConMio(x) ==
    \/ tx[x].op = "COBRAR" /\ tx[x].paso = 2
    \/ tx[x].op = "ANULAR" /\ tx[x].paso = 3 /\ tx[x].mio # NULL

Suyo(x, f, modo) ==
    \/ ConCuenta(x) /\ f = tx[x].cuenta /\ modo = "UPDATE"
    \/ ConTurno(x) /\ f = tx[x].turno /\ modo = "UPDATE"
    \/ ConMio(x) /\ f = tx[x].mio /\ modo = "SHARE"

\* The locks are those, and no other.
CandadosDeTx ==
    \A x \in Conexiones, f \in Cuentas \cup Turnos, m \in {"SHARE", "UPDATE"} :
        [tx |-> x, fila |-> f, modo |-> m] \in candados <=> Suyo(x, f, m)

\* What the locks are for: two transactions have a row only to share it.
Exclusion ==
    \A x, y \in Conexiones, f \in Cuentas \cup Turnos, m, n \in {"SHARE", "UPDATE"} :
        x # y /\ Suyo(x, f, m) /\ Suyo(y, f, n) => m = "SHARE" /\ n = "SHARE"

\* An account that was not charged has no payment, one that was not
\* cancelled gave nothing back, and both belong to a shift that was opened.
VentasBien ==
    \A c \in Cuentas :
        /\ cuentas[c].estado \in {"LIBRE", "ABIERTA"} => pagos[c] = SinPagos
        /\ cuentas[c].estado # "ANULADA" =>
              cuentas[c].devueltaEn = NULL /\ ~cuentas[c].trasCierre
        /\ cuentas[c].turno # NULL => turnos[cuentas[c].turno].estado # "LIBRE"
        /\ cuentas[c].devueltaEn # NULL => turnos[cuentas[c].devueltaEn].estado # "LIBRE"
        /\ cuentas[c].trasCierre => turnos[cuentas[c].turno].estado = "CERRADO"

\* One shift is open at most, and nothing is put right of one that is not
\* closed.
TurnosBien ==
    /\ \A s, t \in Turnos : turnos[s].estado = "ABIERTO" /\ turnos[t].estado = "ABIERTO" => s = t
    /\ \A t \in Turnos : turnos[t].estado # "CERRADO" =>
          ajuste[t] = [montos |-> SinMontos, efectivo |-> 0]
    /\ \A t \in Turnos : turnos[t].estado = "LIBRE" => turnos[t].fondo = 0

\* What each transaction saw is still so when it uses it.
Cobrando(x) ==
    tx[x].op = "COBRAR" =>
        /\ tx[x].paso \in 1..2
        /\ tx[x].cuenta \in Cuentas /\ cuentas[tx[x].cuenta].estado = "ABIERTA"
        /\ tx[x].pagos \in Cobros(tx[x].cuenta)
        /\ tx[x].paso = 2 => tx[x].mio \in Turnos /\ turnos[tx[x].mio].estado = "ABIERTO"

Anulando(x) ==
    tx[x].op = "ANULAR" =>
        /\ tx[x].paso \in 1..3
        /\ tx[x].cuenta \in Cuentas /\ cuentas[tx[x].cuenta].estado = "PAGADA"
        /\ tx[x].turno = cuentas[tx[x].cuenta].turno
        /\ tx[x].paso = 1 => tx[x].mio = NULL
        /\ tx[x].paso >= 2 =>
              /\ tx[x].cerrado <=> turnos[tx[x].turno].estado = "CERRADO"
              /\ tx[x].mio \notin {NULL, tx[x].turno} => tx[x].cerrado
        /\ tx[x].paso = 3 =>
              IF tx[x].mio = NULL
              THEN pagos[tx[x].cuenta]["EFECTIVO"] = [monto |-> 0, propina |-> 0]
              ELSE turnos[tx[x].mio].estado = "ABIERTO"

Corrigiendo(x) ==
    tx[x].op = "CORREGIR" =>
        /\ tx[x].paso \in 1..2
        /\ tx[x].cuenta \in Cuentas /\ cuentas[tx[x].cuenta].estado = "PAGADA"
        /\ tx[x].turno = cuentas[tx[x].cuenta].turno
        /\ tx[x].pagos \in Cobros(tx[x].cuenta)
        /\ tx[x].paso = 2 => (tx[x].cerrado <=> turnos[tx[x].turno].estado = "CERRADO")

\* The summary of a closing transaction, as far as it got.
CorteAlDia(r) ==
    r.paso >= 3 =>
        /\ r.corte.montos = VendidoEn(r.turno)
        /\ r.corte.propinas = PropinasDe(r.turno)
        /\ r.corte.efectivo = turnos[r.turno].fondo
              + (IF r.paso >= 4 THEN EfectivoIngresado(r.turno) ELSE 0)
              - (IF r.paso = 5 THEN EfectivoDevuelto(r.turno) ELSE 0)

Cerrando(x) ==
    tx[x].op = "CERRAR" =>
        /\ tx[x].paso \in 1..5
        /\ tx[x].turno \in Turnos /\ turnos[tx[x].turno].estado = "ABIERTO"
        /\ CorteAlDia(tx[x])

VistoVigente ==
    \A x \in Conexiones : Cobrando(x) /\ Anulando(x) /\ Corrigiendo(x) /\ Cerrando(x)

IInv ==
    /\ TypeOK
    /\ CandadosDeTx
    /\ Exclusion
    /\ VentasBien
    /\ TurnosBien
    /\ VistoVigente
    /\ IngresosCuadran
    /\ CorteExplicaIngresos

-----------------------------------------------------------------------------
(* Steps of a transaction.                                                 *)

\* Where a transaction is, in terms of its operation and its statement.
LEMMA EnPasoEs ==
    ASSUME NEW x \in Conexiones, TypeOK, VistoVigente
    PROVE  /\ EnPaso(x, "mi_turno") <=> \/ tx[x].op = "COBRAR" /\ tx[x].paso = 1
                                        \/ tx[x].op = "ANULAR" /\ tx[x].paso = 2
           /\ EnPaso(x, "turno_venta") <=>
                 tx[x].op \in {"ANULAR", "CORREGIR"} /\ tx[x].paso = 1
           /\ EnPaso(x, "escribir") <=> \/ tx[x].op = "COBRAR" /\ tx[x].paso = 2
                                        \/ tx[x].op = "ANULAR" /\ tx[x].paso = 3
                                        \/ tx[x].op = "CORREGIR" /\ tx[x].paso = 2
                                        \/ tx[x].op = "CERRAR" /\ tx[x].paso = 5
           /\ EnPaso(x, "abiertas") <=> tx[x].op = "CERRAR" /\ tx[x].paso = 1
           /\ EnPaso(x, "por_metodo") <=> tx[x].op = "CERRAR" /\ tx[x].paso = 2
           /\ EnPaso(x, "ingresado") <=> tx[x].op = "CERRAR" /\ tx[x].paso = 3
           /\ EnPaso(x, "devuelto") <=> tx[x].op = "CERRAR" /\ tx[x].paso = 4
<1>1. tx[x] \in Transaccion
  BY DEF TypeOK
<1>2. tx[x].op \in {"NINGUNA", "COBRAR", "ANULAR", "CORREGIR", "CERRAR"}
  BY <1>1 DEF Transaccion, Pasos
<1>3. CASE tx[x].op = "NINGUNA"
  BY <1>3 DEF EnPaso
<1>4. CASE tx[x].op = "COBRAR"
  <2>1. tx[x].paso \in 1..2
    BY <1>4 DEF VistoVigente, Cobrando
  <2>2. Pasos["COBRAR"] = <<"mi_turno", "escribir">>
    BY DEF Pasos
  <2> QED
    BY <1>4, <2>1, <2>2 DEF EnPaso
<1>5. CASE tx[x].op = "ANULAR"
  <2>1. tx[x].paso \in 1..3
    BY <1>5 DEF VistoVigente, Anulando
  <2>2. Pasos["ANULAR"] = <<"turno_venta", "mi_turno", "escribir">>
    BY DEF Pasos
  <2> QED
    BY <1>5, <2>1, <2>2 DEF EnPaso
<1>6. CASE tx[x].op = "CORREGIR"
  <2>1. tx[x].paso \in 1..2
    BY <1>6 DEF VistoVigente, Corrigiendo
  <2>2. Pasos["CORREGIR"] = <<"turno_venta", "escribir">>
    BY DEF Pasos
  <2> QED
    BY <1>6, <2>1, <2>2 DEF EnPaso
<1>7. CASE tx[x].op = "CERRAR"
  <2>1. tx[x].paso \in 1..5
    BY <1>7 DEF VistoVigente, Cerrando
  <2>2. Pasos["CERRAR"] = <<"abiertas", "por_metodo", "ingresado", "devuelto", "escribir">>
    BY DEF Pasos
  <2> QED
    BY <1>7, <2>1, <2>2 DEF EnPaso
<1> QED
  BY <1>2, <1>3, <1>4, <1>5, <1>6, <1>7

\* The operations.
LEMMA Operaciones == DOMAIN Pasos = {"COBRAR", "ANULAR", "CORREGIR", "CERRAR"}
BY DEF Pasos

\* A transaction, field by field: the provers follow an EXCEPT of several
\* fields through these two better than through the set of records.
Completa(r) ==
    r = [op |-> r.op, paso |-> r.paso, usuario |-> r.usuario, cuenta |-> r.cuenta,
         turno |-> r.turno, mio |-> r.mio, pagos |-> r.pagos, cerrado |-> r.cerrado,
         entregadas |-> r.entregadas, corte |-> r.corte]
Tipada(r) ==
    /\ r.op \in {"NINGUNA", "COBRAR", "ANULAR", "CORREGIR", "CERRAR"} /\ r.paso \in 0..5
    /\ r.usuario \in Cajeros \cup {NULL} /\ r.cuenta \in Cuentas \cup {NULL}
    /\ r.turno \in Turnos \cup {NULL} /\ r.mio \in Turnos \cup {NULL}
    /\ r.pagos \in Cobro /\ r.cerrado \in BOOLEAN /\ r.entregadas \in Entregas
    /\ r.corte \in Corte

\* The two together are the type of a transaction.
LEMMA Registro == \A r : r \in Transaccion <=> Completa(r) /\ Tipada(r)
BY Operaciones DEF Completa, Tipada, Transaccion

\* A connection with no transaction is well formed.
LEMMA TxLibreBien == TxLibre \in Transaccion /\ SinPagos \in Cobro /\ SinCorte \in Corte
<1>1. SinPagos \in Cobro
  BY CajaAssumption DEF SinPagos, Cobro
<1>2. SinCorte \in Corte
  BY DEF SinCorte, Corte, SinMontos
<1> QED
  BY <1>1, <1>2, CajaAssumption DEF TxLibre, Transaccion

\* The same, field by field.
LEMMA TxLibreTipada == Completa(TxLibre) /\ Tipada(TxLibre)
BY TxLibreBien, Registro

-----------------------------------------------------------------------------
(* Locks.                                                                  *)

\* A step of x keeps the locks right when those of the others stay, those of
\* x are what its transaction now has, and what it has gained it could take.
LEMMA Bloqueos ==
    ASSUME CandadosDeTx, Exclusion, NEW x \in Conexiones,
           \A y \in Conexiones \ {x} : tx'[y] = tx[y],
           \A y \in Conexiones \ {x}, f \in Cuentas \cup Turnos, m \in {"SHARE", "UPDATE"} :
               [tx |-> y, fila |-> f, modo |-> m] \in candados'
                   <=> [tx |-> y, fila |-> f, modo |-> m] \in candados,
           \A f \in Cuentas \cup Turnos, m \in {"SHARE", "UPDATE"} :
               [tx |-> x, fila |-> f, modo |-> m] \in candados' <=> Suyo(x, f, m)',
           \A f \in Cuentas \cup Turnos, m \in {"SHARE", "UPDATE"} :
               Suyo(x, f, m)' => Suyo(x, f, m) \/ PuedeTomar(x, f, m)
    PROVE  CandadosDeTx' /\ Exclusion'
<1>1. \A y \in Conexiones \ {x} : \A f, m : Suyo(y, f, m)' <=> Suyo(y, f, m)
  BY DEF Suyo, ConCuenta, ConTurno, ConMio
<1>2. CandadosDeTx'
  BY <1>1 DEF CandadosDeTx
<1>3. ASSUME NEW y \in Conexiones \ {x}, NEW f \in Cuentas \cup Turnos,
             NEW m \in {"SHARE", "UPDATE"}, NEW n \in {"SHARE", "UPDATE"},
             Suyo(x, f, m)', Suyo(y, f, n)
      PROVE  m = "SHARE" /\ n = "SHARE"
  <2>1. CASE Suyo(x, f, m)
    BY <1>3, <2>1 DEF Exclusion
  <2>2. CASE PuedeTomar(x, f, m)
    <3>1. [tx |-> y, fila |-> f, modo |-> n] \in candados
      BY <1>3 DEF CandadosDeTx
    <3> QED
      BY <1>3, <2>2, <3>1 DEF PuedeTomar
  <2> QED
    BY <1>3, <2>1, <2>2
<1>4. Exclusion'
  <2> SUFFICES ASSUME NEW y \in Conexiones, NEW z \in Conexiones, NEW f \in Cuentas \cup Turnos,
                      NEW m \in {"SHARE", "UPDATE"}, NEW n \in {"SHARE", "UPDATE"},
                      y # z, Suyo(y, f, m)', Suyo(z, f, n)'
               PROVE  m = "SHARE" /\ n = "SHARE"
    BY DEF Exclusion
  <2>1. CASE y = x
    BY <1>1, <1>3, <2>1
  <2>2. CASE z = x
    BY <1>1, <1>3, <2>2
  <2>3. CASE y # x /\ z # x
    BY <1>1, <2>3 DEF Exclusion
  <2> QED
    BY <2>1, <2>2, <2>3
<1> QED
  BY <1>2, <1>4

\* A statement that locks nothing new.
LEMMA SinBloquear ==
    ASSUME CandadosDeTx, Exclusion, NEW x \in Conexiones,
           \A y \in Conexiones \ {x} : tx'[y] = tx[y], candados' = candados,
           \A f \in Cuentas \cup Turnos, m \in {"SHARE", "UPDATE"} :
               Suyo(x, f, m)' <=> Suyo(x, f, m)
    PROVE  CandadosDeTx' /\ Exclusion'
<1>1. \A f \in Cuentas \cup Turnos, m \in {"SHARE", "UPDATE"} :
          [tx |-> x, fila |-> f, modo |-> m] \in candados' <=> Suyo(x, f, m)'
  BY DEF CandadosDeTx
<1> QED
  BY <1>1, Bloqueos

\* A statement that locks the row g.
LEMMA AlBloquear ==
    ASSUME CandadosDeTx, Exclusion, NEW x \in Conexiones,
           \A y \in Conexiones \ {x} : tx'[y] = tx[y],
           NEW g \in Cuentas \cup Turnos, NEW n \in {"SHARE", "UPDATE"},
           PuedeTomar(x, g, n), candados' = Tomar(x, g, n),
           \A f \in Cuentas \cup Turnos, m \in {"SHARE", "UPDATE"} :
               Suyo(x, f, m)' <=> Suyo(x, f, m) \/ (f = g /\ m = n)
    PROVE  CandadosDeTx' /\ Exclusion'
<1>1. candados' = candados \cup {[tx |-> x, fila |-> g, modo |-> n]}
  BY DEF Tomar
<1>2. \A f \in Cuentas \cup Turnos, m \in {"SHARE", "UPDATE"} :
          [tx |-> x, fila |-> f, modo |-> m] \in candados' <=> Suyo(x, f, m)'
  BY <1>1 DEF CandadosDeTx
<1>3. \A y \in Conexiones \ {x}, f \in Cuentas \cup Turnos, m \in {"SHARE", "UPDATE"} :
          [tx |-> y, fila |-> f, modo |-> m] \in candados'
              <=> [tx |-> y, fila |-> f, modo |-> m] \in candados
  BY <1>1
<1>4. \A f \in Cuentas \cup Turnos, m \in {"SHARE", "UPDATE"} :
          Suyo(x, f, m)' => Suyo(x, f, m) \/ PuedeTomar(x, f, m)
  OBVIOUS
<1> QED
  BY <1>2, <1>3, <1>4, Bloqueos

\* The end of a transaction leaves what the others have locked.
LEMMA AlTerminar ==
    ASSUME TypeOK, CandadosDeTx, Exclusion, NEW x \in Conexiones, Terminar(x)
    PROVE  /\ tx' \in [Conexiones -> Transaccion]
           /\ tx'[x] = TxLibre
           /\ \A y \in Conexiones \ {x} : tx'[y] = tx[y]
           /\ candados' \subseteq Candado
           /\ CandadosDeTx' /\ Exclusion'
           /\ (Cobrando(x) /\ Anulando(x) /\ Corrigiendo(x) /\ Cerrando(x))'
<1>1. /\ tx' = [tx EXCEPT ![x] = TxLibre]
      /\ candados' = {k \in candados : k.tx # x}
  BY DEF Terminar
<1>2. /\ tx' \in [Conexiones -> Transaccion] /\ tx'[x] = TxLibre
      /\ \A y \in Conexiones \ {x} : tx'[y] = tx[y]
  BY <1>1, TxLibreBien DEF TypeOK
<1>3. tx'[x].op = "NINGUNA"
  BY <1>2 DEF TxLibre
<1>4. \A f, m : ~Suyo(x, f, m)'
  BY <1>3 DEF Suyo, ConCuenta, ConTurno, ConMio
<1>5. \A f \in Cuentas \cup Turnos, m \in {"SHARE", "UPDATE"} :
          [tx |-> x, fila |-> f, modo |-> m] \notin candados'
  BY <1>1
<1>6. \A y \in Conexiones \ {x}, f \in Cuentas \cup Turnos, m \in {"SHARE", "UPDATE"} :
          [tx |-> y, fila |-> f, modo |-> m] \in candados'
              <=> [tx |-> y, fila |-> f, modo |-> m] \in candados
  BY <1>1
<1>7. CandadosDeTx' /\ Exclusion'
  BY <1>2, <1>4, <1>5, <1>6, Bloqueos
<1>8. (Cobrando(x) /\ Anulando(x) /\ Corrigiendo(x) /\ Cerrando(x))'
  BY <1>3 DEF Cobrando, Anulando, Corrigiendo, Cerrando
<1>9. candados' \subseteq Candado
  BY <1>1 DEF TypeOK
<1> QED
  BY <1>2, <1>7, <1>8, <1>9

\* A query reads accounts and their payments, nothing else.
LEMMA ConsultasIguales ==
    ASSUME UNCHANGED <<cuentas, pagos>>, NEW t
    PROVE  /\ VendidoEn(t)' = VendidoEn(t) /\ PropinasDe(t)' = PropinasDe(t)
           /\ EfectivoIngresado(t)' = EfectivoIngresado(t)
           /\ EfectivoDevuelto(t)' = EfectivoDevuelto(t)
           /\ \A m : SumaDe(Montos(m), {c \in DelTurno(t) : cuentas[c].trasCierre})'
                      = SumaDe(Montos(m), {c \in DelTurno(t) : cuentas[c].trasCierre})
BY DEF VendidoEn, PropinasDe, EfectivoIngresado, EfectivoDevuelto, VigentesDe, DelTurno,
   Montos, PropinasPagadas, Efectivos

\* A statement that writes no row: only what its own transaction has seen has
\* to be looked at.
LEMMA SoloTx ==
    ASSUME IInv, NEW x \in Conexiones, UNCHANGED filas,
           tx' \in [Conexiones -> Transaccion], \A y \in Conexiones \ {x} : tx'[y] = tx[y],
           candados' \subseteq Candado, CandadosDeTx', Exclusion',
           (Cobrando(x) /\ Anulando(x) /\ Corrigiendo(x) /\ Cerrando(x))'
    PROVE  IInv'
<1>1. TypeOK'
  BY DEF IInv, TypeOK, filas
<1>2. VentasBien' /\ TurnosBien'
  BY DEF IInv, VentasBien, TurnosBien, filas
<1>3. IngresosCuadran' /\ CorteExplicaIngresos'
  BY DEF IInv, IngresosCuadran, CorteExplicaIngresos, VendidoEn, VigentesDe, DelTurno, Montos, filas
<1>4. ASSUME NEW y \in Conexiones \ {x}
      PROVE  (Cobrando(y) /\ Anulando(y) /\ Corrigiendo(y) /\ Cerrando(y))'
  <2>1. Cobrando(y) /\ Anulando(y) /\ Corrigiendo(y) /\ Cerrando(y)
    BY DEF IInv, VistoVigente
  <2>2. Cobrando(y)' /\ Anulando(y)' /\ Corrigiendo(y)'
    BY <2>1 DEF Cobrando, Anulando, Corrigiendo, filas
  <2>3. \A t : /\ VendidoEn(t)' = VendidoEn(t) /\ PropinasDe(t)' = PropinasDe(t)
               /\ EfectivoIngresado(t)' = EfectivoIngresado(t)
               /\ EfectivoDevuelto(t)' = EfectivoDevuelto(t)
    BY ConsultasIguales DEF filas
  <2>4. Cerrando(y)'
    BY <2>1, <2>3 DEF Cerrando, CorteAlDia, filas
  <2> QED
    BY <2>2, <2>4
<1>5. VistoVigente'
  BY <1>4 DEF VistoVigente
<1> QED
  BY <1>1, <1>2, <1>3, <1>5 DEF IInv

-----------------------------------------------------------------------------
(* The statements that write no row.                                       *)

\* What an account is paid with is a payment.
LEMMA CobrosBien == \A c \in Cuentas : Cobros(c) \subseteq Cobro
<1> SUFFICES ASSUME NEW c \in Cuentas, NEW p \in Cobros(c) PROVE p \in Cobro
  OBVIOUS
<1>1. p \in [Metodos -> [monto : 0..Total[c], propina : Propinas]]
  BY DEF Cobros
<1>2. 0..Total[c] \subseteq Nat
  BY CajaAssumption
<1> QED
  BY <1>1, <1>2 DEF Cobro

\* Starting to collect locks the account and reads what it owes.
LEMMA CobrarBloquearIInv ==
    ASSUME IInv, NEW x \in Conexiones, NEW u \in Cajeros, NEW c \in Cuentas, NEW p \in Cobros(c),
           CobrarBloquear(x, u, c, p)
    PROVE  IInv'
<1>0. PICK r : r = [TxLibre EXCEPT !.usuario = u, !.cuenta = c, !.pagos = p, !.op = "COBRAR",
                                !.paso = 1]
  OBVIOUS
<1>1. tx' = [tx EXCEPT ![x] = r]
  BY <1>0 DEF CobrarBloquear, Empezar
<1>2. r \in Transaccion
  <2>1. Completa(r)
    BY <1>0, TxLibreTipada DEF Completa
  <2>2. Tipada(r)
    BY <1>0, TxLibreTipada, CobrosBien DEF Tipada
  <2> QED
    BY <2>1, <2>2, Registro
<1>3. r.op = "COBRAR" /\ r.paso = 1 /\ r.cuenta = c /\ r.pagos = p
  BY <1>0 DEF TxLibre
<1>4. /\ tx' \in [Conexiones -> Transaccion] /\ tx'[x] = r
      /\ \A y \in Conexiones \ {x} : tx'[y] = tx[y]
  BY <1>1, <1>2 DEF IInv, TypeOK
<1>5. tx[x].op = "NINGUNA"
  BY DEF CobrarBloquear, TxLibre
<1>6. \A f, m : Suyo(x, f, m)' <=> Suyo(x, f, m) \/ (f = c /\ m = "UPDATE")
  BY <1>3, <1>4, <1>5 DEF Suyo, ConCuenta, ConTurno, ConMio
<1>7. PuedeTomar(x, c, "UPDATE") /\ candados' = Tomar(x, c, "UPDATE") /\ UNCHANGED filas
  BY DEF CobrarBloquear
<1>8. CandadosDeTx' /\ Exclusion'
  BY <1>4, <1>6, <1>7, AlBloquear DEF IInv
<1>9. candados' \subseteq Candado
  BY <1>7 DEF Tomar, IInv, TypeOK, Candado
<1>10. (Cobrando(x) /\ Anulando(x) /\ Corrigiendo(x) /\ Cerrando(x))'
  BY <1>3, <1>4, <1>7 DEF Cobrando, Anulando, Corrigiendo, Cerrando, CobrarBloquear, filas
<1> QED
  BY <1>4, <1>7, <1>8, <1>9, <1>10, SoloTx

\* Starting to annul locks the account and reads its sale.
LEMMA AnularBloquearIInv ==
    ASSUME IInv, NEW x \in Conexiones, NEW u \in Cajeros, NEW c \in Cuentas,
           AnularBloquear(x, u, c)
    PROVE  IInv'
<1>0. PICK r : r = [TxLibre EXCEPT !.usuario = u, !.cuenta = c, !.turno = cuentas[c].turno,
                                !.op = "ANULAR", !.paso = 1]
  OBVIOUS
<1>1. tx' = [tx EXCEPT ![x] = r]
  BY <1>0 DEF AnularBloquear, Empezar
<1>2. r \in Transaccion
  <2>1. cuentas[c].turno \in Turnos \cup {NULL}
    BY DEF IInv, TypeOK, FilaCuenta
  <2>2. Completa(r)
    BY <1>0, TxLibreTipada DEF Completa
  <2>3. Tipada(r)
    BY <1>0, <2>1, TxLibreTipada DEF Tipada
  <2> QED
    BY <2>2, <2>3, Registro
<1>3. r.op = "ANULAR" /\ r.paso = 1 /\ r.cuenta = c /\ r.turno = cuentas[c].turno /\ r.mio = NULL
  BY <1>0 DEF TxLibre
<1>4. /\ tx' \in [Conexiones -> Transaccion] /\ tx'[x] = r
      /\ \A y \in Conexiones \ {x} : tx'[y] = tx[y]
  BY <1>1, <1>2 DEF IInv, TypeOK
<1>5. tx[x].op = "NINGUNA"
  BY DEF AnularBloquear, TxLibre
<1>6. \A f, m : Suyo(x, f, m)' <=> Suyo(x, f, m) \/ (f = c /\ m = "UPDATE")
  BY <1>3, <1>4, <1>5 DEF Suyo, ConCuenta, ConTurno, ConMio
<1>7. PuedeTomar(x, c, "UPDATE") /\ candados' = Tomar(x, c, "UPDATE") /\ UNCHANGED filas
  BY DEF AnularBloquear
<1>8. CandadosDeTx' /\ Exclusion'
  BY <1>4, <1>6, <1>7, AlBloquear DEF IInv
<1>9. candados' \subseteq Candado
  BY <1>7 DEF Tomar, IInv, TypeOK, Candado
<1>10. (Cobrando(x) /\ Anulando(x) /\ Corrigiendo(x) /\ Cerrando(x))'
  BY <1>3, <1>4, <1>7 DEF Cobrando, Anulando, Corrigiendo, Cerrando, AnularBloquear, filas
<1> QED
  BY <1>4, <1>7, <1>8, <1>9, <1>10, SoloTx

\* Starting to put a payment right locks the account and reads it.
LEMMA CorregirBloquearIInv ==
    ASSUME IInv, NEW x \in Conexiones, NEW c \in Cuentas, NEW p \in Cobros(c),
           CorregirBloquear(x, c, p)
    PROVE  IInv'
<1>0. PICK r : r = [TxLibre EXCEPT !.cuenta = c, !.turno = cuentas[c].turno, !.pagos = p,
                                !.op = "CORREGIR", !.paso = 1]
  OBVIOUS
<1>1. tx' = [tx EXCEPT ![x] = r]
  BY <1>0 DEF CorregirBloquear, Empezar
<1>2. r \in Transaccion
  <2>1. cuentas[c].turno \in Turnos \cup {NULL}
    BY DEF IInv, TypeOK, FilaCuenta
  <2>2. Completa(r)
    BY <1>0, TxLibreTipada DEF Completa
  <2>3. Tipada(r)
    BY <1>0, <2>1, TxLibreTipada, CobrosBien DEF Tipada
  <2> QED
    BY <2>2, <2>3, Registro
<1>3. r.op = "CORREGIR" /\ r.paso = 1 /\ r.cuenta = c /\ r.turno = cuentas[c].turno /\ r.pagos = p
  BY <1>0 DEF TxLibre
<1>4. /\ tx' \in [Conexiones -> Transaccion] /\ tx'[x] = r
      /\ \A y \in Conexiones \ {x} : tx'[y] = tx[y]
  BY <1>1, <1>2 DEF IInv, TypeOK
<1>5. tx[x].op = "NINGUNA"
  BY DEF CorregirBloquear, TxLibre
<1>6. \A f, m : Suyo(x, f, m)' <=> Suyo(x, f, m) \/ (f = c /\ m = "UPDATE")
  BY <1>3, <1>4, <1>5 DEF Suyo, ConCuenta, ConTurno, ConMio
<1>7. PuedeTomar(x, c, "UPDATE") /\ candados' = Tomar(x, c, "UPDATE") /\ UNCHANGED filas
  BY DEF CorregirBloquear
<1>8. CandadosDeTx' /\ Exclusion'
  BY <1>4, <1>6, <1>7, AlBloquear DEF IInv
<1>9. candados' \subseteq Candado
  BY <1>7 DEF Tomar, IInv, TypeOK, Candado
<1>10. (Cobrando(x) /\ Anulando(x) /\ Corrigiendo(x) /\ Cerrando(x))'
  BY <1>3, <1>4, <1>7 DEF Cobrando, Anulando, Corrigiendo, Cerrando, CorregirBloquear, filas
<1> QED
  BY <1>4, <1>7, <1>8, <1>9, <1>10, SoloTx

\* Starting to close a shift locks it: only an open one goes on.
LEMMA CerrarBloquearIInv ==
    ASSUME IInv, NEW x \in Conexiones, NEW u \in Cajeros, NEW t \in Turnos, NEW n \in Entregas,
           CerrarBloquear(x, u, t, n)
    PROVE  IInv'
<1>0. PICK r : r = [TxLibre EXCEPT !.usuario = u, !.turno = t, !.entregadas = n, !.op = "CERRAR",
                                !.paso = 1]
  OBVIOUS
<1>1. tx' = [tx EXCEPT ![x] = r]
  BY <1>0 DEF CerrarBloquear, Empezar
<1>2. r \in Transaccion
  <2>1. Completa(r)
    BY <1>0, TxLibreTipada DEF Completa
  <2>2. Tipada(r)
    BY <1>0, TxLibreTipada DEF Tipada
  <2> QED
    BY <2>1, <2>2, Registro
<1>3. r.op = "CERRAR" /\ r.paso = 1 /\ r.turno = t
  BY <1>0 DEF TxLibre
<1>4. /\ tx' \in [Conexiones -> Transaccion] /\ tx'[x] = r
      /\ \A y \in Conexiones \ {x} : tx'[y] = tx[y]
  BY <1>1, <1>2 DEF IInv, TypeOK
<1>5. tx[x].op = "NINGUNA"
  BY DEF CerrarBloquear, TxLibre
<1>6. \A f, m : Suyo(x, f, m)' <=> Suyo(x, f, m) \/ (f = t /\ m = "UPDATE")
  BY <1>3, <1>4, <1>5 DEF Suyo, ConCuenta, ConTurno, ConMio
<1>7. PuedeTomar(x, t, "UPDATE") /\ candados' = Tomar(x, t, "UPDATE") /\ UNCHANGED filas
  BY DEF CerrarBloquear
<1>8. CandadosDeTx' /\ Exclusion'
  BY <1>4, <1>6, <1>7, AlBloquear DEF IInv
<1>9. candados' \subseteq Candado
  BY <1>7 DEF Tomar, IInv, TypeOK, Candado
<1>10. (Cobrando(x) /\ Anulando(x) /\ Corrigiendo(x) /\ Cerrando(x))'
  BY <1>3, <1>4, <1>7 DEF Cobrando, Anulando, Corrigiendo, Cerrando, CorteAlDia, CerrarBloquear,
     filas
<1> QED
  BY <1>4, <1>7, <1>8, <1>9, <1>10, SoloTx

\* Giving up lets go of its locks and writes nothing.
LEMMA AbortarIInv ==
    ASSUME IInv, NEW x \in Conexiones, Abortar(x)
    PROVE  IInv'
BY AlTerminar, SoloTx DEF IInv, Abortar

\* Locking the shift of the sale: read after the lock, it is as it is.
LEMMA BloquearTurnoVentaIInv ==
    ASSUME IInv, NEW x \in Conexiones, BloquearTurnoVenta(x)
    PROVE  IInv'
<1>1. PICK q : q = tx[x]
  OBVIOUS
<1>2. PICK r : r = [q EXCEPT !.paso = q.paso + 1, !.cerrado = turnos[q.turno].estado = "CERRADO"]
  OBVIOUS
<1>3. q \in Transaccion /\ q.op \in {"ANULAR", "CORREGIR"} /\ q.paso = 1
  BY <1>1, EnPasoEs DEF IInv, TypeOK, BloquearTurnoVenta
<1>4. Completa(q) /\ Tipada(q)
  BY <1>3, Registro
<1>5. /\ q.cuenta \in Cuentas /\ cuentas[q.cuenta].estado = "PAGADA"
      /\ q.turno = cuentas[q.cuenta].turno
      /\ q.op = "ANULAR" => q.mio = NULL
      /\ q.op = "CORREGIR" => q.pagos \in Cobros(q.cuenta)
  BY <1>1, <1>3 DEF IInv, VistoVigente, Anulando, Corrigiendo
<1>6. q.turno \in Turnos
  BY <1>4, <1>5 DEF IInv, TypeOK, Tipada
<1>7. /\ r.op = q.op /\ r.paso = 2 /\ r.cuenta = q.cuenta /\ r.turno = q.turno /\ r.mio = q.mio
      /\ r.pagos = q.pagos
  BY <1>2, <1>3, <1>4 DEF Completa
<1>16. r.cerrado = (turnos[q.turno].estado = "CERRADO")
  BY <1>2, <1>4 DEF Completa
<1>8. r \in Transaccion
  <2>1. Completa(r)
    BY <1>2, <1>4 DEF Completa
  <2>2. Tipada(r)
    BY <1>2, <1>3, <1>4 DEF Tipada, Completa
  <2> QED
    BY <2>1, <2>2, Registro
<1>9. /\ tx' = [tx EXCEPT ![x] = r]
      /\ PuedeTomar(x, q.turno, "UPDATE") /\ candados' = Tomar(x, q.turno, "UPDATE")
      /\ UNCHANGED filas
  BY <1>1, <1>2 DEF BloquearTurnoVenta, TomarVenta
<1>10. /\ tx' \in [Conexiones -> Transaccion] /\ tx'[x] = r
       /\ \A y \in Conexiones \ {x} : tx'[y] = tx[y]
  BY <1>8, <1>9 DEF IInv, TypeOK
<1>11. \A f, m : Suyo(x, f, m)' <=> Suyo(x, f, m) \/ (f = q.turno /\ m = "UPDATE")
  BY <1>1, <1>3, <1>7, <1>10 DEF Suyo, ConCuenta, ConTurno, ConMio
<1>12. CandadosDeTx' /\ Exclusion'
  BY <1>6, <1>9, <1>10, <1>11, AlBloquear DEF IInv
<1>13. candados' \subseteq Candado
  BY <1>6, <1>9 DEF Tomar, IInv, TypeOK, Candado
<1>14. Cobros(q.cuenta)' = Cobros(q.cuenta)
  BY DEF Cobros
<1>15. (Cobrando(x) /\ Anulando(x) /\ Corrigiendo(x) /\ Cerrando(x))'
  <2>1. r.cerrado <=> turnos[q.turno].estado = "CERRADO"
    BY <1>16
  <2>2. Anulando(x)'
    BY <1>3, <1>5, <1>7, <1>9, <1>10, <2>1 DEF Anulando, filas
  <2>3. Corrigiendo(x)'
    BY <1>3, <1>5, <1>7, <1>9, <1>10, <1>14, <2>1 DEF Corrigiendo, filas
  <2> QED
    BY <1>3, <1>7, <1>10, <2>2, <2>3 DEF Cobrando, Cerrando
<1> QED
  BY <1>9, <1>10, <1>12, <1>13, <1>15, SoloTx

\* The user has no open shift: the transaction goes on without one or ends.
LEMMA SinMiTurnoIInv ==
    ASSUME IInv, NEW x \in Conexiones, EnPaso(x, "mi_turno"), SinMiTurno(x), UNCHANGED filas
    PROVE  IInv'
<1>1. PICK q : q = tx[x]
  OBVIOUS
<1>2. q \in Transaccion /\ Completa(q) /\ Tipada(q)
  BY <1>1, Registro DEF IInv, TypeOK
<1>3. CASE q.op = "ANULAR" /\ pagos[q.cuenta]["EFECTIVO"] = [monto |-> 0, propina |-> 0]
  <2>1. PICK r : r = [q EXCEPT !.paso = q.paso + 1, !.mio = NULL]
    OBVIOUS
  <2>2. q.paso = 2
    BY <1>1, <1>3, EnPasoEs DEF IInv
  <2>3. /\ r.op = "ANULAR" /\ r.paso = 3 /\ r.cuenta = q.cuenta /\ r.turno = q.turno
        /\ r.mio = NULL /\ r.cerrado = q.cerrado
    BY <1>2, <1>3, <2>1, <2>2 DEF Completa
  <2>4. r \in Transaccion
    <3>1. Completa(r)
      BY <1>2, <2>1 DEF Completa
    <3>2. Tipada(r)
      BY <1>2, <2>1, <2>2 DEF Tipada, Completa
    <3> QED
      BY <3>1, <3>2, Registro
  <2>5. tx' = [tx EXCEPT ![x] = r] /\ candados' = candados
    BY <1>1, <1>3, <2>1 DEF SinMiTurno
  <2>6. /\ tx' \in [Conexiones -> Transaccion] /\ tx'[x] = r
        /\ \A y \in Conexiones \ {x} : tx'[y] = tx[y]
    BY <2>4, <2>5 DEF IInv, TypeOK
  <2>7. \A f, m : Suyo(x, f, m)' <=> Suyo(x, f, m)
    BY <1>1, <1>3, <2>2, <2>3, <2>6 DEF Suyo, ConCuenta, ConTurno, ConMio
  <2>8. CandadosDeTx' /\ Exclusion'
    BY <2>5, <2>6, <2>7, SinBloquear DEF IInv
  <2>9. (Cobrando(x) /\ Anulando(x) /\ Corrigiendo(x) /\ Cerrando(x))'
    <3>1. Anulando(x)
      BY DEF IInv, VistoVigente
    <3>2. Anulando(x)'
      BY <1>1, <1>3, <2>2, <2>3, <2>6, <3>1 DEF Anulando, filas
    <3> QED
      BY <2>3, <2>6, <3>2 DEF Cobrando, Corrigiendo, Cerrando
  <2>10. candados' \subseteq Candado
    BY <2>5 DEF IInv, TypeOK
  <2> QED
    BY <2>6, <2>8, <2>9, <2>10, SoloTx
<1>4. CASE ~(q.op = "ANULAR" /\ pagos[q.cuenta]["EFECTIVO"] = [monto |-> 0, propina |-> 0])
  <2>1. Terminar(x)
    BY <1>1, <1>4 DEF SinMiTurno
  <2> QED
    BY <2>1, AlTerminar, SoloTx DEF IInv
<1> QED
  BY <1>3, <1>4

\* Looking for the shift of who asks takes no lock yet.
LEMMA BuscarMiTurnoIInv ==
    ASSUME IInv, NEW x \in Conexiones, BuscarMiTurno(x)
    PROVE  IInv'
<1>1. PICK q : q = tx[x]
  OBVIOUS
<1>2. q \in Transaccion /\ Completa(q) /\ Tipada(q)
  BY <1>1, Registro DEF IInv, TypeOK
<1>3. EnPaso(x, "mi_turno") /\ UNCHANGED filas
  BY DEF BuscarMiTurno
<1>4. \/ q.op = "COBRAR" /\ q.paso = 1
      \/ q.op = "ANULAR" /\ q.paso = 2
  BY <1>1, <1>3, EnPasoEs DEF IInv
<1>5. CASE SinMiTurno(x)
  BY <1>3, <1>5, SinMiTurnoIInv
<1>6. ASSUME NEW t \in Turnos, turnos[t].estado = "ABIERTO", tx' = [tx EXCEPT ![x].mio = t],
             UNCHANGED candados
      PROVE  IInv'
  <2>1. PICK r : r = [q EXCEPT !.mio = t]
    OBVIOUS
  <2>2. /\ r.op = q.op /\ r.paso = q.paso /\ r.cuenta = q.cuenta /\ r.turno = q.turno
        /\ r.mio = t /\ r.cerrado = q.cerrado /\ r.pagos = q.pagos
    BY <1>2, <2>1 DEF Completa
  <2>3. r \in Transaccion
    <3>1. Completa(r)
      BY <1>2, <2>1 DEF Completa
    <3>2. Tipada(r)
      BY <1>2, <2>1 DEF Tipada, Completa
    <3> QED
      BY <3>1, <3>2, Registro
  <2>4. tx' = [tx EXCEPT ![x] = r]
    BY <1>1, <1>6, <2>1
  <2>5. /\ tx' \in [Conexiones -> Transaccion] /\ tx'[x] = r
        /\ \A y \in Conexiones \ {x} : tx'[y] = tx[y]
    BY <2>3, <2>4 DEF IInv, TypeOK
  <2>6. \A f, m : Suyo(x, f, m)' <=> Suyo(x, f, m)
    BY <1>1, <1>4, <2>2, <2>5 DEF Suyo, ConCuenta, ConTurno, ConMio
  <2>7. CandadosDeTx' /\ Exclusion'
    BY <1>6, <2>5, <2>6, SinBloquear DEF IInv
  <2>8. Cobrando(x) /\ Anulando(x)
    BY DEF IInv, VistoVigente
  <2>9. Cobrando(x)'
    <3>1. Cobros(q.cuenta)' = Cobros(q.cuenta)
      BY DEF Cobros
    <3> QED
      BY <1>1, <1>3, <1>4, <2>2, <2>5, <2>8, <3>1 DEF Cobrando, filas
  <2>10. q.op = "ANULAR" /\ q.turno # t => turnos[q.turno].estado = "CERRADO"
    <3> SUFFICES ASSUME q.op = "ANULAR", q.turno # t PROVE turnos[q.turno].estado = "CERRADO"
      OBVIOUS
    <3>1. q.cuenta \in Cuentas /\ cuentas[q.cuenta].estado = "PAGADA"
          /\ q.turno = cuentas[q.cuenta].turno
      BY <1>1, <2>8 DEF Anulando
    <3>2. q.turno \in Turnos /\ turnos[q.turno].estado # "LIBRE"
      BY <1>2, <3>1 DEF IInv, TypeOK, VentasBien, Tipada
    <3>3. turnos[q.turno].estado # "ABIERTO"
      BY <1>6, <3>2 DEF IInv, TurnosBien
    <3> QED
      BY <3>2, <3>3 DEF IInv, TypeOK, FilaTurno
  <2>11. Anulando(x)'
    BY <1>1, <1>3, <1>4, <2>2, <2>5, <2>8, <2>10 DEF Anulando, filas
  <2>12. Corrigiendo(x)' /\ Cerrando(x)'
    BY <1>4, <2>2, <2>5 DEF Corrigiendo, Cerrando
  <2>13. candados' \subseteq Candado
    BY <1>6 DEF IInv, TypeOK
  <2> QED
    BY <1>3, <2>5, <2>7, <2>9, <2>11, <2>12, <2>13, SoloTx
<1> QED
  BY <1>5, <1>6 DEF BuscarMiTurno

\* Sharing that shift with other sales, while it is still open.
LEMMA TomarMiTurnoIInv ==
    ASSUME IInv, NEW x \in Conexiones, TomarMiTurno(x)
    PROVE  IInv'
<1>1. PICK q : q = tx[x]
  OBVIOUS
<1>2. q \in Transaccion /\ Completa(q) /\ Tipada(q)
  BY <1>1, Registro DEF IInv, TypeOK
<1>3. EnPaso(x, "mi_turno") /\ UNCHANGED filas /\ q.mio # NULL /\ PuedeTomar(x, q.mio, "SHARE")
  BY <1>1 DEF TomarMiTurno
<1>4. \/ q.op = "COBRAR" /\ q.paso = 1
      \/ q.op = "ANULAR" /\ q.paso = 2
  BY <1>1, <1>3, EnPasoEs DEF IInv
<1>5. CASE turnos[q.mio].estado = "ABIERTO"
  <2>1. PICK r : r = [q EXCEPT !.paso = q.paso + 1]
    OBVIOUS
  <2>2. /\ r.op = q.op /\ r.paso = q.paso + 1 /\ r.cuenta = q.cuenta /\ r.turno = q.turno
        /\ r.mio = q.mio /\ r.cerrado = q.cerrado /\ r.pagos = q.pagos
    BY <1>2, <2>1 DEF Completa
  <2>3. r \in Transaccion
    <3>1. Completa(r)
      BY <1>2, <2>1 DEF Completa
    <3>2. Tipada(r)
      BY <1>2, <1>4, <2>1 DEF Tipada, Completa
    <3> QED
      BY <3>1, <3>2, Registro
  <2>4. tx' = [tx EXCEPT ![x] = r] /\ candados' = Tomar(x, q.mio, "SHARE")
    BY <1>1, <1>5, <2>1 DEF TomarMiTurno, Compartir, Avanzar
  <2>5. /\ tx' \in [Conexiones -> Transaccion] /\ tx'[x] = r
        /\ \A y \in Conexiones \ {x} : tx'[y] = tx[y]
    BY <2>3, <2>4 DEF IInv, TypeOK
  <2>6. \A f, m : Suyo(x, f, m)' <=> Suyo(x, f, m) \/ (f = q.mio /\ m = "SHARE")
    BY <1>1, <1>3, <1>4, <2>2, <2>5 DEF Suyo, ConCuenta, ConTurno, ConMio
  <2>7. q.mio \in Turnos
    BY <1>2, <1>3 DEF Tipada
  <2>8. CandadosDeTx' /\ Exclusion'
    BY <1>3, <2>4, <2>5, <2>6, <2>7, AlBloquear DEF IInv
  <2>9. Cobrando(x) /\ Anulando(x)
    BY DEF IInv, VistoVigente
  <2>10. Cobrando(x)'
    <3>1. Cobros(q.cuenta)' = Cobros(q.cuenta)
      BY DEF Cobros
    <3> QED
      BY <1>1, <1>3, <1>4, <1>5, <2>2, <2>5, <2>7, <2>9, <3>1 DEF Cobrando, filas
  <2>11. Anulando(x)'
    BY <1>1, <1>3, <1>4, <1>5, <2>2, <2>5, <2>7, <2>9 DEF Anulando, filas
  <2>12. Corrigiendo(x)' /\ Cerrando(x)'
    BY <1>4, <2>2, <2>5 DEF Corrigiendo, Cerrando
  <2>13. candados' \subseteq Candado
    BY <2>4, <2>7 DEF Tomar, IInv, TypeOK, Candado
  <2> QED
    BY <1>3, <2>5, <2>8, <2>10, <2>11, <2>12, <2>13, SoloTx
<1>6. CASE turnos[q.mio].estado # "ABIERTO"
  BY <1>1, <1>3, <1>6, SinMiTurnoIInv DEF TomarMiTurno
<1> QED
  BY <1>5, <1>6

-----------------------------------------------------------------------------
(* The queries of the summary.                                             *)

\* What an account was paid is never negative.
LEMMA ImportesDe ==
    ASSUME NEW p \in [Cuentas -> Cobro], NEW c \in Cuentas
    PROVE  /\ \A m \in Metodos : p[c][m].monto \in Nat
           /\ EfectivoDe(p[c]) \in Nat
           /\ SumaDe([m \in Metodos |-> p[c][m].propina], Metodos) \in Nat
<1>1. \A m \in Metodos : p[c][m].monto \in Nat /\ p[c][m].propina \in Nat
  BY CajaAssumption DEF Cobro
<1>2. EfectivoDe(p[c]) \in Nat
  BY <1>1, CajaAssumption DEF EfectivoDe
<1> DEFINE f == [m \in Metodos |-> p[c][m].propina]
<1>3. \A m \in Metodos : f[m] \in Nat
  BY <1>1
<1>4. SumaDe(f, Metodos) \in Nat
  <2> HIDE DEF f
  <2> QED
    BY <1>3, SumaNatural, CajaAssumption
<1> QED
  BY <1>1, <1>2, <1>4

\* The same of the functions the queries add up.
LEMMA Importes ==
    ASSUME pagos \in [Cuentas -> Cobro]
    PROVE  /\ \A c \in Cuentas, m \in Metodos :
                 Montos(m)[c] = pagos[c][m].monto /\ Montos(m)[c] \in Nat
           /\ \A c \in Cuentas :
                 Efectivos[c] = EfectivoDe(pagos[c]) /\ Efectivos[c] \in Nat
           /\ \A c \in Cuentas : PropinasPagadas[c] \in Nat
BY ImportesDe DEF Montos, Efectivos, PropinasPagadas

\* What a shift sold and took in is never negative.
LEMMA TotalesBien ==
    ASSUME pagos \in [Cuentas -> Cobro], NEW t
    PROVE  /\ VendidoEn(t) \in [Metodos -> Nat]
           /\ PropinasDe(t) \in Nat
           /\ EfectivoIngresado(t) \in Nat
           /\ EfectivoDevuelto(t) \in Nat
<1>1. /\ VigentesDe(t) \subseteq Cuentas /\ IsFiniteSet(VigentesDe(t))
      /\ DelTurno(t) \subseteq Cuentas /\ IsFiniteSet(DelTurno(t))
      /\ IsFiniteSet({c \in Cuentas : cuentas[c].devueltaEn = t})
  BY FS_Subset, CajaAssumption DEF VigentesDe, DelTurno
<1>2. \A m \in Metodos : SumaDe(Montos(m), VigentesDe(t)) \in Nat
  BY <1>1, Importes, SumaNatural
<1>3. SumaDe(PropinasPagadas, VigentesDe(t)) \in Nat
  BY <1>1, Importes, SumaNatural
<1>4. SumaDe(Efectivos, DelTurno(t)) \in Nat
  BY <1>1, Importes, SumaNatural
<1>5. SumaDe(Efectivos, {c \in Cuentas : cuentas[c].devueltaEn = t}) \in Nat
  BY <1>1, Importes, SumaNatural
<1> QED
  BY <1>2, <1>3, <1>4, <1>5 DEF VendidoEn, PropinasDe, EfectivoIngresado, EfectivoDevuelto

\* A statement of the closing that locks nothing and leaves the shift open:
\* enough that the summary it has so far is right.
LEMMA PasoDeCierre ==
    ASSUME IInv, NEW x \in Conexiones, UNCHANGED filas, UNCHANGED candados,
           tx[x].op = "CERRAR", NEW r \in Transaccion, tx' = [tx EXCEPT ![x] = r],
           r.op = "CERRAR", r.turno = tx[x].turno, r.paso \in 2..5, CorteAlDia(r)
    PROVE  IInv'
<1>1. /\ tx' \in [Conexiones -> Transaccion] /\ tx'[x] = r
      /\ \A y \in Conexiones \ {x} : tx'[y] = tx[y]
  BY DEF IInv, TypeOK
<1>2. \A f, m : Suyo(x, f, m)' <=> Suyo(x, f, m)
  BY <1>1 DEF Suyo, ConCuenta, ConTurno, ConMio
<1>3. CandadosDeTx' /\ Exclusion' /\ candados' \subseteq Candado
  BY <1>1, <1>2, SinBloquear DEF IInv, TypeOK
<1>4. r.turno \in Turnos /\ turnos[r.turno].estado = "ABIERTO"
  BY DEF IInv, VistoVigente, Cerrando
<1>5. Cerrando(x)'
  <2>1. turnos' = turnos
    BY DEF filas
  <2>2. /\ VendidoEn(r.turno)' = VendidoEn(r.turno) /\ PropinasDe(r.turno)' = PropinasDe(r.turno)
        /\ EfectivoIngresado(r.turno)' = EfectivoIngresado(r.turno)
        /\ EfectivoDevuelto(r.turno)' = EfectivoDevuelto(r.turno)
    BY ConsultasIguales DEF filas
  <2>3. CorteAlDia(r)'
    BY <2>1, <2>2 DEF CorteAlDia
  <2> QED
    BY <1>1, <1>4, <2>1, <2>3 DEF Cerrando
<1>6. (Cobrando(x) /\ Anulando(x) /\ Corrigiendo(x))'
  BY <1>1 DEF Cobrando, Anulando, Corrigiendo
<1> QED
  BY <1>1, <1>3, <1>5, <1>6, SoloTx

\* What a transaction that closes has, in the words of its record.
LEMMA CierreEnCurso ==
    ASSUME IInv, NEW x \in Conexiones, NEW q, q = tx[x], q.op = "CERRAR"
    PROVE  /\ q \in Transaccion /\ Completa(q) /\ Tipada(q)
           /\ q.paso \in 1..5 /\ q.turno \in Turnos /\ turnos[q.turno].estado = "ABIERTO"
           /\ turnos[q.turno].fondo \in Nat
           /\ CorteAlDia(q)
<1>1. q \in Transaccion /\ Completa(q) /\ Tipada(q)
  BY Registro DEF IInv, TypeOK
<1>2. Cerrando(x)
  BY DEF IInv, VistoVigente
<1>3. q.turno \in Turnos
  BY <1>2 DEF Cerrando
<1>4. turnos[q.turno].fondo \in Nat
  <2>1. turnos[q.turno] \in FilaTurno
    BY <1>3 DEF IInv, TypeOK
  <2>2. turnos[q.turno].fondo \in Fondos \cup {0}
    BY <2>1 DEF FilaTurno
  <2> QED
    BY <2>2, CajaAssumption
<1> QED
  BY <1>1, <1>2, <1>4 DEF Cerrando

\* Closing goes on only without accounts open in the shift.
LEMMA CerrarAbiertasIInv ==
    ASSUME IInv, NEW x \in Conexiones, CerrarAbiertas(x)
    PROVE  IInv'
<1>1. CASE Terminar(x)
  BY <1>1, AlTerminar, SoloTx DEF IInv, CerrarAbiertas
<1>2. CASE Avanzar(x) /\ UNCHANGED candados
  <2>1. PICK q : q = tx[x]
    OBVIOUS
  <2>2. q.op = "CERRAR" /\ q.paso = 1
    BY <2>1, EnPasoEs DEF IInv, CerrarAbiertas
  <2>3. q \in Transaccion /\ Completa(q) /\ Tipada(q)
    BY <2>1, <2>2, CierreEnCurso
  <2>4. PICK r : r = [q EXCEPT !.paso = q.paso + 1]
    OBVIOUS
  <2>5. r.op = "CERRAR" /\ r.turno = q.turno /\ r.paso = 2
    BY <2>2, <2>3, <2>4 DEF Completa
  <2>6. r \in Transaccion
    <3>1. Completa(r)
      BY <2>3, <2>4 DEF Completa
    <3>2. Tipada(r)
      BY <2>2, <2>3, <2>4 DEF Tipada, Completa
    <3> QED
      BY <3>1, <3>2, Registro
  <2>7. tx' = [tx EXCEPT ![x] = r]
    BY <1>2, <2>1, <2>4 DEF Avanzar
  <2>8. UNCHANGED filas
    BY DEF CerrarAbiertas
  <2>9. r.paso \in 2..5 /\ CorteAlDia(r)
    BY <2>5 DEF CorteAlDia
  <2> QED
    BY <1>2, <2>1, <2>2, <2>5, <2>6, <2>7, <2>8, <2>9, PasoDeCierre
<1> QED
  BY <1>1, <1>2 DEF CerrarAbiertas

\* The closing adds up the sales by payment method.
LEMMA CerrarPorMetodoIInv ==
    ASSUME IInv, NEW x \in Conexiones, CerrarPorMetodo(x)
    PROVE  IInv'
<1>1. PICK q : q = tx[x]
  OBVIOUS
<1>2. q.op = "CERRAR" /\ q.paso = 2
  BY <1>1, EnPasoEs DEF IInv, CerrarPorMetodo
<1>3. /\ q \in Transaccion /\ Completa(q) /\ Tipada(q)
      /\ q.turno \in Turnos /\ turnos[q.turno].fondo \in Nat
  BY <1>1, <1>2, CierreEnCurso
<1>4. PICK k : k = [montos |-> VendidoEn(q.turno), propinas |-> PropinasDe(q.turno),
                    efectivo |-> turnos[q.turno].fondo]
  OBVIOUS
<1>5. k \in Corte
  BY <1>3, <1>4, TotalesBien DEF Corte, IInv, TypeOK
<1>6. PICK r : r = [q EXCEPT !.paso = q.paso + 1, !.corte = k]
  OBVIOUS
<1>7. r.op = "CERRAR" /\ r.turno = q.turno /\ r.paso = 3 /\ r.corte = k
  BY <1>2, <1>3, <1>6 DEF Completa
<1>8. r \in Transaccion
  <2>1. Completa(r)
    BY <1>3, <1>6 DEF Completa
  <2>2. Tipada(r)
    BY <1>2, <1>3, <1>5, <1>6 DEF Tipada, Completa
  <2> QED
    BY <2>1, <2>2, Registro
<1>9. tx' = [tx EXCEPT ![x] = r]
  BY <1>1, <1>4, <1>6 DEF CerrarPorMetodo
<1>10. /\ k.montos = VendidoEn(q.turno) /\ k.propinas = PropinasDe(q.turno)
       /\ k.efectivo = turnos[q.turno].fondo
  BY <1>4
<1>11. UNCHANGED filas /\ UNCHANGED candados
  BY DEF CerrarPorMetodo
<1>12. r.paso \in 2..5 /\ CorteAlDia(r)
  BY <1>3, <1>7, <1>10 DEF CorteAlDia
<1> QED
  BY <1>1, <1>2, <1>7, <1>8, <1>9, <1>10, <1>11, <1>12, PasoDeCierre

\* The closing adds up the cash that went in.
LEMMA CerrarIngresadoIInv ==
    ASSUME IInv, NEW x \in Conexiones, CerrarIngresado(x)
    PROVE  IInv'
<1>1. PICK q : q = tx[x]
  OBVIOUS
<1>2. q.op = "CERRAR" /\ q.paso = 3
  BY <1>1, EnPasoEs DEF IInv, CerrarIngresado
<1>3. /\ q \in Transaccion /\ Completa(q) /\ Tipada(q)
      /\ q.turno \in Turnos /\ turnos[q.turno].fondo \in Nat
      /\ q.corte.montos = VendidoEn(q.turno)
      /\ q.corte.propinas = PropinasDe(q.turno)
      /\ q.corte.efectivo = turnos[q.turno].fondo
  BY <1>1, <1>2, CierreEnCurso DEF CorteAlDia
<1>4. PICK k : k = [q.corte EXCEPT !.efectivo = @ + EfectivoIngresado(q.turno)]
  OBVIOUS
<1>5. q.corte \in Corte /\ EfectivoIngresado(q.turno) \in Nat
  BY <1>3, TotalesBien DEF Tipada, IInv, TypeOK
<1>6. /\ k \in Corte
      /\ k.montos = VendidoEn(q.turno) /\ k.propinas = PropinasDe(q.turno)
      /\ k.efectivo = turnos[q.turno].fondo + EfectivoIngresado(q.turno)
  BY <1>3, <1>4, <1>5 DEF Corte
<1>7. PICK r : r = [q EXCEPT !.paso = q.paso + 1, !.corte = k]
  OBVIOUS
<1>8. r.op = "CERRAR" /\ r.turno = q.turno /\ r.paso = 4 /\ r.corte = k
  BY <1>2, <1>3, <1>7 DEF Completa
<1>9. r \in Transaccion
  <2>1. Completa(r)
    BY <1>3, <1>7 DEF Completa
  <2>2. Tipada(r)
    BY <1>2, <1>3, <1>6, <1>7 DEF Tipada, Completa
  <2> QED
    BY <2>1, <2>2, Registro
<1>10. tx' = [tx EXCEPT ![x] = r]
  BY <1>1, <1>4, <1>7 DEF CerrarIngresado
<1>11. UNCHANGED filas /\ UNCHANGED candados
  BY DEF CerrarIngresado
<1>12. r.paso \in 2..5 /\ CorteAlDia(r)
  BY <1>3, <1>5, <1>6, <1>8 DEF CorteAlDia
<1> QED
  BY <1>1, <1>2, <1>6, <1>8, <1>9, <1>10, <1>11, <1>12, PasoDeCierre

\* The closing adds up the cash given back in the shift.
LEMMA CerrarDevueltoIInv ==
    ASSUME IInv, NEW x \in Conexiones, CerrarDevuelto(x)
    PROVE  IInv'
<1>1. PICK q : q = tx[x]
  OBVIOUS
<1>2. q.op = "CERRAR" /\ q.paso = 4
  BY <1>1, EnPasoEs DEF IInv, CerrarDevuelto
<1>3. /\ q \in Transaccion /\ Completa(q) /\ Tipada(q)
      /\ q.turno \in Turnos /\ turnos[q.turno].fondo \in Nat
      /\ q.corte.montos = VendidoEn(q.turno)
      /\ q.corte.propinas = PropinasDe(q.turno)
      /\ q.corte.efectivo = turnos[q.turno].fondo + EfectivoIngresado(q.turno)
  <2>1. EfectivoIngresado(q.turno) \in Nat
    BY TotalesBien DEF IInv, TypeOK
  <2> QED
    BY <1>1, <1>2, <2>1, CierreEnCurso DEF CorteAlDia
<1>4. PICK k : k = [q.corte EXCEPT !.efectivo = @ - EfectivoDevuelto(q.turno)]
  OBVIOUS
<1>5. q.corte \in Corte /\ EfectivoIngresado(q.turno) \in Nat /\ EfectivoDevuelto(q.turno) \in Nat
  BY <1>3, TotalesBien DEF Tipada, IInv, TypeOK
<1>6. /\ k \in Corte
      /\ k.montos = VendidoEn(q.turno) /\ k.propinas = PropinasDe(q.turno)
      /\ k.efectivo = turnos[q.turno].fondo + EfectivoIngresado(q.turno)
                          - EfectivoDevuelto(q.turno)
  BY <1>3, <1>4, <1>5 DEF Corte
<1>7. PICK r : r = [q EXCEPT !.paso = q.paso + 1, !.corte = k]
  OBVIOUS
<1>8. r.op = "CERRAR" /\ r.turno = q.turno /\ r.paso = 5 /\ r.corte = k
  BY <1>2, <1>3, <1>7 DEF Completa
<1>9. r \in Transaccion
  <2>1. Completa(r)
    BY <1>3, <1>7 DEF Completa
  <2>2. Tipada(r)
    BY <1>2, <1>3, <1>6, <1>7 DEF Tipada, Completa
  <2> QED
    BY <2>1, <2>2, Registro
<1>10. tx' = [tx EXCEPT ![x] = r]
  BY <1>1, <1>4, <1>7 DEF CerrarDevuelto
<1>11. UNCHANGED filas /\ UNCHANGED candados
  BY DEF CerrarDevuelto
<1>12. r.paso \in 2..5 /\ CorteAlDia(r)
  BY <1>3, <1>5, <1>6, <1>8 DEF CorteAlDia
<1> QED
  BY <1>1, <1>2, <1>6, <1>8, <1>9, <1>10, <1>11, <1>12, PasoDeCierre

-----------------------------------------------------------------------------
(* What one account moves.                                                 *)

\* The sales of a shift that were cancelled once it was closed.
Anuladas(t) == {c \in DelTurno(t) : cuentas[c].trasCierre}
Devueltas(t) == {c \in Cuentas : cuentas[c].devueltaEn = t}

\* The rows of the other accounts stay.
SoloCuenta(c) ==
    \A d \in Cuentas \ {c} : cuentas'[d] = cuentas[d] /\ pagos'[d] = pagos[d]

\* The sets the queries add up over are sets of accounts, and only c can
\* enter or leave them.
LEMMA ConjuntosDe ==
    ASSUME NEW t, NEW c \in Cuentas, SoloCuenta(c)
    PROVE  /\ IsFiniteSet(VigentesDe(t)) /\ IsFiniteSet(VigentesDe(t)')
           /\ IsFiniteSet(DelTurno(t)) /\ IsFiniteSet(DelTurno(t)')
           /\ IsFiniteSet(Devueltas(t)) /\ IsFiniteSet(Devueltas(t)')
           /\ IsFiniteSet(Anuladas(t)) /\ IsFiniteSet(Anuladas(t)')
           /\ VigentesDe(t) \subseteq Cuentas /\ VigentesDe(t)' \subseteq Cuentas
           /\ DelTurno(t) \subseteq Cuentas /\ DelTurno(t)' \subseteq Cuentas
           /\ Devueltas(t) \subseteq Cuentas /\ Devueltas(t)' \subseteq Cuentas
           /\ Anuladas(t) \subseteq Cuentas /\ Anuladas(t)' \subseteq Cuentas
           /\ VigentesDe(t) \ {c} = VigentesDe(t)' \ {c}
           /\ DelTurno(t) \ {c} = DelTurno(t)' \ {c}
           /\ Devueltas(t) \ {c} = Devueltas(t)' \ {c}
           /\ Anuladas(t) \ {c} = Anuladas(t)' \ {c}
<1>1. /\ VigentesDe(t) \subseteq Cuentas /\ VigentesDe(t)' \subseteq Cuentas
      /\ DelTurno(t) \subseteq Cuentas /\ DelTurno(t)' \subseteq Cuentas
      /\ Devueltas(t) \subseteq Cuentas /\ Devueltas(t)' \subseteq Cuentas
      /\ Anuladas(t) \subseteq Cuentas /\ Anuladas(t)' \subseteq Cuentas
  BY DEF VigentesDe, DelTurno, Devueltas, Anuladas
<1>2. \A S : S \subseteq Cuentas => IsFiniteSet(S)
  BY FS_Subset, CajaAssumption
<1>3. DelTurno(t) \ {c} = DelTurno(t)' \ {c}
  BY DEF DelTurno, SoloCuenta
<1>4. /\ VigentesDe(t) \ {c} = VigentesDe(t)' \ {c}
      /\ Anuladas(t) \ {c} = Anuladas(t)' \ {c}
  BY DEF DelTurno, VigentesDe, Anuladas, SoloCuenta
<1>5. Devueltas(t) \ {c} = Devueltas(t)' \ {c}
  BY DEF Devueltas, SoloCuenta
<1> QED
  BY <1>1, <1>2, <1>3, <1>4, <1>5

\* When c is the only account that changes, the sums of a shift move by it.
LEMMA Mueve ==
    ASSUME pagos \in [Cuentas -> Cobro], pagos' \in [Cuentas -> Cobro],
           NEW c \in Cuentas, SoloCuenta(c), NEW t
    PROVE  /\ \A m \in Metodos :
                 /\ VendidoEn(t)'[m] = VendidoEn(t)[m]
                       + (IF c \in VigentesDe(t)' THEN pagos'[c][m].monto ELSE 0)
                       - (IF c \in VigentesDe(t) THEN pagos[c][m].monto ELSE 0)
                 /\ SumaDe(Montos(m), Anuladas(t))' = SumaDe(Montos(m), Anuladas(t))
                       + (IF c \in Anuladas(t)' THEN pagos'[c][m].monto ELSE 0)
                       - (IF c \in Anuladas(t) THEN pagos[c][m].monto ELSE 0)
           /\ EfectivoIngresado(t)' = EfectivoIngresado(t)
                 + (IF c \in DelTurno(t)' THEN EfectivoDe(pagos'[c]) ELSE 0)
                 - (IF c \in DelTurno(t) THEN EfectivoDe(pagos[c]) ELSE 0)
           /\ EfectivoDevuelto(t)' = EfectivoDevuelto(t)
                 + (IF c \in Devueltas(t)' THEN EfectivoDe(pagos'[c]) ELSE 0)
                 - (IF c \in Devueltas(t) THEN EfectivoDe(pagos[c]) ELSE 0)
           /\ VendidoEn(t)' \in [Metodos -> Nat]
           /\ \A m \in Metodos : SumaDe(Montos(m), Anuladas(t)) \in Nat
<1>1. /\ \A d \in Cuentas, m \in Metodos :
            /\ Montos(m)[d] = pagos[d][m].monto /\ Montos(m)[d] \in Int
            /\ Montos(m)'[d] = pagos'[d][m].monto /\ Montos(m)'[d] \in Int
            /\ d # c => Montos(m)'[d] = Montos(m)[d]
      /\ \A d \in Cuentas :
            /\ Efectivos[d] = EfectivoDe(pagos[d]) /\ Efectivos[d] \in Int
            /\ Efectivos'[d] = EfectivoDe(pagos'[d]) /\ Efectivos'[d] \in Int
            /\ d # c => Efectivos'[d] = Efectivos[d]
  <2>1. /\ \A d \in Cuentas, m \in Metodos :
              Montos(m)[d] = pagos[d][m].monto /\ Montos(m)[d] \in Int
        /\ \A d \in Cuentas : Efectivos[d] = EfectivoDe(pagos[d]) /\ Efectivos[d] \in Int
    BY Importes
  <2>2. /\ \A d \in Cuentas, m \in Metodos :
              Montos(m)'[d] = pagos'[d][m].monto /\ Montos(m)'[d] \in Int
        /\ \A d \in Cuentas : Efectivos'[d] = EfectivoDe(pagos'[d]) /\ Efectivos'[d] \in Int
    <3>1. PICK p \in [Cuentas -> Cobro] : p = pagos'
      OBVIOUS
    <3>2. ASSUME NEW d \in Cuentas
          PROVE  EfectivoDe(p[d]) \in Int /\ \A m \in Metodos : p[d][m].monto \in Int
      <4>1. EfectivoDe(p[d]) \in Nat
        BY ImportesDe
      <4>2. \A m \in Metodos : p[d][m].monto \in Nat
        BY ImportesDe
      <4> QED
        BY <4>1, <4>2
    <3>3. Efectivos' = [d \in Cuentas |-> EfectivoDe(p[d])]
      BY <3>1 DEF Efectivos
    <3>4. \A m : Montos(m)' = [d \in Cuentas |-> p[d][m].monto]
      BY <3>1 DEF Montos
    <3> QED
      BY <3>1, <3>2, <3>3, <3>4
  <2> QED
    BY <2>1, <2>2 DEF SoloCuenta, Montos, Efectivos
<1>2. ASSUME NEW m \in Metodos
      PROVE  SumaDe(Montos(m), VigentesDe(t))' = SumaDe(Montos(m), VigentesDe(t))
                 + (IF c \in VigentesDe(t)' THEN pagos'[c][m].monto ELSE 0)
                 - (IF c \in VigentesDe(t) THEN pagos[c][m].monto ELSE 0)
  <2>1. PICK f, g, S, T : f = Montos(m) /\ g = Montos(m)' /\ S = VigentesDe(t) /\ T = VigentesDe(t)'
    OBVIOUS
  <2>2. /\ IsFiniteSet(S) /\ IsFiniteSet(T) /\ S \ {c} = T \ {c}
        /\ S \subseteq Cuentas /\ T \subseteq Cuentas
    BY <2>1, ConjuntosDe
  <2>3. /\ \A d \in S : f[d] \in Int
        /\ \A d \in T : g[d] \in Int
        /\ \A d \in S \ {c} : g[d] = f[d]
    BY <1>1, <2>1, <2>2
  <2>4. SumaDe(g, T) = SumaDe(f, S) + (IF c \in T THEN g[c] ELSE 0) - (IF c \in S THEN f[c] ELSE 0)
    BY <2>2, <2>3, SumaCambia
  <2> QED
    BY <1>1, <2>1, <2>4
<1>3. ASSUME NEW m \in Metodos
      PROVE  SumaDe(Montos(m), Anuladas(t))' = SumaDe(Montos(m), Anuladas(t))
                 + (IF c \in Anuladas(t)' THEN pagos'[c][m].monto ELSE 0)
                 - (IF c \in Anuladas(t) THEN pagos[c][m].monto ELSE 0)
  <2>1. PICK f, g, S, T : f = Montos(m) /\ g = Montos(m)' /\ S = Anuladas(t) /\ T = Anuladas(t)'
    OBVIOUS
  <2>2. /\ IsFiniteSet(S) /\ IsFiniteSet(T) /\ S \ {c} = T \ {c}
        /\ S \subseteq Cuentas /\ T \subseteq Cuentas
    BY <2>1, ConjuntosDe
  <2>3. /\ \A d \in S : f[d] \in Int
        /\ \A d \in T : g[d] \in Int
        /\ \A d \in S \ {c} : g[d] = f[d]
    BY <1>1, <2>1, <2>2
  <2>4. SumaDe(g, T) = SumaDe(f, S) + (IF c \in T THEN g[c] ELSE 0) - (IF c \in S THEN f[c] ELSE 0)
    BY <2>2, <2>3, SumaCambia
  <2> QED
    BY <1>1, <2>1, <2>4
<1>4. SumaDe(Efectivos, DelTurno(t))' = SumaDe(Efectivos, DelTurno(t))
          + (IF c \in DelTurno(t)' THEN EfectivoDe(pagos'[c]) ELSE 0)
          - (IF c \in DelTurno(t) THEN EfectivoDe(pagos[c]) ELSE 0)
  <2>1. PICK f, g, S, T : f = Efectivos /\ g = Efectivos' /\ S = DelTurno(t) /\ T = DelTurno(t)'
    OBVIOUS
  <2>2. /\ IsFiniteSet(S) /\ IsFiniteSet(T) /\ S \ {c} = T \ {c}
        /\ S \subseteq Cuentas /\ T \subseteq Cuentas
    BY <2>1, ConjuntosDe
  <2>3. /\ \A d \in S : f[d] \in Int
        /\ \A d \in T : g[d] \in Int
        /\ \A d \in S \ {c} : g[d] = f[d]
    BY <1>1, <2>1, <2>2
  <2>4. SumaDe(g, T) = SumaDe(f, S) + (IF c \in T THEN g[c] ELSE 0) - (IF c \in S THEN f[c] ELSE 0)
    BY <2>2, <2>3, SumaCambia
  <2> QED
    BY <1>1, <2>1, <2>4
<1>5. SumaDe(Efectivos, Devueltas(t))' = SumaDe(Efectivos, Devueltas(t))
          + (IF c \in Devueltas(t)' THEN EfectivoDe(pagos'[c]) ELSE 0)
          - (IF c \in Devueltas(t) THEN EfectivoDe(pagos[c]) ELSE 0)
  <2>1. PICK f, g, S, T : f = Efectivos /\ g = Efectivos' /\ S = Devueltas(t) /\ T = Devueltas(t)'
    OBVIOUS
  <2>2. /\ IsFiniteSet(S) /\ IsFiniteSet(T) /\ S \ {c} = T \ {c}
        /\ S \subseteq Cuentas /\ T \subseteq Cuentas
    BY <2>1, ConjuntosDe
  <2>3. /\ \A d \in S : f[d] \in Int
        /\ \A d \in T : g[d] \in Int
        /\ \A d \in S \ {c} : g[d] = f[d]
    BY <1>1, <2>1, <2>2
  <2>4. SumaDe(g, T) = SumaDe(f, S) + (IF c \in T THEN g[c] ELSE 0) - (IF c \in S THEN f[c] ELSE 0)
    BY <2>2, <2>3, SumaCambia
  <2> QED
    BY <1>1, <2>1, <2>4
<1>6. \A m \in Metodos : /\ VendidoEn(t)[m] = SumaDe(Montos(m), VigentesDe(t))
                         /\ VendidoEn(t)'[m] = SumaDe(Montos(m), VigentesDe(t))'
  BY DEF VendidoEn
<1>7. /\ EfectivoDevuelto(t) = SumaDe(Efectivos, Devueltas(t))
      /\ EfectivoDevuelto(t)' = SumaDe(Efectivos, Devueltas(t))'
  BY DEF EfectivoDevuelto, Devueltas
<1>8. /\ EfectivoIngresado(t) = SumaDe(Efectivos, DelTurno(t))
      /\ EfectivoIngresado(t)' = SumaDe(Efectivos, DelTurno(t))'
  BY DEF EfectivoIngresado
<1>9. VendidoEn(t)' \in [Metodos -> Nat]
  <2>1. \A m \in Metodos, d \in Cuentas : Montos(m)'[d] \in Nat
    BY ImportesDe DEF Montos
  <2>2. \A m \in Metodos : SumaDe(Montos(m), VigentesDe(t))' \in Nat
    BY <2>1, ConjuntosDe, SumaNatural
  <2> QED
    BY <2>2 DEF VendidoEn
<1>10. \A m \in Metodos : SumaDe(Montos(m), Anuladas(t)) \in Nat
  BY Importes, ConjuntosDe, SumaNatural
<1> QED
  BY <1>2, <1>3, <1>4, <1>5, <1>6, <1>7, <1>8, <1>9, <1>10

\* A shift whose sales and refunds c is not among, before or after, is not
\* moved by it.
LEMMA Ajeno ==
    ASSUME pagos \in [Cuentas -> Cobro], pagos' \in [Cuentas -> Cobro],
           NEW c \in Cuentas, SoloCuenta(c), NEW t,
           cuentas[c].turno # t, cuentas'[c].turno # t,
           cuentas[c].devueltaEn # t, cuentas'[c].devueltaEn # t
    PROVE  /\ VendidoEn(t)' = VendidoEn(t) /\ PropinasDe(t)' = PropinasDe(t)
           /\ EfectivoIngresado(t)' = EfectivoIngresado(t)
           /\ EfectivoDevuelto(t)' = EfectivoDevuelto(t)
           /\ \A m \in Metodos :
                 SumaDe(Montos(m), Anuladas(t))' = SumaDe(Montos(m), Anuladas(t))
<1>1. /\ c \notin VigentesDe(t) /\ c \notin VigentesDe(t)'
      /\ c \notin DelTurno(t) /\ c \notin DelTurno(t)'
      /\ c \notin Devueltas(t) /\ c \notin Devueltas(t)'
      /\ c \notin Anuladas(t) /\ c \notin Anuladas(t)'
  BY DEF VigentesDe, DelTurno, Devueltas, Anuladas
<1>2. /\ VendidoEn(t) \in [Metodos -> Nat] /\ VendidoEn(t)' \in [Metodos -> Nat]
      /\ EfectivoIngresado(t) \in Nat /\ EfectivoDevuelto(t) \in Nat
      /\ \A m \in Metodos : SumaDe(Montos(m), Anuladas(t)) \in Nat
  BY TotalesBien, Mueve
<1>3. /\ \A m \in Metodos :
            /\ VendidoEn(t)'[m] = VendidoEn(t)[m]
            /\ SumaDe(Montos(m), Anuladas(t))' = SumaDe(Montos(m), Anuladas(t))
      /\ EfectivoIngresado(t)' = EfectivoIngresado(t)
      /\ EfectivoDevuelto(t)' = EfectivoDevuelto(t)
  BY <1>1, <1>2, Mueve
<1>4. VendidoEn(t)' = VendidoEn(t)
  BY <1>2, <1>3
<1>5. PropinasDe(t)' = PropinasDe(t)
  <2>1. VigentesDe(t)' = VigentesDe(t)
    BY <1>1, ConjuntosDe
  <2>2. \A d \in VigentesDe(t) : PropinasPagadas'[d] = PropinasPagadas[d]
    BY <1>1, ConjuntosDe DEF PropinasPagadas, SoloCuenta
  <2> QED
    BY <2>1, <2>2, ConjuntosDe, SumaIgual DEF PropinasDe
<1> QED
  BY <1>3, <1>4, <1>5

-----------------------------------------------------------------------------
(* The statements that write rows.                                         *)

\* Two transactions have neither the same account nor the same shift, unless
\* both only share it.
LEMMA Aparte ==
    ASSUME IInv, NEW x \in Conexiones, NEW y \in Conexiones, x # y
    PROVE  /\ ConCuenta(x) /\ ConCuenta(y) => tx[x].cuenta # tx[y].cuenta
           /\ ConTurno(x) /\ ConTurno(y) => tx[x].turno # tx[y].turno
           /\ ConTurno(x) /\ ConMio(y) => tx[x].turno # tx[y].mio
<1>1. ConCuenta(x) => tx[x].cuenta \in Cuentas
  BY DEF ConCuenta, IInv, VistoVigente, Cobrando, Anulando, Corrigiendo
<1>2. ConTurno(x) => tx[x].turno \in Turnos
  <2>1. CASE tx[x].op = "CERRAR"
    BY <2>1 DEF IInv, VistoVigente, Cerrando
  <2>2. CASE tx[x].op \in {"ANULAR", "CORREGIR"}
    <3>1. /\ tx[x].cuenta \in Cuentas /\ cuentas[tx[x].cuenta].estado = "PAGADA"
          /\ tx[x].turno = cuentas[tx[x].cuenta].turno
      BY <2>2 DEF IInv, VistoVigente, Anulando, Corrigiendo
    <3> QED
      BY <3>1 DEF IInv, TypeOK, FilaCuenta
  <2> QED
    BY <2>1, <2>2 DEF ConTurno
<1>3. ConCuenta(x) => Suyo(x, tx[x].cuenta, "UPDATE")
  BY DEF Suyo
<1>4. ConTurno(x) => Suyo(x, tx[x].turno, "UPDATE")
  BY DEF Suyo
<1>5. /\ ConCuenta(y) => Suyo(y, tx[y].cuenta, "UPDATE")
      /\ ConTurno(y) => Suyo(y, tx[y].turno, "UPDATE")
      /\ ConMio(y) => Suyo(y, tx[y].mio, "SHARE")
  BY DEF Suyo
<1>6. Exclusion
  BY DEF IInv
<1>7. ASSUME NEW f \in Cuentas \cup Turnos, Suyo(x, f, "UPDATE")
      PROVE  ~Suyo(y, f, "UPDATE") /\ ~Suyo(y, f, "SHARE")
  BY <1>6, <1>7 DEF Exclusion
<1> QED
  BY <1>1, <1>2, <1>3, <1>4, <1>5, <1>7

\* What another transaction has seen is still so after the account c was
\* written, when c is not its account, nor one of the shift it closes.
LEMMA OtrosSiguen ==
    ASSUME IInv, NEW y \in Conexiones, NEW c \in Cuentas, SoloCuenta(c), tx'[y] = tx[y],
           pagos' \in [Cuentas -> Cobro], turnos' = turnos,
           ConCuenta(y) => tx[y].cuenta # c,
           tx[y].op = "CERRAR" =>
               /\ cuentas[c].turno # tx[y].turno /\ cuentas'[c].turno # tx[y].turno
               /\ cuentas[c].devueltaEn # tx[y].turno /\ cuentas'[c].devueltaEn # tx[y].turno
    PROVE  (Cobrando(y) /\ Anulando(y) /\ Corrigiendo(y) /\ Cerrando(y))'
<1>1. Cobrando(y) /\ Anulando(y) /\ Corrigiendo(y) /\ Cerrando(y)
  BY DEF IInv, VistoVigente
<1>2. ConCuenta(y) => /\ tx[y].cuenta \in Cuentas
                      /\ cuentas'[tx[y].cuenta] = cuentas[tx[y].cuenta]
                      /\ pagos'[tx[y].cuenta] = pagos[tx[y].cuenta]
  BY <1>1 DEF ConCuenta, Cobrando, Anulando, Corrigiendo, SoloCuenta
<1>3. \A d : Cobros(d)' = Cobros(d)
  BY DEF Cobros
<1>4. Cobrando(y)'
  BY <1>1, <1>2, <1>3 DEF ConCuenta, Cobrando
<1>5. Anulando(y)'
  BY <1>1, <1>2 DEF ConCuenta, Anulando
<1>6. Corrigiendo(y)'
  BY <1>1, <1>2, <1>3 DEF ConCuenta, Corrigiendo
<1>7. Cerrando(y)'
  <2> SUFFICES ASSUME tx[y].op = "CERRAR" PROVE Cerrando(y)'
    BY DEF Cerrando
  <2>1. PICK t : t = tx[y].turno
    OBVIOUS
  <2>2. /\ VendidoEn(t)' = VendidoEn(t) /\ PropinasDe(t)' = PropinasDe(t)
        /\ EfectivoIngresado(t)' = EfectivoIngresado(t)
        /\ EfectivoDevuelto(t)' = EfectivoDevuelto(t)
    BY <2>1, Ajeno DEF IInv, TypeOK
  <2>3. CorteAlDia(tx[y])'
    BY <1>1, <2>1, <2>2 DEF Cerrando, CorteAlDia
  <2> QED
    BY <1>1, <2>3 DEF Cerrando
<1> QED
  BY <1>4, <1>5, <1>6, <1>7

\* No shift is moved by an account that belongs to none.
LEMMA SinTurnoNadaMueve ==
    ASSUME IInv, NEW c \in Cuentas, SoloCuenta(c), pagos' \in [Cuentas -> Cobro],
           UNCHANGED <<turnos, ingresos, ajuste>>,
           cuentas[c].turno = NULL, cuentas'[c].turno = NULL,
           cuentas[c].devueltaEn = NULL, cuentas'[c].devueltaEn = NULL
    PROVE  TurnosBien' /\ IngresosCuadran' /\ CorteExplicaIngresos'
<1>1. \A t \in Turnos : t # NULL
  BY CajaAssumption
<1>2. \A t \in Turnos : /\ VendidoEn(t)' = VendidoEn(t)
                        /\ \A m \in Metodos : SumaDe(Montos(m), Anuladas(t))'
                                              = SumaDe(Montos(m), Anuladas(t))
  BY <1>1, Ajeno DEF IInv, TypeOK
<1>3. TurnosBien'
  BY DEF IInv, TurnosBien
<1>4. IngresosCuadran'
  BY <1>2 DEF IInv, IngresosCuadran
<1>5. CorteExplicaIngresos'
  BY <1>2 DEF IInv, CorteExplicaIngresos, Anuladas
<1> QED
  BY <1>3, <1>4, <1>5

\* Ordering gives an account something to pay for.
LEMMA OrdenarIInv ==
    ASSUME IInv, NEW c \in Cuentas, Ordenar(c)
    PROVE  IInv'
<1>1. /\ cuentas[c].estado = "LIBRE" /\ cuentas' = [cuentas EXCEPT ![c].estado = "ABIERTA"]
      /\ UNCHANGED <<turnos, pagos, ingresos, ajuste, tx, candados>>
  BY DEF Ordenar
<1>2. /\ cuentas' \in [Cuentas -> FilaCuenta] /\ cuentas'[c].estado = "ABIERTA"
      /\ cuentas'[c].turno = cuentas[c].turno /\ cuentas'[c].devueltaEn = cuentas[c].devueltaEn
      /\ cuentas'[c].trasCierre = cuentas[c].trasCierre
      /\ SoloCuenta(c)
  BY <1>1 DEF IInv, TypeOK, FilaCuenta, SoloCuenta
<1>3. /\ cuentas[c].turno = NULL /\ cuentas[c].devueltaEn = NULL /\ ~cuentas[c].trasCierre
      /\ pagos[c] = SinPagos
  BY <1>1 DEF IInv, TypeOK, VentasBien
<1>4. TypeOK'
  BY <1>1, <1>2, <1>3 DEF IInv, TypeOK, SoloCuenta
<1>5. CandadosDeTx' /\ Exclusion'
  BY <1>1 DEF IInv, CandadosDeTx, Exclusion, Suyo, ConCuenta, ConTurno, ConMio
<1>6. VentasBien'
  BY <1>1, <1>2, <1>3 DEF IInv, VentasBien, SoloCuenta
<1>7. TurnosBien' /\ IngresosCuadran' /\ CorteExplicaIngresos'
  BY <1>1, <1>2, <1>3, SinTurnoNadaMueve DEF IInv, TypeOK
<1>8. ASSUME NEW y \in Conexiones
      PROVE  (Cobrando(y) /\ Anulando(y) /\ Corrigiendo(y) /\ Cerrando(y))'
  <2>1. ConCuenta(y) => tx[y].cuenta # c
    BY <1>1 DEF IInv, VistoVigente, ConCuenta, Cobrando, Anulando, Corrigiendo
  <2>2. tx[y].op = "CERRAR" => tx[y].turno # NULL
    BY CajaAssumption DEF IInv, VistoVigente, Cerrando
  <2> QED
    BY <1>1, <1>2, <1>3, <2>1, <2>2, OtrosSiguen DEF IInv, TypeOK
<1>9. VistoVigente'
  BY <1>8 DEF VistoVigente
<1> QED
  BY <1>4, <1>5, <1>6, <1>7, <1>9 DEF IInv

\* Taking it back is done to an account nobody has locked.
LEMMA VaciarIInv ==
    ASSUME IInv, NEW c \in Cuentas, Vaciar(c)
    PROVE  IInv'
<1>1. /\ cuentas[c].estado = "ABIERTA" /\ cuentas' = [cuentas EXCEPT ![c].estado = "LIBRE"]
      /\ UNCHANGED <<turnos, pagos, ingresos, ajuste, tx, candados>>
      /\ \A k \in candados : k.fila # c
  BY DEF Vaciar
<1>2. /\ cuentas' \in [Cuentas -> FilaCuenta] /\ cuentas'[c].estado = "LIBRE"
      /\ cuentas'[c].turno = cuentas[c].turno /\ cuentas'[c].devueltaEn = cuentas[c].devueltaEn
      /\ cuentas'[c].trasCierre = cuentas[c].trasCierre
      /\ SoloCuenta(c)
  BY <1>1 DEF IInv, TypeOK, FilaCuenta, SoloCuenta
<1>3. /\ cuentas[c].turno = NULL /\ cuentas[c].devueltaEn = NULL /\ ~cuentas[c].trasCierre
      /\ pagos[c] = SinPagos
  BY <1>1 DEF IInv, TypeOK, VentasBien
<1>4. TypeOK'
  BY <1>1, <1>2, <1>3 DEF IInv, TypeOK, SoloCuenta
<1>5. CandadosDeTx' /\ Exclusion'
  BY <1>1 DEF IInv, CandadosDeTx, Exclusion, Suyo, ConCuenta, ConTurno, ConMio
<1>6. VentasBien'
  BY <1>1, <1>2, <1>3 DEF IInv, VentasBien, SoloCuenta
<1>7. TurnosBien' /\ IngresosCuadran' /\ CorteExplicaIngresos'
  BY <1>1, <1>2, <1>3, SinTurnoNadaMueve DEF IInv, TypeOK
<1>8. ASSUME NEW y \in Conexiones
      PROVE  (Cobrando(y) /\ Anulando(y) /\ Corrigiendo(y) /\ Cerrando(y))'
  <2>1. ConCuenta(y) => tx[y].cuenta # c
    <3> SUFFICES ASSUME ConCuenta(y), tx[y].cuenta = c PROVE FALSE
      OBVIOUS
    <3>1. Suyo(y, c, "UPDATE")
      BY DEF Suyo
    <3>2. [tx |-> y, fila |-> c, modo |-> "UPDATE"] \in candados
      BY <3>1 DEF IInv, CandadosDeTx
    <3> QED
      BY <1>1, <3>2
  <2>2. tx[y].op = "CERRAR" => tx[y].turno # NULL
    BY CajaAssumption DEF IInv, VistoVigente, Cerrando
  <2> QED
    BY <1>1, <1>2, <1>3, <2>1, <2>2, OtrosSiguen DEF IInv, TypeOK
<1>9. VistoVigente'
  BY <1>8 DEF VistoVigente
<1> QED
  BY <1>4, <1>5, <1>6, <1>7, <1>9 DEF IInv

\* A shift opens, without sales.
LEMMA AbrirTurnoIInv ==
    ASSUME IInv, NEW t \in Turnos, NEW u \in Cajeros, NEW f \in Fondos, AbrirTurno(t, u, f)
    PROVE  IInv'
<1> DEFINE r == [estado |-> "ABIERTO", usuario |-> u, fondo |-> f, resumen |-> SinCorte]
<1>1. /\ turnos[t].estado = "LIBRE" /\ \A s \in Turnos : turnos[s].estado # "ABIERTO"
      /\ turnos' = [turnos EXCEPT ![t] = r]
      /\ UNCHANGED <<cuentas, pagos, ingresos, ajuste, tx, candados>>
  BY DEF AbrirTurno
<1>2. r \in FilaTurno
  BY TxLibreBien DEF FilaTurno
<1>3. r.estado = "ABIERTO"
  OBVIOUS
<1> HIDE DEF r
<1>4. /\ turnos' \in [Turnos -> FilaTurno] /\ turnos'[t].estado = "ABIERTO"
      /\ \A s \in Turnos \ {t} : turnos'[s] = turnos[s]
  BY <1>1, <1>2, <1>3 DEF IInv, TypeOK
<1>5. TypeOK'
  BY <1>1, <1>4 DEF IInv, TypeOK
<1>6. CandadosDeTx' /\ Exclusion'
  BY <1>1 DEF IInv, CandadosDeTx, Exclusion, Suyo, ConCuenta, ConTurno, ConMio
<1>7. VentasBien'
  <2>1. \A c \in Cuentas : /\ cuentas[c].turno \in Turnos \cup {NULL}
                           /\ cuentas[c].devueltaEn \in Turnos \cup {NULL}
                           /\ cuentas[c].trasCierre => cuentas[c].turno # NULL
    BY DEF IInv, TypeOK, FilaCuenta, VentasBien
  <2> QED
    BY <1>1, <1>4, <2>1 DEF IInv, VentasBien
<1>8. TurnosBien'
  <2>1. ASSUME NEW s \in Turnos, NEW v \in Turnos, turnos'[s].estado = "ABIERTO",
               turnos'[v].estado = "ABIERTO"
        PROVE  s = v
    BY <1>1, <1>4, <2>1
  <2>2. ASSUME NEW s \in Turnos, turnos'[s].estado # "CERRADO"
        PROVE  ajuste'[s] = [montos |-> SinMontos, efectivo |-> 0]
    BY <1>1, <1>4, <2>2 DEF IInv, TurnosBien
  <2>3. ASSUME NEW s \in Turnos, turnos'[s].estado = "LIBRE"
        PROVE  turnos'[s].fondo = 0
    BY <1>1, <1>4, <2>3 DEF IInv, TurnosBien
  <2> QED
    BY <2>1, <2>2, <2>3 DEF TurnosBien
<1>9. IngresosCuadran'
  <2> SUFFICES ASSUME NEW s \in Turnos, turnos'[s].estado = "CERRADO"
               PROVE  ingresos'[s] = VendidoEn(s)'
    BY DEF IngresosCuadran
  <2>1. s # t /\ turnos[s].estado = "CERRADO"
    BY <1>4
  <2> QED
    BY <1>1, <2>1, ConsultasIguales DEF IInv, IngresosCuadran
<1>10. CorteExplicaIngresos'
  <2> SUFFICES ASSUME NEW s \in Turnos, NEW m \in Metodos, turnos'[s].estado = "CERRADO"
               PROVE  (turnos[s].resumen.montos[m] + ajuste[s].montos[m] =
                          ingresos[s][m] + SumaDe(Montos(m), {c \in DelTurno(s) : cuentas[c].trasCierre}))'
    BY DEF CorteExplicaIngresos
  <2>1. s # t /\ turnos'[s] = turnos[s] /\ turnos[s].estado = "CERRADO"
    BY <1>4
  <2>2. SumaDe(Montos(m), {c \in DelTurno(s) : cuentas[c].trasCierre})'
            = SumaDe(Montos(m), {c \in DelTurno(s) : cuentas[c].trasCierre})
    BY <1>1, ConsultasIguales
  <2> QED
    BY <1>1, <2>1, <2>2 DEF IInv, CorteExplicaIngresos
<1>11. ASSUME NEW y \in Conexiones
       PROVE  (Cobrando(y) /\ Anulando(y) /\ Corrigiendo(y) /\ Cerrando(y))'
  <2>1. Cobrando(y) /\ Anulando(y) /\ Corrigiendo(y) /\ Cerrando(y)
    BY DEF IInv, VistoVigente
  <2>2. \A d : Cobros(d)' = Cobros(d)
    BY DEF Cobros
  <2>3. Cobrando(y)'
    BY <1>1, <1>4, <2>1, <2>2 DEF Cobrando
  <2>4. \A s \in Turnos : (turnos'[s].estado = "CERRADO" <=> turnos[s].estado = "CERRADO")
    BY <1>1, <1>4
  <2>5. tx[y] \in Transaccion /\ Tipada(tx[y])
    BY Registro DEF IInv, TypeOK
  <2>6. tx[y].op \in {"ANULAR", "CORREGIR"} => tx[y].turno \in Turnos
    BY <2>1, <2>5 DEF Anulando, Corrigiendo, Tipada, IInv, TypeOK
  <2>7. Anulando(y)'
    BY <1>1, <1>4, <2>1, <2>4, <2>5, <2>6 DEF Anulando, Tipada
  <2>8. Corrigiendo(y)'
    BY <1>1, <2>1, <2>2, <2>4, <2>6 DEF Corrigiendo
  <2>9. Cerrando(y)'
    <3> SUFFICES ASSUME tx[y].op = "CERRAR" PROVE Cerrando(y)'
      BY <1>1 DEF Cerrando
    <3>1. tx[y].turno \in Turnos \ {t} /\ turnos'[tx[y].turno] = turnos[tx[y].turno]
      BY <1>1, <1>4, <2>1 DEF Cerrando
    <3>2. CorteAlDia(tx[y])'
      BY <1>1, <2>1, <3>1, ConsultasIguales DEF Cerrando, CorteAlDia
    <3> QED
      BY <1>1, <2>1, <3>1, <3>2 DEF Cerrando
  <2> QED
    BY <2>3, <2>7, <2>8, <2>9
<1>12. VistoVigente'
  BY <1>11 DEF VistoVigente
<1> QED
  BY <1>5, <1>6, <1>7, <1>8, <1>9, <1>10, <1>12 DEF IInv

\* What a transaction about to charge has before it.
LEMMA CobroEnCurso ==
    ASSUME IInv, NEW x \in Conexiones, tx[x].op = "COBRAR", EnPaso(x, "escribir"),
           NEW c, c = tx[x].cuenta, NEW s, s = tx[x].mio, NEW p, p = tx[x].pagos
    PROVE  /\ c \in Cuentas /\ s \in Turnos /\ p \in Cobro /\ p \in Cobros(c)
           /\ cuentas[c].estado = "ABIERTA" /\ turnos[s].estado = "ABIERTO"
           /\ cuentas[c].turno = NULL /\ cuentas[c].devueltaEn = NULL
           /\ ~cuentas[c].trasCierre /\ pagos[c] = SinPagos
           /\ ConCuenta(x) /\ ConMio(x) /\ s # NULL
<1>1. tx[x].paso = 2
  BY EnPasoEs DEF IInv
<1>2. /\ c \in Cuentas /\ s \in Turnos /\ p \in Cobros(c)
      /\ cuentas[c].estado = "ABIERTA" /\ turnos[s].estado = "ABIERTO"
  BY <1>1 DEF IInv, VistoVigente, Cobrando
<1>3. p \in Cobro
  BY <1>2, CobrosBien
<1>4. /\ cuentas[c].turno = NULL /\ cuentas[c].devueltaEn = NULL
      /\ ~cuentas[c].trasCierre /\ pagos[c] = SinPagos
  BY <1>2 DEF IInv, TypeOK, VentasBien
<1>5. ConCuenta(x) /\ ConMio(x)
  BY <1>1 DEF ConCuenta, ConMio
<1> QED
  BY <1>2, <1>3, <1>4, <1>5, CajaAssumption

\* What charging writes.
LEMMA AlCobrar ==
    ASSUME IInv, NEW x \in Conexiones, CobrarEscribir(x),
           NEW c, c = tx[x].cuenta, NEW s, s = tx[x].mio, NEW p, p = tx[x].pagos
    PROVE  /\ c \in Cuentas /\ s \in Turnos /\ p \in Cobro /\ p \in Cobros(c)
           /\ cuentas[c].estado = "ABIERTA" /\ turnos[s].estado = "ABIERTO"
           /\ cuentas[c].turno = NULL /\ cuentas[c].devueltaEn = NULL
           /\ ~cuentas[c].trasCierre /\ pagos[c] = SinPagos
           /\ ConCuenta(x) /\ ConMio(x) /\ s # NULL
           /\ cuentas' \in [Cuentas -> FilaCuenta]
           /\ cuentas'[c].estado = "PAGADA" /\ cuentas'[c].turno = s
           /\ cuentas'[c].devueltaEn = NULL /\ ~cuentas'[c].trasCierre
           /\ pagos' \in [Cuentas -> Cobro] /\ pagos'[c] = p
           /\ SoloCuenta(c)
<1>1. /\ tx[x].op = "COBRAR" /\ EnPaso(x, "escribir")
      /\ pagos' = [pagos EXCEPT ![c] = p]
      /\ cuentas' = [cuentas EXCEPT ![c].estado = "PAGADA", ![c].turno = s]
  BY DEF CobrarEscribir
<1>2. /\ c \in Cuentas /\ s \in Turnos /\ p \in Cobro /\ p \in Cobros(c)
      /\ cuentas[c].estado = "ABIERTA" /\ turnos[s].estado = "ABIERTO"
      /\ cuentas[c].turno = NULL /\ cuentas[c].devueltaEn = NULL
      /\ ~cuentas[c].trasCierre /\ pagos[c] = SinPagos
      /\ ConCuenta(x) /\ ConMio(x) /\ s # NULL
  BY <1>1, CobroEnCurso
<1>3. /\ cuentas' \in [Cuentas -> FilaCuenta]
      /\ cuentas'[c].estado = "PAGADA" /\ cuentas'[c].turno = s
      /\ cuentas'[c].devueltaEn = NULL /\ ~cuentas'[c].trasCierre
  BY <1>1, <1>2 DEF IInv, TypeOK, FilaCuenta
<1>4. pagos' \in [Cuentas -> Cobro] /\ pagos'[c] = p
  BY <1>1, <1>2 DEF IInv, TypeOK
<1>5. SoloCuenta(c)
  BY <1>1, <1>2 DEF SoloCuenta, IInv, TypeOK
<1> QED
  BY <1>2, <1>3, <1>4, <1>5

\* Charging: the shift it enters is open, and nobody is closing it.
LEMMA CobrarEscribirIInv ==
    ASSUME IInv, NEW x \in Conexiones, CobrarEscribir(x)
    PROVE  IInv'
<1>1. PICK c, s, p : c = tx[x].cuenta /\ s = tx[x].mio /\ p = tx[x].pagos
  OBVIOUS
<1>2. Terminar(x) /\ UNCHANGED <<turnos, ingresos, ajuste>>
  BY DEF CobrarEscribir
<1>3. /\ c \in Cuentas /\ s \in Turnos /\ p \in Cobro /\ p \in Cobros(c)
      /\ cuentas[c].estado = "ABIERTA" /\ turnos[s].estado = "ABIERTO"
      /\ cuentas[c].turno = NULL /\ cuentas[c].devueltaEn = NULL
      /\ ~cuentas[c].trasCierre /\ pagos[c] = SinPagos
      /\ ConCuenta(x) /\ ConMio(x) /\ s # NULL
  BY <1>1, AlCobrar
<1>4. /\ cuentas' \in [Cuentas -> FilaCuenta]
      /\ cuentas'[c].estado = "PAGADA" /\ cuentas'[c].turno = s
      /\ cuentas'[c].devueltaEn = NULL /\ ~cuentas'[c].trasCierre
  BY <1>1, AlCobrar
<1>5. pagos' \in [Cuentas -> Cobro] /\ pagos'[c] = p
  BY <1>1, AlCobrar
<1>6. SoloCuenta(c)
  BY <1>1, AlCobrar
<1>7. /\ tx' \in [Conexiones -> Transaccion]
      /\ \A y \in Conexiones \ {x} : tx'[y] = tx[y]
      /\ candados' \subseteq Candado /\ CandadosDeTx' /\ Exclusion'
      /\ (Cobrando(x) /\ Anulando(x) /\ Corrigiendo(x) /\ Cerrando(x))'
  BY <1>2, AlTerminar DEF IInv
<1>8. TypeOK'
  BY <1>2, <1>3, <1>4, <1>5, <1>6, <1>7 DEF IInv, TypeOK, SoloCuenta
<1>9. VentasBien'
  BY <1>2, <1>3, <1>4, <1>5, <1>6 DEF IInv, VentasBien, SoloCuenta
<1>10. TurnosBien'
  BY <1>2 DEF IInv, TurnosBien
<1>11. ASSUME NEW t \in Turnos, turnos[t].estado = "CERRADO"
       PROVE  /\ VendidoEn(t)' = VendidoEn(t)
              /\ \A m \in Metodos : SumaDe(Montos(m), Anuladas(t))' = SumaDe(Montos(m), Anuladas(t))
  <2>1. t # s /\ t # NULL
    BY <1>3, <1>11, CajaAssumption
  <2> QED
    BY <1>3, <1>4, <1>5, <1>6, <2>1, Ajeno DEF IInv, TypeOK
<1>12. IngresosCuadran'
  BY <1>2, <1>11 DEF IInv, IngresosCuadran
<1>13. CorteExplicaIngresos'
  BY <1>2, <1>11 DEF IInv, CorteExplicaIngresos, Anuladas
<1>14. ASSUME NEW y \in Conexiones \ {x}
       PROVE  (Cobrando(y) /\ Anulando(y) /\ Corrigiendo(y) /\ Cerrando(y))'
  <2>1. ConCuenta(y) => tx[y].cuenta # c
    BY <1>1, <1>3, Aparte
  <2>2. tx[y].op = "CERRAR" => tx[y].turno # s
    BY <1>1, <1>3, Aparte DEF ConTurno
  <2>3. tx[y].op = "CERRAR" => tx[y].turno # NULL
    BY CajaAssumption DEF IInv, VistoVigente, Cerrando
  <2> QED
    BY <1>2, <1>3, <1>4, <1>5, <1>6, <1>7, <2>1, <2>2, <2>3, OtrosSiguen
<1>15. VistoVigente'
  BY <1>7, <1>14 DEF VistoVigente
<1> QED
  BY <1>7, <1>8, <1>9, <1>10, <1>12, <1>13, <1>15 DEF IInv

\* Moving what Finanzas has of a closed shift by what the account moved gives
\* what the shift amounts to now: the amount cancelled is never one that
\* should have stayed.
LEMMA IngresosAlDia ==
    ASSUME NEW t, ingresos[t] = VendidoEn(t), VendidoEn(t) \in [Metodos -> Nat],
           VendidoEn(t)' \in [Metodos -> Nat], NEW delta,
           \A m \in Metodos : delta[m] \in Int /\ VendidoEn(t)'[m] = VendidoEn(t)[m] + delta[m]
    PROVE  IngresosMovidos(t, delta) = VendidoEn(t)'
<1>1. PICK v, w : v = VendidoEn(t) /\ w = VendidoEn(t)'
  OBVIOUS
<1>2. /\ v \in [Metodos -> Nat] /\ w \in [Metodos -> Nat] /\ ingresos[t] = v
      /\ \A m \in Metodos : delta[m] \in Int /\ w[m] = v[m] + delta[m]
  BY <1>1
<1>3. IngresosMovidos(t, delta) =
          [m \in Metodos |-> IF v[m] + delta[m] <= 0 THEN 0 ELSE v[m] + delta[m]]
  BY <1>2 DEF IngresosMovidos
<1>4. \A m \in Metodos : (IF v[m] + delta[m] <= 0 THEN 0 ELSE v[m] + delta[m]) = w[m]
  BY <1>2
<1>5. [m \in Metodos |-> IF v[m] + delta[m] <= 0 THEN 0 ELSE v[m] + delta[m]] = w
  BY <1>2, <1>4
<1> QED
  BY <1>1, <1>3, <1>5

\* What a transaction about to cancel has before it.
LEMMA AnulacionEnCurso ==
    ASSUME IInv, NEW x \in Conexiones, tx[x].op = "ANULAR", EnPaso(x, "escribir"),
           NEW c, c = tx[x].cuenta, NEW t, t = tx[x].turno, NEW d, d = tx[x].mio
    PROVE  /\ c \in Cuentas /\ t \in Turnos /\ d \in Turnos \cup {NULL}
           /\ cuentas[c].estado = "PAGADA" /\ cuentas[c].turno = t
           /\ cuentas[c].devueltaEn = NULL /\ ~cuentas[c].trasCierre
           /\ turnos[t].estado \in {"ABIERTO", "CERRADO"}
           /\ tx[x].cerrado \in BOOLEAN
           /\ tx[x].cerrado <=> turnos[t].estado = "CERRADO"
           /\ d = NULL => EfectivoDe(pagos[c]) = 0
           /\ d # NULL => turnos[d].estado = "ABIERTO"
           /\ ConCuenta(x) /\ ConTurno(x) /\ (d # NULL => ConMio(x))
<1>1. tx[x].paso = 3
  BY EnPasoEs DEF IInv
<1>2. tx[x] \in Transaccion /\ Tipada(tx[x])
  BY Registro DEF IInv, TypeOK
<1>3. Anulando(x)
  BY DEF IInv, VistoVigente
<1>4. c \in Cuentas /\ cuentas[c].estado = "PAGADA" /\ cuentas[c].turno = t
  BY <1>3 DEF Anulando
<1>5. /\ tx[x].cerrado <=> turnos[t].estado = "CERRADO"
      /\ IF d = NULL THEN pagos[c]["EFECTIVO"] = [monto |-> 0, propina |-> 0]
                     ELSE turnos[d].estado = "ABIERTO"
  BY <1>1, <1>3 DEF Anulando
<1>6. d \in Turnos \cup {NULL} /\ tx[x].cerrado \in BOOLEAN
  BY <1>2 DEF Tipada
<1>7. t \in Turnos /\ turnos[t].estado \in {"ABIERTO", "CERRADO"}
  BY <1>4 DEF IInv, TypeOK, VentasBien, FilaCuenta, FilaTurno
<1>8. cuentas[c].devueltaEn = NULL /\ ~cuentas[c].trasCierre
  BY <1>4 DEF IInv, VentasBien
<1>9. d = NULL => EfectivoDe(pagos[c]) = 0
  BY <1>5 DEF EfectivoDe
<1>10. ConCuenta(x) /\ ConTurno(x) /\ (d # NULL => ConMio(x))
  BY <1>1 DEF ConCuenta, ConTurno, ConMio
<1> QED
  BY <1>4, <1>5, <1>6, <1>7, <1>8, <1>9, <1>10

\* What cancelling a sale writes.
LEMMA AlAnular ==
    ASSUME IInv, NEW x \in Conexiones, AnularEscribir(x),
           NEW c, c = tx[x].cuenta, NEW t, t = tx[x].turno, NEW d, d = tx[x].mio,
           NEW z, z = tx[x].cerrado
    PROVE  /\ c \in Cuentas /\ t \in Turnos /\ d \in Turnos \cup {NULL}
           /\ cuentas[c].estado = "PAGADA" /\ cuentas[c].turno = t
           /\ cuentas[c].devueltaEn = NULL /\ ~cuentas[c].trasCierre
           /\ turnos[t].estado \in {"ABIERTO", "CERRADO"}
           /\ z \in BOOLEAN /\ (z <=> turnos[t].estado = "CERRADO")
           /\ d = NULL => EfectivoDe(pagos[c]) = 0
           /\ d # NULL => turnos[d].estado = "ABIERTO"
           /\ ConCuenta(x) /\ ConTurno(x) /\ (d # NULL => ConMio(x))
           /\ cuentas' \in [Cuentas -> FilaCuenta]
           /\ cuentas'[c].estado = "ANULADA" /\ cuentas'[c].turno = t
           /\ cuentas'[c].devueltaEn = d /\ cuentas'[c].trasCierre = z
           /\ SoloCuenta(c)
           /\ pagos \in [Cuentas -> Cobro] /\ pagos' \in [Cuentas -> Cobro]
<1>1. /\ tx[x].op = "ANULAR" /\ EnPaso(x, "escribir")
      /\ cuentas' = [cuentas EXCEPT ![c].estado = "ANULADA", ![c].devueltaEn = d,
                                    ![c].trasCierre = z]
      /\ pagos' = pagos
  BY DEF AnularEscribir
<1>2. /\ c \in Cuentas /\ t \in Turnos /\ d \in Turnos \cup {NULL}
      /\ cuentas[c].estado = "PAGADA" /\ cuentas[c].turno = t
      /\ cuentas[c].devueltaEn = NULL /\ ~cuentas[c].trasCierre
      /\ turnos[t].estado \in {"ABIERTO", "CERRADO"}
      /\ z \in BOOLEAN /\ (z <=> turnos[t].estado = "CERRADO")
      /\ d = NULL => EfectivoDe(pagos[c]) = 0
      /\ d # NULL => turnos[d].estado = "ABIERTO"
      /\ ConCuenta(x) /\ ConTurno(x) /\ (d # NULL => ConMio(x))
  BY <1>1, AnulacionEnCurso
<1>3. /\ cuentas' \in [Cuentas -> FilaCuenta]
      /\ cuentas'[c].estado = "ANULADA" /\ cuentas'[c].turno = t
      /\ cuentas'[c].devueltaEn = d /\ cuentas'[c].trasCierre = z
  <2>1. PICK q : q = cuentas[c]
    OBVIOUS
  <2>2. PICK f : f = [q EXCEPT !.estado = "ANULADA", !.devueltaEn = d, !.trasCierre = z]
    OBVIOUS
  <2>3. q \in FilaCuenta
    BY <1>2, <2>1 DEF IInv, TypeOK
  <2>4. f.estado = "ANULADA" /\ f.turno = q.turno /\ f.devueltaEn = d /\ f.trasCierre = z
    BY <2>2, <2>3 DEF FilaCuenta
  <2>5. f = [estado |-> f.estado, turno |-> f.turno, devueltaEn |-> f.devueltaEn,
             trasCierre |-> f.trasCierre]
    BY <2>2, <2>3 DEF FilaCuenta
  <2>6. f \in FilaCuenta
    BY <1>2, <2>3, <2>4, <2>5 DEF FilaCuenta
  <2>7. cuentas' = [cuentas EXCEPT ![c] = f]
    BY <1>1, <2>1, <2>2
  <2> QED
    BY <1>2, <2>1, <2>4, <2>6, <2>7 DEF IInv, TypeOK
<1>4. SoloCuenta(c)
  BY <1>1, <1>2 DEF SoloCuenta, IInv, TypeOK
<1>5. pagos \in [Cuentas -> Cobro] /\ pagos' \in [Cuentas -> Cobro]
  BY <1>1 DEF IInv, TypeOK
<1> QED
  BY <1>2, <1>3, <1>4, <1>5

\* Cancelling: Finanzas of the shift of the sale moves with it once it is
\* closed, and the shift stays as it was seen.
LEMMA AnularEscribirIInv ==
    ASSUME IInv, NEW x \in Conexiones, AnularEscribir(x)
    PROVE  IInv'
<1>1. PICK c, t, d, z : c = tx[x].cuenta /\ t = tx[x].turno /\ d = tx[x].mio /\ z = tx[x].cerrado
  OBVIOUS
<1>2. /\ ingresos' = IF z THEN [ingresos EXCEPT ![t] =
                                    IngresosMovidos(t, DeltaMontos(pagos[c], SinPagos))]
                     ELSE ingresos
      /\ Terminar(x)
      /\ UNCHANGED <<turnos, pagos, ajuste>>
  BY <1>1 DEF AnularEscribir
<1>3. /\ c \in Cuentas /\ t \in Turnos /\ d \in Turnos \cup {NULL}
      /\ cuentas[c].estado = "PAGADA" /\ cuentas[c].turno = t
      /\ cuentas[c].devueltaEn = NULL /\ ~cuentas[c].trasCierre
      /\ turnos[t].estado \in {"ABIERTO", "CERRADO"}
      /\ z \in BOOLEAN /\ (z <=> turnos[t].estado = "CERRADO")
      /\ d # NULL => turnos[d].estado = "ABIERTO"
      /\ ConCuenta(x) /\ ConTurno(x) /\ (d # NULL => ConMio(x))
  BY <1>1, AlAnular
<1>4. /\ cuentas' \in [Cuentas -> FilaCuenta]
      /\ cuentas'[c].estado = "ANULADA" /\ cuentas'[c].turno = t
      /\ cuentas'[c].devueltaEn = d /\ cuentas'[c].trasCierre = z
  BY <1>1, AlAnular
<1>5. SoloCuenta(c)
  BY <1>1, AlAnular
<1>6. /\ tx' \in [Conexiones -> Transaccion]
      /\ \A y \in Conexiones \ {x} : tx'[y] = tx[y]
      /\ candados' \subseteq Candado /\ CandadosDeTx' /\ Exclusion'
      /\ (Cobrando(x) /\ Anulando(x) /\ Corrigiendo(x) /\ Cerrando(x))'
  BY <1>2, AlTerminar DEF IInv
<1>7. pagos \in [Cuentas -> Cobro] /\ pagos' \in [Cuentas -> Cobro]
  BY <1>2 DEF IInv, TypeOK
<1>8. /\ c \in VigentesDe(t) /\ c \notin VigentesDe(t)'
      /\ c \notin Anuladas(t) /\ (c \in Anuladas(t)' <=> z)
  BY <1>3, <1>4 DEF VigentesDe, DelTurno, Anuladas
<1>9. \A m \in Metodos : pagos[c][m].monto \in Nat /\ pagos'[c][m].monto = pagos[c][m].monto
  BY <1>2, <1>3, <1>7, ImportesDe
<1>10. /\ VendidoEn(t) \in [Metodos -> Nat] /\ VendidoEn(t)' \in [Metodos -> Nat]
       /\ \A m \in Metodos : SumaDe(Montos(m), Anuladas(t)) \in Nat
       /\ \A m \in Metodos : VendidoEn(t)'[m] = VendidoEn(t)[m] - pagos[c][m].monto
  <2>1. /\ VendidoEn(t) \in [Metodos -> Nat] /\ VendidoEn(t)' \in [Metodos -> Nat]
        /\ \A m \in Metodos : SumaDe(Montos(m), Anuladas(t)) \in Nat
    BY <1>3, <1>5, <1>7, TotalesBien, Mueve
  <2>2. ASSUME NEW m \in Metodos
        PROVE  VendidoEn(t)'[m] = VendidoEn(t)[m] - pagos[c][m].monto
    <3>1. VendidoEn(t)'[m] = VendidoEn(t)[m] + 0 - pagos[c][m].monto
      BY <1>3, <1>5, <1>7, <1>8, Mueve
    <3>2. VendidoEn(t)[m] \in Nat
      BY <2>1
    <3> QED
      BY <1>9, <3>1, <3>2
  <2> QED
    BY <2>1, <2>2
<1>11. z => ingresos'[t] = VendidoEn(t)'
  <2> SUFFICES ASSUME z PROVE ingresos'[t] = VendidoEn(t)'
    OBVIOUS
  <2>1. PICK delta : delta = DeltaMontos(pagos[c], SinPagos)
    OBVIOUS
  <2>2. \A m \in Metodos : delta[m] = 0 - pagos[c][m].monto
    BY <2>1 DEF DeltaMontos, SinPagos
  <2>3. ingresos[t] = VendidoEn(t)
    BY <1>3 DEF IInv, IngresosCuadran
  <2>4. \A m \in Metodos : delta[m] \in Int /\ VendidoEn(t)'[m] = VendidoEn(t)[m] + delta[m]
    BY <1>9, <1>10, <2>2
  <2>5. IngresosMovidos(t, delta) = VendidoEn(t)'
    BY <1>10, <2>3, <2>4, IngresosAlDia
  <2> QED
    BY <1>2, <1>3, <2>1, <2>5 DEF IInv, TypeOK
<1>12. \A s \in Turnos \ {t} : ingresos'[s] = ingresos[s]
  BY <1>2 DEF IInv, TypeOK
<1>13. ~z => ingresos' = ingresos
  BY <1>2
<1>14. ingresos' \in [Turnos -> [Metodos -> Nat]]
  <2>1. CASE z
    BY <1>2, <1>3, <1>10, <1>11, <1>12, <2>1 DEF IInv, TypeOK
  <2>2. CASE ~z
    BY <1>13, <2>2 DEF IInv, TypeOK
  <2> QED
    BY <1>3, <2>1, <2>2
<1>15. TypeOK'
  <2>1. \A e \in Cuentas : cuentas'[e].turno # NULL <=> cuentas'[e].estado \in {"PAGADA", "ANULADA"}
    <3>1. t # NULL
      BY <1>3, CajaAssumption
    <3> QED
      BY <1>3, <1>4, <1>5, <3>1 DEF IInv, TypeOK, SoloCuenta
  <2> QED
    BY <1>2, <1>4, <1>6, <1>7, <1>14, <2>1 DEF IInv, TypeOK
<1>16. VentasBien'
  <2>1. \A e \in Cuentas \ {c} : cuentas'[e] = cuentas[e]
    BY <1>5 DEF SoloCuenta
  <2>2. turnos' = turnos /\ pagos' = pagos
    BY <1>2
  <2> QED
    BY <1>3, <1>4, <2>1, <2>2 DEF IInv, VentasBien
<1>17. TurnosBien'
  BY <1>2 DEF IInv, TurnosBien
<1>18. ASSUME NEW s \in Turnos \ {t}, turnos[s].estado = "CERRADO"
       PROVE  /\ VendidoEn(s)' = VendidoEn(s)
              /\ \A m \in Metodos : SumaDe(Montos(m), Anuladas(s))' = SumaDe(Montos(m), Anuladas(s))
  <2>1. s # d /\ s # NULL
    BY <1>3, <1>18, CajaAssumption
  <2> QED
    BY <1>3, <1>4, <1>5, <1>7, <2>1, Ajeno
<1>19. IngresosCuadran'
  <2> SUFFICES ASSUME NEW s \in Turnos, turnos'[s].estado = "CERRADO"
               PROVE  ingresos'[s] = VendidoEn(s)'
    BY DEF IngresosCuadran
  <2>1. CASE s = t
    BY <1>2, <1>3, <1>11, <2>1
  <2>2. CASE s # t
    BY <1>2, <1>12, <1>18, <2>2 DEF IInv, IngresosCuadran
  <2> QED
    BY <2>1, <2>2
<1>20. CorteExplicaIngresos'
  <2> SUFFICES ASSUME NEW s \in Turnos, NEW m \in Metodos, turnos'[s].estado = "CERRADO"
               PROVE  turnos'[s].resumen.montos[m] + ajuste'[s].montos[m] =
                          ingresos'[s][m] + SumaDe(Montos(m), Anuladas(s))'
    BY DEF CorteExplicaIngresos, Anuladas
  <2>1. turnos[s].resumen.montos[m] + ajuste[s].montos[m] =
            ingresos[s][m] + SumaDe(Montos(m), Anuladas(s))
    BY <1>2 DEF IInv, CorteExplicaIngresos, Anuladas
  <2>2. CASE s = t
    <3>1. z
      BY <1>2, <1>3, <2>2
    <3>2. SumaDe(Montos(m), Anuladas(t))' =
              SumaDe(Montos(m), Anuladas(t)) + pagos'[c][m].monto - 0
      BY <1>3, <1>5, <1>7, <1>8, <3>1, Mueve
    <3>3. ingresos'[t][m] = ingresos[t][m] - pagos[c][m].monto
      BY <1>2, <1>3, <1>10, <1>11, <3>1 DEF IInv, IngresosCuadran
    <3>4. ingresos[t][m] \in Nat /\ SumaDe(Montos(m), Anuladas(t)) \in Nat
      BY <1>3, <1>10 DEF IInv, TypeOK
    <3> QED
      BY <1>2, <1>9, <2>1, <2>2, <3>2, <3>3, <3>4
  <2>3. CASE s # t
    BY <1>2, <1>12, <1>18, <2>1, <2>3
  <2> QED
    BY <2>2, <2>3
<1>21. ASSUME NEW y \in Conexiones \ {x}
       PROVE  (Cobrando(y) /\ Anulando(y) /\ Corrigiendo(y) /\ Cerrando(y))'
  <2>1. ConCuenta(y) => tx[y].cuenta # c
    BY <1>1, <1>3, Aparte
  <2>2. tx[y].op = "CERRAR" => tx[y].turno # t /\ (d # NULL => tx[y].turno # d)
    BY <1>1, <1>3, Aparte DEF ConTurno
  <2>3. tx[y].op = "CERRAR" => tx[y].turno # NULL
    BY CajaAssumption DEF IInv, VistoVigente, Cerrando
  <2> QED
    BY <1>2, <1>3, <1>4, <1>5, <1>6, <1>7, <2>1, <2>2, <2>3, OtrosSiguen
<1>22. VistoVigente'
  BY <1>6, <1>21 DEF VistoVigente
<1> QED
  BY <1>6, <1>15, <1>16, <1>17, <1>19, <1>20, <1>22 DEF IInv

\* What a transaction about to correct a payment has before it.
LEMMA CorreccionEnCurso ==
    ASSUME IInv, NEW x \in Conexiones, tx[x].op = "CORREGIR", EnPaso(x, "escribir"),
           NEW c, c = tx[x].cuenta, NEW t, t = tx[x].turno, NEW p, p = tx[x].pagos
    PROVE  /\ c \in Cuentas /\ t \in Turnos /\ p \in Cobro /\ p \in Cobros(c)
           /\ cuentas[c].estado = "PAGADA" /\ cuentas[c].turno = t
           /\ cuentas[c].devueltaEn = NULL /\ ~cuentas[c].trasCierre
           /\ turnos[t].estado \in {"ABIERTO", "CERRADO"}
           /\ tx[x].cerrado \in BOOLEAN
           /\ tx[x].cerrado <=> turnos[t].estado = "CERRADO"
           /\ ConCuenta(x) /\ ConTurno(x)
<1>1. tx[x].paso = 2
  BY EnPasoEs DEF IInv
<1>2. tx[x] \in Transaccion /\ Tipada(tx[x])
  BY Registro DEF IInv, TypeOK
<1>3. Corrigiendo(x)
  BY DEF IInv, VistoVigente
<1>4. /\ c \in Cuentas /\ cuentas[c].estado = "PAGADA" /\ cuentas[c].turno = t
      /\ p \in Cobros(c)
  BY <1>3 DEF Corrigiendo
<1>5. tx[x].cerrado <=> turnos[t].estado = "CERRADO"
  BY <1>1, <1>3 DEF Corrigiendo
<1>6. tx[x].cerrado \in BOOLEAN /\ p \in Cobro
  BY <1>2 DEF Tipada
<1>7. t \in Turnos /\ turnos[t].estado \in {"ABIERTO", "CERRADO"}
  BY <1>4 DEF IInv, TypeOK, VentasBien, FilaCuenta, FilaTurno
<1>8. cuentas[c].devueltaEn = NULL /\ ~cuentas[c].trasCierre
  BY <1>4 DEF IInv, VentasBien
<1>9. ConCuenta(x) /\ ConTurno(x)
  BY <1>1 DEF ConCuenta, ConTurno
<1> QED
  BY <1>4, <1>5, <1>6, <1>7, <1>8, <1>9

\* What putting a payment right writes of the account, and by how much it
\* moves the shift.
LEMMA AlCorregir ==
    ASSUME IInv, NEW x \in Conexiones, CorregirEscribir(x),
           NEW c, c = tx[x].cuenta, NEW t, t = tx[x].turno, NEW p, p = tx[x].pagos,
           NEW z, z = tx[x].cerrado, NEW delta, delta = DeltaMontos(pagos[c], p),
           NEW de, de = DeltaEfectivo(pagos[c], p)
    PROVE  /\ c \in Cuentas /\ t \in Turnos /\ p \in Cobro /\ p \in Cobros(c)
           /\ cuentas[c].estado = "PAGADA" /\ cuentas[c].turno = t
           /\ cuentas[c].devueltaEn = NULL /\ ~cuentas[c].trasCierre
           /\ turnos[t].estado \in {"ABIERTO", "CERRADO"}
           /\ z \in BOOLEAN /\ (z <=> turnos[t].estado = "CERRADO")
           /\ ConCuenta(x) /\ ConTurno(x)
           /\ pagos \in [Cuentas -> Cobro] /\ pagos' \in [Cuentas -> Cobro] /\ pagos'[c] = p
           /\ SoloCuenta(c)
           /\ \A m \in Metodos : /\ pagos[c][m].monto \in Nat /\ p[m].monto \in Nat
                                 /\ delta[m] = p[m].monto - pagos[c][m].monto
                                 /\ delta[m] \in Int
           /\ EfectivoDe(pagos[c]) \in Nat /\ EfectivoDe(p) \in Nat
           /\ de = EfectivoDe(p) - EfectivoDe(pagos[c]) /\ de \in Int
<1>1. /\ tx[x].op = "CORREGIR" /\ EnPaso(x, "escribir")
      /\ pagos' = [pagos EXCEPT ![c] = p] /\ cuentas' = cuentas
  BY DEF CorregirEscribir
<1>2. /\ c \in Cuentas /\ t \in Turnos /\ p \in Cobro /\ p \in Cobros(c)
      /\ cuentas[c].estado = "PAGADA" /\ cuentas[c].turno = t
      /\ cuentas[c].devueltaEn = NULL /\ ~cuentas[c].trasCierre
      /\ turnos[t].estado \in {"ABIERTO", "CERRADO"}
      /\ z \in BOOLEAN /\ (z <=> turnos[t].estado = "CERRADO")
      /\ ConCuenta(x) /\ ConTurno(x)
  BY <1>1, CorreccionEnCurso
<1>3. /\ pagos \in [Cuentas -> Cobro] /\ pagos' \in [Cuentas -> Cobro] /\ pagos'[c] = p
      /\ SoloCuenta(c)
  BY <1>1, <1>2 DEF IInv, TypeOK, SoloCuenta
<1>4. /\ \A m \in Metodos : /\ pagos[c][m].monto \in Nat /\ p[m].monto \in Nat
                            /\ delta[m] = p[m].monto - pagos[c][m].monto
                            /\ delta[m] \in Int
      /\ EfectivoDe(pagos[c]) \in Nat /\ EfectivoDe(p) \in Nat
      /\ de = EfectivoDe(p) - EfectivoDe(pagos[c]) /\ de \in Int
  <2>1. /\ \A m \in Metodos : pagos[c][m].monto \in Nat
        /\ EfectivoDe(pagos[c]) \in Nat
    BY <1>2, <1>3, ImportesDe
  <2>2. /\ \A m \in Metodos : p[m].monto \in Nat
        /\ EfectivoDe(p) \in Nat
    <3>1. PICK P \in [Cuentas -> Cobro] : P = pagos'
      BY <1>3
    <3> QED
      BY <1>2, <1>3, <3>1, ImportesDe
  <2> QED
    BY <2>1, <2>2 DEF DeltaMontos, DeltaEfectivo
<1> QED
  BY <1>2, <1>3, <1>4

\* Putting a payment right: Finanzas and the corrections of the shift of the
\* sale move with it once it is closed.
LEMMA CorregirEscribirIInv ==
    ASSUME IInv, NEW x \in Conexiones, CorregirEscribir(x)
    PROVE  IInv'
<1>1. PICK c, t, p, z : c = tx[x].cuenta /\ t = tx[x].turno /\ p = tx[x].pagos /\ z = tx[x].cerrado
  OBVIOUS
<1>2. PICK delta, de : delta = DeltaMontos(pagos[c], p) /\ de = DeltaEfectivo(pagos[c], p)
  OBVIOUS
<1>3. /\ z => /\ ingresos' = [ingresos EXCEPT ![t] = IngresosMovidos(t, delta)]
              /\ ajuste' = [ajuste EXCEPT
                     ![t].montos = [m \in Metodos |-> @[m] + delta[m]],
                     ![t].efectivo = @ + de]
      /\ ~z => ingresos' = ingresos /\ ajuste' = ajuste
      /\ Terminar(x)
      /\ UNCHANGED <<turnos, cuentas>>
  BY <1>1, <1>2 DEF CorregirEscribir
<1>4. /\ c \in Cuentas /\ t \in Turnos /\ p \in Cobro /\ p \in Cobros(c)
      /\ cuentas[c].estado = "PAGADA" /\ cuentas[c].turno = t
      /\ cuentas[c].devueltaEn = NULL /\ ~cuentas[c].trasCierre
      /\ turnos[t].estado \in {"ABIERTO", "CERRADO"}
      /\ z \in BOOLEAN /\ (z <=> turnos[t].estado = "CERRADO")
      /\ ConCuenta(x) /\ ConTurno(x)
  BY <1>1, <1>2, AlCorregir
<1>5. /\ pagos \in [Cuentas -> Cobro] /\ pagos' \in [Cuentas -> Cobro] /\ pagos'[c] = p
      /\ SoloCuenta(c)
  BY <1>1, <1>2, AlCorregir
<1>6. /\ tx' \in [Conexiones -> Transaccion]
      /\ \A y \in Conexiones \ {x} : tx'[y] = tx[y]
      /\ candados' \subseteq Candado /\ CandadosDeTx' /\ Exclusion'
      /\ (Cobrando(x) /\ Anulando(x) /\ Corrigiendo(x) /\ Cerrando(x))'
  BY <1>3, AlTerminar DEF IInv
<1>7. /\ \A m \in Metodos : /\ pagos[c][m].monto \in Nat /\ p[m].monto \in Nat
                            /\ delta[m] = p[m].monto - pagos[c][m].monto
                            /\ delta[m] \in Int
      /\ EfectivoDe(pagos[c]) \in Nat /\ EfectivoDe(p) \in Nat
      /\ de = EfectivoDe(p) - EfectivoDe(pagos[c]) /\ de \in Int
  BY <1>1, <1>2, AlCorregir
<1>8. /\ c \in VigentesDe(t) /\ c \in VigentesDe(t)'
      /\ c \notin Anuladas(t) /\ c \notin Anuladas(t)'
  BY <1>3, <1>4 DEF VigentesDe, DelTurno, Anuladas
<1>9. /\ VendidoEn(t) \in [Metodos -> Nat] /\ VendidoEn(t)' \in [Metodos -> Nat]
      /\ \A m \in Metodos : SumaDe(Montos(m), Anuladas(t)) \in Nat
  BY <1>4, <1>5, TotalesBien, Mueve
<1>10. ASSUME NEW m \in Metodos
       PROVE  /\ VendidoEn(t)'[m] = VendidoEn(t)[m] + delta[m]
              /\ SumaDe(Montos(m), Anuladas(t))' = SumaDe(Montos(m), Anuladas(t))
  <2>1. VendidoEn(t)'[m] = VendidoEn(t)[m] + pagos'[c][m].monto - pagos[c][m].monto
    BY <1>4, <1>5, <1>8, Mueve
  <2>2. SumaDe(Montos(m), Anuladas(t))' = SumaDe(Montos(m), Anuladas(t)) + 0 - 0
    BY <1>4, <1>5, <1>8, Mueve
  <2> QED
    BY <1>5, <1>7, <1>9, <2>1, <2>2
<1>11. z => ingresos'[t] = VendidoEn(t)'
  <2> SUFFICES ASSUME z PROVE ingresos'[t] = VendidoEn(t)'
    OBVIOUS
  <2>1. ingresos[t] = VendidoEn(t)
    BY <1>4 DEF IInv, IngresosCuadran
  <2>2. IngresosMovidos(t, delta) = VendidoEn(t)'
    BY <1>7, <1>9, <1>10, <2>1, IngresosAlDia
  <2> QED
    BY <1>3, <1>4, <2>2 DEF IInv, TypeOK
<1>12. /\ \A s \in Turnos \ {t} : ingresos'[s] = ingresos[s] /\ ajuste'[s] = ajuste[s]
       /\ ingresos' \in [Turnos -> [Metodos -> Nat]]
       /\ ajuste' \in [Turnos -> [montos : [Metodos -> Int], efectivo : Int]]
       /\ z => \A m \in Metodos : ajuste'[t].montos[m] = ajuste[t].montos[m] + delta[m]
  <2>1. CASE ~z
    BY <1>3, <2>1 DEF IInv, TypeOK
  <2>2. CASE z
    <3>1. /\ \A s \in Turnos \ {t} : ingresos'[s] = ingresos[s]
          /\ ingresos' \in [Turnos -> [Metodos -> Nat]]
      <4>1. PICK w : w = IngresosMovidos(t, delta)
        OBVIOUS
      <4>2. ingresos' = [ingresos EXCEPT ![t] = w]
        BY <1>3, <2>2, <4>1
      <4>3. ingresos \in [Turnos -> [Metodos -> Nat]]
        BY DEF IInv, TypeOK
      <4>4. ingresos'[t] = w
        BY <1>4, <4>2, <4>3
      <4>5. w \in [Metodos -> Nat]
        BY <1>9, <1>11, <2>2, <4>4
      <4> QED
        BY <4>2, <4>3, <4>5
    <3>2. PICK q : q = ajuste[t]
      OBVIOUS
    <3>3. PICK a : a = [m \in Metodos |-> q.montos[m] + delta[m]]
      OBVIOUS
    <3>4. PICK r : r = [q EXCEPT !.montos = a, !.efectivo = q.efectivo + de]
      OBVIOUS
    <3>5. q \in [montos : [Metodos -> Int], efectivo : Int]
      BY <1>4, <3>2 DEF IInv, TypeOK
    <3>6. a \in [Metodos -> Int]
      BY <1>7, <3>3, <3>5
    <3>7. r = [montos |-> a, efectivo |-> q.efectivo + de]
      BY <3>4, <3>5
    <3>8. r \in [montos : [Metodos -> Int], efectivo : Int]
      BY <1>7, <3>5, <3>6, <3>7
    <3>9. ajuste' = [ajuste EXCEPT ![t] = r]
      BY <1>3, <2>2, <3>2, <3>3, <3>4
    <3>10. r.montos = a
      BY <3>7
    <3>11. /\ \A s \in Turnos \ {t} : ajuste'[s] = ajuste[s]
           /\ ajuste' \in [Turnos -> [montos : [Metodos -> Int], efectivo : Int]]
           /\ ajuste'[t] = r
      BY <1>4, <3>8, <3>9 DEF IInv, TypeOK
    <3> QED
      BY <3>1, <3>2, <3>3, <3>10, <3>11
  <2> QED
    BY <2>1, <2>2
<1>13. TypeOK'
  BY <1>3, <1>5, <1>6, <1>12 DEF IInv, TypeOK
<1>14. VentasBien'
  BY <1>3, <1>4, <1>5 DEF IInv, VentasBien, SoloCuenta
<1>15. TurnosBien'
  <2>1. \A s \in Turnos : turnos[s].estado # "CERRADO" => ajuste'[s] = ajuste[s]
    BY <1>3, <1>4, <1>12
  <2> QED
    BY <1>3, <2>1 DEF IInv, TurnosBien
<1>16. ASSUME NEW s \in Turnos \ {t}
       PROVE  /\ VendidoEn(s)' = VendidoEn(s)
              /\ \A m \in Metodos : SumaDe(Montos(m), Anuladas(s))' = SumaDe(Montos(m), Anuladas(s))
  <2>1. s # NULL
    BY CajaAssumption
  <2> QED
    BY <1>3, <1>4, <1>5, <2>1, Ajeno
<1>17. IngresosCuadran'
  <2> SUFFICES ASSUME NEW s \in Turnos, turnos'[s].estado = "CERRADO"
               PROVE  ingresos'[s] = VendidoEn(s)'
    BY DEF IngresosCuadran
  <2>1. CASE s = t
    BY <1>3, <1>4, <1>11, <2>1
  <2>2. CASE s # t
    BY <1>3, <1>12, <1>16, <2>2 DEF IInv, IngresosCuadran
  <2> QED
    BY <2>1, <2>2
<1>18. CorteExplicaIngresos'
  <2> SUFFICES ASSUME NEW s \in Turnos, NEW m \in Metodos, turnos'[s].estado = "CERRADO"
               PROVE  turnos'[s].resumen.montos[m] + ajuste'[s].montos[m] =
                          ingresos'[s][m] + SumaDe(Montos(m), Anuladas(s))'
    BY DEF CorteExplicaIngresos, Anuladas
  <2>1. turnos[s].resumen.montos[m] + ajuste[s].montos[m] =
            ingresos[s][m] + SumaDe(Montos(m), Anuladas(s))
    BY <1>3 DEF IInv, CorteExplicaIngresos, Anuladas
  <2>2. CASE s = t
    <3>1. z
      BY <1>3, <1>4, <2>2
    <3>2. ingresos'[t][m] = ingresos[t][m] + delta[m]
      BY <1>3, <1>4, <1>10, <1>11, <3>1 DEF IInv, IngresosCuadran
    <3>3. ajuste'[t].montos[m] = ajuste[t].montos[m] + delta[m]
      BY <1>12, <3>1
    <3>4. /\ ingresos[t][m] \in Nat /\ SumaDe(Montos(m), Anuladas(t)) \in Nat
          /\ ajuste[t].montos[m] \in Int /\ turnos[t].resumen.montos[m] \in Nat
      <4>1. turnos[t].resumen \in Corte
        BY <1>4 DEF IInv, TypeOK, FilaTurno
      <4> QED
        BY <1>4, <1>9, <4>1 DEF IInv, TypeOK, Corte
    <3> QED
      BY <1>3, <1>7, <1>10, <2>1, <2>2, <3>2, <3>3, <3>4
  <2>3. CASE s # t
    BY <1>3, <1>12, <1>16, <2>1, <2>3
  <2> QED
    BY <2>2, <2>3
<1>19. ASSUME NEW y \in Conexiones \ {x}
       PROVE  (Cobrando(y) /\ Anulando(y) /\ Corrigiendo(y) /\ Cerrando(y))'
  <2>1. ConCuenta(y) => tx[y].cuenta # c
    BY <1>1, <1>4, Aparte
  <2>2. tx[y].op = "CERRAR" => tx[y].turno # t
    BY <1>1, <1>4, Aparte DEF ConTurno
  <2>3. tx[y].op = "CERRAR" => tx[y].turno # NULL
    BY CajaAssumption DEF IInv, VistoVigente, Cerrando
  <2> QED
    BY <1>3, <1>4, <1>5, <1>6, <2>1, <2>2, <2>3, OtrosSiguen
<1>20. VistoVigente'
  BY <1>6, <1>19 DEF VistoVigente
<1> QED
  BY <1>6, <1>13, <1>14, <1>15, <1>17, <1>18, <1>20 DEF IInv

\* What a transaction about to close the shift t has before it.
LEMMA CierreListo ==
    ASSUME IInv, NEW x \in Conexiones, tx[x].op = "CERRAR", EnPaso(x, "escribir"),
           NEW t, t = tx[x].turno
    PROVE  /\ t \in Turnos /\ turnos[t].estado = "ABIERTO" /\ ConTurno(x)
           /\ turnos[t].fondo \in Nat
           /\ tx[x].corte \in Corte /\ tx[x].entregadas \in Entregas
           /\ tx[x].corte.montos = VendidoEn(t)
           /\ tx[x].corte.propinas = PropinasDe(t)
           /\ tx[x].corte.efectivo = turnos[t].fondo + EfectivoIngresado(t) - EfectivoDevuelto(t)
<1>1. tx[x].paso = 5
  BY EnPasoEs DEF IInv
<1>2. /\ Tipada(tx[x]) /\ t \in Turnos /\ turnos[t].estado = "ABIERTO"
      /\ turnos[t].fondo \in Nat /\ CorteAlDia(tx[x])
  BY CierreEnCurso
<1> QED
  BY <1>1, <1>2 DEF Tipada, CorteAlDia, ConTurno

\* Nothing was sold in t and cancelled after it closed, while it is open.
LEMMA SinAnuladas ==
    ASSUME IInv, NEW t \in Turnos, turnos[t].estado # "CERRADO"
    PROVE  Anuladas(t) = {}
BY DEF IInv, VentasBien, Anuladas, DelTurno

\* Closing: Finanzas gets what the shift amounts to.
LEMMA CerrarEscribirIInv ==
    ASSUME IInv, NEW x \in Conexiones, CerrarEscribir(x)
    PROVE  IInv'
<1>1. PICK t : t = tx[x].turno
  OBVIOUS
<1>2. PICK k : k = [tx[x].corte EXCEPT !.efectivo = @ - tx[x].entregadas]
  OBVIOUS
<1>3. /\ tx[x].op = "CERRAR" /\ EnPaso(x, "escribir")
      /\ turnos' = [turnos EXCEPT ![t].estado = "CERRADO", ![t].resumen = k]
      /\ ingresos' = [ingresos EXCEPT ![t] = k.montos]
      /\ Terminar(x)
      /\ UNCHANGED <<cuentas, pagos, ajuste>>
  BY <1>1, <1>2 DEF CerrarEscribir
<1>4. /\ t \in Turnos /\ turnos[t].estado = "ABIERTO" /\ ConTurno(x)
      /\ tx[x].corte \in Corte /\ tx[x].entregadas \in Entregas
      /\ tx[x].corte.montos = VendidoEn(t)
  BY <1>1, <1>3, CierreListo
<1>5. k \in Corte /\ k.montos = VendidoEn(t)
  <2>1. Entregas \subseteq Nat
    BY CajaAssumption
  <2>2. tx[x].entregadas \in Nat
    BY <1>4, <2>1
  <2> QED
    BY <1>2, <1>4, <2>2 DEF Corte
<1>6. /\ turnos' \in [Turnos -> FilaTurno]
      /\ turnos'[t].estado = "CERRADO" /\ turnos'[t].resumen = k
      /\ \A s \in Turnos \ {t} : turnos'[s] = turnos[s]
  <2>1. PICK q : q = turnos[t]
    OBVIOUS
  <2>2. PICK f : f = [q EXCEPT !.estado = "CERRADO", !.resumen = k]
    OBVIOUS
  <2>3. q \in FilaTurno
    BY <1>4, <2>1 DEF IInv, TypeOK
  <2>4. f = [estado |-> "CERRADO", usuario |-> q.usuario, fondo |-> q.fondo, resumen |-> k]
    BY <2>2, <2>3 DEF FilaTurno
  <2>5. f \in FilaTurno /\ f.estado = "CERRADO" /\ f.resumen = k
    BY <1>5, <2>3, <2>4 DEF FilaTurno
  <2>6. turnos' = [turnos EXCEPT ![t] = f]
    BY <1>3, <2>1, <2>2
  <2> QED
    BY <1>4, <2>5, <2>6 DEF IInv, TypeOK
<1>7. /\ tx' \in [Conexiones -> Transaccion]
      /\ \A y \in Conexiones \ {x} : tx'[y] = tx[y]
      /\ candados' \subseteq Candado /\ CandadosDeTx' /\ Exclusion'
      /\ (Cobrando(x) /\ Anulando(x) /\ Corrigiendo(x) /\ Cerrando(x))'
  BY <1>3, AlTerminar DEF IInv
<1>8. /\ ingresos' \in [Turnos -> [Metodos -> Nat]] /\ ingresos'[t] = VendidoEn(t)
      /\ \A s \in Turnos \ {t} : ingresos'[s] = ingresos[s]
  <2>1. VendidoEn(t) \in [Metodos -> Nat]
    BY TotalesBien DEF IInv, TypeOK
  <2> QED
    BY <1>3, <1>4, <1>5, <2>1 DEF IInv, TypeOK
<1>9. TypeOK'
  BY <1>3, <1>6, <1>7, <1>8 DEF IInv, TypeOK
<1>10. \A s \in Turnos : /\ VendidoEn(s)' = VendidoEn(s)
                         /\ \A m : SumaDe(Montos(m), Anuladas(s))' = SumaDe(Montos(m), Anuladas(s))
  BY <1>3, ConsultasIguales DEF Anuladas
<1>11. VentasBien'
  <2>1. \A c \in Cuentas : /\ cuentas[c].turno \in Turnos \cup {NULL}
                           /\ cuentas[c].devueltaEn \in Turnos \cup {NULL}
                           /\ cuentas[c].trasCierre => cuentas[c].turno # NULL
    BY DEF IInv, TypeOK, FilaCuenta, VentasBien
  <2> QED
    BY <1>3, <1>4, <1>6, <2>1 DEF IInv, VentasBien
<1>12. TurnosBien'
  BY <1>3, <1>4, <1>6 DEF IInv, TurnosBien
<1>13. IngresosCuadran'
  <2> SUFFICES ASSUME NEW s \in Turnos, turnos'[s].estado = "CERRADO"
               PROVE  ingresos'[s] = VendidoEn(s)'
    BY DEF IngresosCuadran
  <2>1. CASE s = t
    BY <1>4, <1>8, <1>10, <2>1
  <2>2. CASE s # t
    BY <1>6, <1>8, <1>10, <2>2 DEF IInv, IngresosCuadran
  <2> QED
    BY <2>1, <2>2
<1>14. CorteExplicaIngresos'
  <2> SUFFICES ASSUME NEW s \in Turnos, NEW m \in Metodos, turnos'[s].estado = "CERRADO"
               PROVE  turnos'[s].resumen.montos[m] + ajuste'[s].montos[m] =
                          ingresos'[s][m] + SumaDe(Montos(m), Anuladas(s))'
    BY DEF CorteExplicaIngresos, Anuladas
  <2>1. CASE s = t
    <3>1. SumaDe(Montos(m), Anuladas(t))' = 0
      BY <1>4, <1>10, SinAnuladas, SumaVacia
    <3>2. ajuste'[t].montos[m] = 0
      BY <1>3, <1>4 DEF IInv, TurnosBien, SinMontos
    <3>3. ingresos'[t][m] = turnos'[t].resumen.montos[m] /\ ingresos'[t][m] \in Nat
      BY <1>4, <1>5, <1>6, <1>8
    <3> QED
      BY <2>1, <3>1, <3>2, <3>3
  <2>2. CASE s # t
    <3>1. turnos'[s] = turnos[s] /\ ingresos'[s] = ingresos[s] /\ ajuste' = ajuste
      BY <1>3, <1>6, <1>8, <2>2
    <3> QED
      BY <1>10, <3>1 DEF IInv, CorteExplicaIngresos, Anuladas
  <2> QED
    BY <2>1, <2>2
<1>15. ASSUME NEW y \in Conexiones \ {x}
       PROVE  (Cobrando(y) /\ Anulando(y) /\ Corrigiendo(y) /\ Cerrando(y))'
  <2>1. Cobrando(y) /\ Anulando(y) /\ Corrigiendo(y) /\ Cerrando(y) /\ Tipada(tx[y])
    BY Registro DEF IInv, VistoVigente, TypeOK
  <2>2. /\ ConTurno(y) => tx[y].turno # t
        /\ ConMio(y) => tx[y].mio # t
    BY <1>1, <1>4, Aparte
  <2>3. \A d : Cobros(d)' = Cobros(d)
    BY DEF Cobros
  <2>4. tx'[y] = tx[y]
    BY <1>7
  <2>5. Cobrando(y)'
    BY <1>3, <1>6, <2>1, <2>2, <2>3, <2>4 DEF Cobrando, ConMio
  <2>6. tx[y].op \in {"ANULAR", "CORREGIR"} => tx[y].turno \in Turnos
    BY <2>1 DEF Anulando, Corrigiendo, Tipada, IInv, TypeOK
  <2>7. Corrigiendo(y)'
    BY <1>3, <1>6, <2>1, <2>2, <2>3, <2>4, <2>6 DEF Corrigiendo, ConTurno
  <2>8. Anulando(y)'
    <3> SUFFICES ASSUME tx[y].op = "ANULAR" PROVE Anulando(y)'
      BY <2>4 DEF Anulando
    <3>1. /\ tx[y].paso \in 1..3
          /\ tx[y].paso >= 2 => turnos'[tx[y].turno] = turnos[tx[y].turno]
          /\ tx[y].paso = 3 /\ tx[y].mio # NULL => turnos'[tx[y].mio] = turnos[tx[y].mio]
      BY <1>6, <2>1, <2>2, <2>6 DEF ConTurno, ConMio, Anulando, Tipada
    <3> QED
      BY <1>3, <2>1, <2>4, <3>1 DEF Anulando
  <2>9. Cerrando(y)'
    <3> SUFFICES ASSUME tx[y].op = "CERRAR" PROVE Cerrando(y)'
      BY <2>4 DEF Cerrando
    <3>1. tx[y].turno \in Turnos \ {t} /\ turnos'[tx[y].turno] = turnos[tx[y].turno]
      BY <1>6, <2>1, <2>2 DEF Cerrando, ConTurno
    <3>2. CorteAlDia(tx[y])'
      BY <1>3, <2>1, <2>4, <3>1, ConsultasIguales DEF Cerrando, CorteAlDia
    <3> QED
      BY <2>1, <2>4, <3>1, <3>2 DEF Cerrando
  <2> QED
    BY <2>5, <2>7, <2>8, <2>9
<1>16. VistoVigente'
  BY <1>7, <1>15 DEF VistoVigente
<1> QED
  BY <1>7, <1>9, <1>11, <1>12, <1>13, <1>14, <1>16 DEF IInv

-----------------------------------------------------------------------------
(* The invariant.                                                          *)

\* Before the first shift everything holds of nothing.
LEMMA InitIInv == Init => IInv
<1> SUFFICES ASSUME Init PROVE IInv
  OBVIOUS
<1>1. /\ \A t \in Turnos : turnos[t] = SinTurno
      /\ \A c \in Cuentas : cuentas[c] = SinCobrar /\ pagos[c] = SinPagos
      /\ \A t \in Turnos : ajuste[t] = [montos |-> SinMontos, efectivo |-> 0]
      /\ \A x \in Conexiones : tx[x] = TxLibre
      /\ candados = {}
  BY DEF Init
<1>2. TypeOK
  <2>1. SinTurno \in FilaTurno
    BY TxLibreBien DEF SinTurno, FilaTurno
  <2>2. SinCobrar \in FilaCuenta
    BY DEF SinCobrar, FilaCuenta
  <2>3. SinMontos \in [Metodos -> Nat] /\ SinMontos \in [Metodos -> Int]
    BY DEF SinMontos
  <2>4. \A c \in Cuentas : cuentas[c].turno = NULL /\ cuentas[c].estado = "LIBRE"
    BY <1>1 DEF SinCobrar
  <2> QED
    BY <2>1, <2>2, <2>3, <2>4, TxLibreBien DEF Init, TypeOK
<1>3. \A x \in Conexiones : tx[x].op = "NINGUNA"
  BY <1>1 DEF TxLibre
<1>4. \A x \in Conexiones : \A f, m : ~Suyo(x, f, m)
  BY <1>3 DEF Suyo, ConCuenta, ConTurno, ConMio
<1>5. CandadosDeTx /\ Exclusion
  BY <1>1, <1>4 DEF CandadosDeTx, Exclusion
<1>6. VentasBien
  BY <1>1 DEF VentasBien, SinCobrar
<1>7. TurnosBien
  BY <1>1 DEF TurnosBien, SinTurno
<1>8. VistoVigente
  BY <1>3 DEF VistoVigente, Cobrando, Anulando, Corrigiendo, Cerrando
<1>9. IngresosCuadran /\ CorteExplicaIngresos
  BY <1>1 DEF IngresosCuadran, CorteExplicaIngresos, SinTurno
<1> QED
  BY <1>2, <1>5, <1>6, <1>7, <1>8, <1>9 DEF IInv

\* Every step keeps it.
LEMMA PasoIInv == IInv /\ [Next]_vars => IInv'
<1> SUFFICES ASSUME IInv, [Next]_vars PROVE IInv'
  OBVIOUS
<1>1. CASE \E t \in Turnos, u \in Cajeros, f \in Fondos : AbrirTurno(t, u, f)
  BY <1>1, AbrirTurnoIInv
<1>2. CASE \E c \in Cuentas : Ordenar(c) \/ Vaciar(c)
  BY <1>2, OrdenarIInv, VaciarIInv
<1>3. ASSUME NEW x \in Conexiones, Empieza(x)
      PROVE  IInv'
  BY <1>3, CobrarBloquearIInv, AnularBloquearIInv, CorregirBloquearIInv, CerrarBloquearIInv
     DEF Empieza
<1>4. ASSUME NEW x \in Conexiones, Sigue(x)
      PROVE  IInv'
  <2>1. CASE Abortar(x) \/ BloquearTurnoVenta(x) \/ BuscarMiTurno(x) \/ TomarMiTurno(x)
    BY <2>1, AbortarIInv, BloquearTurnoVentaIInv, BuscarMiTurnoIInv, TomarMiTurnoIInv
  <2>2. CASE CobrarEscribir(x) \/ AnularEscribir(x) \/ CorregirEscribir(x) \/ CerrarEscribir(x)
    BY <2>2, CobrarEscribirIInv, AnularEscribirIInv, CorregirEscribirIInv, CerrarEscribirIInv
  <2>3. CASE CerrarAbiertas(x) \/ CerrarPorMetodo(x) \/ CerrarIngresado(x) \/ CerrarDevuelto(x)
    BY <2>3, CerrarAbiertasIInv, CerrarPorMetodoIInv, CerrarIngresadoIInv, CerrarDevueltoIInv
  <2> QED
    BY <1>4, <2>1, <2>2, <2>3 DEF Sigue
<1>5. CASE UNCHANGED vars
  <2>1. UNCHANGED filas /\ tx' = tx /\ candados' = candados
    BY <1>5 DEF vars, filas
  <2>2. CandadosDeTx' /\ Exclusion' /\ TypeOK' /\ VentasBien' /\ TurnosBien'
    BY <2>1 DEF IInv, CandadosDeTx, Exclusion, Suyo, ConCuenta, ConTurno, ConMio, TypeOK,
       VentasBien, TurnosBien, filas
  <2>3. VistoVigente'
    <3>1. \A x \in Conexiones : Cobrando(x) /\ Anulando(x) /\ Corrigiendo(x) /\ Cerrando(x)
      BY DEF IInv, VistoVigente
    <3>2. \A x \in Conexiones : Cobrando(x)' /\ Corrigiendo(x)'
      BY <1>5, <3>1 DEF vars, Cobrando, Corrigiendo, Cobros
    <3>3. \A x \in Conexiones : Anulando(x)'
      BY <1>5, <3>1 DEF vars, Anulando
    <3>4. \A x \in Conexiones : Cerrando(x)'
      BY <1>5, <3>1, ConsultasIguales DEF vars, Cerrando, CorteAlDia
    <3> QED
      BY <3>2, <3>3, <3>4 DEF VistoVigente
  <2>4. IngresosCuadran' /\ CorteExplicaIngresos'
    BY <1>5, ConsultasIguales DEF vars, IInv, IngresosCuadran, CorteExplicaIngresos
  <2> QED
    BY <2>2, <2>3, <2>4 DEF IInv
<1> QED
  BY <1>1, <1>2, <1>3, <1>4, <1>5 DEF Next

\* The rows, the transactions and the locks are always well formed.
THEOREM TypeCorrect == Spec => []TypeOK
<1>1. IInv => TypeOK
  BY DEF IInv
<1> QED
  BY <1>1, InitIInv, PasoIInv, PTL DEF Spec

\* What Finanzas has of a closed shift is always what its sales still amount
\* to, however its closing, charges, cancellations and corrections ran at the
\* same time.
THEOREM FinanzasAlDia == Spec => []IngresosCuadran
<1>1. IInv => IngresosCuadran
  BY DEF IInv
<1> QED
  BY <1>1, InitIInv, PasoIInv, PTL DEF Spec

\* The frozen summary of a closed shift, with its corrections, always accounts
\* for what Finanzas has.
THEOREM CorteSeExplica == Spec => []CorteExplicaIngresos
<1>1. IInv => CorteExplicaIngresos
  BY DEF IInv
<1> QED
  BY <1>1, InitIInv, PasoIInv, PTL DEF Spec

-----------------------------------------------------------------------------
(* Nobody waits for ever.                                                  *)

\* The shift a transaction waits for, or would, by the statement it is at.
LEMMA Donde ==
    IInv => \A x \in Conexiones :
        /\ EnPaso(x, "turno_venta") <=> tx[x].op \in {"ANULAR", "CORREGIR"} /\ tx[x].paso = 1
        /\ EnPaso(x, "mi_turno") <=> \/ tx[x].op = "COBRAR" /\ tx[x].paso = 1
                                     \/ tx[x].op = "ANULAR" /\ tx[x].paso = 2
BY EnPasoEs DEF IInv

\* Who is waited for has what is waited for: a shift, and to write it unless
\* the other wants it for itself.
LEMMA Detenido ==
    ASSUME IInv, NEW x \in Conexiones, NEW y \in Espera(x)
    PROVE  /\ y \in Conexiones \ {x} /\ FilaQueEspera(x) \in Turnos
           /\ \/ ConTurno(y) /\ tx[y].turno = FilaQueEspera(x)
              \/ EnPaso(x, "turno_venta") /\ ConMio(y) /\ tx[y].mio = FilaQueEspera(x)
<1>1. PICK k \in candados : /\ y = k.tx /\ k.fila = FilaQueEspera(x) /\ k.tx # x
                            /\ k.modo = "UPDATE" \/ EnPaso(x, "turno_venta")
  BY DEF Espera
<1>2. /\ k.tx \in Conexiones /\ k.fila \in Cuentas \cup Turnos /\ k.modo \in {"SHARE", "UPDATE"}
      /\ k = [tx |-> k.tx, fila |-> k.fila, modo |-> k.modo]
  BY DEF IInv, TypeOK, Candado
<1>3. Suyo(y, k.fila, k.modo)
  BY <1>1, <1>2 DEF IInv, CandadosDeTx
<1>4. FilaQueEspera(x) \in Turnos \cup {NULL}
  <2>1. Tipada(tx[x])
    BY Registro DEF IInv, TypeOK
  <2> QED
    BY <2>1 DEF FilaQueEspera, Tipada
<1>5. FilaQueEspera(x) \in Turnos
  BY <1>1, <1>2, <1>4, CajaAssumption
<1>6. ~(ConCuenta(y) /\ k.fila = tx[y].cuenta)
  <2>1. ConCuenta(y) => tx[y].cuenta \in Cuentas
    BY <1>1, <1>2 DEF ConCuenta, IInv, VistoVigente, Cobrando, Anulando, Corrigiendo
  <2> QED
    BY <1>1, <1>5, <2>1, CajaAssumption
<1> QED
  BY <1>1, <1>2, <1>3, <1>5, <1>6 DEF Suyo

\* Who has just asked for the shift of a sale has nothing another may want;
\* who has just found an open shift waits only for one that waits for nobody:
\* whoever has an open shift to write it wants no other.
EsperasBien ==
    \A x \in Conexiones :
        /\ FilaQueEspera(x) = NULL => Espera(x) = {}
        /\ tx[x].op \in {"ANULAR", "CORREGIR"} /\ tx[x].paso = 1 =>
              \A y \in Conexiones : x \notin Espera(y)
        /\ (EnPaso(x, "mi_turno") /\ tx[x].mio \in Turnos /\ turnos[tx[x].mio].estado = "ABIERTO")
              => \A y \in Espera(x) : Espera(y) = {}

\* That follows from what the transactions have locked and seen.
LEMMA Esperas == IInv => EsperasBien
<1> SUFFICES ASSUME IInv, NEW x \in Conexiones
             PROVE  /\ FilaQueEspera(x) = NULL => Espera(x) = {}
                    /\ tx[x].op \in {"ANULAR", "CORREGIR"} /\ tx[x].paso = 1 =>
                          \A y \in Conexiones : x \notin Espera(y)
                    /\ (/\ EnPaso(x, "mi_turno") /\ tx[x].mio \in Turnos
                        /\ turnos[tx[x].mio].estado = "ABIERTO")
                          => \A y \in Espera(x) : Espera(y) = {}
  BY DEF EsperasBien
<1>1. FilaQueEspera(x) = NULL => Espera(x) = {}
  BY Detenido, CajaAssumption
<1>2. ASSUME tx[x].op \in {"ANULAR", "CORREGIR"}, tx[x].paso = 1, NEW y \in Conexiones,
             x \in Espera(y)
      PROVE  FALSE
  BY <1>2, Detenido DEF ConTurno, ConMio
<1>3. ASSUME EnPaso(x, "mi_turno"), turnos[tx[x].mio].estado = "ABIERTO", NEW y \in Espera(x)
      PROVE  Espera(y) = {}
  <2>1. ~EnPaso(x, "turno_venta")
    BY <1>3, Donde
  <2>2. FilaQueEspera(x) = tx[x].mio
    BY <1>3, <2>1 DEF FilaQueEspera
  <2>3. y \in Conexiones \ {x} /\ ConTurno(y) /\ tx[y].turno = tx[x].mio /\ tx[y].turno \in Turnos
    BY <2>1, <2>2, Detenido
  <2>4. turnos[tx[y].turno].estado = "ABIERTO"
    BY <1>3, <2>3
  <2> SUFFICES ASSUME NEW z \in Espera(y) PROVE FALSE
    OBVIOUS
  <2>5. /\ z \in Conexiones \ {y} /\ FilaQueEspera(y) \in Turnos
        /\ \/ ConTurno(z) /\ tx[z].turno = FilaQueEspera(y)
           \/ EnPaso(y, "turno_venta")
    BY <2>3, Detenido
  <2>6. ~EnPaso(y, "turno_venta")
    BY <2>3, Donde DEF ConTurno
  <2>7. EnPaso(y, "mi_turno") /\ FilaQueEspera(y) = tx[y].mio
    BY <2>5, <2>6, CajaAssumption DEF FilaQueEspera
  <2>8. tx[y].op = "ANULAR" /\ tx[y].paso = 2
    BY <2>3, <2>7, Donde DEF ConTurno
  <2>9. tx[y].mio \in {NULL, tx[y].turno}
    BY <2>3, <2>4, <2>8 DEF IInv, VistoVigente, Anulando
  <2>10. tx[z].turno = tx[y].turno /\ ConTurno(z)
    BY <2>5, <2>6, <2>7, <2>9, CajaAssumption
  <2> QED
    BY <2>3, <2>5, <2>10, Aparte
<1> QED
  BY <1>1, <1>2, <1>3

\* A step of x, after which x waits for nobody, or nobody waits for x, or x
\* waits only for those who wait for nobody, closes no circle.
LEMMA SinCirculo ==
    ASSUME SinAbrazoMortal, NEW x \in Conexiones,
           \A y \in Conexiones \ {x} : Espera(y)' \subseteq Espera(y) \cup {x},
           x \notin Espera(x)',
           \/ \A y \in Conexiones : x \notin Espera(y)'
           \/ \A y \in Espera(x)' : Espera(y)' = {}
    PROVE  SinAbrazoMortal'
<1> SUFFICES ASSUME NEW S \in (SUBSET Conexiones) \ {{}}
             PROVE  \E y \in S : Espera(y)' \cap S = {}
  BY DEF SinAbrazoMortal
<1>1. CASE x \notin S
  <2>1. PICK y \in S : Espera(y) \cap S = {}
    BY DEF SinAbrazoMortal
  <2> QED
    BY <1>1, <2>1
<1>2. CASE x \in S /\ \A y \in Conexiones : x \notin Espera(y)'
  <2>1. CASE S = {x}
    BY <2>1
  <2>2. CASE S # {x}
    <3>1. S \ {x} \in (SUBSET Conexiones) \ {{}}
      BY <1>2, <2>2
    <3>2. PICK y \in S \ {x} : Espera(y) \cap (S \ {x}) = {}
      BY <3>1 DEF SinAbrazoMortal
    <3> QED
      BY <1>2, <3>2
  <2> QED
    BY <2>1, <2>2
<1>3. CASE x \in S /\ \A y \in Espera(x)' : Espera(y)' = {}
  <2>1. CASE Espera(x)' \cap S = {}
    BY <1>3, <2>1
  <2>2. CASE Espera(x)' \cap S # {}
    BY <1>3, <2>2
  <2> QED
    BY <2>1, <2>2
<1> QED
  BY <1>1, <1>2, <1>3

\* What a step of x leaves of the waits.
LEMMA PasoSinCirculo ==
    ASSUME IInv, IInv', SinAbrazoMortal, NEW x \in Conexiones,
           \A y \in Conexiones \ {x} : tx'[y] = tx[y],
           \A k \in candados' : k.tx = x \/ k \in candados,
           \/ FilaQueEspera(x)' = NULL
           \/ tx'[x].op \in {"ANULAR", "CORREGIR"} /\ tx'[x].paso = 1
           \/ /\ EnPaso(x, "mi_turno")' /\ tx'[x].mio \in Turnos
              /\ turnos'[tx'[x].mio].estado = "ABIERTO"
    PROVE  SinAbrazoMortal'
<1>1. EsperasBien'
  BY Esperas, PTL
<1>2. ASSUME NEW y \in Conexiones \ {x}
      PROVE  Espera(y)' \subseteq Espera(y) \cup {x}
  <2>1. /\ FilaQueEspera(y)' = FilaQueEspera(y)
        /\ EnPaso(y, "turno_venta")' <=> EnPaso(y, "turno_venta")
    BY DEF FilaQueEspera, EnPaso
  <2> QED
    BY <2>1 DEF Espera
<1>3. x \notin Espera(x)'
  BY DEF Espera
<1>4. \/ \A y \in Conexiones : x \notin Espera(y)'
      \/ \A y \in Espera(x)' : Espera(y)' = {}
  BY <1>1 DEF EsperasBien
<1> QED
  BY <1>2, <1>3, <1>4, SinCirculo

\* Where a transaction waits for nothing: neither at the statement that locks
\* the shift of the sale nor, with a shift found, at the one that locks it.
SinEspera(r) ==
    \/ r.op \in {"NINGUNA", "CERRAR"}
    \/ r.op \in {"COBRAR", "ANULAR", "CORREGIR"} /\ r.paso = 3
    \/ r.op \in {"COBRAR", "CORREGIR"} /\ r.paso = 2
    \/ r.op = "COBRAR" /\ r.paso = 1 /\ r.mio = NULL
    \/ r.op = "ANULAR" /\ r.paso = 2 /\ r.mio = NULL

NadaQueEsperar == \A x \in Conexiones : SinEspera(tx[x]) => FilaQueEspera(x) = NULL

\* There it has no shift to wait for.
LEMMA NadaEspera == IInv => NadaQueEsperar
BY Donde DEF NadaQueEsperar, SinEspera, FilaQueEspera

\* A step of x that leaves it waiting for nothing.
LEMMA SinEsperaSinCirculo ==
    ASSUME IInv, IInv', SinAbrazoMortal, NEW x \in Conexiones,
           \A y \in Conexiones \ {x} : tx'[y] = tx[y],
           \A k \in candados' : k.tx = x \/ k \in candados,
           SinEspera(tx'[x])
    PROVE  SinAbrazoMortal'
<1>1. NadaQueEsperar'
  BY NadaEspera, PTL
<1>2. FilaQueEspera(x)' = NULL
  BY <1>1 DEF NadaQueEsperar
<1> QED
  BY <1>2, PasoSinCirculo

\* The end of a transaction.
LEMMA TerminarSinCirculo ==
    ASSUME IInv, IInv', SinAbrazoMortal, NEW x \in Conexiones, Terminar(x)
    PROVE  SinAbrazoMortal'
<1>1. /\ tx'[x] = TxLibre /\ \A y \in Conexiones \ {x} : tx'[y] = tx[y]
      /\ candados' \subseteq candados
  BY AlTerminar DEF IInv, Terminar
<1>2. SinEspera(tx'[x])
  BY <1>1 DEF SinEspera, TxLibre
<1> QED
  BY <1>1, <1>2, SinEsperaSinCirculo

\* The first statement: whoever starts has locked an account, which nobody
\* waits for with something locked, or waits for nothing.
LEMMA EmpiezaSinCirculo ==
    ASSUME IInv, IInv', SinAbrazoMortal, NEW x \in Conexiones, Empieza(x)
    PROVE  SinAbrazoMortal'
<1>1. tx \in [Conexiones -> Transaccion]
  BY DEF IInv, TypeOK
<1>2. ASSUME NEW u \in Cajeros, NEW c \in Cuentas, NEW p \in Cobros(c), CobrarBloquear(x, u, c, p)
      PROVE  SinAbrazoMortal'
  <2>1. PICK r : r = [TxLibre EXCEPT !.usuario = u, !.cuenta = c, !.pagos = p, !.op = "COBRAR",
                                     !.paso = 1]
    OBVIOUS
  <2>2. tx' = [tx EXCEPT ![x] = r] /\ candados' = Tomar(x, c, "UPDATE")
    BY <1>2, <2>1 DEF CobrarBloquear, Empezar
  <2>3. r.op = "COBRAR" /\ r.paso = 1 /\ r.mio = NULL
    BY <2>1 DEF TxLibre
  <2>4. /\ tx'[x] = r /\ \A y \in Conexiones \ {x} : tx'[y] = tx[y]
        /\ \A k \in candados' : k.tx = x \/ k \in candados
    BY <1>1, <2>2 DEF Tomar
  <2> QED
    BY <2>3, <2>4, SinEsperaSinCirculo DEF SinEspera
<1>3. ASSUME NEW u \in Cajeros, NEW c \in Cuentas, AnularBloquear(x, u, c)
      PROVE  SinAbrazoMortal'
  <2>1. PICK r : r = [TxLibre EXCEPT !.usuario = u, !.cuenta = c, !.turno = cuentas[c].turno,
                                     !.op = "ANULAR", !.paso = 1]
    OBVIOUS
  <2>2. tx' = [tx EXCEPT ![x] = r] /\ candados' = Tomar(x, c, "UPDATE")
    BY <1>3, <2>1 DEF AnularBloquear, Empezar
  <2>3. r.op = "ANULAR" /\ r.paso = 1
    BY <2>1 DEF TxLibre
  <2>4. /\ tx'[x] = r /\ \A y \in Conexiones \ {x} : tx'[y] = tx[y]
        /\ \A k \in candados' : k.tx = x \/ k \in candados
    BY <1>1, <2>2 DEF Tomar
  <2> QED
    BY <2>3, <2>4, PasoSinCirculo
<1>4. ASSUME NEW c \in Cuentas, NEW p \in Cobros(c), CorregirBloquear(x, c, p)
      PROVE  SinAbrazoMortal'
  <2>1. PICK r : r = [TxLibre EXCEPT !.cuenta = c, !.turno = cuentas[c].turno, !.pagos = p,
                                     !.op = "CORREGIR", !.paso = 1]
    OBVIOUS
  <2>2. tx' = [tx EXCEPT ![x] = r] /\ candados' = Tomar(x, c, "UPDATE")
    BY <1>4, <2>1 DEF CorregirBloquear, Empezar
  <2>3. r.op = "CORREGIR" /\ r.paso = 1
    BY <2>1 DEF TxLibre
  <2>4. /\ tx'[x] = r /\ \A y \in Conexiones \ {x} : tx'[y] = tx[y]
        /\ \A k \in candados' : k.tx = x \/ k \in candados
    BY <1>1, <2>2 DEF Tomar
  <2> QED
    BY <2>3, <2>4, PasoSinCirculo
<1>5. ASSUME NEW u \in Cajeros, NEW t \in Turnos, NEW n \in Entregas, CerrarBloquear(x, u, t, n)
      PROVE  SinAbrazoMortal'
  <2>1. PICK r : r = [TxLibre EXCEPT !.usuario = u, !.turno = t, !.entregadas = n, !.op = "CERRAR",
                                     !.paso = 1]
    OBVIOUS
  <2>2. tx' = [tx EXCEPT ![x] = r] /\ candados' = Tomar(x, t, "UPDATE")
    BY <1>5, <2>1 DEF CerrarBloquear, Empezar
  <2>3. r.op = "CERRAR"
    BY <2>1 DEF TxLibre
  <2>4. /\ tx'[x] = r /\ \A y \in Conexiones \ {x} : tx'[y] = tx[y]
        /\ \A k \in candados' : k.tx = x \/ k \in candados
    BY <1>1, <2>2 DEF Tomar
  <2> QED
    BY <2>3, <2>4, SinEsperaSinCirculo DEF SinEspera
<1> QED
  BY <1>2, <1>3, <1>4, <1>5 DEF Empieza

\* The statements that lock a shift, or look for one.
LEMMA TurnoSinCirculo ==
    ASSUME IInv, IInv', SinAbrazoMortal, NEW x \in Conexiones,
           BloquearTurnoVenta(x) \/ BuscarMiTurno(x) \/ TomarMiTurno(x)
    PROVE  SinAbrazoMortal'
<1>1. PICK q : q = tx[x]
  OBVIOUS
<1>2. /\ tx \in [Conexiones -> Transaccion]
      /\ q \in Transaccion /\ Completa(q) /\ Tipada(q)
  BY <1>1, Registro DEF IInv, TypeOK
<1>3. CASE BloquearTurnoVenta(x)
  <2>1. q.op \in {"ANULAR", "CORREGIR"} /\ q.paso = 1 /\ (q.op = "ANULAR" => q.mio = NULL)
    BY <1>1, <1>3, Donde DEF IInv, VistoVigente, Anulando, BloquearTurnoVenta
  <2>2. PICK z : z = (turnos[q.turno].estado = "CERRADO")
    OBVIOUS
  <2>3. PICK r : r = [q EXCEPT !.paso = q.paso + 1, !.cerrado = z]
    OBVIOUS
  <2>4. tx' = [tx EXCEPT ![x] = r] /\ candados' = Tomar(x, q.turno, "UPDATE")
    BY <1>1, <1>3, <2>2, <2>3 DEF BloquearTurnoVenta, TomarVenta
  <2>5. r.op = q.op /\ r.paso = 2 /\ r.mio = q.mio
    BY <1>2, <2>1, <2>3 DEF Completa
  <2>6. /\ tx'[x] = r /\ \A y \in Conexiones \ {x} : tx'[y] = tx[y]
        /\ \A k \in candados' : k.tx = x \/ k \in candados
    BY <1>2, <2>4 DEF Tomar
  <2> QED
    BY <2>1, <2>5, <2>6, SinEsperaSinCirculo DEF SinEspera
<1>4. ASSUME EnPaso(x, "mi_turno"), SinMiTurno(x)
      PROVE  SinAbrazoMortal'
  <2>1. CASE Terminar(x)
    BY <2>1, TerminarSinCirculo
  <2>2. CASE /\ q.op = "ANULAR" /\ candados' = candados
             /\ tx' = [tx EXCEPT ![x].paso = @ + 1, ![x].mio = NULL]
    <3>1. q.paso = 2
      BY <1>1, <1>4, <2>2, Donde
    <3>2. PICK r : r = [q EXCEPT !.paso = q.paso + 1, !.mio = NULL]
      OBVIOUS
    <3>3. tx' = [tx EXCEPT ![x] = r]
      BY <1>1, <2>2, <3>2
    <3>4. r.op = "ANULAR" /\ r.paso = 3
      BY <1>2, <2>2, <3>1, <3>2 DEF Completa
    <3>5. tx'[x] = r /\ \A y \in Conexiones \ {x} : tx'[y] = tx[y]
      BY <1>2, <3>3
    <3> QED
      BY <2>2, <3>4, <3>5, SinEsperaSinCirculo DEF SinEspera
  <2> QED
    BY <1>1, <1>4, <2>1, <2>2 DEF SinMiTurno
<1>5. CASE BuscarMiTurno(x)
  <2>1. EnPaso(x, "mi_turno") /\ turnos' = turnos
    BY <1>5 DEF BuscarMiTurno, filas
  <2>2. ASSUME NEW t \in Turnos, turnos[t].estado = "ABIERTO", tx' = [tx EXCEPT ![x].mio = t],
               UNCHANGED candados
        PROVE  SinAbrazoMortal'
    <3>1. PICK r : r = [q EXCEPT !.mio = t]
      OBVIOUS
    <3>2. tx' = [tx EXCEPT ![x] = r]
      BY <1>1, <2>2, <3>1
    <3>3. r.op = q.op /\ r.paso = q.paso /\ r.mio = t
      BY <1>2, <3>1 DEF Completa
    <3>4. tx'[x] = r /\ \A y \in Conexiones \ {x} : tx'[y] = tx[y]
      BY <1>2, <3>2
    <3>5. EnPaso(x, "mi_turno")'
      BY <1>1, <2>1, <3>3, <3>4 DEF EnPaso
    <3> QED
      BY <2>1, <2>2, <3>3, <3>4, <3>5, PasoSinCirculo
  <2> QED
    BY <1>4, <1>5, <2>1, <2>2 DEF BuscarMiTurno
<1>6. CASE TomarMiTurno(x)
  <2>1. EnPaso(x, "mi_turno")
    BY <1>6 DEF TomarMiTurno
  <2>2. CASE candados' = Compartir(x, q.mio) /\ Avanzar(x)
    <3>1. \/ q.op = "COBRAR" /\ q.paso = 1
          \/ q.op = "ANULAR" /\ q.paso = 2
      BY <1>1, <2>1, Donde
    <3>2. PICK r : r = [q EXCEPT !.paso = q.paso + 1]
      OBVIOUS
    <3>3. tx' = [tx EXCEPT ![x] = r]
      BY <1>1, <2>2, <3>2 DEF Avanzar
    <3>4. r.op = q.op /\ r.paso = q.paso + 1
      BY <1>2, <3>2 DEF Completa
    <3>5. /\ tx'[x] = r /\ \A y \in Conexiones \ {x} : tx'[y] = tx[y]
          /\ \A k \in candados' : k.tx = x \/ k \in candados
      BY <1>2, <2>2, <3>3 DEF Compartir, Tomar
    <3> QED
      BY <3>1, <3>4, <3>5, SinEsperaSinCirculo DEF SinEspera
  <2> QED
    BY <1>1, <1>4, <1>6, <2>1, <2>2 DEF TomarMiTurno
<1> QED
  BY <1>3, <1>5, <1>6

\* The queries of the summary: who closes has its only lock already.
LEMMA ConsultaSinCirculo ==
    ASSUME IInv, IInv', SinAbrazoMortal, NEW x \in Conexiones,
           \/ CerrarAbiertas(x) \/ CerrarPorMetodo(x) \/ CerrarIngresado(x) \/ CerrarDevuelto(x)
    PROVE  SinAbrazoMortal'
<1>1. PICK q : q = tx[x]
  OBVIOUS
<1>2. q.op = "CERRAR"
  BY <1>1, EnPasoEs DEF IInv, CerrarAbiertas, CerrarPorMetodo, CerrarIngresado, CerrarDevuelto
<1>3. tx \in [Conexiones -> Transaccion] /\ Completa(q)
  BY <1>1, Registro DEF IInv, TypeOK
<1>4. CASE Terminar(x)
  BY <1>4, TerminarSinCirculo
<1>5. ASSUME NEW k, tx' = [tx EXCEPT ![x] = [q EXCEPT !.paso = q.paso + 1, !.corte = k]],
             candados' = candados
      PROVE  SinAbrazoMortal'
  <2>1. [q EXCEPT !.paso = q.paso + 1, !.corte = k].op = "CERRAR"
    BY <1>2, <1>3 DEF Completa
  <2>2. tx'[x].op = "CERRAR" /\ \A y \in Conexiones \ {x} : tx'[y] = tx[y]
    BY <1>3, <1>5, <2>1
  <2> QED
    BY <1>5, <2>2, SinEsperaSinCirculo DEF SinEspera
<1>6. CASE Avanzar(x) /\ UNCHANGED candados
  <2>1. [q EXCEPT !.paso = q.paso + 1].op = "CERRAR"
    BY <1>2, <1>3 DEF Completa
  <2>2. tx'[x].op = "CERRAR" /\ \A y \in Conexiones \ {x} : tx'[y] = tx[y]
    BY <1>1, <1>3, <1>6, <2>1 DEF Avanzar
  <2> QED
    BY <1>6, <2>2, SinEsperaSinCirculo DEF SinEspera
<1>7. CASE CerrarPorMetodo(x)
  BY <1>1, <1>5, <1>7 DEF CerrarPorMetodo
<1>8. CASE CerrarIngresado(x)
  BY <1>1, <1>5, <1>8 DEF CerrarIngresado
<1>9. CASE CerrarDevuelto(x)
  BY <1>1, <1>5, <1>9 DEF CerrarDevuelto
<1> QED
  BY <1>4, <1>6, <1>7, <1>8, <1>9 DEF CerrarAbiertas

\* No step closes a circle of transactions that wait for one another.
LEMMA PasoSinAbrazo == IInv /\ SinAbrazoMortal /\ [Next]_vars => SinAbrazoMortal'
<1> SUFFICES ASSUME IInv, SinAbrazoMortal, [Next]_vars PROVE SinAbrazoMortal'
  OBVIOUS
<1>1. IInv'
  BY PasoIInv
<1>2. ASSUME tx' = tx, candados' = candados
      PROVE  SinAbrazoMortal'
  <2>1. \A y : Espera(y)' = Espera(y)
    BY <1>2 DEF Espera, FilaQueEspera, EnPaso
  <2> QED
    BY <2>1 DEF SinAbrazoMortal
<1>3. CASE \E t \in Turnos, u \in Cajeros, f \in Fondos : AbrirTurno(t, u, f)
  BY <1>2, <1>3 DEF AbrirTurno
<1>4. CASE \E c \in Cuentas : Ordenar(c) \/ Vaciar(c)
  BY <1>2, <1>4 DEF Ordenar, Vaciar
<1>5. ASSUME NEW x \in Conexiones, Sigue(x)
      PROVE  SinAbrazoMortal'
  <2>1. CASE Abortar(x) \/ CobrarEscribir(x) \/ AnularEscribir(x) \/ CorregirEscribir(x)
             \/ CerrarEscribir(x)
    BY <1>1, <2>1, TerminarSinCirculo
       DEF Abortar, CobrarEscribir, AnularEscribir, CorregirEscribir, CerrarEscribir
  <2>2. CASE BloquearTurnoVenta(x) \/ BuscarMiTurno(x) \/ TomarMiTurno(x)
    BY <1>1, <2>2, TurnoSinCirculo
  <2>3. CASE CerrarAbiertas(x) \/ CerrarPorMetodo(x) \/ CerrarIngresado(x) \/ CerrarDevuelto(x)
    BY <1>1, <2>3, ConsultaSinCirculo
  <2> QED
    BY <1>5, <2>1, <2>2, <2>3 DEF Sigue
<1>6. CASE UNCHANGED vars
  BY <1>2, <1>6 DEF vars
<1> QED
  BY <1>1, <1>3, <1>4, <1>5, <1>6, EmpiezaSinCirculo DEF Next

\* With no transaction nobody waits.
LEMMA InitSinAbrazo == Init => SinAbrazoMortal
BY DEF Init, SinAbrazoMortal, Espera

\* No group of transactions waits for one another, whatever the number of
\* connections and of shifts, and in whatever order they ask: PostgreSQL has
\* no deadlock to break here.
THEOREM SinAbrazos == Spec => []SinAbrazoMortal
BY InitIInv, PasoIInv, InitSinAbrazo, PasoSinAbrazo, PTL DEF Spec

-----------------------------------------------------------------------------
(* The ledger.                                                             *)

VendidoSiempre == \A t \in Turnos : Vendido(t) = VendidoEn(t)

\* What the ledger has as sold is what the sales of the shift amount to, also
\* once it is closed.
LEMMA VendidoEs == IInv => VendidoSiempre
BY DEF VendidoSiempre, Vendido, IInv, IngresosCuadran

\* Amounts of a shift.
LEMMA CajonEntero ==
    ASSUME IInv, NEW t \in Turnos
    PROVE  /\ EnCajon(t) \in Int /\ turnos[t].fondo \in Nat
           /\ turnos[t].resumen.efectivo \in Int /\ ajuste[t].efectivo \in Int
           /\ EfectivoIngresado(t) \in Nat /\ EfectivoDevuelto(t) \in Nat
<1>1. turnos[t] \in FilaTurno /\ ajuste[t] \in [montos : [Metodos -> Int], efectivo : Int]
  BY DEF IInv, TypeOK
<1>2. turnos[t].fondo \in Fondos \cup {0} /\ turnos[t].resumen \in Corte
  BY <1>1 DEF FilaTurno
<1>3. turnos[t].fondo \in Nat
  <2>1. Fondos \cup {0} \subseteq Nat
    BY CajaAssumption
  <2>2. turnos[t].fondo \in Fondos \cup {0}
    BY <1>2
  <2> QED
    BY <2>1, <2>2
<1>4. turnos[t].resumen.efectivo \in Int /\ ajuste[t].efectivo \in Int
  BY <1>1, <1>2 DEF Corte
<1>5. EfectivoIngresado(t) \in Nat /\ EfectivoDevuelto(t) \in Nat
  BY TotalesBien DEF IInv, TypeOK
<1> QED
  BY <1>3, <1>4, <1>5 DEF EnCajon

\* A step that writes no row, or only opens or empties an account, changes
\* nothing of the ledger.
LEMMA LibroIgual ==
    ASSUME UNCHANGED <<turnos, pagos, ingresos, ajuste>>,
           \A t \in Turnos : /\ VendidoEn(t)' = VendidoEn(t)
                             /\ EfectivoIngresado(t)' = EfectivoIngresado(t)
                             /\ EfectivoDevuelto(t)' = EfectivoDevuelto(t),
           \A c \in Cuentas : Venta(c)' = Venta(c)
    PROVE  UNCHANGED Libro!varsLibro
<1>1. \A t \in Turnos : EnCajon(t)' = EnCajon(t) /\ Vendido(t)' = Vendido(t)
  BY DEF EnCajon, Vendido
<1> QED
  BY <1>1 DEF Libro!varsLibro

\* The same of a step that leaves all the rows.
LEMMA FilasIguales ==
    ASSUME UNCHANGED filas
    PROVE  UNCHANGED Libro!varsLibro
<1>1. UNCHANGED <<turnos, cuentas, pagos, ingresos, ajuste>>
  BY DEF filas
<1>2. \A c \in Cuentas : Venta(c)' = Venta(c)
  BY <1>1 DEF Venta
<1> QED
  BY <1>1, <1>2, ConsultasIguales, LibroIgual

\* At the start nothing was sold and no drawer has anything.
LEMMA InitLibro == Init => Libro!Init
<1> SUFFICES ASSUME Init PROVE Libro!Init
  OBVIOUS
<1>1. /\ \A t \in Turnos : turnos[t] = SinTurno
      /\ \A c \in Cuentas : cuentas[c] = SinCobrar /\ pagos[c] = SinPagos
  BY DEF Init
<1>2. ASSUME NEW t \in Turnos
      PROVE  EnCajon(t) = 0 /\ Vendido(t) = SinMontos /\ turnos[t].estado = "LIBRE"
  <2>1. t # NULL
    BY CajaAssumption
  <2>2. DelTurno(t) = {} /\ VigentesDe(t) = {} /\ {c \in Cuentas : cuentas[c].devueltaEn = t} = {}
    BY <1>1, <2>1 DEF DelTurno, VigentesDe, SinCobrar
  <2>3. EfectivoIngresado(t) = 0 /\ EfectivoDevuelto(t) = 0 /\ VendidoEn(t) = SinMontos
    BY <2>2, SumaVacia DEF EfectivoIngresado, EfectivoDevuelto, VendidoEn, SinMontos
  <2> QED
    BY <1>1, <2>3 DEF EnCajon, Vendido, SinTurno
<1>3. ASSUME NEW c \in Cuentas
      PROVE  Venta(c) = [estado |-> "POR_COBRAR", turno |-> NULL, pagos |-> SinPagos]
  BY <1>1 DEF Venta, SinCobrar
<1> QED
  BY <1>2, <1>3 DEF Libro!Init, Libro!PorCobrar, Libro!Nada, SinMontos, SinPagos

\* Lines come and go on an account that is not charged yet.
LEMMA AbiertaEsLibro ==
    ASSUME IInv, NEW c \in Cuentas, Ordenar(c) \/ Vaciar(c)
    PROVE  UNCHANGED Libro!varsLibro
<1>1. PICK e \in {"LIBRE", "ABIERTA"} : /\ cuentas' = [cuentas EXCEPT ![c].estado = e]
                                        /\ cuentas[c].estado \in {"LIBRE", "ABIERTA"}
  BY DEF Ordenar, Vaciar
<1>2. UNCHANGED <<turnos, pagos, ingresos, ajuste>>
  BY DEF Ordenar, Vaciar
<1>3. /\ cuentas'[c].estado = e /\ cuentas'[c].turno = cuentas[c].turno
      /\ cuentas'[c].devueltaEn = cuentas[c].devueltaEn
      /\ SoloCuenta(c)
  BY <1>1, <1>2 DEF IInv, TypeOK, FilaCuenta, SoloCuenta
<1>4. cuentas[c].turno = NULL /\ cuentas[c].devueltaEn = NULL
  BY <1>1 DEF IInv, TypeOK, VentasBien
<1>5. \A t \in Turnos : t # NULL
  BY CajaAssumption
<1>6. \A t \in Turnos : /\ VendidoEn(t)' = VendidoEn(t)
                        /\ EfectivoIngresado(t)' = EfectivoIngresado(t)
                        /\ EfectivoDevuelto(t)' = EfectivoDevuelto(t)
  BY <1>2, <1>3, <1>4, <1>5, Ajeno DEF IInv, TypeOK
<1>7. \A d \in Cuentas : Venta(d)' = Venta(d)
  BY <1>1, <1>2, <1>3 DEF Venta, SoloCuenta
<1> QED
  BY <1>2, <1>6, <1>7, LibroIgual

\* Opening a shift.
LEMMA AbrirEsLibro ==
    ASSUME IInv, IInv', NEW t \in Turnos, NEW u \in Cajeros, NEW f \in Fondos, AbrirTurno(t, u, f)
    PROVE  Libro!Abrir(t, f)
<1>1. /\ turnos[t].estado = "LIBRE" /\ \A s \in Turnos : turnos[s].estado # "ABIERTO"
      /\ UNCHANGED <<cuentas, pagos, ingresos, ajuste>>
  BY DEF AbrirTurno
<1>2. /\ turnos'[t].estado = "ABIERTO" /\ turnos'[t].fondo = f
      /\ \A s \in Turnos \ {t} : turnos'[s] = turnos[s]
  BY DEF AbrirTurno, IInv, TypeOK
<1>3. \A s \in Turnos : /\ VendidoEn(s)' = VendidoEn(s)
                        /\ EfectivoIngresado(s)' = EfectivoIngresado(s)
                        /\ EfectivoDevuelto(s)' = EfectivoDevuelto(s)
  BY <1>1, ConsultasIguales
<1>4. EfectivoIngresado(t) = 0 /\ EfectivoDevuelto(t) = 0
  <2>1. DelTurno(t) = {} /\ {c \in Cuentas : cuentas[c].devueltaEn = t} = {}
    BY <1>1, CajaAssumption DEF DelTurno, IInv, VentasBien
  <2> QED
    BY <2>1, SumaVacia DEF EfectivoIngresado, EfectivoDevuelto
<1>5. VendidoSiempre /\ VendidoSiempre'
  BY VendidoEs, PTL
<1>6. \A s \in Turnos : Vendido(s)' = Vendido(s)
  BY <1>3, <1>5 DEF VendidoSiempre
<1>7. \A s \in Turnos \ {t} : EnCajon(s)' = EnCajon(s)
  BY <1>1, <1>2, <1>3 DEF EnCajon
<1>8. EnCajon(t)' = f
  <2>1. f \in Nat
    BY CajaAssumption
  <2> QED
    BY <1>2, <1>3, <1>4, <2>1 DEF EnCajon
<1>9. \A c \in Cuentas : Venta(c)' = Venta(c)
  BY <1>1 DEF Venta
<1> QED
  BY <1>1, <1>2, <1>6, <1>7, <1>8, <1>9 DEF Libro!Abrir

\* Closing a shift.
LEMMA CerrarEsLibro ==
    ASSUME IInv, IInv', NEW x \in Conexiones, CerrarEscribir(x)
    PROVE  Libro!Next
<1>1. PICK t, n : t = tx[x].turno /\ n = tx[x].entregadas
  OBVIOUS
<1>2. PICK k : k = [tx[x].corte EXCEPT !.efectivo = @ - n]
  OBVIOUS
<1>3. /\ tx[x].op = "CERRAR" /\ EnPaso(x, "escribir")
      /\ turnos' = [turnos EXCEPT ![t].estado = "CERRADO", ![t].resumen = k]
      /\ UNCHANGED <<cuentas, pagos, ajuste>>
  BY <1>1, <1>2 DEF CerrarEscribir
<1>4. /\ t \in Turnos /\ turnos[t].estado = "ABIERTO"
      /\ tx[x].corte \in Corte /\ n \in Entregas
      /\ tx[x].corte.efectivo = turnos[t].fondo + EfectivoIngresado(t) - EfectivoDevuelto(t)
  BY <1>1, <1>3, CierreListo
<1>5. n \in Nat
  <2>1. Entregas \subseteq Nat
    BY CajaAssumption
  <2> QED
    BY <1>4, <2>1
<1>6. k.efectivo = tx[x].corte.efectivo - n
  BY <1>2, <1>4 DEF Corte
<1>7. /\ turnos'[t].estado = "CERRADO" /\ turnos'[t].resumen = k
      /\ \A s \in Turnos \ {t} : turnos'[s] = turnos[s]
  BY <1>3, <1>4 DEF IInv, TypeOK, FilaTurno
<1>8. \A s \in Turnos : /\ VendidoEn(s)' = VendidoEn(s)
                        /\ EfectivoIngresado(s)' = EfectivoIngresado(s)
                        /\ EfectivoDevuelto(s)' = EfectivoDevuelto(s)
  BY <1>3, ConsultasIguales
<1>9. VendidoSiempre /\ VendidoSiempre'
  BY VendidoEs, PTL
<1>10. \A s \in Turnos : Vendido(s)' = Vendido(s)
  BY <1>8, <1>9 DEF VendidoSiempre
<1>11. ASSUME NEW s \in Turnos \ {t}
       PROVE  EnCajon(s)' = EnCajon(s)
  <2>1. turnos'[s] = turnos[s] /\ ajuste' = ajuste
    BY <1>3, <1>7
  <2>2. /\ EfectivoIngresado(s)' = EfectivoIngresado(s)
        /\ EfectivoDevuelto(s)' = EfectivoDevuelto(s)
    BY <1>8
  <2> QED
    BY <2>1, <2>2 DEF EnCajon
<1>12. EnCajon(t)' = EnCajon(t) - n
  <2>1. ajuste'[t].efectivo = 0
    BY <1>3, <1>4 DEF IInv, TurnosBien
  <2>2. EnCajon(t)' = k.efectivo + 0
    BY <1>7, <2>1 DEF EnCajon
  <2>3. EnCajon(t) = tx[x].corte.efectivo
    BY <1>4 DEF EnCajon
  <2>4. EnCajon(t) \in Int
    BY <1>4, CajonEntero
  <2> QED
    BY <1>5, <1>6, <2>2, <2>3, <2>4
<1>13. \A c \in Cuentas : Venta(c)' = Venta(c)
  BY <1>3 DEF Venta
<1>14. Libro!Cerrar(t, n)
  BY <1>4, <1>7, <1>10, <1>11, <1>12, <1>13 DEF Libro!Cerrar
<1> QED
  BY <1>4, <1>14 DEF Libro!Next

\* Charging an account.
LEMMA CobrarEsLibro ==
    ASSUME IInv, IInv', NEW x \in Conexiones, CobrarEscribir(x)
    PROVE  Libro!Next
<1>1. PICK c, s, p : c = tx[x].cuenta /\ s = tx[x].mio /\ p = tx[x].pagos
  OBVIOUS
<1>2. /\ c \in Cuentas /\ s \in Turnos /\ p \in Cobro /\ p \in Cobros(c)
      /\ cuentas[c].estado = "ABIERTA" /\ turnos[s].estado = "ABIERTO"
      /\ cuentas[c].turno = NULL /\ cuentas[c].devueltaEn = NULL
      /\ pagos[c] = SinPagos /\ s # NULL
      /\ cuentas'[c].estado = "PAGADA" /\ cuentas'[c].turno = s
      /\ cuentas'[c].devueltaEn = NULL
      /\ pagos' \in [Cuentas -> Cobro] /\ pagos'[c] = p
      /\ SoloCuenta(c)
  BY <1>1, AlCobrar
<1>3. UNCHANGED <<turnos, ingresos, ajuste>> /\ pagos \in [Cuentas -> Cobro]
  BY DEF CobrarEscribir, IInv, TypeOK
<1>4. VendidoSiempre /\ VendidoSiempre'
  BY VendidoEs, PTL
<1>5. ASSUME NEW t \in Turnos \ {s}
      PROVE  Vendido(t)' = Vendido(t) /\ EnCajon(t)' = EnCajon(t)
  <2>1. t # NULL
    BY CajaAssumption
  <2>2. /\ VendidoEn(t)' = VendidoEn(t) /\ EfectivoIngresado(t)' = EfectivoIngresado(t)
        /\ EfectivoDevuelto(t)' = EfectivoDevuelto(t)
    BY <1>2, <1>3, <2>1, Ajeno
  <2> QED
    BY <1>3, <2>2 DEF EnCajon, Vendido
<1>6. /\ c \notin VigentesDe(s) /\ c \in VigentesDe(s)'
      /\ c \notin DelTurno(s) /\ c \in DelTurno(s)'
      /\ c \notin Devueltas(s) /\ c \notin Devueltas(s)'
  BY <1>2 DEF VigentesDe, DelTurno, Devueltas
<1>7. Vendido(s)' = [m \in Metodos |-> Vendido(s)[m] + p[m].monto]
  <2>1. VendidoEn(s) \in [Metodos -> Nat] /\ VendidoEn(s)' \in [Metodos -> Nat]
    BY <1>2, <1>3, TotalesBien, Mueve
  <2>2. ASSUME NEW m \in Metodos
        PROVE  VendidoEn(s)'[m] = VendidoEn(s)[m] + p[m].monto
    <3>1. VendidoEn(s)'[m] = VendidoEn(s)[m] + pagos'[c][m].monto - 0
      BY <1>2, <1>3, <1>6, Mueve
    <3>2. VendidoEn(s)[m] \in Nat /\ p[m].monto \in Nat
      BY <1>2, <2>1 DEF Cobro
    <3> QED
      BY <1>2, <3>1, <3>2
  <2>3. VendidoEn(s)' = [m \in Metodos |-> VendidoEn(s)[m] + p[m].monto]
    BY <2>1, <2>2
  <2> QED
    BY <1>2, <1>4, <2>3 DEF VendidoSiempre
<1>8. EnCajon(s)' = EnCajon(s) + EfectivoDe(p)
  <2>1. EfectivoIngresado(s)' = EfectivoIngresado(s) + EfectivoDe(pagos'[c]) - 0
    BY <1>2, <1>3, <1>6, Mueve
  <2>2. EfectivoDevuelto(s)' = EfectivoDevuelto(s) + 0 - 0
    BY <1>2, <1>3, <1>6, Mueve
  <2>3. EfectivoDe(p) \in Nat
    BY <1>2, ImportesDe
  <2>4. /\ turnos[s].fondo \in Nat /\ EfectivoIngresado(s) \in Nat
        /\ EfectivoDevuelto(s) \in Nat
    BY <1>2, CajonEntero
  <2>5. /\ EnCajon(s) = turnos[s].fondo + EfectivoIngresado(s) - EfectivoDevuelto(s)
        /\ EnCajon(s)' = turnos[s].fondo + EfectivoIngresado(s)' - EfectivoDevuelto(s)'
    BY <1>2, <1>3 DEF EnCajon
  <2> QED
    BY <1>2, <2>1, <2>2, <2>3, <2>4, <2>5
<1>9. /\ Venta(c) = [estado |-> "POR_COBRAR", turno |-> NULL, pagos |-> SinPagos]
      /\ Venta(c)' = [estado |-> "COBRADA", turno |-> s, pagos |-> p]
      /\ \A e \in Cuentas \ {c} : Venta(e)' = Venta(e)
  BY <1>2 DEF Venta, SoloCuenta
<1>10. Libro!Cobrar(c, s, p)
  <2>1. Libro!PorCobrar = [estado |-> "POR_COBRAR", turno |-> NULL, pagos |-> SinPagos]
    BY DEF Libro!PorCobrar, Libro!Nada, SinPagos
  <2>2. Libro!EnEfectivo(p) = EfectivoDe(p)
    BY DEF Libro!EnEfectivo, EfectivoDe
  <2> QED
    BY <1>2, <1>3, <1>5, <1>7, <1>8, <1>9, <2>1, <2>2 DEF Libro!Cobrar
<1> QED
  BY <1>2, <1>10 DEF Libro!Next

\* Cancelling a sale.
LEMMA AnularEsLibro ==
    ASSUME IInv, IInv', NEW x \in Conexiones, AnularEscribir(x)
    PROVE  Libro!Next
<1>1. PICK c, t, d, z : c = tx[x].cuenta /\ t = tx[x].turno /\ d = tx[x].mio /\ z = tx[x].cerrado
  OBVIOUS
<1>2. /\ c \in Cuentas /\ t \in Turnos /\ d \in Turnos \cup {NULL}
      /\ cuentas[c].estado = "PAGADA" /\ cuentas[c].turno = t /\ cuentas[c].devueltaEn = NULL
      /\ d = NULL => EfectivoDe(pagos[c]) = 0
      /\ d # NULL => turnos[d].estado = "ABIERTO"
      /\ cuentas'[c].estado = "ANULADA" /\ cuentas'[c].turno = t
      /\ cuentas'[c].devueltaEn = d
      /\ SoloCuenta(c)
      /\ pagos \in [Cuentas -> Cobro] /\ pagos' \in [Cuentas -> Cobro]
  BY <1>1, AlAnular
<1>3. UNCHANGED <<turnos, pagos, ajuste>>
  BY DEF AnularEscribir
<1>4. VendidoSiempre /\ VendidoSiempre'
  BY VendidoEs, PTL
<1>5. \A m \in Metodos : pagos[c][m].monto \in Nat
  BY <1>2, ImportesDe
<1>6. EfectivoDe(pagos[c]) \in Nat
  BY <1>2, ImportesDe
<1>7. ASSUME NEW s \in Turnos \ {t}
      PROVE  Vendido(s)' = Vendido(s)
  <2>1. c \notin VigentesDe(s) /\ c \notin VigentesDe(s)'
    BY <1>2 DEF VigentesDe, DelTurno
  <2>2. VendidoEn(s) \in [Metodos -> Nat] /\ VendidoEn(s)' \in [Metodos -> Nat]
    BY <1>2, TotalesBien, Mueve
  <2>3. ASSUME NEW m \in Metodos
        PROVE  VendidoEn(s)'[m] = VendidoEn(s)[m]
    <3>1. VendidoEn(s)'[m] = VendidoEn(s)[m] + 0 - 0
      BY <1>2, <2>1, Mueve
    <3>2. VendidoEn(s)[m] \in Nat
      BY <2>2
    <3> QED
      BY <3>1, <3>2
  <2> QED
    BY <1>4, <2>2, <2>3 DEF VendidoSiempre
<1>8. Vendido(t)' = [m \in Metodos |-> Vendido(t)[m] - pagos[c][m].monto]
  <2>1. c \in VigentesDe(t) /\ c \notin VigentesDe(t)'
    BY <1>2 DEF VigentesDe, DelTurno
  <2>2. VendidoEn(t) \in [Metodos -> Nat] /\ VendidoEn(t)' \in [Metodos -> Nat]
    BY <1>2, TotalesBien, Mueve
  <2>3. ASSUME NEW m \in Metodos
        PROVE  VendidoEn(t)'[m] = VendidoEn(t)[m] - pagos[c][m].monto
    <3>1. VendidoEn(t)'[m] = VendidoEn(t)[m] + 0 - pagos[c][m].monto
      BY <1>2, <2>1, Mueve
    <3>2. VendidoEn(t)[m] \in Nat
      BY <2>2
    <3> QED
      BY <1>5, <3>1, <3>2
  <2>4. VendidoEn(t)' = [m \in Metodos |-> VendidoEn(t)[m] - pagos[c][m].monto]
    BY <2>2, <2>3
  <2> QED
    BY <1>2, <1>4, <2>4 DEF VendidoSiempre
<1>9. ASSUME NEW s \in Turnos
      PROVE  EnCajon(s)' = IF s = d THEN EnCajon(s) - EfectivoDe(pagos[c]) ELSE EnCajon(s)
  <2>1. c \in DelTurno(s) <=> c \in DelTurno(s)'
    BY <1>2 DEF DelTurno
  <2>2. c \notin Devueltas(s) /\ (c \in Devueltas(s)' <=> s = d)
    BY <1>2, CajaAssumption DEF Devueltas
  <2>3. /\ turnos[s].fondo \in Nat /\ EfectivoIngresado(s) \in Nat
        /\ EfectivoDevuelto(s) \in Nat
    BY CajonEntero
  <2>4. EfectivoIngresado(s)' = EfectivoIngresado(s)
    <3>1. CASE c \in DelTurno(s)
      <4>1. EfectivoIngresado(s)' =
                EfectivoIngresado(s) + EfectivoDe(pagos'[c]) - EfectivoDe(pagos[c])
        BY <1>2, <2>1, <3>1, Mueve
      <4> QED
        BY <1>3, <1>6, <2>3, <4>1
    <3>2. CASE c \notin DelTurno(s)
      <4>1. EfectivoIngresado(s)' = EfectivoIngresado(s) + 0 - 0
        BY <1>2, <2>1, <3>2, Mueve
      <4> QED
        BY <2>3, <4>1
    <3> QED
      BY <3>1, <3>2
  <2>5. CASE s = d
    <3>1. EfectivoDevuelto(s)' = EfectivoDevuelto(s) + EfectivoDe(pagos'[c]) - 0
      BY <1>2, <2>2, <2>5, Mueve
    <3>2. turnos[s].estado = "ABIERTO"
      BY <1>2, <2>5, CajaAssumption
    <3>3. /\ EnCajon(s) = turnos[s].fondo + EfectivoIngresado(s) - EfectivoDevuelto(s)
          /\ EnCajon(s)' = turnos[s].fondo + EfectivoIngresado(s)' - EfectivoDevuelto(s)'
      BY <1>3, <3>2 DEF EnCajon
    <3> QED
      BY <1>3, <1>6, <2>3, <2>4, <2>5, <3>1, <3>3
  <2>6. CASE s # d
    <3>1. EfectivoDevuelto(s)' = EfectivoDevuelto(s) + 0 - 0
      BY <1>2, <2>2, <2>6, Mueve
    <3>2. EfectivoDevuelto(s)' = EfectivoDevuelto(s)
      BY <2>3, <3>1
    <3> QED
      BY <1>3, <2>4, <2>6, <3>2 DEF EnCajon
  <2> QED
    BY <2>5, <2>6
<1>10. /\ Venta(c) = [estado |-> "COBRADA", turno |-> t, pagos |-> pagos[c]]
       /\ Venta(c)' = [Venta(c) EXCEPT !.estado = "ANULADA"]
       /\ \A e \in Cuentas \ {c} : Venta(e)' = Venta(e)
  BY <1>2, <1>3 DEF Venta, SoloCuenta
<1>11. Libro!Anular(c, d)
  <2> DEFINE v == [e \in Cuentas |-> Venta(e)][c]
  <2>1. Libro!EnEfectivo(pagos[c]) = EfectivoDe(pagos[c])
    BY DEF Libro!EnEfectivo, EfectivoDe
  <2>2. v.turno = t /\ v.pagos = pagos[c] /\ v.estado = "COBRADA"
    BY <1>2, <1>10
  <2>3. IF d = NULL THEN Libro!EnEfectivo(v.pagos) = 0
                    ELSE [s \in Turnos |-> turnos[s].estado][d] = "ABIERTO"
    BY <1>2, <2>1, <2>2
  <2>4. [e \in Cuentas |-> Venta(e)]' = [[e \in Cuentas |-> Venta(e)] EXCEPT ![c].estado = "ANULADA"]
    BY <1>2, <1>10
  <2>5. [s \in Turnos |-> Vendido(s)]' =
            [[s \in Turnos |-> Vendido(s)] EXCEPT
                ![v.turno] = [m \in Metodos |-> @[m] - v.pagos[m].monto]]
    <3> HIDE DEF v
    <3> QED
      BY <1>2, <1>7, <1>8, <2>2
  <2>6. [s \in Turnos |-> EnCajon(s)]' =
            [s \in Turnos |-> IF s = d
                              THEN [r \in Turnos |-> EnCajon(r)][s] - Libro!EnEfectivo(v.pagos)
                              ELSE [r \in Turnos |-> EnCajon(r)][s]]
    <3> HIDE DEF v
    <3> QED
      BY <1>9, <2>1, <2>2
  <2>7. UNCHANGED [s \in Turnos |-> turnos[s].estado]
    BY <1>3
  <2> QED
    BY <2>2, <2>3, <2>4, <2>5, <2>6, <2>7 DEF Libro!Anular
<1> QED
  BY <1>2, <1>11 DEF Libro!Next

\* Putting right how an account was paid.
LEMMA CorregirEsLibro ==
    ASSUME IInv, IInv', NEW x \in Conexiones, CorregirEscribir(x)
    PROVE  Libro!Next
<1>1. PICK c, t, p, z : c = tx[x].cuenta /\ t = tx[x].turno /\ p = tx[x].pagos /\ z = tx[x].cerrado
  OBVIOUS
<1>2. PICK delta, de : delta = DeltaMontos(pagos[c], p) /\ de = DeltaEfectivo(pagos[c], p)
  OBVIOUS
<1>3. /\ c \in Cuentas /\ t \in Turnos /\ p \in Cobro /\ p \in Cobros(c)
      /\ cuentas[c].estado = "PAGADA" /\ cuentas[c].turno = t /\ cuentas[c].devueltaEn = NULL
      /\ z \in BOOLEAN /\ (z <=> turnos[t].estado = "CERRADO")
      /\ pagos \in [Cuentas -> Cobro] /\ pagos' \in [Cuentas -> Cobro] /\ pagos'[c] = p
      /\ SoloCuenta(c)
      /\ \A m \in Metodos : pagos[c][m].monto \in Nat /\ p[m].monto \in Nat
      /\ EfectivoDe(pagos[c]) \in Nat /\ EfectivoDe(p) \in Nat
      /\ de = EfectivoDe(p) - EfectivoDe(pagos[c]) /\ de \in Int
  BY <1>1, <1>2, AlCorregir
<1>4. /\ UNCHANGED <<turnos, cuentas>>
      /\ z => ajuste' = [ajuste EXCEPT
                  ![t].montos = [m \in Metodos |-> @[m] + delta[m]], ![t].efectivo = @ + de]
      /\ ~z => ajuste' = ajuste
  BY <1>1, <1>2 DEF CorregirEscribir
<1>5. VendidoSiempre /\ VendidoSiempre'
  BY VendidoEs, PTL
<1>6. /\ \A s \in Turnos \ {t} : ajuste'[s] = ajuste[s]
      /\ z => ajuste'[t].efectivo = ajuste[t].efectivo + de
  <2>1. ajuste \in [Turnos -> [montos : [Metodos -> Int], efectivo : Int]]
    BY DEF IInv, TypeOK
  <2>2. CASE z
    <3>1. PICK a, q : q = ajuste[t] /\ a = [m \in Metodos |-> q.montos[m] + delta[m]]
      OBVIOUS
    <3>2. PICK r : r = [q EXCEPT !.montos = a, !.efectivo = q.efectivo + de]
      OBVIOUS
    <3>3. ajuste' = [ajuste EXCEPT ![t] = r]
      BY <1>4, <2>2, <3>1, <3>2
    <3>4. r.efectivo = q.efectivo + de
      BY <1>3, <2>1, <3>1, <3>2
    <3> QED
      BY <1>3, <2>1, <3>1, <3>3, <3>4
  <2>3. CASE ~z
    BY <1>4, <2>3
  <2> QED
    BY <2>2, <2>3
<1>7. ASSUME NEW s \in Turnos \ {t}
      PROVE  Vendido(s)' = Vendido(s) /\ EnCajon(s)' = EnCajon(s)
  <2>1. s # NULL
    BY CajaAssumption
  <2>2. /\ VendidoEn(s)' = VendidoEn(s) /\ EfectivoIngresado(s)' = EfectivoIngresado(s)
        /\ EfectivoDevuelto(s)' = EfectivoDevuelto(s)
    BY <1>3, <1>4, <2>1, Ajeno
  <2>3. Vendido(s)' = Vendido(s)
    BY <1>5, <2>2 DEF VendidoSiempre
  <2>4. EnCajon(s)' = EnCajon(s)
    BY <1>4, <1>6, <2>2 DEF EnCajon
  <2> QED
    BY <2>3, <2>4
<1>8. /\ c \in VigentesDe(t) /\ c \in VigentesDe(t)'
      /\ c \in DelTurno(t) /\ c \in DelTurno(t)'
      /\ c \notin Devueltas(t) /\ c \notin Devueltas(t)'
  BY <1>3, <1>4, CajaAssumption DEF VigentesDe, DelTurno, Devueltas
<1>9. Vendido(t)' = [m \in Metodos |-> Vendido(t)[m] + p[m].monto - pagos[c][m].monto]
  <2>1. VendidoEn(t) \in [Metodos -> Nat] /\ VendidoEn(t)' \in [Metodos -> Nat]
    BY <1>3, TotalesBien, Mueve
  <2>2. ASSUME NEW m \in Metodos
        PROVE  VendidoEn(t)'[m] = VendidoEn(t)[m] + p[m].monto - pagos[c][m].monto
    BY <1>3, <1>8, Mueve
  <2>3. VendidoEn(t)' = [m \in Metodos |-> VendidoEn(t)[m] + p[m].monto - pagos[c][m].monto]
    BY <2>1, <2>2
  <2> QED
    BY <1>3, <1>5, <2>3 DEF VendidoSiempre
<1>10. EnCajon(t)' = EnCajon(t) + EfectivoDe(p) - EfectivoDe(pagos[c])
  <2>1. EfectivoIngresado(t)' = EfectivoIngresado(t) + EfectivoDe(p) - EfectivoDe(pagos[c])
    BY <1>3, <1>8, Mueve
  <2>2. EfectivoDevuelto(t)' = EfectivoDevuelto(t) + 0 - 0
    BY <1>3, <1>8, Mueve
  <2>3. /\ turnos[t].fondo \in Nat /\ EfectivoIngresado(t) \in Nat
        /\ EfectivoDevuelto(t) \in Nat
        /\ turnos[t].resumen.efectivo \in Int /\ ajuste[t].efectivo \in Int
    BY <1>3, CajonEntero
  <2>4. CASE z
    <3>1. /\ EnCajon(t) = turnos[t].resumen.efectivo + ajuste[t].efectivo
          /\ EnCajon(t)' = turnos[t].resumen.efectivo + ajuste'[t].efectivo
      BY <1>3, <1>4, <2>4 DEF EnCajon
    <3> QED
      BY <1>3, <1>6, <2>3, <2>4, <3>1
  <2>5. CASE ~z
    <3>1. /\ EnCajon(t) = turnos[t].fondo + EfectivoIngresado(t) - EfectivoDevuelto(t)
          /\ EnCajon(t)' = turnos[t].fondo + EfectivoIngresado(t)' - EfectivoDevuelto(t)'
      BY <1>3, <1>4, <2>5 DEF EnCajon
    <3> QED
      BY <1>3, <2>1, <2>2, <2>3, <3>1
  <2> QED
    BY <2>4, <2>5
<1>11. /\ Venta(c) = [estado |-> "COBRADA", turno |-> t, pagos |-> pagos[c]]
       /\ Venta(c)' = [Venta(c) EXCEPT !.pagos = p]
       /\ \A e \in Cuentas \ {c} : Venta(e)' = Venta(e)
  BY <1>3, <1>4 DEF Venta, SoloCuenta
<1>12. Libro!Corregir(c, p)
  <2> DEFINE v == [e \in Cuentas |-> Venta(e)][c]
  <2>1. Libro!EnEfectivo(p) = EfectivoDe(p) /\ Libro!EnEfectivo(pagos[c]) = EfectivoDe(pagos[c])
    BY DEF Libro!EnEfectivo, EfectivoDe
  <2>2. v.turno = t /\ v.pagos = pagos[c] /\ v.estado = "COBRADA"
    BY <1>3, <1>11
  <2>3. [e \in Cuentas |-> Venta(e)]' = [[e \in Cuentas |-> Venta(e)] EXCEPT ![c].pagos = p]
    BY <1>3, <1>11
  <2>4. [s \in Turnos |-> Vendido(s)]' =
            [[s \in Turnos |-> Vendido(s)] EXCEPT
                ![v.turno] = [m \in Metodos |-> @[m] + p[m].monto - v.pagos[m].monto]]
    <3> HIDE DEF v
    <3> QED
      BY <1>3, <1>7, <1>9, <2>2
  <2>5. [s \in Turnos |-> EnCajon(s)]' =
            [[s \in Turnos |-> EnCajon(s)] EXCEPT
                ![v.turno] = @ + Libro!EnEfectivo(p) - Libro!EnEfectivo(v.pagos)]
    <3> HIDE DEF v
    <3> QED
      BY <1>3, <1>7, <1>10, <2>1, <2>2
  <2>6. UNCHANGED [s \in Turnos |-> turnos[s].estado]
    BY <1>4
  <2> QED
    BY <2>2, <2>3, <2>4, <2>5, <2>6 DEF Libro!Corregir
<1> QED
  BY <1>3, <1>12 DEF Libro!Next

\* Every step is one of the ledger or leaves it as it was.
LEMMA PasoLibro == IInv /\ IInv' /\ [Next]_vars => [Libro!Next]_(Libro!varsLibro)
<1> SUFFICES ASSUME IInv, IInv', [Next]_vars
             PROVE  Libro!Next \/ UNCHANGED Libro!varsLibro
  OBVIOUS
<1>1. ASSUME NEW t \in Turnos, NEW u \in Cajeros, NEW f \in Fondos, AbrirTurno(t, u, f)
      PROVE  Libro!Next
  BY <1>1, AbrirEsLibro DEF Libro!Next
<1>2. CASE \E c \in Cuentas : Ordenar(c) \/ Vaciar(c)
  BY <1>2, AbiertaEsLibro
<1>3. ASSUME NEW x \in Conexiones, Empieza(x)
      PROVE  UNCHANGED filas
  BY <1>3 DEF Empieza, CobrarBloquear, AnularBloquear, CorregirBloquear, CerrarBloquear
<1>4. ASSUME NEW x \in Conexiones, Sigue(x)
      PROVE  Libro!Next \/ UNCHANGED Libro!varsLibro
  <2>1. CASE CobrarEscribir(x) \/ AnularEscribir(x) \/ CorregirEscribir(x) \/ CerrarEscribir(x)
    BY <2>1, CobrarEsLibro, AnularEsLibro, CorregirEsLibro, CerrarEsLibro
  <2>2. CASE Abortar(x) \/ BloquearTurnoVenta(x) \/ BuscarMiTurno(x) \/ TomarMiTurno(x)
    <3>1. UNCHANGED filas
      BY <2>2 DEF Abortar, BloquearTurnoVenta, BuscarMiTurno, TomarMiTurno
    <3> QED
      BY <3>1, FilasIguales
  <2>3. CASE CerrarAbiertas(x) \/ CerrarPorMetodo(x) \/ CerrarIngresado(x) \/ CerrarDevuelto(x)
    <3>1. UNCHANGED filas
      BY <2>3 DEF CerrarAbiertas, CerrarPorMetodo, CerrarIngresado, CerrarDevuelto
    <3> QED
      BY <3>1, FilasIguales
  <2> QED
    BY <1>4, <2>1, <2>2, <2>3 DEF Sigue
<1>5. CASE UNCHANGED vars
  <2>1. UNCHANGED filas
    BY <1>5 DEF vars, filas
  <2> QED
    BY <2>1, FilasIguales
<1> QED
  BY <1>1, <1>2, <1>3, <1>4, <1>5, FilasIguales DEF Next

\* The cash registers keep the ledger: whatever runs at the same time, every
\* committed operation moves the drawers and the sales by exactly what it
\* charged, gave back or put right, once.
THEOREM CajaImplementaLibro == Spec => ImplementaLibro
BY InitIInv, PasoIInv, InitLibro, PasoLibro, PTL DEF Spec, ImplementaLibro, Libro!Spec
=============================================================================
