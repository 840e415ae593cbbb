-------------------------- MODULE CuentasPosProofs --------------------------
(***************************************************************************)
(* Theorems about CuentasPos, for any number of accounts, lines, comandas, *)
(* tables and reservations (only the lines are assumed finite, so that     *)
(* their pieces can be added).  Each part rests on the one before:         *)
(*   1. TypeOK, one lemma per action, and the locks that are held          *)
(*      (Candado);                                                         *)
(*   2. the salon (SalonInv): folios, tables and reservations.  All but    *)
(*      four actions leave what it speaks of as it was (Conserva);         *)
(*   3. the kitchen (CocinaInv): references, numbers, destinations and     *)
(*      charges.  Every action but splitting does one of six things to     *)
(*      each line (Pasa), and each conjunct needs of a step only a fact    *)
(*      about those and about the accounts or the comandas (..Siguen);     *)
(*      splitting is described by Reparto;                                 *)
(*   4. what a step may never do: from Pasa and Reparto too.               *)
(***************************************************************************)
EXTENDS CuentasPos, SumasProofs

-----------------------------------------------------------------------------
\* The line that is being cancelled was sent, and is of the open account whose
\* lock is held: the other requests on that account wait.
Candado ==
    \A c \in Cuentas : cuentas[c].cancelando # NULL =>
        Abierta(c) /\ cuentas[c].cancelando \in EnviadosDe(c)

\* An open account is a well formed row.
LEMMA AbiertaEsCuenta ==
    ASSUME TypeOK, NEW c \in Cuentas, ~Libre(c)
    PROVE  cuentas[c] \in TipoCuenta
BY DEF TypeOK, Libre, SinCuenta

\* A line of an account is a well formed row.
LEMMA RenglonDeCuenta ==
    ASSUME TypeOK, NEW c \in Cuentas, NEW i \in RenglonesDe(c)
    PROVE  i \in Renglones /\ renglones[i] \in TipoRenglon
BY ConstantesAssumption DEF TypeOK, RenglonesDe, SinRenglon

\* Deleting lines keeps the table well formed.
LEMMA BorrarRenglonesOK ==
    ASSUME TypeOK, NEW I
    PROVE  BorrarRenglones(I) \in [Renglones -> TipoRenglon \cup {SinRenglon}]
BY DEF TypeOK, BorrarRenglones

\* The initial tables are empty.
LEMMA InitTypeOK == Init => TypeOK
BY ConstantesAssumption DEF Init, TypeOK, EstadosMesa, EstadosReserva

\* Opening writes a well formed account.
LEMMA AbrirCuentaTypeOK ==
    ASSUME TypeOK, NEW c \in Cuentas, NEW m \in Mesas \cup {NULL},
           NEW r \in Reservas \cup {NULL}, AbrirCuenta(c, m, r)
    PROVE  TypeOK'
<1>1. ultimoFolio + 1 \in 1..MaxFolio
  BY ConstantesAssumption DEF AbrirCuenta, TypeOK
<1>2. CuentaNueva(m, r, NULL, c) \in TipoCuenta
  BY <1>1 DEF TipoCuenta, CuentaNueva, EstadosCuenta
<1>3. cuentas' \in [Cuentas -> TipoCuenta \cup {SinCuenta}]
  BY <1>2 DEF AbrirCuenta, TypeOK
<1>4. reservas' \in [Reservas -> EstadosReserva \cup {"BORRADA"}]
  BY DEF AbrirCuenta, TypeOK, EstadosReserva
<1> QED
  BY <1>1, <1>3, <1>4, ConstantesAssumption DEF AbrirCuenta, TypeOK

\* A line added, or added to, holds no more pieces than one may.
LEMMA AgregarItemTypeOK ==
    ASSUME TypeOK, NEW c \in Cuentas, NEW a \in Articulos, NEW t \in Tiempos,
           NEW n \in 1..MaxCantidad, NEW nota \in Notas, AgregarItem(c, a, t, n, nota)
    PROVE  TypeOK'
<1>1. renglones' \in [Renglones -> TipoRenglon \cup {SinRenglon}]
  <2>1. ASSUME NEW i \in Sumable(c, a, t), Cabe(i, n),
               renglones' = [renglones EXCEPT ![i].cant = @ + n]
        PROVE  renglones' \in [Renglones -> TipoRenglon \cup {SinRenglon}]
    <3>1. i \in RenglonesDe(c)
      BY <2>1 DEF Sumable, PendientesDe
    <3>2. i \in Renglones /\ renglones[i] \in TipoRenglon
      BY <3>1, RenglonDeCuenta
    <3>3. [renglones[i] EXCEPT !.cant = @ + n] \in TipoRenglon
      BY <2>1, <3>2, ConstantesAssumption DEF TipoRenglon, Cabe
    <3> QED
      BY <2>1, <3>2, <3>3 DEF TypeOK
  <2>2. ASSUME NEW i \in RenglonesLibres,
               renglones' = [renglones EXCEPT ![i] =
                    [cuenta |-> c, art |-> a, cant |-> n, estado |-> "PENDIENTE",
                     comanda |-> NULL, tiempo |-> t, nota |-> nota, rebaja |-> FALSE]]
        PROVE  renglones' \in [Renglones -> TipoRenglon \cup {SinRenglon}]
    <3>1. [cuenta |-> c, art |-> a, cant |-> n, estado |-> "PENDIENTE",
           comanda |-> NULL, tiempo |-> t, nota |-> nota, rebaja |-> FALSE] \in TipoRenglon
      BY ConstantesAssumption DEF TipoRenglon, EstadosRenglon
    <3> QED
      BY <2>2, <3>1 DEF TypeOK, RenglonesLibres
  <2> QED
    BY <2>1, <2>2 DEF AgregarItem
<1> QED
  BY <1>1 DEF AgregarItem, TypeOK

\* Changing a pending line leaves it well formed.
LEMMA ActualizarItemTypeOK ==
    ASSUME TypeOK, NEW c \in Cuentas, NEW i \in Renglones, NEW n \in 1..MaxCantidad,
           NEW t \in Tiempos, NEW nota \in Notas, ActualizarItem(c, i, n, t, nota)
    PROVE  TypeOK'
<1>1. renglones[i] \in TipoRenglon
  BY RenglonDeCuenta DEF ActualizarItem, PendientesDe
<1>2. [renglones[i] EXCEPT !.cant = n, !.tiempo = t, !.nota = nota] \in TipoRenglon
  BY <1>1, ConstantesAssumption DEF TipoRenglon
<1> QED
  BY <1>2 DEF ActualizarItem, TypeOK

\* So does deleting one.
LEMMA EliminarItemTypeOK ==
    ASSUME TypeOK, NEW c \in Cuentas, NEW i \in Renglones, EliminarItem(c, i)
    PROVE  TypeOK'
BY BorrarRenglonesOK DEF EliminarItem, TypeOK

\* A discount changes one column of the lines and one of the account.
LEMMA DescontarTypeOK ==
    ASSUME TypeOK, NEW c \in Cuentas, NEW I \in SUBSET Renglones, NEW rebaja \in Rebajas,
           Descontar(c, I, rebaja)
    PROVE  TypeOK'
<1>1. ASSUME NEW i \in I
      PROVE  [renglones[i] EXCEPT !.rebaja = rebaja] \in TipoRenglon
  <2>1. renglones[i] \in TipoRenglon
    BY RenglonDeCuenta DEF Descontar, VivosDe
  <2> QED
    BY <2>1, ConstantesAssumption DEF TipoRenglon
<1>2. renglones' \in [Renglones -> TipoRenglon \cup {SinRenglon}]
  BY <1>1 DEF Descontar, TypeOK
<1>3. [cuentas[c] EXCEPT !.autorizada = TRUE] \in TipoCuenta
  BY AbiertaEsCuenta DEF Descontar, Abierta, Libre, TipoCuenta
<1> QED
  BY <1>2, <1>3 DEF Descontar, TypeOK

\* Sending writes a well formed comanda for each area: the numbers given
\* follow that of the last one.
LEMMA EnviarTypeOK ==
    ASSUME TypeOK, NEW c \in Cuentas, NEW t \in Tiempos, Enviar(c, t)
    PROVE  TypeOK'
<1> DEFINE P == {i \in PendientesDe(c) : renglones[i].tiempo = t}
           Area(i) == AreaDe[renglones[i].art]
           A == {Area(i) : i \in P} \cap (ConPantalla \cup ConPapel)
           sig == cuentas[c].sigComanda
           n == Cardinality(A)
<1>1. n \in Nat
  <2>1. A \in SUBSET (ConPantalla \cup ConPapel)
    OBVIOUS
  <2>2. IsFiniteSet(A)
    BY <2>1, FS_Subset, ConstantesAssumption
  <2> QED
    BY <2>2, FS_CardinalityType
<1>2. cuentas[c] \in TipoCuenta
  BY AbiertaEsCuenta DEF Enviar, Abierta, Libre
<1>3. sig \in Nat \ {0}
  BY <1>2 DEF TipoCuenta
<1>4. PICK nueva \in Injection(A, ComandasLibres), num \in Bijection(A, sig..(sig + n - 1)) :
        /\ renglones' = [i \in Renglones |->
              IF i \in P
              THEN [renglones[i] EXCEPT !.estado = "ENVIADO",
                                        !.comanda = IF Area(i) \in A THEN nueva[Area(i)] ELSE NULL]
              ELSE renglones[i]]
        /\ comandas' = [k \in Comandas |->
              IF \E a \in A : nueva[a] = k
              THEN LET a == CHOOSE x \in A : nueva[x] = k
                   IN [cuenta |-> c, numero |-> num[a],
                       estado |-> IF a \in ConPantalla THEN "NUEVA" ELSE "ENTREGADA",
                       papel |-> a \in ConPapel, cruzada |-> FALSE]
              ELSE comandas[k]]
  BY DEF Enviar
<1>5. nueva \in [A -> Comandas] /\ num \in [A -> Nat \ {0}]
  <2>1. nueva \in [A -> ComandasLibres]
    BY DEF Injection
  <2>2. num \in [A -> sig..(sig + n - 1)]
    BY DEF Bijection, Injection
  <2> QED
    BY <2>1, <2>2, <1>1, <1>3 DEF ComandasLibres
<1>6. renglones' \in [Renglones -> TipoRenglon \cup {SinRenglon}]
  <2>1. ASSUME NEW i \in P
        PROVE  [renglones[i] EXCEPT !.estado = "ENVIADO",
                   !.comanda = IF Area(i) \in A THEN nueva[Area(i)] ELSE NULL] \in TipoRenglon
    <3>1. renglones[i] \in TipoRenglon
      BY RenglonDeCuenta DEF PendientesDe
    <3>2. (IF Area(i) \in A THEN nueva[Area(i)] ELSE NULL) \in Comandas \cup {NULL}
      BY <1>5
    <3> QED
      BY <3>1, <3>2 DEF TipoRenglon, EstadosRenglon
  <2> QED
    BY <1>4, <2>1 DEF TypeOK
<1>7. comandas' \in [Comandas -> TipoComanda \cup {SinComanda}]
  <2>1. ASSUME NEW a \in A
        PROVE  [cuenta |-> c, numero |-> num[a],
                estado |-> IF a \in ConPantalla THEN "NUEVA" ELSE "ENTREGADA",
                papel |-> a \in ConPapel, cruzada |-> FALSE] \in TipoComanda
    BY <1>5 DEF TipoComanda, EstadosComanda, PorPreparar
  <2>2. ASSUME NEW k \in Comandas, \E a \in A : nueva[a] = k
        PROVE  comandas'[k] \in TipoComanda
    BY <1>4, <2>1, <2>2
  <2>3. ASSUME NEW k \in Comandas, ~ \E a \in A : nueva[a] = k
        PROVE  comandas'[k] \in TipoComanda \cup {SinComanda}
    BY <1>4, <2>3 DEF TypeOK
  <2>4. comandas' = [k \in Comandas |-> comandas'[k]]
    BY <1>4
  <2> QED
    BY <2>2, <2>3, <2>4
<1>8. [cuentas[c] EXCEPT !.sigComanda = @ + n] \in TipoCuenta
  BY <1>1, <1>2 DEF TipoCuenta
<1>9. cuentas' \in [Cuentas -> TipoCuenta \cup {SinCuenta}]
  BY <1>8 DEF Enviar, TypeOK
<1> QED
  BY <1>6, <1>7, <1>9 DEF Enviar, TypeOK

\* A comanda of an account, or one still to prepare, is a well formed row, and
\* remains so when its state changes.
LEMMA ComandaConEstado ==
    ASSUME TypeOK, NEW k \in Comandas, comandas[k] # SinComanda, NEW e \in EstadosComanda
    PROVE  [comandas[k] EXCEPT !.estado = e] \in TipoComanda
BY DEF TypeOK, TipoComanda

\* A transaction takes the line it is going to cancel.
LEMMA CancelarItemTypeOK ==
    ASSUME TypeOK, NEW c \in Cuentas, NEW i \in Renglones, CancelarItem(c, i)
    PROVE  TypeOK'
<1>1. [cuentas[c] EXCEPT !.cancelando = i, !.quedan = Quedan(i)] \in TipoCuenta
  <2>1. cuentas[c] \in TipoCuenta
    BY AbiertaEsCuenta DEF CancelarItem, Abierta, Libre
  <2>2. Quedan(i) \in BOOLEAN
    BY Zenon DEF Quedan
  <2> QED
    BY <2>1, <2>2 DEF TipoCuenta
<1> QED
  BY <1>1 DEF CancelarItem, TypeOK

\* Its commit, which may cancel the comanda too.
LEMMA ConfirmarCancelacionTypeOK ==
    ASSUME TypeOK, Candado, NEW c \in Cuentas, ConfirmarCancelacion(c)
    PROVE  TypeOK'
<1> DEFINE i == cuentas[c].cancelando
<1>1. Abierta(c) /\ i \in EnviadosDe(c)
  BY DEF ConfirmarCancelacion, Candado
<1>2. i \in Renglones /\ renglones[i] \in TipoRenglon
  BY <1>1, RenglonDeCuenta DEF EnviadosDe
<1>3. [renglones[i] EXCEPT !.estado = "CANCELADO"] \in TipoRenglon
  BY <1>2 DEF TipoRenglon, EstadosRenglon
<1>4. renglones' \in [Renglones -> TipoRenglon \cup {SinRenglon}]
  BY <1>2, <1>3 DEF ConfirmarCancelacion, TypeOK
<1>5. ASSUME NEW k \in Comandas, comandas[k].estado \in PorPreparar
      PROVE  /\ [comandas[k] EXCEPT !.cruzada = TRUE] \in TipoComanda
             /\ [comandas[k] EXCEPT !.estado = "CANCELADA"] \in TipoComanda
  <2>1. comandas[k] # SinComanda
    BY <1>5 DEF PorPreparar, SinComanda
  <2>2. comandas[k] \in TipoComanda
    BY <2>1 DEF TypeOK
  <2> QED
    BY <2>2 DEF TipoComanda, EstadosComanda
<1>6. comandas' \in [Comandas -> TipoComanda \cup {SinComanda}]
  BY <1>5 DEF ConfirmarCancelacion, Sincronizar, TypeOK
<1>7. [cuentas[c] EXCEPT !.cancelando = NULL, !.quedan = FALSE, !.autorizada = TRUE] \in TipoCuenta
  BY <1>1, AbiertaEsCuenta DEF Abierta, Libre, TipoCuenta
<1> QED
  BY <1>4, <1>6, <1>7 DEF ConfirmarCancelacion, TypeOK

\* What the kitchen does to a comanda is a change of state.
LEMMA CambiarEstadoComandaTypeOK ==
    ASSUME TypeOK, NEW k \in Comandas, NEW e \in DOMAIN DESDE, CambiarEstadoComanda(k, e)
    PROVE  TypeOK'
<1>1. comandas[k] # SinComanda /\ e \in EstadosComanda
  BY DEF CambiarEstadoComanda, DESDE, SinComanda, EstadosComanda, PorPreparar
<1>2. [comandas[k] EXCEPT !.estado = e] \in TipoComanda
  BY <1>1, ComandaConEstado
<1> QED
  BY <1>2 DEF CambiarEstadoComanda, TypeOK

\* Moving to another table changes one column.
LEMMA CambiarMesaTypeOK ==
    ASSUME TypeOK, NEW c \in Cuentas, NEW m \in Mesas, CambiarMesa(c, m)
    PROVE  TypeOK'
<1>1. [cuentas[c] EXCEPT !.mesa = m] \in TipoCuenta
  BY AbiertaEsCuenta DEF CambiarMesa, Abierta, Libre, TipoCuenta
<1> QED
  BY <1>1 DEF CambiarMesa, TypeOK

\* What descartar does keeps every table well formed; the set of accounts the
\* purge selected is not its business.
LEMMA DescarteTypeOK ==
    ASSUME TypeOK, NEW c \in Cuentas, Descarte(c), candidatas' \subseteq Cuentas
    PROVE  TypeOK'
<1>1. CASE Usada(c)
  BY <1>1, BorrarRenglonesOK DEF Descarte, TypeOK
<1>2. CASE ~Usada(c)
  <2>1. renglones' \in [Renglones -> TipoRenglon \cup {SinRenglon}]
    BY <1>2, BorrarRenglonesOK DEF Descarte
  <2>2. comandas' \in [Comandas -> TipoComanda \cup {SinComanda}]
    BY <1>2 DEF Descarte, TypeOK
  <2>3. cuentas' \in [Cuentas -> TipoCuenta \cup {SinCuenta}]
    BY <1>2 DEF Descarte, TypeOK
  <2>4. cuentas[c].folio \in 1..MaxFolio
    BY AbiertaEsCuenta DEF Descarte, Abierta, Libre, TipoCuenta
  <2>5. ultimoFolio' \in 0..MaxFolio
    BY <1>2, <2>4, ConstantesAssumption DEF Descarte, FolioSin, TypeOK
  <2>6. reservas' \in [Reservas -> EstadosReserva \cup {"BORRADA"}]
    BY <1>2 DEF Descarte, TypeOK, EstadosReserva
  <2> QED
    BY <2>1, <2>2, <2>3, <2>5, <2>6 DEF Descarte, TypeOK
<1> QED
  BY <1>1, <1>2

\* Neither half of the purge leaves a row badly formed.
LEMMA PurgaTypeOK ==
    ASSUME TypeOK, PurgaSeleccionar \/ \E c \in Cuentas : PurgaDescartar(c)
    PROVE  TypeOK'
<1>1. CASE PurgaSeleccionar
  BY <1>1 DEF PurgaSeleccionar, TypeOK
<1>2. ASSUME NEW c \in Cuentas, PurgaDescartar(c)
      PROVE  TypeOK'
  <2>1. candidatas' \subseteq Cuentas
    BY <1>2 DEF PurgaDescartar, TypeOK
  <2>2. CASE Descarte(c)
    BY <2>1, <2>2, DescarteTypeOK
  <2>3. CASE UNCHANGED <<cuentas, renglones, comandas, ultimoFolio, mesas, reservas>>
    BY <2>1, <2>3 DEF TypeOK
  <2> QED
    BY <1>2, <2>2, <2>3 DEF PurgaDescartar
<1> QED
  BY <1>1, <1>2

\* Merging renumbers the comandas upwards.
LEMMA JuntarTypeOK ==
    ASSUME TypeOK, NEW o \in Cuentas, NEW d \in Cuentas, Juntar(o, d)
    PROVE  TypeOK'
<1>1. cuentas[o] \in TipoCuenta /\ cuentas[d] \in TipoCuenta /\ o # d
  BY AbiertaEsCuenta DEF Juntar, Abierta, Libre
<1>2. Salto(d) \in Nat
  BY <1>1 DEF Salto, TipoCuenta
<1>3. ASSUME NEW i \in Renglones, renglones[i].cuenta = o
      PROVE  [renglones[i] EXCEPT !.cuenta = d] \in TipoRenglon
  <2>1. renglones[i] \in TipoRenglon
    BY <1>3, RenglonDeCuenta DEF RenglonesDe
  <2> QED
    BY <2>1 DEF TipoRenglon
<1>4. renglones' \in [Renglones -> TipoRenglon \cup {SinRenglon}]
  BY <1>3 DEF Juntar, TypeOK
<1>5. ASSUME NEW k \in Comandas, comandas[k].cuenta = o
      PROVE  [comandas[k] EXCEPT !.cuenta = d, !.numero = @ + Salto(d)] \in TipoComanda
  <2>1. comandas[k] \in TipoComanda
    BY <1>5, ConstantesAssumption DEF TypeOK, SinComanda
  <2>2. comandas[k].numero + Salto(d) \in Nat \ {0}
    BY <1>2, <2>1 DEF TipoComanda
  <2> QED
    BY <2>1, <2>2 DEF TipoComanda
<1>6. comandas' \in [Comandas -> TipoComanda \cup {SinComanda}]
  BY <1>5 DEF Juntar, TypeOK
<1>7. [cuentas[o] EXCEPT !.estado = "UNIDA", !.unidaA = d] \in TipoCuenta
  BY <1>1 DEF TipoCuenta, EstadosCuenta
<1>8. [cuentas[d] EXCEPT !.sigComanda = @ + cuentas[o].sigComanda - 1] \in TipoCuenta
  BY <1>1 DEF TipoCuenta
<1>9. cuentas' = [cuentas EXCEPT ![o] = [cuentas[o] EXCEPT !.estado = "UNIDA", !.unidaA = d],
                                 ![d] = [cuentas[d] EXCEPT !.sigComanda = @ + cuentas[o].sigComanda - 1]]
  BY <1>1 DEF Juntar, TypeOK
<1>10. cuentas' \in [Cuentas -> TipoCuenta \cup {SinCuenta}]
  BY <1>7, <1>8, <1>9 DEF TypeOK
<1> QED
  BY <1>4, <1>6, <1>10 DEF Juntar, TypeOK

\* Each part of a line that is split has at least one piece.
LEMMA DividirTypeOK ==
    ASSUME TypeOK, NEW c \in Cuentas, NEW n \in Cuentas, NEW M \in SUBSET VivosDe(c),
           NEW parte \in [M -> 1..MaxCantidad], Dividir(c, n, parte)
    PROVE  TypeOK'
<1>1. cuentas[c] \in TipoCuenta
  BY AbiertaEsCuenta DEF Dividir, Abierta, Libre
<1>2. ultimoFolio + 1 \in 1..MaxFolio
  BY ConstantesAssumption DEF Dividir, TypeOK
<1>3. CuentaNueva(cuentas[c].mesa, NULL, c, cuentas[c].raiz) \in TipoCuenta
  BY <1>1, <1>2 DEF CuentaNueva, TipoCuenta, EstadosCuenta
<1>4. cuentas' \in [Cuentas -> TipoCuenta \cup {SinCuenta}]
  BY <1>3 DEF Dividir, TypeOK
<1> DEFINE P == Parciales(parte)
<1>5. DOMAIN parte = M
  OBVIOUS
<1>6. PICK nuevo \in Injection(P, RenglonesLibres) : renglones' = Repartidos(n, parte, nuevo)
  BY DEF Dividir
<1>P. DOMAIN nuevo = P
  BY DEF Injection
<1>7. ASSUME NEW i \in M
      PROVE  i \in Renglones /\ renglones[i] \in TipoRenglon /\ parte[i] \in 1..MaxCantidad
  BY RenglonDeCuenta DEF VivosDe
<1>8. ASSUME NEW i \in M
      PROVE  [renglones[i] EXCEPT !.cuenta = n] \in TipoRenglon
  BY <1>7 DEF TipoRenglon
<1>9. ASSUME NEW i \in P
      PROVE  /\ [renglones[i] EXCEPT !.cuenta = n, !.cant = parte[i]] \in TipoRenglon
             /\ Resto(i, parte[i]) \in TipoRenglon
  <2>1. i \in M /\ parte[i] < renglones[i].cant
    BY <1>5 DEF Parciales
  <2>2. renglones[i] \in TipoRenglon /\ parte[i] \in 1..MaxCantidad
    BY <2>1, <1>7
  <2>3. renglones[i].cant - parte[i] \in 1..MaxCantidad
    BY <2>1, <2>2, ConstantesAssumption DEF TipoRenglon
  <2> QED
    BY <2>2, <2>3 DEF Resto, TipoRenglon
<1>10. renglones' \in [Renglones -> TipoRenglon \cup {SinRenglon}]
  <2>1. ASSUME NEW j \in Renglones, \E i \in P : nuevo[i] = j
        PROVE  renglones'[j] \in TipoRenglon
    <3>1. (CHOOSE x \in P : nuevo[x] = j) \in P
      BY <2>1
    <3> QED
      BY <1>6, <1>P, <1>9, <2>1, <3>1 DEF Repartidos
  <2>2. ASSUME NEW j \in Renglones, ~ \E i \in P : nuevo[i] = j
        PROVE  renglones'[j] \in TipoRenglon \cup {SinRenglon}
    BY <1>5, <1>6, <1>P, <1>8, <1>9, <2>2 DEF TypeOK, Repartidos
  <2>3. renglones' = [j \in Renglones |-> renglones'[j]]
    BY <1>6 DEF Repartidos
  <2> QED
    BY <2>1, <2>2, <2>3
<1> QED
  BY <1>2, <1>4, <1>10, ConstantesAssumption DEF Dividir, TypeOK

\* Cancelling an account deletes lines and changes states.
LEMMA CancelarCuentaTypeOK ==
    ASSUME TypeOK, NEW c \in Cuentas, CancelarCuenta(c)
    PROVE  TypeOK'
<1>1. ASSUME NEW k \in Comandas, comandas[k].estado \in PorPreparar
      PROVE  [comandas[k] EXCEPT !.estado = "CANCELADA"] \in TipoComanda
  <2>1. comandas[k] # SinComanda
    BY <1>1 DEF PorPreparar, SinComanda
  <2> QED
    BY <2>1, ComandaConEstado DEF EstadosComanda
<1>2. comandas' \in [Comandas -> TipoComanda \cup {SinComanda}]
  BY <1>1 DEF CancelarCuenta, TypeOK
<1>3. renglones' \in [Renglones -> TipoRenglon \cup {SinRenglon}]
  BY BorrarRenglonesOK DEF CancelarCuenta
<1>4. cuentas[c] \in TipoCuenta
  BY AbiertaEsCuenta DEF CancelarCuenta, Abierta, Libre
<1>5. (cuentas[c].autorizada \/ EnviadosDe(c) # {}) \in BOOLEAN
  BY Zenon
<1>6. [cuentas[c] EXCEPT !.estado = "CANCELADA", !.autorizada = @ \/ EnviadosDe(c) # {}] \in TipoCuenta
  BY <1>4, <1>5 DEF TipoCuenta, EstadosCuenta
<1>7. cuentas' \in [Cuentas -> TipoCuenta \cup {SinCuenta}]
  BY <1>6 DEF CancelarCuenta, TypeOK
<1> QED
  BY <1>2, <1>3, <1>7 DEF CancelarCuenta, TypeOK

\* Charging is a change of state.
LEMMA CobrarTypeOK ==
    ASSUME TypeOK, NEW c \in Cuentas, Cobrar(c)
    PROVE  TypeOK'
<1>1. [cuentas[c] EXCEPT !.estado = "PAGADA"] \in TipoCuenta
  BY AbiertaEsCuenta DEF Cobrar, Abierta, Libre, TipoCuenta, EstadosCuenta
<1> QED
  BY <1>1 DEF Cobrar, TypeOK

\* So is annulling what was charged.
LEMMA AnularTypeOK ==
    ASSUME TypeOK, NEW c \in Cuentas, Anular(c)
    PROVE  TypeOK'
<1>1. [cuentas[c] EXCEPT !.estado = "ANULADA", !.autorizada = TRUE] \in TipoCuenta
  BY AbiertaEsCuenta DEF Anular, Libre, TipoCuenta, EstadosCuenta
<1> QED
  BY <1>1 DEF Anular, TypeOK

\* The administration of tables and reservations.
LEMMA AdministrarTypeOK ==
    ASSUME TypeOK,
           \/ \E m \in MesasEditables, activa \in BOOLEAN : ActivarMesa(m, activa)
           \/ \E m \in MesasEditables : EliminarMesa(m)
           \/ \E r \in Reservas, e \in EstadosReserva : CambiarEstadoReserva(r, e)
           \/ \E r \in Reservas : EliminarReserva(r)
    PROVE  TypeOK'
<1>1. ASSUME NEW m \in MesasEditables, NEW activa \in BOOLEAN, ActivarMesa(m, activa)
      PROVE  TypeOK'
  BY <1>1 DEF ActivarMesa, TypeOK, EstadosMesa
<1>2. ASSUME NEW m \in MesasEditables, EliminarMesa(m)
      PROVE  TypeOK'
  BY <1>2 DEF EliminarMesa, TypeOK, EstadosMesa
<1>3. ASSUME NEW r \in Reservas, NEW e \in EstadosReserva, CambiarEstadoReserva(r, e)
      PROVE  TypeOK'
  BY <1>3 DEF CambiarEstadoReserva, TypeOK
<1>4. ASSUME NEW r \in Reservas, EliminarReserva(r)
      PROVE  TypeOK'
  <2>1. ASSUME NEW c \in Cuentas, cuentas[c].reserva = r
        PROVE  [cuentas[c] EXCEPT !.reserva = NULL] \in TipoCuenta
    <3>1. cuentas[c] \in TipoCuenta
      BY <2>1, ConstantesAssumption DEF TypeOK, SinCuenta
    <3> QED
      BY <3>1 DEF TipoCuenta
  <2>2. cuentas' \in [Cuentas -> TipoCuenta \cup {SinCuenta}]
    BY <1>4, <2>1 DEF EliminarReserva, TypeOK
  <2> QED
    BY <1>4, <2>2 DEF EliminarReserva, TypeOK
<1> QED
  BY <1>1, <1>2, <1>3, <1>4

-----------------------------------------------------------------------------
\* A step that changes no line of a locked account but c, nor its row, and
\* leaves c as it should.
SoloDe(c) ==
    /\ \A j \in Renglones : renglones[j].cuenta \notin {c, NULL} => renglones'[j] = renglones[j]
    /\ \A x \in Cuentas \ {c} :
          \/ cuentas'[x] = cuentas[x]
          \/ Suelta(x) /\ cuentas'[x].cancelando = NULL
    /\ \/ cuentas'[c].cancelando = NULL
       \/ Abierta(c)' /\ cuentas'[c].cancelando \in EnviadosDe(c)'

\* Such a step keeps the lock of every account.
LEMMA SoloDeCandado ==
    ASSUME Candado, NEW c \in Cuentas, SoloDe(c)
    PROVE  Candado'
<1> SUFFICES ASSUME NEW x \in Cuentas, cuentas'[x].cancelando # NULL
             PROVE  Abierta(x)' /\ cuentas'[x].cancelando \in EnviadosDe(x)'
  BY DEF Candado
<1>1. CASE x = c
  BY <1>1 DEF SoloDe
<1>2. CASE x # c
  <2>1. cuentas'[x] = cuentas[x]
    BY <1>2 DEF SoloDe
  <2>2. Abierta(x) /\ cuentas[x].cancelando \in EnviadosDe(x)
    BY <2>1 DEF Candado
  <2>3. PICK i \in Renglones : i = cuentas[x].cancelando /\ renglones[i].cuenta = x
                               /\ renglones[i].estado = "ENVIADO"
    BY <2>2 DEF EnviadosDe, RenglonesDe
  <2>4. renglones'[i] = renglones[i]
    BY <1>2, <2>3, ConstantesAssumption DEF SoloDe
  <2> QED
    BY <2>1, <2>2, <2>3, <2>4 DEF Abierta, EnviadosDe, RenglonesDe
<1> QED
  BY <1>1, <1>2

\* Discarding account c is one.
LEMMA DescarteSoloDe ==
    ASSUME TypeOK, NEW c \in Cuentas, Suelta(c), Descarte(c)
    PROVE  SoloDe(c)
<1>1. \A j \in Renglones : renglones[j].cuenta # c => renglones'[j] = renglones[j]
  BY DEF Descarte, BorrarRenglones, PendientesDe, RenglonesDe
<1>2. cuentas' = cuentas \/ cuentas' = [cuentas EXCEPT ![c] = SinCuenta]
  BY DEF Descarte
<1> QED
  BY <1>1, <1>2 DEF SoloDe, Suelta, SinCuenta, TypeOK

\* And splitting it: the account that is born has nothing to wait for.
LEMMA DividirSoloDe ==
    ASSUME TypeOK, NEW c \in Cuentas, Suelta(c), NEW n \in Cuentas, NEW M \in SUBSET VivosDe(c),
           NEW parte \in [M -> 1..MaxCantidad], Dividir(c, n, parte)
    PROVE  SoloDe(c)
<1>1. /\ cuentas' = [cuentas EXCEPT ![n] = CuentaNueva(cuentas[c].mesa, NULL, c, cuentas[c].raiz)]
      /\ Libre(n) /\ Abierta(c)
  BY DEF Dividir
<1>2. n # c /\ cuentas[n] = SinCuenta
  BY <1>1 DEF Libre, Abierta, TypeOK, TipoCuenta, EstadosCuenta
<1>3. cuentas'[n].cancelando = NULL /\ \A x \in Cuentas \ {n} : cuentas'[x] = cuentas[x]
  BY <1>1 DEF CuentaNueva, TypeOK
<1>4. PICK nuevo \in Injection(Parciales(parte), RenglonesLibres) :
         renglones' = Repartidos(n, parte, nuevo)
  BY DEF Dividir
<1>5. ASSUME NEW j \in Renglones, renglones[j].cuenta \notin {c, NULL}
      PROVE  renglones'[j] = renglones[j]
  <2>1. DOMAIN nuevo = Parciales(parte) /\ \A i \in DOMAIN nuevo : nuevo[i] \in RenglonesLibres
    BY <1>4 DEF Injection
  <2>2. j \notin DOMAIN parte /\ j \notin DOMAIN nuevo
    BY <1>5, <2>1 DEF Parciales, VivosDe, RenglonesDe
  <2>3. ~ \E i \in DOMAIN nuevo : nuevo[i] = j
    BY <1>5, <2>1 DEF RenglonesLibres
  <2> QED
    BY <1>4, <2>2, <2>3 DEF Repartidos
<1> QED
  BY <1>2, <1>3, <1>5 DEF SoloDe, Suelta, SinCuenta

\* Every request on account c is a step of that kind: it begins by locking c.
LEMMA OperarSoloDe ==
    ASSUME TypeOK, NEW c \in Cuentas, OperarCuenta(c)
    PROVE  SoloDe(c)
<1> USE DEF SoloDe
<1>1. Suelta(c)
  BY DEF OperarCuenta
<1>2. \A x \in Cuentas : cuentas[x] \in TipoCuenta \/ cuentas[x] = SinCuenta
  BY DEF TypeOK
<1>3. CASE \E a \in Articulos, t \in Tiempos, n \in 1..MaxCantidad, nota \in Notas :
              AgregarItem(c, a, t, n, nota)
  BY <1>1, <1>3 DEF AgregarItem, Sumable, PendientesDe, RenglonesDe, RenglonesLibres, Suelta, TypeOK
<1>4. CASE \E i \in Renglones, n \in 1..MaxCantidad, t \in Tiempos, nota \in Notas :
              ActualizarItem(c, i, n, t, nota)
  BY <1>1, <1>4 DEF ActualizarItem, PendientesDe, RenglonesDe, Suelta, TypeOK
<1>5. CASE \E i \in Renglones : EliminarItem(c, i)
  BY <1>1, <1>5 DEF EliminarItem, BorrarRenglones, PendientesDe, RenglonesDe, Suelta, TypeOK
<1>6. CASE \E I \in SUBSET Renglones, rebaja \in Rebajas : Descontar(c, I, rebaja)
  BY <1>1, <1>2, <1>6
     DEF Descontar, VivosDe, RenglonesDe, Suelta, TypeOK, TipoCuenta, SinCuenta
<1>7. CASE \E t \in Tiempos : Enviar(c, t)
  <2>1. PICK t \in Tiempos : Enviar(c, t)
    BY <1>7
  <2>2. PICK n : cuentas' = [cuentas EXCEPT ![c].sigComanda = @ + n]
    BY <2>1 DEF Enviar
  <2>3. \A j \in Renglones : renglones[j].cuenta \notin {c, NULL} => renglones'[j] = renglones[j]
    BY <2>1 DEF Enviar, PendientesDe, RenglonesDe
  <2> QED
    BY <1>1, <1>2, <2>2, <2>3 DEF Suelta, TypeOK, TipoCuenta, SinCuenta
<1>8. CASE \E i \in Renglones : CancelarItem(c, i)
  <2>1. PICK i \in Renglones : CancelarItem(c, i)
    BY <1>8
  <2>2. PICK q : cuentas' = [cuentas EXCEPT ![c].cancelando = i, ![c].quedan = q]
    BY <2>1 DEF CancelarItem
  <2>3. renglones' = renglones /\ Abierta(c) /\ i \in EnviadosDe(c)
    BY <2>1 DEF CancelarItem
  <2>4. cuentas'[c].estado = cuentas[c].estado /\ cuentas'[c].cancelando = i
    BY <1>2, <2>2 DEF TypeOK, TipoCuenta, SinCuenta
  <2> QED
    BY <2>2, <2>3, <2>4 DEF Abierta, EnviadosDe, RenglonesDe, TypeOK
<1>9. CASE \E m \in Mesas : CambiarMesa(c, m)
  BY <1>1, <1>2, <1>9 DEF CambiarMesa, Suelta, TypeOK, TipoCuenta, SinCuenta
<1>10. CASE Descartar(c)
  BY <1>10, DescarteSoloDe, <1>1 DEF Descartar
<1>11. CASE \E d \in Cuentas : Juntar(c, d)
  <2>1. PICK d \in Cuentas : Juntar(c, d)
    BY <1>11
  <2>2. \A j \in Renglones : renglones[j].cuenta \notin {c, NULL} => renglones'[j] = renglones[j]
    BY <2>1 DEF Juntar
  <2>3. PICK n : cuentas' = [cuentas EXCEPT ![c].estado = "UNIDA", ![c].unidaA = d, ![d].sigComanda = n]
    <3>1. cuentas' = [cuentas EXCEPT ![c].estado = "UNIDA", ![c].unidaA = d,
                            ![d].sigComanda = cuentas[d].sigComanda + cuentas[c].sigComanda - 1]
      BY <2>1 DEF Juntar, TypeOK
    <3> QED
      BY <3>1
  <2>4. c # d /\ Suelta(d)
    BY <2>1 DEF Juntar
  <2>5. \A x \in Cuentas \ {c, d} : cuentas'[x] = cuentas[x]
    BY <2>3 DEF TypeOK
  <2>6. cuentas'[c].cancelando = cuentas[c].cancelando /\ cuentas'[d].cancelando = cuentas[d].cancelando
    BY <1>2, <2>3, <2>4 DEF TypeOK, TipoCuenta, SinCuenta
  <2> QED
    BY <1>1, <2>2, <2>4, <2>5, <2>6 DEF Suelta
<1>12. CASE \E n \in Cuentas, M \in (SUBSET VivosDe(c)) \ {{}} : \E parte \in [M -> 1..MaxCantidad] :
               Dividir(c, n, parte)
  BY <1>1, <1>12, DividirSoloDe
<1>13. CASE CancelarCuenta(c)
  <2>1. PICK b : cuentas' = [cuentas EXCEPT ![c].estado = "CANCELADA", ![c].autorizada = b]
    BY <1>13 DEF CancelarCuenta
  <2>2. \A j \in Renglones : renglones[j].cuenta \notin {c, NULL} => renglones'[j] = renglones[j]
    BY <1>13 DEF CancelarCuenta, BorrarRenglones, PendientesDe, RenglonesDe
  <2> QED
    BY <1>1, <1>2, <2>1, <2>2 DEF Suelta, TypeOK, TipoCuenta, SinCuenta
<1>14. CASE Cobrar(c) \/ Anular(c)
  BY <1>1, <1>2, <1>14 DEF Cobrar, Anular, Suelta, TypeOK, TipoCuenta, SinCuenta
<1> QED
  BY <1>3, <1>4, <1>5, <1>6, <1>7, <1>8, <1>9, <1>10, <1>11, <1>12, <1>13, <1>14 DEF OperarCuenta

\* Every step keeps the locks.
LEMMA NextCandado ==
    ASSUME TypeOK, Candado, [Next]_vars
    PROVE  Candado'
<1>1. ASSUME NEW c \in Cuentas, NEW m \in Mesas \cup {NULL}, NEW r \in Reservas \cup {NULL},
             AbrirCuenta(c, m, r)
      PROVE  Candado'
  <2>1. cuentas' = [cuentas EXCEPT ![c] = CuentaNueva(m, r, NULL, c)] /\ UNCHANGED renglones
    BY <1>1 DEF AbrirCuenta
  <2>2. SoloDe(c)
    BY <2>1 DEF SoloDe, CuentaNueva, TypeOK
  <2> QED
    BY <2>2, SoloDeCandado
<1>2. ASSUME NEW c \in Cuentas, OperarCuenta(c)
      PROVE  Candado'
  BY <1>2, OperarSoloDe, SoloDeCandado
<1>3. ASSUME NEW c \in Cuentas, ConfirmarCancelacion(c)
      PROVE  Candado'
  <2>1. /\ cuentas' = [cuentas EXCEPT ![c].cancelando = NULL, ![c].quedan = FALSE,
                                      ![c].autorizada = TRUE]
        /\ renglones' = [renglones EXCEPT ![cuentas[c].cancelando].estado = "CANCELADO"]
        /\ cuentas[c].cancelando # NULL
    BY <1>3 DEF ConfirmarCancelacion
  <2>2. renglones[cuentas[c].cancelando].cuenta = c
    BY <2>1 DEF Candado, EnviadosDe, RenglonesDe
  <2>3. \A x \in Cuentas : cuentas[x] \in TipoCuenta \/ cuentas[x] = SinCuenta
    BY DEF TypeOK
  <2>4. cuentas'[c].cancelando = NULL /\ \A x \in Cuentas \ {c} : cuentas'[x] = cuentas[x]
    BY <2>1, <2>3 DEF TypeOK, TipoCuenta, SinCuenta
  <2>5. \A j \in Renglones : j # cuentas[c].cancelando => renglones'[j] = renglones[j]
    BY <2>1 DEF TypeOK
  <2>6. SoloDe(c)
    BY <2>2, <2>4, <2>5 DEF SoloDe
  <2> QED
    BY <2>6, SoloDeCandado
<1>4. ASSUME NEW c \in Cuentas, PurgaDescartar(c)
      PROVE  Candado'
  <2>1. CASE Descarte(c)
    BY <1>4, <2>1, DescarteSoloDe, SoloDeCandado DEF PurgaDescartar
  <2>2. CASE UNCHANGED <<cuentas, renglones>>
    BY <2>2 DEF Candado, Abierta, EnviadosDe, RenglonesDe
  <2> QED
    BY <1>4, <2>1, <2>2 DEF PurgaDescartar
<1>5. CASE UNCHANGED <<cuentas, renglones>>
  BY <1>5 DEF Candado, Abierta, EnviadosDe, RenglonesDe
<1>6. ASSUME NEW r \in Reservas, EliminarReserva(r)
      PROVE  Candado'
  <2>1. \A x \in Cuentas : cuentas[x].cancelando # NULL \/ cuentas'[x].cancelando # NULL
                           => cuentas'[x] = cuentas[x]
    <3>1. \A x \in Cuentas : cuentas[x] \in TipoCuenta \/ cuentas[x] = SinCuenta
      BY DEF TypeOK
    <3> QED
      BY <1>6, <3>1 DEF EliminarReserva, Suelta, TipoCuenta, SinCuenta
  <2>2. renglones' = renglones
    BY <1>6 DEF EliminarReserva
  <2> QED
    BY <2>1, <2>2 DEF Candado, Abierta, EnviadosDe, RenglonesDe
<1> QED
  BY <1>1, <1>2, <1>3, <1>4, <1>5, <1>6
     DEF Next, vars, CambiarEstadoComanda, PurgaSeleccionar, ActivarMesa, EliminarMesa,
         CambiarEstadoReserva

\* Every step keeps the rows well formed.
LEMMA NextTypeOK ==
    ASSUME TypeOK, Candado, [Next]_vars
    PROVE  TypeOK'
<1>1. CASE \E c \in Cuentas, m \in Mesas \cup {NULL}, r \in Reservas \cup {NULL} : AbrirCuenta(c, m, r)
  BY <1>1, AbrirCuentaTypeOK
<1>2. ASSUME NEW c \in Cuentas, OperarCuenta(c)
      PROVE  TypeOK'
  <2>1. CASE \E a \in Articulos, t \in Tiempos, n \in 1..MaxCantidad, nota \in Notas :
                AgregarItem(c, a, t, n, nota)
    BY <2>1, AgregarItemTypeOK
  <2>2. CASE \E i \in Renglones, n \in 1..MaxCantidad, t \in Tiempos, nota \in Notas :
                ActualizarItem(c, i, n, t, nota)
    BY <2>2, ActualizarItemTypeOK
  <2>3. CASE \E i \in Renglones : EliminarItem(c, i)
    BY <2>3, EliminarItemTypeOK
  <2>4. CASE \E I \in SUBSET Renglones, rebaja \in Rebajas : Descontar(c, I, rebaja)
    BY <2>4, DescontarTypeOK
  <2>5. CASE \E t \in Tiempos : Enviar(c, t)
    BY <2>5, EnviarTypeOK
  <2>6. CASE \E i \in Renglones : CancelarItem(c, i)
    BY <2>6, CancelarItemTypeOK
  <2>7. CASE \E m \in Mesas : CambiarMesa(c, m)
    BY <2>7, CambiarMesaTypeOK
  <2>8. CASE Descartar(c)
    BY <2>8, DescarteTypeOK DEF Descartar, TypeOK
  <2>9. CASE \E d \in Cuentas : Juntar(c, d)
    BY <2>9, JuntarTypeOK
  <2>10. CASE \E n \in Cuentas, M \in (SUBSET VivosDe(c)) \ {{}} : \E parte \in [M -> 1..MaxCantidad] :
                 Dividir(c, n, parte)
    BY <2>10, DividirTypeOK
  <2>11. CASE CancelarCuenta(c)
    BY <2>11, CancelarCuentaTypeOK
  <2>12. CASE Cobrar(c)
    BY <2>12, CobrarTypeOK
  <2>13. CASE Anular(c)
    BY <2>13, AnularTypeOK
  <2> QED
    BY <1>2, <2>1, <2>2, <2>3, <2>4, <2>5, <2>6, <2>7, <2>8, <2>9, <2>10, <2>11, <2>12, <2>13
       DEF OperarCuenta
<1>3. CASE \E k \in Comandas, e \in DOMAIN DESDE : CambiarEstadoComanda(k, e)
  BY <1>3, CambiarEstadoComandaTypeOK
<1>4. CASE PurgaSeleccionar \/ \E c \in Cuentas : PurgaDescartar(c)
  BY <1>4, PurgaTypeOK
<1>5. CASE \/ \E m \in MesasEditables, activa \in BOOLEAN : ActivarMesa(m, activa)
           \/ \E m \in MesasEditables : EliminarMesa(m)
           \/ \E r \in Reservas, e \in EstadosReserva : CambiarEstadoReserva(r, e)
           \/ \E r \in Reservas : EliminarReserva(r)
  BY <1>5, AdministrarTypeOK
<1>6. CASE \E c \in Cuentas : ConfirmarCancelacion(c)
  BY <1>6, ConfirmarCancelacionTypeOK
<1>7. CASE UNCHANGED vars
  BY <1>7 DEF vars, TypeOK
<1> QED
  BY <1>1, <1>2, <1>3, <1>4, <1>5, <1>6, <1>7 DEF Next

\* Well formed rows and held locks: what the rest of the proofs rest on.
LEMMA BaseInvariante == Spec => [](TypeOK /\ Candado)
<1>1. Init => TypeOK /\ Candado
  <2>1. Init => Candado
    BY DEF Init, Candado, SinCuenta
  <2> QED
    BY <2>1, InitTypeOK
<1>2. TypeOK /\ Candado /\ [Next]_vars => (TypeOK /\ Candado)'
  BY NextTypeOK, NextCandado
<1> QED
  BY <1>1, <1>2, PTL DEF Spec

\* Whatever is asked of the accounts, their rows stay well formed: no line of
\* no pieces or of more than the maximum, no folio beyond the counter's range.
THEOREM TypeCorrect == Spec => []TypeOK
BY BaseInvariante, PTL

-----------------------------------------------------------------------------
\* What every step does to the accounts, other than opening, splitting,
\* discarding one or moving it to another table.
Conserva ==
    /\ ultimoFolio' = ultimoFolio
    /\ \A c \in Cuentas :
          /\ cuentas'[c].folio = cuentas[c].folio
          /\ cuentas'[c].raiz = cuentas[c].raiz
          /\ cuentas'[c].mesa = cuentas[c].mesa
          /\ cuentas'[c].reserva \in {cuentas[c].reserva, NULL}
          /\ Libre(c)' <=> Libre(c)
          /\ Abierta(c)' => Abierta(c)
          /\ cuentas[c].estado = "CANCELADA" => cuentas'[c].estado = "CANCELADA"

\* The actions that change the rows of the accounts one column at a time.
LEMMA OperarConserva ==
    ASSUME TypeOK, NEW c \in Cuentas,
           \/ \E a \in Articulos, t \in Tiempos, n \in 1..MaxCantidad, nota \in Notas :
                 AgregarItem(c, a, t, n, nota)
           \/ \E i \in Renglones, n \in 1..MaxCantidad, t \in Tiempos, nota \in Notas :
                 ActualizarItem(c, i, n, t, nota)
           \/ \E i \in Renglones : EliminarItem(c, i)
           \/ \E I \in SUBSET Renglones, rebaja \in Rebajas : Descontar(c, I, rebaja)
           \/ \E t \in Tiempos : Enviar(c, t)
           \/ \E i \in Renglones : CancelarItem(c, i)
           \/ \E d \in Cuentas : Juntar(c, d)
           \/ CancelarCuenta(c)
           \/ Cobrar(c)
           \/ Anular(c)
    PROVE  Conserva
<1> USE DEF Conserva, Abierta, Libre
<1>1. \A x \in Cuentas : cuentas[x] \in TipoCuenta \/ cuentas[x] = SinCuenta
  BY DEF TypeOK
<1>2. ASSUME UNCHANGED <<cuentas, ultimoFolio>>
      PROVE  Conserva
  BY <1>2
<1>3. ASSUME NEW a \in Articulos, NEW t \in Tiempos, NEW n \in 1..MaxCantidad, NEW nota \in Notas,
             AgregarItem(c, a, t, n, nota)
      PROVE  Conserva
  BY <1>2, <1>3 DEF AgregarItem
<1>4. ASSUME NEW i \in Renglones, NEW n \in 1..MaxCantidad, NEW t \in Tiempos, NEW nota \in Notas,
             ActualizarItem(c, i, n, t, nota)
      PROVE  Conserva
  BY <1>2, <1>4 DEF ActualizarItem
<1>5. ASSUME NEW i \in Renglones, EliminarItem(c, i)
      PROVE  Conserva
  BY <1>2, <1>5 DEF EliminarItem
<1>6. ASSUME NEW I \in SUBSET Renglones, NEW rebaja \in Rebajas, Descontar(c, I, rebaja)
      PROVE  Conserva
  BY <1>1, <1>6 DEF Descontar, TypeOK, TipoCuenta, SinCuenta
<1>7. ASSUME NEW t \in Tiempos, Enviar(c, t)
      PROVE  Conserva
  <2>1. PICK n : cuentas' = [cuentas EXCEPT ![c].sigComanda = @ + n]
    BY <1>7 DEF Enviar
  <2>2. UNCHANGED ultimoFolio
    BY <1>7 DEF Enviar
  <2> QED
    BY <1>1, <2>1, <2>2 DEF TypeOK, TipoCuenta, SinCuenta
<1>8. ASSUME NEW i \in Renglones, CancelarItem(c, i)
      PROVE  Conserva
  <2>1. PICK q : cuentas' = [cuentas EXCEPT ![c].cancelando = i, ![c].quedan = q]
    BY <1>8 DEF CancelarItem
  <2>2. UNCHANGED ultimoFolio
    BY <1>8 DEF CancelarItem
  <2> QED
    BY <1>1, <2>1, <2>2 DEF TypeOK, TipoCuenta, SinCuenta
<1>9. ASSUME NEW d \in Cuentas, Juntar(c, d)
      PROVE  Conserva
  <2>1. PICK n : cuentas' = [cuentas EXCEPT ![c].estado = "UNIDA", ![c].unidaA = d, ![d].sigComanda = n]
    <3>1. cuentas' = [cuentas EXCEPT ![c].estado = "UNIDA", ![c].unidaA = d,
                            ![d].sigComanda = cuentas[d].sigComanda + cuentas[c].sigComanda - 1]
      BY <1>9 DEF Juntar, TypeOK
    <3> QED
      BY <3>1
  <2>2. UNCHANGED ultimoFolio /\ cuentas[c].estado = "ABIERTA" /\ c # d
    BY <1>9 DEF Juntar
  <2> QED
    BY <1>1, <2>1, <2>2 DEF TypeOK, TipoCuenta, SinCuenta
<1>10. CASE CancelarCuenta(c)
  <2>1. PICK b : cuentas' = [cuentas EXCEPT ![c].estado = "CANCELADA", ![c].autorizada = b]
    BY <1>10 DEF CancelarCuenta
  <2>2. UNCHANGED ultimoFolio /\ cuentas[c].estado = "ABIERTA"
    BY <1>10 DEF CancelarCuenta
  <2> QED
    BY <1>1, <2>1, <2>2 DEF TypeOK, TipoCuenta, SinCuenta
<1>11. CASE Cobrar(c) \/ Anular(c)
  BY <1>1, <1>11 DEF Cobrar, Anular, TypeOK, TipoCuenta, SinCuenta
<1> QED
  BY <1>3, <1>4, <1>5, <1>6, <1>7, <1>8, <1>9, <1>10, <1>11

\* The commit of a cancellation, the kitchen, the selection of the purge and the
\* administration.
LEMMA AdministrarConserva ==
    ASSUME TypeOK,
           \/ \E c \in Cuentas : ConfirmarCancelacion(c)
           \/ \E k \in Comandas, e \in DOMAIN DESDE : CambiarEstadoComanda(k, e)
           \/ PurgaSeleccionar
           \/ \E m \in MesasEditables, activa \in BOOLEAN : ActivarMesa(m, activa)
           \/ \E m \in MesasEditables : EliminarMesa(m)
           \/ \E r \in Reservas, e \in EstadosReserva : CambiarEstadoReserva(r, e)
           \/ \E r \in Reservas : EliminarReserva(r)
           \/ UNCHANGED vars
    PROVE  Conserva
<1> USE DEF Conserva, Abierta, Libre
<1>1. CASE UNCHANGED <<cuentas, ultimoFolio>>
  BY <1>1
<1>2. ASSUME NEW r \in Reservas, EliminarReserva(r)
      PROVE  Conserva
  <2>1. ASSUME NEW c \in Cuentas
        PROVE  cuentas'[c] = IF cuentas[c].reserva = r THEN [cuentas[c] EXCEPT !.reserva = NULL] ELSE cuentas[c]
    BY <1>2 DEF EliminarReserva
  <2>2. \A x \in Cuentas : cuentas[x] \in TipoCuenta \/ cuentas[x] = SinCuenta
    BY DEF TypeOK
  <2> QED
    BY <1>2, <2>1, <2>2 DEF EliminarReserva, TipoCuenta, SinCuenta
<1>3. ASSUME NEW c \in Cuentas, ConfirmarCancelacion(c)
      PROVE  Conserva
  <2>1. /\ cuentas' = [cuentas EXCEPT ![c].cancelando = NULL, ![c].quedan = FALSE,
                                      ![c].autorizada = TRUE]
        /\ UNCHANGED ultimoFolio
    BY <1>3 DEF ConfirmarCancelacion
  <2>2. \A x \in Cuentas : cuentas[x] \in TipoCuenta \/ cuentas[x] = SinCuenta
    BY DEF TypeOK
  <2> QED
    BY <2>1, <2>2 DEF TypeOK, TipoCuenta, SinCuenta
<1> QED
  BY <1>1, <1>2, <1>3 DEF CambiarEstadoComanda, PurgaSeleccionar, ActivarMesa, EliminarMesa,
                    CambiarEstadoReserva, vars

-----------------------------------------------------------------------------
\* The invariant behind the salon's theorems.  FoliosSanos is inductive
\* because the counter only goes back over the folio of the deleted account;
\* MesaUnaFamilia because a table is given to an account only when nobody
\* else is at it, and splitting hands down the root.
SalonInv == TypeOK /\ FoliosSanos /\ MesaUnaFamilia /\ ReservaUnaCuenta

\* No account is open at the start.
LEMMA InitSalonInv == Init => SalonInv
<1> SUFFICES ASSUME Init PROVE SalonInv
  OBVIOUS
<1>1. \A c \in Cuentas : cuentas[c] = SinCuenta
  BY DEF Init
<1>2. FoliosSanos /\ MesaUnaFamilia /\ ReservaUnaCuenta
  BY <1>1 DEF FoliosSanos, MesaUnaFamilia, ReservaUnaCuenta, Abierta, Libre, SinCuenta
<1> QED
  BY <1>2, InitTypeOK DEF SalonInv

\* What changes no folio, table or root keeps the invariant.
LEMMA ConservaSalonInv ==
    ASSUME SalonInv, TypeOK', Conserva
    PROVE  SalonInv'
<1>1. FoliosSanos'
  BY DEF SalonInv, Conserva, FoliosSanos, TypeOK, Libre
<1>2. MesaUnaFamilia'
  BY DEF SalonInv, Conserva, MesaUnaFamilia
<1>3. ReservaUnaCuenta'
  BY DEF SalonInv, Conserva, ReservaUnaCuenta
<1> QED
  BY <1>1, <1>2, <1>3 DEF SalonInv

\* Opening takes the next folio, and a table and a reservation nobody has.
LEMMA AbrirSalonInv ==
    ASSUME SalonInv, TypeOK', NEW c \in Cuentas, NEW m \in Mesas \cup {NULL},
           NEW r \in Reservas \cup {NULL}, AbrirCuenta(c, m, r)
    PROVE  SalonInv'
<1>1. /\ cuentas'[c] = CuentaNueva(m, r, NULL, c)
      /\ \A x \in Cuentas \ {c} : cuentas'[x] = cuentas[x]
      /\ ultimoFolio' = ultimoFolio + 1
      /\ Libre(c)
  BY DEF AbrirCuenta, SalonInv, TypeOK
<1>2. FoliosSanos'
  BY <1>1 DEF SalonInv, FoliosSanos, CuentaNueva, TypeOK, Libre
<1>3. MesaUnaFamilia'
  <2>1. m # NULL => \A x \in Cuentas : ~(Abierta(x) /\ cuentas[x].mesa = m)
    BY DEF AbrirCuenta, Ocupada
  <2> QED
    BY <1>1, <2>1 DEF SalonInv, MesaUnaFamilia, CuentaNueva, Abierta
<1>4. ReservaUnaCuenta'
  <2>1. r # NULL => \A x \in Cuentas : ~(cuentas[x].reserva = r /\ cuentas[x].estado # "CANCELADA")
    BY DEF AbrirCuenta, ConCuenta
  <2> QED
    BY <1>1, <2>1 DEF SalonInv, ReservaUnaCuenta, CuentaNueva
<1> QED
  BY <1>2, <1>3, <1>4 DEF SalonInv

\* Splitting takes the next folio, and hands down table and root.
LEMMA DividirSalonInv ==
    ASSUME SalonInv, TypeOK', NEW c \in Cuentas, NEW n \in Cuentas,
           NEW parte, Dividir(c, n, parte)
    PROVE  SalonInv'
<1>1. /\ cuentas'[n] = CuentaNueva(cuentas[c].mesa, NULL, c, cuentas[c].raiz)
      /\ \A x \in Cuentas \ {n} : cuentas'[x] = cuentas[x]
      /\ ultimoFolio' = ultimoFolio + 1
      /\ Libre(n) /\ Abierta(c)
  BY DEF Dividir, SalonInv, TypeOK
<1>2. FoliosSanos'
  BY <1>1 DEF SalonInv, FoliosSanos, CuentaNueva, TypeOK, Libre
<1>3. MesaUnaFamilia'
  BY <1>1 DEF SalonInv, MesaUnaFamilia, CuentaNueva, Abierta, Libre
<1>4. ReservaUnaCuenta'
  BY <1>1 DEF SalonInv, ReservaUnaCuenta, CuentaNueva
<1> QED
  BY <1>2, <1>3, <1>4 DEF SalonInv

\* An account moves only to a table without an open account.
LEMMA CambiarMesaSalonInv ==
    ASSUME SalonInv, TypeOK', NEW c \in Cuentas, NEW m \in Mesas, CambiarMesa(c, m)
    PROVE  SalonInv'
<1>1. /\ cuentas' = [cuentas EXCEPT ![c].mesa = m]
      /\ UNCHANGED ultimoFolio
      /\ \A x \in Cuentas : ~(Abierta(x) /\ cuentas[x].mesa = m)
  BY DEF CambiarMesa, Ocupada
<1>2. \A x \in Cuentas : cuentas[x] \in TipoCuenta \/ cuentas[x] = SinCuenta
  BY DEF SalonInv, TypeOK
<1>3. \A x \in Cuentas :
         /\ cuentas'[x].estado = cuentas[x].estado
         /\ cuentas'[x].folio = cuentas[x].folio
         /\ cuentas'[x].raiz = cuentas[x].raiz
         /\ cuentas'[x].reserva = cuentas[x].reserva
         /\ x # c => cuentas'[x].mesa = cuentas[x].mesa
  BY <1>1, <1>2 DEF SalonInv, TypeOK, TipoCuenta, SinCuenta
<1>4. cuentas'[c].mesa = m
  BY <1>1, <1>2 DEF SalonInv, TypeOK, TipoCuenta, SinCuenta
<1>5. FoliosSanos'
  BY <1>1, <1>3 DEF SalonInv, FoliosSanos, Libre
<1>6. MesaUnaFamilia'
  BY <1>1, <1>3, <1>4 DEF SalonInv, MesaUnaFamilia, Abierta
<1>7. ReservaUnaCuenta'
  BY <1>3 DEF SalonInv, ReservaUnaCuenta
<1> QED
  BY <1>5, <1>6, <1>7 DEF SalonInv

\* Discarding gives the folio back only when it was the last one.
LEMMA DescarteSalonInv ==
    ASSUME SalonInv, TypeOK', NEW c \in Cuentas, Descarte(c)
    PROVE  SalonInv'
<1>1. CASE UNCHANGED <<cuentas, ultimoFolio>>
  BY <1>1 DEF SalonInv, FoliosSanos, MesaUnaFamilia, ReservaUnaCuenta, Abierta, Libre
<1>2. CASE cuentas' = [cuentas EXCEPT ![c] = SinCuenta] /\ ultimoFolio' = FolioSin(c)
  <2>1. /\ cuentas'[c] = SinCuenta
        /\ \A x \in Cuentas \ {c} : cuentas'[x] = cuentas[x]
    BY <1>2 DEF SalonInv, TypeOK
  <2>2. ~Libre(c)
    BY DEF Descarte, Abierta, Libre
  <2>3. FoliosSanos'
    BY <1>2, <2>1, <2>2 DEF SalonInv, FoliosSanos, FolioSin, SinCuenta, TypeOK, Libre
  <2>4. MesaUnaFamilia'
    BY <2>1 DEF SalonInv, MesaUnaFamilia, SinCuenta, Abierta
  <2>5. ReservaUnaCuenta'
    BY <2>1 DEF SalonInv, ReservaUnaCuenta, SinCuenta
  <2> QED
    BY <2>3, <2>4, <2>5 DEF SalonInv
<1> QED
  BY <1>1, <1>2 DEF Descarte

\* Every step keeps the invariant.
LEMMA NextSalonInv ==
    ASSUME SalonInv, Candado, [Next]_vars
    PROVE  SalonInv'
<1>1. TypeOK /\ TypeOK'
  BY NextTypeOK DEF SalonInv
<1>2. CASE \E c \in Cuentas, m \in Mesas \cup {NULL}, r \in Reservas \cup {NULL} : AbrirCuenta(c, m, r)
  BY <1>1, <1>2, AbrirSalonInv
<1>3. ASSUME NEW c \in Cuentas, OperarCuenta(c)
      PROVE  SalonInv'
  <2>1. CASE \E m \in Mesas : CambiarMesa(c, m)
    BY <1>1, <2>1, CambiarMesaSalonInv
  <2>2. CASE Descartar(c)
    BY <1>1, <2>2, DescarteSalonInv DEF Descartar
  <2>3. CASE \E n \in Cuentas, M \in (SUBSET VivosDe(c)) \ {{}} : \E parte \in [M -> 1..MaxCantidad] :
                Dividir(c, n, parte)
    BY <1>1, <2>3, DividirSalonInv
  <2>4. ASSUME Conserva
        PROVE  SalonInv'
    BY <1>1, <2>4, ConservaSalonInv
  <2> QED
    BY <1>1, <1>3, <2>1, <2>2, <2>3, <2>4, OperarConserva DEF OperarCuenta
<1>4. ASSUME NEW c \in Cuentas, PurgaDescartar(c)
      PROVE  SalonInv'
  <2>1. CASE Descarte(c)
    BY <1>1, <2>1, DescarteSalonInv
  <2>2. CASE UNCHANGED <<cuentas, ultimoFolio>>
    BY <1>1, <2>2 DEF SalonInv, FoliosSanos, MesaUnaFamilia, ReservaUnaCuenta, Abierta, Libre
  <2> QED
    BY <1>4, <2>1, <2>2 DEF PurgaDescartar
<1>5. CASE \/ \E c \in Cuentas : ConfirmarCancelacion(c)
           \/ \E k \in Comandas, e \in DOMAIN DESDE : CambiarEstadoComanda(k, e)
           \/ PurgaSeleccionar
           \/ \E m \in MesasEditables, activa \in BOOLEAN : ActivarMesa(m, activa)
           \/ \E m \in MesasEditables : EliminarMesa(m)
           \/ \E r \in Reservas, e \in EstadosReserva : CambiarEstadoReserva(r, e)
           \/ \E r \in Reservas : EliminarReserva(r)
           \/ UNCHANGED vars
  BY <1>1, <1>5, AdministrarConserva, ConservaSalonInv
<1> QED
  BY <1>2, <1>3, <1>4, <1>5 DEF Next

\* The three facts about the salon hold in every behaviour.
LEMMA SalonInvariante == Spec => []SalonInv
<1>1. Init => SalonInv
  BY InitSalonInv
<1>2. SalonInv /\ Candado /\ [Next]_vars => SalonInv'
  BY NextSalonInv
<1> QED
  BY <1>1, <1>2, BaseInvariante, PTL DEF Spec

\* No folio is ever issued twice, although discarding an account gives its
\* folio back to the counter.
THEOREM FoliosCorrectos == Spec => []FoliosSanos
<1>1. SalonInv => FoliosSanos
  BY DEF SalonInv
<1> QED
  BY <1>1, SalonInvariante, PTL

\* Two open accounts at one table always come from splitting the same one.
THEOREM MesasCorrectas == Spec => []MesaUnaFamilia
<1>1. SalonInv => MesaUnaFamilia
  BY DEF SalonInv
<1> QED
  BY <1>1, SalonInvariante, PTL

\* A reservation never has two accounts that were not cancelled.
THEOREM ReservasCorrectas == Spec => []ReservaUnaCuenta
<1>1. SalonInv => ReservaUnaCuenta
  BY DEF SalonInv
<1> QED
  BY <1>1, SalonInvariante, PTL
-----------------------------------------------------------------------------
(* The lines and the comandas.                                             *)

\* Only sending gives a line a comanda.
PendientesSinComanda ==
    \A i \in Renglones : renglones[i].estado = "PENDIENTE" => renglones[i].comanda = NULL

\* What is still to be prepared has no line in a cancelled account: what
\* keeps PorPrepararConDestino when a line of a comanda that two accounts
\* share is cancelled.
PorPrepararSinCanceladas ==
    \A k \in Comandas : comandas[k].estado \in PorPreparar =>
        \A i \in DeLaComanda(k) : cuentas[renglones[i].cuenta].estado # "CANCELADA"

\* The invariant behind the theorems about the kitchen.
CocinaInv ==
    /\ TypeOK
    /\ SinReferenciasColgantes
    /\ PendientesSinComanda
    /\ NumerosPorCuenta
    /\ PorPrepararConDestino
    /\ PorPrepararSinCanceladas
    /\ CobradaTodoEnviado

\* What a step does to line j, other than splitting accounts.  It leaves it
\* as it was, ...
Queda(j) == renglones'[j] = renglones[j]
\* ... changes or deletes a pending one of an open account, ...
Edita(j) ==
    /\ renglones[j].estado = "PENDIENTE" /\ Abierta(renglones[j].cuenta)
    /\ \/ renglones'[j] = SinRenglon
       \/ /\ renglones'[j].estado = "PENDIENTE"
          /\ renglones'[j].cuenta = renglones[j].cuenta
          /\ renglones'[j].comanda = renglones[j].comanda
\* ... adds it to an open account, ...
Nace(j) ==
    /\ renglones[j] = SinRenglon
    /\ renglones'[j].estado = "PENDIENTE" /\ renglones'[j].comanda = NULL
    /\ renglones'[j].cuenta \in Cuentas /\ Abierta(renglones'[j].cuenta)
\* ... discounts it or moves it to another open account, ...
Mueve(j) ==
    /\ renglones[j].cuenta \in Cuentas /\ Abierta(renglones[j].cuenta)
    /\ renglones'[j].cuenta \in Cuentas /\ Abierta(renglones'[j].cuenta)
    /\ renglones'[j].estado = renglones[j].estado
    /\ renglones'[j].comanda = renglones[j].comanda
    /\ renglones'[j].cant = renglones[j].cant
\* ... sends it, perhaps with a new comanda, ...
Sale(j) ==
    /\ renglones[j].estado = "PENDIENTE" /\ Abierta(renglones[j].cuenta)
    /\ renglones'[j].estado = "ENVIADO"
    /\ renglones'[j].cuenta = renglones[j].cuenta
    /\ renglones'[j].comanda # NULL =>
          /\ renglones'[j].comanda \in Comandas
          /\ comandas[renglones'[j].comanda].cuenta = NULL
          /\ comandas'[renglones'[j].comanda].cuenta = renglones[j].cuenta
\* ... or cancels it after it was sent.
Anula(j) ==
    /\ renglones[j].estado = "ENVIADO" /\ Abierta(renglones[j].cuenta)
    /\ renglones'[j].estado = "CANCELADO"
    /\ renglones'[j].cuenta = renglones[j].cuenta
    /\ renglones'[j].comanda = renglones[j].comanda
    /\ renglones'[j].cant = renglones[j].cant

Pasa(j) == Queda(j) \/ Edita(j) \/ Nace(j) \/ Mueve(j) \/ Sale(j) \/ Anula(j)

\* A line of no account is no line at all.
LEMMA RenglonLibre ==
    ASSUME TypeOK, NEW j \in Renglones, renglones[j].cuenta = NULL
    PROVE  renglones[j] = SinRenglon
BY ConstantesAssumption DEF TypeOK, TipoRenglon

\* Adding a line, or pieces to one.
LEMMA AgregarItemPasa ==
    ASSUME TypeOK, NEW c \in Cuentas, NEW a \in Articulos, NEW t \in Tiempos,
           NEW n \in 1..MaxCantidad, NEW nota \in Notas, AgregarItem(c, a, t, n, nota),
           NEW j \in Renglones
    PROVE  Queda(j) \/ Edita(j) \/ Nace(j)
<1>1. ASSUME NEW i \in Sumable(c, a, t), renglones' = [renglones EXCEPT ![i].cant = @ + n]
      PROVE  Queda(j) \/ Edita(j)
  <2>1. i \in PendientesDe(c) /\ i \in RenglonesDe(c)
    BY DEF Sumable, PendientesDe
  <2>2. i \in Renglones /\ renglones[i] \in TipoRenglon
    BY <2>1, RenglonDeCuenta
  <2>3. renglones[i].estado = "PENDIENTE" /\ renglones[i].cuenta = c /\ Abierta(c)
    BY <2>1 DEF PendientesDe, RenglonesDe, AgregarItem
  <2>4. j # i => renglones'[j] = renglones[j]
    BY <1>1 DEF TypeOK
  <2>5. renglones'[i] = [renglones[i] EXCEPT !.cant = @ + n]
    BY <1>1, <2>2 DEF TypeOK
  <2> QED
    BY <2>2, <2>3, <2>4, <2>5 DEF Queda, Edita, TipoRenglon
<1>2. ASSUME NEW i \in RenglonesLibres,
             renglones' = [renglones EXCEPT ![i] =
                  [cuenta |-> c, art |-> a, cant |-> n, estado |-> "PENDIENTE",
                   comanda |-> NULL, tiempo |-> t, nota |-> nota, rebaja |-> FALSE]]
      PROVE  Queda(j) \/ Nace(j)
  <2>1. renglones[i] = SinRenglon /\ i \in Renglones
    BY RenglonLibre DEF RenglonesLibres
  <2>2. Abierta(c)
    BY DEF AgregarItem
  <2> QED
    BY <1>2, <2>1, <2>2 DEF Queda, Nace, TypeOK
<1> QED
  BY <1>1, <1>2 DEF AgregarItem

\* Deleting pending lines of an open account.
LEMMA BorrarPasa ==
    ASSUME TypeOK, NEW c \in Cuentas, Abierta(c), NEW I, I \subseteq PendientesDe(c),
           renglones' = BorrarRenglones(I), NEW j \in Renglones
    PROVE  Queda(j) \/ Edita(j)
BY DEF BorrarRenglones, PendientesDe, RenglonesDe, Queda, Edita

\* Changing or deleting one pending line.
LEMMA EditarPasa ==
    ASSUME TypeOK, NEW c \in Cuentas, NEW i \in Renglones, NEW j \in Renglones,
           \/ EliminarItem(c, i)
           \/ \E n \in 1..MaxCantidad, t \in Tiempos, nota \in Notas : ActualizarItem(c, i, n, t, nota)
    PROVE  Queda(j) \/ Edita(j)
<1>1. CASE EliminarItem(c, i)
  BY <1>1, BorrarPasa DEF EliminarItem
<1>2. ASSUME NEW n \in 1..MaxCantidad, NEW t \in Tiempos, NEW nota \in Notas,
             ActualizarItem(c, i, n, t, nota)
      PROVE  Queda(j) \/ Edita(j)
  <2>1. renglones[i].estado = "PENDIENTE" /\ renglones[i].cuenta = c /\ Abierta(c)
    BY <1>2 DEF ActualizarItem, PendientesDe, RenglonesDe
  <2>2. renglones[i] \in TipoRenglon
    BY <2>1, RenglonDeCuenta DEF RenglonesDe
  <2>3. /\ j # i => renglones'[j] = renglones[j]
        /\ renglones'[i] = [renglones[i] EXCEPT !.cant = n, !.tiempo = t, !.nota = nota]
    BY <1>2 DEF ActualizarItem, TypeOK
  <2>4. PICK r : r = renglones[i]
    OBVIOUS
  <2>5. /\ [r EXCEPT !.cant = n, !.tiempo = t, !.nota = nota].estado = r.estado
        /\ [r EXCEPT !.cant = n, !.tiempo = t, !.nota = nota].cuenta = r.cuenta
        /\ [r EXCEPT !.cant = n, !.tiempo = t, !.nota = nota].comanda = r.comanda
    BY <2>2, <2>4 DEF TipoRenglon
  <2>6. Edita(i)
    BY <2>1, <2>3, <2>4, <2>5 DEF Edita
  <2> QED
    BY <2>3, <2>6 DEF Queda
<1> QED
  BY <1>1, <1>2

\* Giving or taking off a discount.
LEMMA DescontarPasa ==
    ASSUME TypeOK, NEW c \in Cuentas, NEW I \in SUBSET Renglones, NEW rebaja \in Rebajas,
           Descontar(c, I, rebaja), NEW j \in Renglones
    PROVE  Queda(j) \/ Mueve(j)
<1>1. CASE j \in I
  <2>1. renglones'[j] = [renglones[j] EXCEPT !.rebaja = rebaja]
    BY <1>1 DEF Descontar
  <2>2. renglones[j].cuenta = c /\ Abierta(c) /\ renglones[j] \in TipoRenglon
    BY <1>1, RenglonDeCuenta DEF Descontar, VivosDe, RenglonesDe
  <2> QED
    BY <2>1, <2>2 DEF Mueve, TipoRenglon
<1>2. CASE j \notin I
  BY <1>2 DEF Descontar, Queda
<1> QED
  BY <1>1, <1>2

\* Merging moves the lines of one account to the other.
LEMMA JuntarPasa ==
    ASSUME TypeOK, NEW o \in Cuentas, NEW d \in Cuentas, Juntar(o, d), NEW j \in Renglones
    PROVE  Queda(j) \/ Mueve(j)
<1>1. CASE renglones[j].cuenta = o
  <2>1. renglones'[j] = [renglones[j] EXCEPT !.cuenta = d]
    BY <1>1 DEF Juntar
  <2>2. Abierta(o) /\ Abierta(d) /\ renglones[j] \in TipoRenglon
    BY <1>1, RenglonDeCuenta DEF Juntar, RenglonesDe
  <2> QED
    BY <1>1, <2>1, <2>2 DEF Mueve, TipoRenglon
<1>2. CASE renglones[j].cuenta # o
  BY <1>2 DEF Juntar, Queda
<1> QED
  BY <1>1, <1>2

\* Cancelling a line already sent.
LEMMA ConfirmarPasa ==
    ASSUME TypeOK, Candado, NEW c \in Cuentas, ConfirmarCancelacion(c), NEW j \in Renglones
    PROVE  Queda(j) \/ (j = cuentas[c].cancelando /\ Anula(j))
<1> DEFINE i == cuentas[c].cancelando
<1>1. Abierta(c) /\ i \in EnviadosDe(c)
  BY DEF ConfirmarCancelacion, Candado
<1>2. /\ renglones[i].estado = "ENVIADO" /\ renglones[i].cuenta = c /\ i \in Renglones
      /\ renglones[i] \in TipoRenglon
  BY <1>1, RenglonDeCuenta DEF EnviadosDe, RenglonesDe
<1>3. /\ j # i => renglones'[j] = renglones[j]
      /\ renglones'[i] = [renglones[i] EXCEPT !.estado = "CANCELADO"]
  BY <1>2 DEF ConfirmarCancelacion, TypeOK
<1>4. Anula(i)
  BY <1>1, <1>2, <1>3 DEF Anula, TipoRenglon
<1> QED
  BY <1>3, <1>4 DEF Queda

\* Sending: the comandas of N are new, numbered after the last one of the
\* account, without repetition, and each has a line just sent.
LEMMA EnviarComandas ==
    ASSUME TypeOK, NEW c \in Cuentas, NEW t \in Tiempos, Enviar(c, t)
    PROVE  /\ \A j \in Renglones : Queda(j) \/ Sale(j)
           /\ \E n \in Nat, N \in SUBSET Comandas :
                 /\ cuentas' = [cuentas EXCEPT ![c].sigComanda = @ + n]
                 /\ \A k \in Comandas \ N : comandas'[k] = comandas[k]
                 /\ \A k \in N :
                       /\ comandas[k].cuenta = NULL /\ comandas'[k].cuenta = c
                       /\ comandas'[k].numero >= cuentas[c].sigComanda
                       /\ comandas'[k].numero < cuentas[c].sigComanda + n
                       /\ \E j \in Renglones : /\ renglones'[j].comanda = k
                                               /\ renglones'[j].estado = "ENVIADO"
                                               /\ renglones'[j].cuenta = c
                 /\ \A k, l \in N : comandas'[k].numero = comandas'[l].numero => k = l
<1> DEFINE P == {i \in PendientesDe(c) : renglones[i].tiempo = t}
           Area(i) == AreaDe[renglones[i].art]
           A == {Area(i) : i \in P} \cap (ConPantalla \cup ConPapel)
           sig == cuentas[c].sigComanda
           n == Cardinality(A)
<1>1. n \in Nat
  <2>1. A \in SUBSET (ConPantalla \cup ConPapel)
    OBVIOUS
  <2>2. IsFiniteSet(A)
    BY <2>1, FS_Subset, ConstantesAssumption
  <2> QED
    BY <2>2, FS_CardinalityType
<1>2. Abierta(c) /\ cuentas[c] \in TipoCuenta
  BY AbiertaEsCuenta DEF Enviar, Abierta, Libre
<1>3. sig \in Nat \ {0}
  BY <1>2 DEF TipoCuenta
<1>4. PICK nueva \in Injection(A, ComandasLibres), num \in Bijection(A, sig..(sig + n - 1)) :
        /\ renglones' = [i \in Renglones |->
              IF i \in P
              THEN [renglones[i] EXCEPT !.estado = "ENVIADO",
                                        !.comanda = IF Area(i) \in A THEN nueva[Area(i)] ELSE NULL]
              ELSE renglones[i]]
        /\ comandas' = [k \in Comandas |->
              IF \E a \in A : nueva[a] = k
              THEN LET a == CHOOSE x \in A : nueva[x] = k
                   IN [cuenta |-> c, numero |-> num[a],
                       estado |-> IF a \in ConPantalla THEN "NUEVA" ELSE "ENTREGADA",
                       papel |-> a \in ConPapel, cruzada |-> FALSE]
              ELSE comandas[k]]
  BY DEF Enviar
<1>5. /\ \A a \in A : nueva[a] \in Comandas /\ comandas[nueva[a]].cuenta = NULL
      /\ \A a, b \in A : nueva[a] = nueva[b] => a = b
      /\ \A a \in A : num[a] \in sig..(sig + n - 1)
      /\ \A a, b \in A : num[a] = num[b] => a = b
  BY DEF Injection, IsInjective, Bijection, ComandasLibres
<1>6. ASSUME NEW a \in A
      PROVE  /\ comandas'[nueva[a]].cuenta = c
             /\ comandas'[nueva[a]].numero = num[a]
  <2>1. \E b \in A : nueva[b] = nueva[a]
    OBVIOUS
  <2>2. (CHOOSE x \in A : nueva[x] = nueva[a]) = a
    BY <1>5
  <2> HIDE DEF A
  <2> QED
    BY <1>4, <1>5, <2>1, <2>2
<1>7. ASSUME NEW i \in P
      PROVE  /\ i \in Renglones
             /\ renglones[i].estado = "PENDIENTE"
             /\ renglones[i].cuenta = c
             /\ renglones'[i].estado = "ENVIADO"
             /\ renglones'[i].cuenta = c
             /\ renglones'[i].comanda = IF Area(i) \in A THEN nueva[Area(i)] ELSE NULL
  <2>1. /\ i \in RenglonesDe(c) /\ renglones[i].estado = "PENDIENTE"
        /\ renglones[i] \in TipoRenglon /\ i \in Renglones /\ renglones[i].cuenta = c
    BY RenglonDeCuenta DEF PendientesDe, RenglonesDe
  <2> DEFINE m == IF Area(i) \in A THEN nueva[Area(i)] ELSE NULL
  <2>2. renglones'[i] = [renglones[i] EXCEPT !.estado = "ENVIADO", !.comanda = m]
    BY <1>4, <2>1
  <2> HIDE DEF m
  <2>3. renglones'[i].estado = "ENVIADO" /\ renglones'[i].cuenta = c /\ renglones'[i].comanda = m
    BY <2>1, <2>2 DEF TipoRenglon
  <2> QED
    BY <2>1, <2>3 DEF m
<1>8. ASSUME NEW j \in Renglones
      PROVE  Queda(j) \/ Sale(j)
  <2>1. CASE j \notin P
    BY <1>4, <2>1 DEF Queda
  <2>2. CASE j \in P
    <3>1. CASE Area(j) \in A
      <4>1. renglones'[j].comanda = nueva[Area(j)]
        BY <1>7, <2>2, <3>1
      <4>2. /\ nueva[Area(j)] \in Comandas /\ comandas[nueva[Area(j)]].cuenta = NULL
            /\ comandas'[nueva[Area(j)]].cuenta = c
        BY <1>5, <1>6, <3>1
      <4> QED
        BY <1>2, <1>7, <2>2, <4>1, <4>2 DEF Sale
    <3>2. CASE Area(j) \notin A
      <4>1. renglones'[j].comanda = NULL
        BY <1>7, <2>2, <3>2
      <4> QED
        BY <1>2, <1>7, <2>2, <4>1 DEF Sale
    <3> QED
      BY <3>1, <3>2
  <2> QED
    BY <2>1, <2>2
<1> DEFINE N == {nueva[a] : a \in A}
<1>9. N \in SUBSET Comandas
  BY <1>5
<1>10. cuentas' = [cuentas EXCEPT ![c].sigComanda = @ + n]
  BY DEF Enviar
<1>11. ASSUME NEW k \in Comandas \ N
       PROVE  comandas'[k] = comandas[k]
  BY <1>4
<1>12. ASSUME NEW k \in N
       PROVE  /\ comandas[k].cuenta = NULL /\ comandas'[k].cuenta = c
              /\ comandas'[k].numero >= sig
              /\ comandas'[k].numero < sig + n
              /\ \E j \in Renglones : /\ renglones'[j].comanda = k
                                      /\ renglones'[j].estado = "ENVIADO"
                                      /\ renglones'[j].cuenta = c
  <2>1. PICK a \in A : k = nueva[a]
    OBVIOUS
  <2>2. PICK i \in P : Area(i) = a
    OBVIOUS
  <2>3. renglones'[i].comanda = k /\ renglones'[i].estado = "ENVIADO" /\ renglones'[i].cuenta = c
    BY <1>7, <2>1, <2>2
  <2>4. comandas[k].cuenta = NULL /\ comandas'[k].cuenta = c /\ comandas'[k].numero = num[a]
    BY <1>5, <1>6, <2>1
  <2>5. num[a] >= sig /\ num[a] < sig + n
    <3>1. num[a] \in sig..(sig + n - 1)
      BY <1>5
    <3> HIDE DEF sig, n, A
    <3> QED
      BY <1>1, <1>3, <3>1
  <2> QED
    BY <1>7, <2>3, <2>4, <2>5
<1>13. ASSUME NEW k \in N, NEW l \in N, comandas'[k].numero = comandas'[l].numero
       PROVE  k = l
  <2>1. PICK a \in A, b \in A : k = nueva[a] /\ l = nueva[b]
    OBVIOUS
  <2> QED
    BY <1>5, <1>6, <1>13, <2>1
<1> HIDE DEF N, n
<1> QED
  BY <1>1, <1>8, <1>9, <1>10, <1>11, <1>12, <1>13
\* Discarding deletes pending lines only, and a deleted account leaves
\* nothing that refers to it.
LEMMA DescartePasa ==
    ASSUME TypeOK, NEW c \in Cuentas, Descarte(c)
    PROVE  /\ \A j \in Renglones : Queda(j) \/ Edita(j)
           /\ comandas' = comandas
           /\ \/ cuentas' = cuentas
              \/ /\ cuentas' = [cuentas EXCEPT ![c] = SinCuenta]
                 /\ \A j \in Renglones : renglones'[j].cuenta # c
                 /\ \A k \in Comandas : comandas[k].cuenta # c
                 /\ \A x \in Cuentas : cuentas[x].unidaA # c /\ cuentas[x].divididaDe # c
<1>1. CASE Usada(c)
  <2>1. PendientesDe(c) \subseteq PendientesDe(c) /\ Abierta(c)
    BY DEF Descarte
  <2>2. renglones' = BorrarRenglones(PendientesDe(c)) /\ UNCHANGED <<cuentas, comandas>>
    BY <1>1 DEF Descarte
  <2> QED
    BY <2>1, <2>2, BorrarPasa
<1>2. CASE ~Usada(c)
  <2>1. RenglonesDe(c) \subseteq PendientesDe(c) /\ Abierta(c)
    BY <1>2 DEF Descarte, Usada, PendientesDe
  <2>2. renglones' = BorrarRenglones(RenglonesDe(c))
    BY <1>2 DEF Descarte
  <2>3. \A j \in Renglones : Queda(j) \/ Edita(j)
    BY <2>1, <2>2, BorrarPasa
  <2>4. \A k \in Comandas : comandas[k].cuenta # c
    BY <1>2 DEF Usada, ComandasDe
  <2>5. comandas' = comandas
    <3>1. comandas' = [k \in Comandas |-> comandas[k]]
      BY <1>2, <2>4 DEF Descarte, ComandasDe
    <3> QED
      BY <3>1 DEF TypeOK
  <2>6. \A j \in Renglones : renglones'[j].cuenta # c
    BY <2>2, ConstantesAssumption DEF BorrarRenglones, RenglonesDe, SinRenglon
  <2>7. \A x \in Cuentas : cuentas[x].unidaA # c /\ cuentas[x].divididaDe # c
    BY <1>2 DEF Usada
  <2>8. cuentas' = [cuentas EXCEPT ![c] = SinCuenta]
    BY <1>2 DEF Descarte
  <2> QED
    BY <2>3, <2>4, <2>5, <2>6, <2>7, <2>8
<1> QED
  BY <1>1, <1>2

\* Cancelling an account deletes its pending lines only.
LEMMA CancelarCuentaPasa ==
    ASSUME TypeOK, NEW c \in Cuentas, CancelarCuenta(c), NEW j \in Renglones
    PROVE  Queda(j) \/ Edita(j)
<1>1. /\ PendientesDe(c) \subseteq PendientesDe(c) /\ Abierta(c)
      /\ renglones' = BorrarRenglones(PendientesDe(c))
  BY DEF CancelarCuenta
<1> QED
  BY <1>1, BorrarPasa

-----------------------------------------------------------------------------
\* Splitting: the lines of P leave part of their pieces to a new line each,
\* nuevo[i]; the others of M go whole to the new account, and the rest stay.
Reparto(c, n, M, P, nuevo) ==
    /\ \A i \in P :
          /\ renglones[nuevo[i]] = SinRenglon
          /\ renglones'[nuevo[i]].cuenta = n
          /\ renglones'[nuevo[i]].estado = renglones[i].estado
          /\ renglones'[nuevo[i]].comanda = renglones[i].comanda
          /\ renglones'[i].cuenta = c
          /\ renglones'[i].estado = renglones[i].estado
          /\ renglones'[i].comanda = renglones[i].comanda
          /\ renglones'[nuevo[i]].cant + renglones'[i].cant = renglones[i].cant
    /\ \A i, l \in P : nuevo[i] = nuevo[l] => i = l
    /\ \A j \in M \ P :
          /\ renglones'[j].cuenta = n
          /\ renglones'[j].estado = renglones[j].estado
          /\ renglones'[j].comanda = renglones[j].comanda
          /\ renglones'[j].cant = renglones[j].cant
    /\ \A j \in Renglones \ M : Queda(j) \/ \E i \in P : nuevo[i] = j
    /\ \A i \in M : renglones[i].cuenta = c /\ i \in Renglones

\* What dividir does to the lines is one of those.
LEMMA DividirLineas ==
    ASSUME TypeOK, NEW c \in Cuentas, NEW n \in Cuentas, NEW M \in SUBSET VivosDe(c),
           NEW parte \in [M -> 1..MaxCantidad], Dividir(c, n, parte)
    PROVE  \E P \in SUBSET M : \E nuevo \in [P -> Renglones] : Reparto(c, n, M, P, nuevo)
<1> DEFINE P == Parciales(parte)
<1>1. P \in SUBSET M
  BY DEF Parciales
<1>2. PICK nuevo \in Injection(P, RenglonesLibres) : renglones' = Repartidos(n, parte, nuevo)
  BY DEF Dividir
<1>3. /\ DOMAIN nuevo = P /\ DOMAIN parte = M
      /\ \A i \in P : nuevo[i] \in Renglones /\ renglones[nuevo[i]].cuenta = NULL
      /\ \A i, l \in P : nuevo[i] = nuevo[l] => i = l
      /\ nuevo \in [P -> Renglones]
  BY <1>2 DEF Injection, IsInjective, RenglonesLibres
<1>4. ASSUME NEW i \in M
      PROVE  /\ i \in Renglones /\ renglones[i] \in TipoRenglon /\ renglones[i].cuenta = c
             /\ parte[i] \in 1..MaxCantidad /\ i \notin RenglonesLibres
  BY RenglonDeCuenta, ConstantesAssumption DEF VivosDe, RenglonesDe, RenglonesLibres
<1>5. \A j \in Renglones : (\E i \in P : nuevo[i] = j) => renglones[j].cuenta = NULL
  BY <1>3
<1>6. \A i \in M : renglones[i].cuenta # NULL
  BY <1>4, ConstantesAssumption
<1>7. ASSUME NEW i \in P
      PROVE  /\ renglones'[nuevo[i]] = [renglones[i] EXCEPT !.cuenta = n, !.cant = parte[i]]
             /\ renglones'[i] = [renglones[i] EXCEPT !.cant = @ - parte[i]]
  <2>1. (\E l \in P : nuevo[l] = nuevo[i]) /\ (CHOOSE x \in P : nuevo[x] = nuevo[i]) = i
    BY <1>3
  <2>2. ~ \E l \in P : nuevo[l] = i
    BY <1>1, <1>5, <1>6, <1>4
  <2> HIDE DEF P
  <2>3. renglones'[nuevo[i]] = [renglones[i] EXCEPT !.cuenta = n, !.cant = parte[i]]
    BY <1>2, <1>3, <2>1 DEF Repartidos
  <2>4. renglones'[i] = [renglones[i] EXCEPT !.cant = @ - parte[i]]
    BY <1>1, <1>2, <1>3, <1>4, <2>2 DEF Repartidos, Resto
  <2> QED
    BY <2>3, <2>4
<1>8. ASSUME NEW i \in P
      PROVE  /\ renglones[nuevo[i]] = SinRenglon
             /\ renglones'[nuevo[i]].cuenta = n
             /\ renglones'[nuevo[i]].estado = renglones[i].estado
             /\ renglones'[nuevo[i]].comanda = renglones[i].comanda
             /\ renglones'[i].cuenta = c
             /\ renglones'[i].estado = renglones[i].estado
             /\ renglones'[i].comanda = renglones[i].comanda
             /\ renglones'[nuevo[i]].cant + renglones'[i].cant = renglones[i].cant
  <2>1. renglones[nuevo[i]] = SinRenglon
    BY <1>3, RenglonLibre
  <2>2. renglones[i] \in TipoRenglon /\ parte[i] \in Nat /\ renglones[i].cuenta = c
    BY <1>1, <1>4, ConstantesAssumption
  <2>3. renglones[i].cant \in Nat
    BY <2>2, ConstantesAssumption DEF TipoRenglon
  <2> HIDE DEF P
  <2>4. /\ renglones'[nuevo[i]].cuenta = n
        /\ renglones'[nuevo[i]].estado = renglones[i].estado
        /\ renglones'[nuevo[i]].comanda = renglones[i].comanda
        /\ renglones'[nuevo[i]].cant = parte[i]
    BY <1>7, <2>2 DEF TipoRenglon
  <2>5. /\ renglones'[i].cuenta = c
        /\ renglones'[i].estado = renglones[i].estado
        /\ renglones'[i].comanda = renglones[i].comanda
        /\ renglones'[i].cant = renglones[i].cant - parte[i]
    BY <1>7, <2>2 DEF TipoRenglon
  <2> QED
    BY <2>1, <2>2, <2>3, <2>4, <2>5
<1>9. ASSUME NEW j \in Renglones, ~ \E i \in P : nuevo[i] = j, j \notin P
      PROVE  renglones'[j] = IF j \in M THEN [renglones[j] EXCEPT !.cuenta = n] ELSE renglones[j]
  <2> HIDE DEF P
  <2> QED
    BY <1>2, <1>3, <1>9 DEF Repartidos
<1>10. ASSUME NEW j \in M \ P
       PROVE  /\ renglones'[j].cuenta = n
              /\ renglones'[j].estado = renglones[j].estado
              /\ renglones'[j].comanda = renglones[j].comanda
              /\ renglones'[j].cant = renglones[j].cant
  <2>1. ~ \E i \in P : nuevo[i] = j
    BY <1>4, <1>5, <1>6
  <2>2. renglones'[j] = [renglones[j] EXCEPT !.cuenta = n]
    BY <1>4, <1>9, <2>1
  <2> QED
    BY <1>4, <2>2 DEF TipoRenglon
<1>11. ASSUME NEW j \in Renglones \ M
       PROVE  Queda(j) \/ \E i \in P : nuevo[i] = j
  BY <1>1, <1>9 DEF Queda
<1>12. \A i \in M : renglones[i].cuenta = c /\ i \in Renglones
  BY <1>4
<1> HIDE DEF P
<1>13. Reparto(c, n, M, P, nuevo)
  BY <1>3, <1>8, <1>10, <1>11, <1>12 DEF Reparto
<1> QED
  BY <1>1, <1>3, <1>13
-----------------------------------------------------------------------------
(* What each part of the invariant needs of a step.                        *)

\* Every line passes in one of the ways above.
LineasPasan == \A j \in Renglones : Pasa(j)

\* No account goes, and what an account is linked to is there.
LigasSiguen ==
    \A x \in Cuentas :
        /\ ~Libre(x) => cuentas'[x].estado # "LIBRE"
        /\ \A y \in {cuentas'[x].unidaA, cuentas'[x].divididaDe} \ {NULL} :
              \/ y \in {cuentas[x].unidaA, cuentas[x].divididaDe}
              \/ y \in Cuentas /\ cuentas'[y].estado # "LIBRE"

\* No comanda goes, and one that is new or moves is of an account that is there.
ComandasConCuenta ==
    \A k \in Comandas :
        /\ comandas[k].cuenta # NULL => comandas'[k].cuenta # NULL
        /\ \/ comandas'[k].cuenta = comandas[k].cuenta
           \/ comandas'[k].cuenta \in Cuentas /\ cuentas'[comandas'[k].cuenta].estado # "LIBRE"

\* The comandas and what they are numbered with stay.
NumerosSiguen ==
    /\ \A k \in Comandas :
          /\ comandas'[k].cuenta = comandas[k].cuenta
          /\ comandas'[k].numero = comandas[k].numero
    /\ \A x \in Cuentas : ~Libre(x) => cuentas'[x].sigComanda = cuentas[x].sigComanda

\* No comanda goes back to what is to be prepared, and what crossed, crossed.
EstadosSiguen ==
    \A k \in Comandas : comandas'[k].estado \in PorPreparar =>
        /\ comandas[k].estado \in PorPreparar
        /\ comandas[k].cruzada => comandas'[k].cruzada

NoSeCancelan ==
    \A x \in Cuentas : cuentas'[x].estado = "CANCELADA" => cuentas[x].estado = "CANCELADA"

NoSeCobran ==
    \A x \in Cuentas :
        cuentas'[x].estado \in {"PAGADA", "ANULADA"} => cuentas[x].estado \in {"PAGADA", "ANULADA"}

\* A line that was sent stays so, to be served to an account not cancelled.
Testigo(j) ==
    renglones[j].estado = "ENVIADO" =>
        /\ renglones'[j].estado = "ENVIADO"
        /\ renglones'[j].comanda = renglones[j].comanda
        /\ cuentas[renglones[j].cuenta].estado # "CANCELADA"
              => cuentas'[renglones'[j].cuenta].estado # "CANCELADA"

\* A line that exists has an account.
LEMMA RenglonConCuenta ==
    ASSUME TypeOK, NEW j \in Renglones, renglones[j] # SinRenglon
    PROVE  renglones[j] \in TipoRenglon /\ renglones[j].cuenta \in Cuentas /\ renglones[j].cuenta # NULL
BY ConstantesAssumption DEF TypeOK, TipoRenglon

\* An account in some state is not a free row.
LEMMA EstadoDeCuenta ==
    ASSUME TypeOK, NEW c \in Cuentas, cuentas[c].estado \in EstadosCuenta
    PROVE  ~Libre(c) /\ cuentas[c] \in TipoCuenta
BY DEF TypeOK, Libre, SinCuenta, EstadosCuenta

\* References stay good when no account goes.
LEMMA ReferenciasSiguen ==
    ASSUME TypeOK, SinReferenciasColgantes, LineasPasan, LigasSiguen, ComandasConCuenta
    PROVE  SinReferenciasColgantes'
<1>1. ASSUME NEW j \in Renglones, renglones'[j].cuenta # NULL
      PROVE  /\ cuentas'[renglones'[j].cuenta].estado # "LIBRE"
             /\ renglones'[j].comanda # NULL => comandas'[renglones'[j].comanda].cuenta # NULL
  <2>1. ASSUME renglones[j] # SinRenglon, renglones'[j].cuenta = renglones[j].cuenta,
               renglones'[j].comanda = renglones[j].comanda
        PROVE  /\ cuentas'[renglones'[j].cuenta].estado # "LIBRE"
               /\ renglones'[j].comanda # NULL => comandas'[renglones'[j].comanda].cuenta # NULL
    <3>1. /\ renglones[j] \in TipoRenglon /\ renglones[j].cuenta \in Cuentas
          /\ renglones[j].cuenta # NULL
      BY <2>1, RenglonConCuenta
    <3>2. /\ ~Libre(renglones[j].cuenta)
          /\ renglones[j].comanda # NULL => comandas[renglones[j].comanda].cuenta # NULL
      BY <3>1 DEF SinReferenciasColgantes
    <3>3. renglones[j].comanda \in Comandas \cup {NULL}
      BY <3>1 DEF TipoRenglon
    <3>4. cuentas'[renglones[j].cuenta].estado # "LIBRE"
      BY <3>1, <3>2 DEF LigasSiguen, Libre
    <3> QED
      BY <2>1, <3>2, <3>3, <3>4 DEF ComandasConCuenta, Libre
  <2>2. CASE Queda(j)
    <3>1. renglones[j] # SinRenglon
      BY <1>1, <2>2 DEF Queda, SinRenglon
    <3> QED
      BY <2>1, <2>2, <3>1 DEF Queda
  <2>3. CASE Edita(j)
    <3>1. renglones[j] # SinRenglon /\ renglones'[j] # SinRenglon
      BY <1>1, <2>3 DEF Edita, SinRenglon
    <3> QED
      BY <2>1, <2>3, <3>1 DEF Edita
  <2>4. CASE Nace(j)
    BY <2>4 DEF Nace, LigasSiguen, Abierta, Libre
  <2>5. CASE Mueve(j)
    <3>1. renglones[j] # SinRenglon
      BY <2>5, ConstantesAssumption DEF Mueve, SinRenglon
    <3>2. /\ renglones[j] \in TipoRenglon /\ renglones[j].cuenta \in Cuentas
          /\ renglones[j].cuenta # NULL
      BY <3>1, RenglonConCuenta
    <3>3. renglones[j].comanda # NULL => comandas[renglones[j].comanda].cuenta # NULL
      BY <3>2 DEF SinReferenciasColgantes
    <3>4. renglones[j].comanda \in Comandas \cup {NULL}
      BY <3>2 DEF TipoRenglon
    <3>5. cuentas'[renglones'[j].cuenta].estado # "LIBRE"
      BY <2>5 DEF Mueve, LigasSiguen, Abierta, Libre
    <3> QED
      BY <2>5, <3>3, <3>4, <3>5 DEF Mueve, ComandasConCuenta
  <2>6. CASE Sale(j)
    <3>1. renglones[j] # SinRenglon
      BY <2>6 DEF Sale, SinRenglon
    <3>2. renglones[j].cuenta \in Cuentas /\ renglones[j].cuenta # NULL
      BY <3>1, RenglonConCuenta
    <3>3. cuentas'[renglones[j].cuenta].estado # "LIBRE"
      BY <2>6, <3>2 DEF Sale, LigasSiguen, Abierta, Libre
    <3> QED
      BY <2>6, <3>2, <3>3 DEF Sale, Libre
  <2>7. CASE Anula(j)
    <3>1. renglones[j] # SinRenglon
      BY <2>7 DEF Anula, SinRenglon
    <3> QED
      BY <2>1, <2>7, <3>1 DEF Anula
  <2> QED
    BY <2>2, <2>3, <2>4, <2>5, <2>6, <2>7 DEF LineasPasan, Pasa
<1>2. ASSUME NEW k \in Comandas, comandas'[k].cuenta # NULL
      PROVE  cuentas'[comandas'[k].cuenta].estado # "LIBRE"
  <2>1. CASE comandas'[k].cuenta = comandas[k].cuenta
    <3>1. comandas[k].cuenta \in Cuentas
      BY <1>2, <2>1 DEF TypeOK, TipoComanda, SinComanda
    <3>2. ~Libre(comandas[k].cuenta)
      BY <1>2, <2>1 DEF SinReferenciasColgantes
    <3> QED
      BY <2>1, <3>1, <3>2 DEF LigasSiguen, Libre
  <2> QED
    BY <2>1 DEF ComandasConCuenta, Libre
<1>3. ASSUME NEW x \in Cuentas, NEW y \in {cuentas'[x].unidaA, cuentas'[x].divididaDe} \ {NULL}
      PROVE  cuentas'[y].estado # "LIBRE"
  <2>1. CASE y \in {cuentas[x].unidaA, cuentas[x].divididaDe}
    <3>1. y \in Cuentas
      BY <1>3, <2>1 DEF TypeOK, TipoCuenta, SinCuenta
    <3>2. ~Libre(y)
      BY <2>1 DEF SinReferenciasColgantes
    <3> QED
      BY <3>1, <3>2 DEF LigasSiguen
  <2> QED
    BY <2>1 DEF LigasSiguen
<1> QED
  BY <1>1, <1>2, <1>3 DEF SinReferenciasColgantes, Libre
\* Only a line that is sent gets a comanda.
LEMMA PendientesSiguen ==
    ASSUME TypeOK, PendientesSinComanda, LineasPasan
    PROVE  PendientesSinComanda'
<1> SUFFICES ASSUME NEW j \in Renglones, renglones'[j].estado = "PENDIENTE"
             PROVE  renglones'[j].comanda = NULL
  BY DEF PendientesSinComanda
<1> QED
  BY DEF LineasPasan, Pasa, Queda, Edita, Nace, Mueve, Sale, Anula, PendientesSinComanda, SinRenglon

\* Numbers stay good when the comandas and the next numbers stay.
LEMMA NumerosBien ==
    ASSUME TypeOK, SinReferenciasColgantes, NumerosPorCuenta, NumerosSiguen
    PROVE  NumerosPorCuenta'
<1> SUFFICES ASSUME NEW k \in Comandas, NEW l \in Comandas, comandas'[k].cuenta # NULL
             PROVE  /\ comandas'[k].numero < cuentas'[comandas'[k].cuenta].sigComanda
                    /\ comandas'[l].cuenta = comandas'[k].cuenta /\ comandas'[l].numero = comandas'[k].numero
                       => k = l
  BY DEF NumerosPorCuenta
<1>1. comandas[k].cuenta \in Cuentas
  BY DEF NumerosSiguen, TypeOK, TipoComanda, SinComanda
<1>2. ~Libre(comandas[k].cuenta)
  BY DEF NumerosSiguen, SinReferenciasColgantes
<1> QED
  BY <1>1, <1>2 DEF NumerosSiguen, NumerosPorCuenta

\* What is sent stays so, unless it is cancelled.
LEMMA TestigoSigue ==
    ASSUME TypeOK, NEW j \in Renglones, Pasa(j), ~Anula(j), NoSeCancelan
    PROVE  Testigo(j)
<1> SUFFICES ASSUME renglones[j].estado = "ENVIADO" PROVE Testigo(j)
  BY DEF Testigo
<1>1. renglones[j].cuenta \in Cuentas
  BY RenglonConCuenta DEF SinRenglon
<1>2. CASE Queda(j)
  BY <1>1, <1>2 DEF Queda, Testigo, NoSeCancelan
<1>3. CASE Mueve(j)
  BY <1>3 DEF Mueve, Testigo, NoSeCancelan, Abierta
<1> QED
  BY <1>2, <1>3 DEF Pasa, Edita, Nace, Sale, SinRenglon

\* The kitchen keeps whom to prepare for.
LEMMA DestinosSiguen ==
    ASSUME TypeOK, PorPrepararConDestino, EstadosSiguen, \A j \in Renglones : Testigo(j)
    PROVE  PorPrepararConDestino'
<1> SUFFICES ASSUME NEW k \in Comandas, comandas'[k].estado \in PorPreparar, ~comandas'[k].cruzada
             PROVE  \E i \in Renglones : /\ renglones'[i].comanda = k
                                         /\ renglones'[i].estado = "ENVIADO"
                                         /\ cuentas'[renglones'[i].cuenta].estado # "CANCELADA"
  BY DEF PorPrepararConDestino, ConDestino, DeLaComanda
<1>1. PICK i \in Renglones : /\ renglones[i].comanda = k
                             /\ renglones[i].estado = "ENVIADO"
                             /\ cuentas[renglones[i].cuenta].estado # "CANCELADA"
  BY DEF EstadosSiguen, PorPrepararConDestino, ConDestino, DeLaComanda
<1> QED
  BY <1>1 DEF Testigo

\* What is to be prepared stays out of cancelled accounts.
LEMMA CanceladasSiguen ==
    ASSUME TypeOK, SinReferenciasColgantes, PorPrepararSinCanceladas, LineasPasan, NoSeCancelan,
           \A k \in Comandas :
              comandas[k].cuenta # NULL /\ comandas'[k].estado \in PorPreparar
                  => comandas[k].estado \in PorPreparar
    PROVE  PorPrepararSinCanceladas'
<1> SUFFICES ASSUME NEW k \in Comandas, comandas'[k].estado \in PorPreparar,
                    NEW j \in Renglones, renglones'[j].comanda = k
             PROVE  cuentas'[renglones'[j].cuenta].estado # "CANCELADA"
  BY DEF PorPrepararSinCanceladas, DeLaComanda
<1>1. k # NULL
  BY ConstantesAssumption
<1>2. CASE Queda(j)
  <2>1. renglones[j].cuenta \in Cuentas /\ renglones[j].cuenta # NULL
    BY <1>1, <1>2, RenglonConCuenta DEF Queda, SinRenglon
  <2>2. comandas[k].cuenta # NULL
    BY <1>1, <1>2, <2>1 DEF Queda, SinReferenciasColgantes
  <2> QED
    BY <1>2, <2>1, <2>2 DEF Queda, PorPrepararSinCanceladas, DeLaComanda, NoSeCancelan
<1>3. ASSUME renglones[j] # SinRenglon, Abierta(renglones[j].cuenta),
             renglones'[j].cuenta = renglones[j].cuenta
      PROVE  cuentas'[renglones'[j].cuenta].estado # "CANCELADA"
  <2>1. renglones[j].cuenta \in Cuentas
    BY <1>3, RenglonConCuenta
  <2> QED
    BY <1>3, <2>1 DEF NoSeCancelan, Abierta
<1>4. CASE Edita(j)
  BY <1>1, <1>3, <1>4 DEF Edita, SinRenglon
<1>5. CASE Mueve(j)
  BY <1>5 DEF Mueve, NoSeCancelan, Abierta
<1>6. CASE Sale(j) \/ Anula(j)
  BY <1>3, <1>6 DEF Sale, Anula, SinRenglon
<1> QED
  BY <1>1, <1>2, <1>4, <1>5, <1>6 DEF LineasPasan, Pasa, Nace

\* No line of an account that is not open changes, and none enters it.
LEMMA CerradasSiguen ==
    ASSUME TypeOK, LineasPasan
    PROVE  CerradaSinCambios
<1> SUFFICES ASSUME NEW c \in Cuentas, cuentas[c].estado \in EstadosCuenta \ {"ABIERTA"},
                    NEW j \in Renglones, c \in {renglones[j].cuenta, renglones'[j].cuenta}
             PROVE  renglones'[j] = renglones[j]
  BY DEF CerradaSinCambios
<1>1. ~Abierta(c) /\ c # NULL
  BY ConstantesAssumption DEF Abierta
<1> QED
  BY <1>1 DEF LineasPasan, Pasa, Queda, Edita, Nace, Mueve, Sale, Anula, SinRenglon

\* An account charged before the step stays with what it was charged for.
LEMMA CobradasSiguen ==
    ASSUME TypeOK, CobradaTodoEnviado, CerradaSinCambios, NEW c \in Cuentas,
           cuentas[c].estado \in {"PAGADA", "ANULADA"}
    PROVE  EnviadosDe(c)' # {} /\ PendientesDe(c)' = {}
<1>1. \A j \in Renglones : c \in {renglones[j].cuenta, renglones'[j].cuenta} =>
          renglones'[j] = renglones[j]
  BY DEF CerradaSinCambios, EstadosCuenta
<1>2. EnviadosDe(c) # {} /\ PendientesDe(c) = {}
  BY DEF CobradaTodoEnviado
<1>3. PICK i \in Renglones : renglones[i].cuenta = c /\ renglones[i].estado = "ENVIADO"
  BY <1>2 DEF EnviadosDe, RenglonesDe
<1>4. renglones'[i].cuenta = c /\ renglones'[i].estado = "ENVIADO"
  BY <1>1, <1>3
<1>5. \A j \in Renglones : ~(renglones'[j].cuenta = c /\ renglones'[j].estado = "PENDIENTE")
  BY <1>1, <1>2 DEF PendientesDe, RenglonesDe
<1> QED
  BY <1>4, <1>5 DEF EnviadosDe, PendientesDe, RenglonesDe

\* Charged accounts stay right when nobody charges.
LEMMA CobrosSiguen ==
    ASSUME TypeOK, CobradaTodoEnviado, CerradaSinCambios, NoSeCobran
    PROVE  CobradaTodoEnviado'
<1> SUFFICES ASSUME NEW c \in Cuentas, cuentas'[c].estado \in {"PAGADA", "ANULADA"}
             PROVE  EnviadosDe(c)' # {} /\ PendientesDe(c)' = {}
  BY DEF CobradaTodoEnviado
<1>1. cuentas[c].estado \in {"PAGADA", "ANULADA"}
  BY DEF NoSeCobran
<1> QED
  BY <1>1, CobradasSiguen

\* A step that only touches lines and gives nobody away keeps the invariant.
LEMMA SigueCocinaInv ==
    ASSUME CocinaInv, TypeOK', LineasPasan, \A j \in Renglones : ~Anula(j),
           LigasSiguen, NumerosSiguen, EstadosSiguen, NoSeCancelan, NoSeCobran
    PROVE  CocinaInv'
<1>1. ComandasConCuenta
  BY DEF NumerosSiguen, ComandasConCuenta
<1>2. SinReferenciasColgantes'
  BY <1>1, ReferenciasSiguen DEF CocinaInv
<1>3. PendientesSinComanda' /\ NumerosPorCuenta'
  BY PendientesSiguen, NumerosBien DEF CocinaInv
<1>4. PorPrepararConDestino'
  BY TestigoSigue, DestinosSiguen DEF CocinaInv, LineasPasan
<1>6. PorPrepararSinCanceladas'
  BY CanceladasSiguen DEF CocinaInv, EstadosSiguen
<1>5. CobradaTodoEnviado'
  BY CerradasSiguen, CobrosSiguen DEF CocinaInv
<1> QED
  BY <1>2, <1>3, <1>4, <1>5, <1>6 DEF CocinaInv
\* What the invariant looks at of an account, as it was.
CuentaQueda(x) ==
    /\ cuentas'[x].estado = cuentas[x].estado
    /\ cuentas'[x].unidaA = cuentas[x].unidaA
    /\ cuentas'[x].divididaDe = cuentas[x].divididaDe
    /\ cuentas'[x].sigComanda = cuentas[x].sigComanda

\* A step that leaves that as it was, and the comandas in their accounts.
LEMMA QuietaCocinaInv ==
    ASSUME CocinaInv, TypeOK', LineasPasan, \A j \in Renglones : ~Anula(j),
           \A x \in Cuentas : CuentaQueda(x),
           \A k \in Comandas :
              /\ comandas'[k].cuenta = comandas[k].cuenta
              /\ comandas'[k].numero = comandas[k].numero,
           EstadosSiguen
    PROVE  CocinaInv'
<1>1. LigasSiguen
  BY DEF CuentaQueda, LigasSiguen, Libre
<1>2. NumerosSiguen /\ NoSeCancelan /\ NoSeCobran
  BY DEF CuentaQueda, NumerosSiguen, NoSeCancelan, NoSeCobran
<1> QED
  BY <1>1, <1>2, SigueCocinaInv

-----------------------------------------------------------------------------
(* One lemma for each operation.                                           *)

\* What is done to the lines of an account still pending, and discounts.
LEMMA RenglonesCocinaInv ==
    ASSUME CocinaInv, TypeOK', NEW c \in Cuentas,
           \/ \E a \in Articulos, t \in Tiempos, n \in 1..MaxCantidad, nota \in Notas :
                 AgregarItem(c, a, t, n, nota)
           \/ \E i \in Renglones, n \in 1..MaxCantidad, t \in Tiempos, nota \in Notas :
                 ActualizarItem(c, i, n, t, nota)
           \/ \E i \in Renglones : EliminarItem(c, i)
           \/ \E I \in SUBSET Renglones, rebaja \in Rebajas : Descontar(c, I, rebaja)
    PROVE  CocinaInv'
<1>1. TypeOK
  BY DEF CocinaInv
<1>2. ASSUME NEW j \in Renglones
      PROVE  Pasa(j) /\ ~Anula(j)
  <2>1. Queda(j) \/ Edita(j) \/ Nace(j) \/ Mueve(j)
    BY <1>1, AgregarItemPasa, EditarPasa, DescontarPasa
  <2>2. ~Anula(j)
    BY <2>1 DEF Queda, Edita, Nace, Mueve, Anula, SinRenglon
  <2> QED
    BY <2>1, <2>2 DEF Pasa
<1>3. comandas' = comandas
  BY DEF AgregarItem, ActualizarItem, EliminarItem, Descontar
<1>4. cuentas' = cuentas \/ cuentas' = [cuentas EXCEPT ![c].autorizada = TRUE]
  BY DEF AgregarItem, ActualizarItem, EliminarItem, Descontar
<1>5. \A x \in Cuentas : CuentaQueda(x)
  BY <1>1, <1>4 DEF CuentaQueda, TypeOK, TipoCuenta, SinCuenta
<1>6. EstadosSiguen
  BY <1>3 DEF EstadosSiguen
<1> QED
  BY <1>2, <1>3, <1>5, <1>6, QuietaCocinaInv DEF LineasPasan

\* What neither the lines nor the comandas notice.
LEMMA SinLineasCocinaInv ==
    ASSUME CocinaInv, TypeOK', UNCHANGED <<renglones, comandas>>,
           \A x \in Cuentas : CuentaQueda(x)
    PROVE  CocinaInv'
<1>1. \A j \in Renglones : Pasa(j) /\ ~Anula(j)
  BY DEF Pasa, Queda, Anula
<1>2. EstadosSiguen
  BY DEF EstadosSiguen
<1> QED
  BY <1>1, <1>2, QuietaCocinaInv DEF LineasPasan

\* Moving to another table.
LEMMA CambiarMesaCocinaInv ==
    ASSUME CocinaInv, TypeOK', NEW c \in Cuentas, NEW m \in Mesas, CambiarMesa(c, m)
    PROVE  CocinaInv'
<1>1. \A x \in Cuentas : CuentaQueda(x)
  BY DEF CambiarMesa, CuentaQueda, CocinaInv, TypeOK, TipoCuenta, SinCuenta
<1> QED
  BY <1>1, SinLineasCocinaInv DEF CambiarMesa

\* The selection of the purge, the administration and what changes nothing.
LEMMA AdministrarCocinaInv ==
    ASSUME CocinaInv, TypeOK',
           \/ PurgaSeleccionar
           \/ \E m \in MesasEditables, activa \in BOOLEAN : ActivarMesa(m, activa)
           \/ \E m \in MesasEditables : EliminarMesa(m)
           \/ \E r \in Reservas, e \in EstadosReserva : CambiarEstadoReserva(r, e)
           \/ \E r \in Reservas : EliminarReserva(r)
           \/ UNCHANGED <<cuentas, renglones, comandas>>
    PROVE  CocinaInv'
<1>1. CASE UNCHANGED <<cuentas, renglones, comandas>>
  BY <1>1, SinLineasCocinaInv DEF CuentaQueda
<1>2. ASSUME NEW r \in Reservas, EliminarReserva(r)
      PROVE  CocinaInv'
  <2>1. ASSUME NEW x \in Cuentas
        PROVE  CuentaQueda(x)
    <3>1. cuentas[x] \in TipoCuenta \/ cuentas[x] = SinCuenta
      BY DEF CocinaInv, TypeOK
    <3>2. cuentas'[x] = cuentas[x] \/ cuentas'[x] = [cuentas[x] EXCEPT !.reserva = NULL]
      BY <1>2 DEF EliminarReserva
    <3> QED
      BY <3>1, <3>2 DEF CuentaQueda, TipoCuenta, SinCuenta
  <2> QED
    BY <1>2, <2>1, SinLineasCocinaInv DEF EliminarReserva
<1> QED
  BY <1>1, <1>2 DEF PurgaSeleccionar, ActivarMesa, EliminarMesa, CambiarEstadoReserva

\* The kitchen and the waiter move a comanda on.
LEMMA CambiarEstadoCocinaInv ==
    ASSUME CocinaInv, TypeOK', NEW k \in Comandas, NEW e \in DOMAIN DESDE,
           CambiarEstadoComanda(k, e)
    PROVE  CocinaInv'
<1>1. UNCHANGED <<cuentas, renglones>> /\ comandas' = [comandas EXCEPT ![k].estado = e]
  BY DEF CambiarEstadoComanda
<1>2. comandas[k].estado \in PorPreparar
  BY DEF CambiarEstadoComanda, DESDE, PorPreparar
<1>3. \A l \in Comandas :
         /\ comandas'[l].cuenta = comandas[l].cuenta
         /\ comandas'[l].numero = comandas[l].numero
         /\ comandas'[l].cruzada = comandas[l].cruzada
         /\ l # k => comandas'[l] = comandas[l]
  BY <1>1 DEF CocinaInv, TypeOK, TipoComanda, SinComanda
<1>4. EstadosSiguen
  BY <1>2, <1>3 DEF EstadosSiguen
<1>5. \A x \in Cuentas : CuentaQueda(x)
  BY <1>1 DEF CuentaQueda
<1>6. \A j \in Renglones : Pasa(j) /\ ~Anula(j)
  BY <1>1 DEF Pasa, Queda, Anula
<1> QED
  BY <1>3, <1>4, <1>5, <1>6, QuietaCocinaInv DEF LineasPasan

\* Opening an account.
LEMMA AbrirCocinaInv ==
    ASSUME CocinaInv, TypeOK', NEW c \in Cuentas, NEW m \in Mesas \cup {NULL},
           NEW r \in Reservas \cup {NULL}, AbrirCuenta(c, m, r)
    PROVE  CocinaInv'
<1>1. /\ UNCHANGED <<renglones, comandas>> /\ Libre(c)
      /\ cuentas'[c].estado = "ABIERTA"
      /\ cuentas'[c].unidaA = NULL /\ cuentas'[c].divididaDe = NULL
      /\ \A x \in Cuentas \ {c} : cuentas'[x] = cuentas[x]
  BY DEF AbrirCuenta, CuentaNueva, CocinaInv, TypeOK
<1>2. LigasSiguen
  BY <1>1 DEF LigasSiguen, Libre
<1>3. NumerosSiguen /\ NoSeCancelan /\ NoSeCobran /\ EstadosSiguen
  BY <1>1 DEF NumerosSiguen, NoSeCancelan, NoSeCobran, EstadosSiguen
<1>4. \A j \in Renglones : Pasa(j) /\ ~Anula(j)
  BY <1>1 DEF Pasa, Queda, Anula
<1> QED
  BY <1>2, <1>3, <1>4, SigueCocinaInv DEF LineasPasan

\* Charging an account with lines, all of them sent, and annulling it.
LEMMA CobrarCocinaInv ==
    ASSUME CocinaInv, TypeOK', NEW c \in Cuentas, Cobrar(c) \/ Anular(c)
    PROVE  CocinaInv'
<1>1. /\ UNCHANGED <<renglones, comandas>>
      /\ cuentas[c].estado \in {"ABIERTA", "PAGADA"}
      /\ cuentas'[c].estado \in {"PAGADA", "ANULADA"}
      /\ cuentas[c].estado = "ABIERTA" => VivosDe(c) # {} /\ PendientesDe(c) = {}
      /\ \A x \in Cuentas \ {c} : cuentas'[x] = cuentas[x]
      /\ \A x \in Cuentas : /\ cuentas'[x].unidaA = cuentas[x].unidaA
                            /\ cuentas'[x].divididaDe = cuentas[x].divididaDe
                            /\ cuentas'[x].sigComanda = cuentas[x].sigComanda
  <2>1. TypeOK /\ cuentas[c].estado \in {"ABIERTA", "PAGADA"} /\ UNCHANGED <<renglones, comandas>>
        /\ (cuentas[c].estado = "ABIERTA" => VivosDe(c) # {} /\ PendientesDe(c) = {})
    BY DEF CocinaInv, Cobrar, Anular, Abierta
  <2>2. cuentas[c] \in TipoCuenta
    BY <2>1, EstadoDeCuenta DEF EstadosCuenta
  <2>3. \/ cuentas' = [cuentas EXCEPT ![c].estado = "PAGADA"]
        \/ cuentas' = [cuentas EXCEPT ![c].estado = "ANULADA", ![c].autorizada = TRUE]
    BY DEF Cobrar, Anular
  <2> QED
    BY <2>1, <2>2, <2>3 DEF TypeOK, TipoCuenta
<1>2. LigasSiguen
  BY <1>1 DEF LigasSiguen, Libre
<1>3. NumerosSiguen /\ NoSeCancelan /\ EstadosSiguen
  BY <1>1 DEF NumerosSiguen, NoSeCancelan, EstadosSiguen
<1>4. \A j \in Renglones : Pasa(j) /\ ~Anula(j)
  BY <1>1 DEF Pasa, Queda, Anula
<1>5. LineasPasan /\ ComandasConCuenta
  BY <1>1, <1>4 DEF LineasPasan, ComandasConCuenta
<1>6. SinReferenciasColgantes' /\ PendientesSinComanda' /\ NumerosPorCuenta'
  BY <1>2, <1>3, <1>5, ReferenciasSiguen, PendientesSiguen, NumerosBien DEF CocinaInv
<1>7. PorPrepararConDestino' /\ PorPrepararSinCanceladas'
  BY <1>3, <1>4, <1>5, TestigoSigue, DestinosSiguen, CanceladasSiguen DEF CocinaInv, EstadosSiguen
<1>8. ASSUME NEW x \in Cuentas, cuentas'[x].estado \in {"PAGADA", "ANULADA"}
      PROVE  EnviadosDe(x)' # {} /\ PendientesDe(x)' = {}
  <2>1. CASE cuentas[x].estado \in {"PAGADA", "ANULADA"}
    BY <1>5, <2>1, CerradasSiguen, CobradasSiguen DEF CocinaInv
  <2>2. CASE x = c /\ cuentas[c].estado = "ABIERTA"
    <3>1. PendientesDe(c)' = {}
      BY <1>1, <2>2 DEF PendientesDe, RenglonesDe
    <3>2. PICK i \in Renglones : renglones[i].cuenta = c /\ renglones[i].estado # "CANCELADO"
      BY <1>1, <2>2 DEF VivosDe, RenglonesDe
    <3>3. renglones[i] \in TipoRenglon
      BY <3>2, RenglonDeCuenta DEF CocinaInv, RenglonesDe
    <3>4. renglones[i].estado = "ENVIADO"
      BY <1>1, <2>2, <3>2, <3>3 DEF TipoRenglon, EstadosRenglon, PendientesDe, RenglonesDe
    <3> QED
      BY <1>1, <2>2, <3>1, <3>2, <3>4 DEF EnviadosDe, RenglonesDe
  <2> QED
    BY <1>1, <1>8, <2>1, <2>2
<1>9. CobradaTodoEnviado'
  BY <1>8 DEF CobradaTodoEnviado
<1> QED
  BY <1>6, <1>7, <1>9 DEF CocinaInv
\* Sending lines.
LEMMA EnviarCocinaInv ==
    ASSUME CocinaInv, TypeOK', NEW c \in Cuentas, NEW t \in Tiempos, Enviar(c, t)
    PROVE  CocinaInv'
<1>1. TypeOK /\ Abierta(c) /\ ~Libre(c) /\ cuentas[c] \in TipoCuenta
  BY EstadoDeCuenta DEF CocinaInv, Enviar, Abierta, EstadosCuenta
<1>2. \A j \in Renglones : Queda(j) \/ Sale(j)
  BY <1>1, EnviarComandas
<1>3. PICK n \in Nat, N \in SUBSET Comandas :
        /\ cuentas' = [cuentas EXCEPT ![c].sigComanda = @ + n]
        /\ \A k \in Comandas \ N : comandas'[k] = comandas[k]
        /\ \A k \in N :
              /\ comandas[k].cuenta = NULL /\ comandas'[k].cuenta = c
              /\ comandas'[k].numero >= cuentas[c].sigComanda
              /\ comandas'[k].numero < cuentas[c].sigComanda + n
              /\ \E j \in Renglones : /\ renglones'[j].comanda = k
                                      /\ renglones'[j].estado = "ENVIADO"
                                      /\ renglones'[j].cuenta = c
        /\ \A k, l \in N : comandas'[k].numero = comandas'[l].numero => k = l
  BY <1>1, EnviarComandas
<1>4. ASSUME NEW x \in Cuentas
      PROVE  /\ cuentas'[x].estado = cuentas[x].estado
             /\ cuentas'[x].unidaA = cuentas[x].unidaA
             /\ cuentas'[x].divididaDe = cuentas[x].divididaDe
             /\ x # c => cuentas'[x].sigComanda = cuentas[x].sigComanda
  BY <1>1, <1>3 DEF TypeOK, TipoCuenta
<1>5. /\ cuentas'[c].sigComanda = cuentas[c].sigComanda + n
      /\ cuentas[c].sigComanda \in Nat
  BY <1>1, <1>3 DEF TypeOK, TipoCuenta
<1>6. \A j \in Renglones : Pasa(j) /\ ~Anula(j)
  BY <1>2 DEF Pasa, Queda, Sale, Anula
<1>7. LineasPasan
  BY <1>6 DEF LineasPasan
<1>8. LigasSiguen
  BY <1>4 DEF LigasSiguen, Libre
<1>9. ComandasConCuenta
  BY <1>1, <1>3, <1>4, ConstantesAssumption DEF ComandasConCuenta, Libre
<1>10. SinReferenciasColgantes' /\ PendientesSinComanda'
  BY <1>7, <1>8, <1>9, ReferenciasSiguen, PendientesSiguen DEF CocinaInv
<1>11. NumerosPorCuenta'
  <2> SUFFICES ASSUME NEW k \in Comandas, NEW l \in Comandas, comandas'[k].cuenta # NULL
               PROVE  /\ comandas'[k].numero < cuentas'[comandas'[k].cuenta].sigComanda
                      /\ comandas'[l].cuenta = comandas'[k].cuenta /\ comandas'[l].numero = comandas'[k].numero
                         => k = l
    BY DEF NumerosPorCuenta
  <2>1. ASSUME NEW m \in Comandas \ N
        PROVE  comandas'[m] = comandas[m]
    BY <1>3
  <2>2. ASSUME NEW m \in Comandas \ N, comandas[m].cuenta # NULL
        PROVE  /\ comandas[m].numero \in Nat /\ comandas[m].cuenta \in Cuentas
               /\ comandas[m].numero < cuentas[comandas[m].cuenta].sigComanda
    <3>1. comandas[m] \in TipoComanda
      BY <1>1, <2>2 DEF TypeOK, SinComanda
    <3> QED
      BY <2>2, <3>1 DEF TipoComanda, CocinaInv, NumerosPorCuenta
  <2>3. CASE k \notin N /\ l \notin N
    <3>1. /\ comandas[k].numero < cuentas[comandas[k].cuenta].sigComanda
          /\ comandas[k].numero \in Nat /\ comandas[k].cuenta \in Cuentas
      BY <2>1, <2>2, <2>3
    <3>2. cuentas[comandas[k].cuenta].sigComanda <= cuentas'[comandas[k].cuenta].sigComanda
      <4>1. cuentas[comandas[k].cuenta].sigComanda \in Nat
        BY <1>1, <3>1 DEF TypeOK, TipoCuenta, SinCuenta
      <4> QED
        BY <1>4, <1>5, <3>1, <4>1
    <3>3. cuentas[comandas[k].cuenta].sigComanda \in Nat /\ cuentas'[comandas[k].cuenta].sigComanda \in Nat
      BY <1>1, <3>1 DEF TypeOK, TipoCuenta, SinCuenta
    <3>4. comandas'[k].numero < cuentas'[comandas'[k].cuenta].sigComanda
      BY <2>1, <2>3, <3>1, <3>2, <3>3
    <3> QED
      BY <2>1, <2>3, <3>4 DEF CocinaInv, NumerosPorCuenta
  <2>4. CASE k \in N /\ l \in N
    BY <1>3, <1>5, <2>4
  <2>5. CASE k \in N /\ l \notin N
    <3>1. comandas'[k].cuenta = c /\ comandas'[k].numero >= cuentas[c].sigComanda
          /\ comandas'[k].numero < cuentas'[c].sigComanda
      BY <1>3, <1>5, <2>5
    <3>2. comandas'[l].cuenta = c => comandas'[l].numero < cuentas[c].sigComanda /\ comandas'[l].numero \in Nat
      BY <1>1, <2>1, <2>2, <2>5, ConstantesAssumption
    <3>3. comandas'[k].numero \in Nat
      BY <3>1, ConstantesAssumption DEF TypeOK, TipoComanda, SinComanda
    <3> QED
      BY <1>5, <3>1, <3>2, <3>3
  <2>6. CASE k \notin N /\ l \in N
    <3>1. comandas'[l].cuenta = c /\ comandas'[l].numero >= cuentas[c].sigComanda
          /\ comandas'[l].numero \in Nat
      BY <1>3, <2>6 DEF TypeOK, TipoComanda, SinComanda
    <3>2. /\ comandas'[k] = comandas[k] /\ comandas[k].cuenta \in Cuentas /\ comandas[k].numero \in Nat
          /\ comandas[k].numero < cuentas[comandas[k].cuenta].sigComanda
      BY <2>1, <2>2, <2>6
    <3>3. cuentas[comandas[k].cuenta].sigComanda \in Nat
      BY <1>1, <3>2 DEF TypeOK, TipoCuenta, SinCuenta
    <3> QED
      BY <1>4, <1>5, <3>1, <3>2, <3>3
  <2> QED
    BY <2>3, <2>4, <2>5, <2>6
<1>12. PorPrepararConDestino'
  <2>1. \A j \in Renglones : Testigo(j)
    BY <1>1, <1>4, <1>6, TestigoSigue DEF NoSeCancelan
  <2> SUFFICES ASSUME NEW k \in Comandas, comandas'[k].estado \in PorPreparar,
                      ~comandas'[k].cruzada
               PROVE  \E i \in Renglones : /\ renglones'[i].comanda = k
                                           /\ renglones'[i].estado = "ENVIADO"
                                           /\ cuentas'[renglones'[i].cuenta].estado # "CANCELADA"
    BY DEF PorPrepararConDestino, ConDestino, DeLaComanda
  <2>2. CASE k \in N
    BY <1>1, <1>3, <1>4, <2>2 DEF Abierta
  <2>3. CASE k \notin N
    <3>1. PICK i \in Renglones : /\ renglones[i].comanda = k
                                 /\ renglones[i].estado = "ENVIADO"
                                 /\ cuentas[renglones[i].cuenta].estado # "CANCELADA"
      BY <1>3, <2>3 DEF CocinaInv, PorPrepararConDestino, ConDestino, DeLaComanda
    <3> QED
      BY <2>1, <3>1 DEF Testigo
  <2> QED
    BY <2>2, <2>3
<1>13. CobradaTodoEnviado'
  BY <1>1, <1>4, <1>7, CerradasSiguen, CobrosSiguen DEF CocinaInv, NoSeCobran
<1>14. PorPrepararSinCanceladas'
  BY <1>1, <1>3, <1>4, <1>7, CanceladasSiguen DEF CocinaInv, NoSeCancelan
<1> QED
  BY <1>10, <1>11, <1>12, <1>13, <1>14 DEF CocinaInv

\* The lock a cancellation takes changes nothing else.
LEMMA CancelarItemCocinaInv ==
    ASSUME CocinaInv, TypeOK', NEW c \in Cuentas, NEW i \in Renglones, CancelarItem(c, i)
    PROVE  CocinaInv'
<1>1. ASSUME NEW x \in Cuentas
      PROVE  CuentaQueda(x)
  <2>1. PICK q : cuentas' = [cuentas EXCEPT ![c].cancelando = i, ![c].quedan = q]
    BY DEF CancelarItem
  <2> QED
    BY <2>1 DEF CuentaQueda, CocinaInv, TypeOK, TipoCuenta, SinCuenta
<1> QED
  BY <1>1, SinLineasCocinaInv DEF CancelarItem

\* What the commit of a cancellation does to the comandas: one still to
\* prepare that the line was of has another live line, or is crossed.
LEMMA ConfirmarComandas ==
    ASSUME TypeOK, NEW c \in Cuentas, ConfirmarCancelacion(c), NEW k \in Comandas
    PROVE  /\ comandas'[k].cuenta = comandas[k].cuenta
           /\ comandas'[k].numero = comandas[k].numero
           /\ comandas'[k].estado \in PorPreparar =>
                 /\ comandas[k].estado \in PorPreparar
                 /\ comandas[k].cruzada => comandas'[k].cruzada
                 /\ \/ k # renglones[cuentas[c].cancelando].comanda
                    \/ comandas'[k].cruzada
                    \/ Quedan(cuentas[c].cancelando)
<1> DEFINE i == cuentas[c].cancelando
           seCruza == comandas[k].estado \in PorPreparar /\ cuentas[c].quedan /\ ~Quedan(i)
<1>1. comandas[k] \in TipoComanda \cup {SinComanda}
  BY DEF TypeOK
<1>2. CASE k # renglones[i].comanda
  BY <1>2 DEF ConfirmarCancelacion
<1>3. CASE k = renglones[i].comanda /\ seCruza
  <2>1. comandas'[k] = [comandas[k] EXCEPT !.cruzada = TRUE]
    BY <1>3 DEF ConfirmarCancelacion
  <2> QED
    BY <1>1, <2>1 DEF TipoComanda, SinComanda
<1>4. CASE k = renglones[i].comanda /\ ~seCruza
  <2>1. comandas'[k] = Sincronizar(k, cuentas[c].quedan)
    BY <1>4 DEF ConfirmarCancelacion
  <2>2. CASE comandas[k].estado \in PorPreparar /\ ~cuentas[c].quedan
    <3>1. comandas'[k] = [comandas[k] EXCEPT !.estado = "CANCELADA"]
      BY <2>1, <2>2 DEF Sincronizar
    <3> QED
      BY <1>1, <3>1 DEF TipoComanda, SinComanda, PorPreparar
  <2>3. CASE ~(comandas[k].estado \in PorPreparar /\ ~cuentas[c].quedan)
    <3>1. comandas'[k] = comandas[k]
      BY <2>1, <2>3 DEF Sincronizar
    <3> QED
      BY <1>4, <2>3, <3>1
  <2> QED
    BY <2>2, <2>3
<1> QED
  BY <1>2, <1>3, <1>4

\* The commit of a cancellation: a comanda it leaves without lines is
\* cancelled, or crossed.
LEMMA ConfirmarCocinaInv ==
    ASSUME CocinaInv, Candado, TypeOK', NEW c \in Cuentas, ConfirmarCancelacion(c)
    PROVE  CocinaInv'
<1> DEFINE i == cuentas[c].cancelando
<1>1. TypeOK
  BY DEF CocinaInv
<1>2. \A j \in Renglones : Queda(j) \/ (j = i /\ Anula(j))
  BY <1>1, ConfirmarPasa
<1>3. LineasPasan
  BY <1>2 DEF LineasPasan, Pasa
<1>4. \A x \in Cuentas : CuentaQueda(x)
  <2>1. cuentas' = [cuentas EXCEPT ![c].cancelando = NULL, ![c].quedan = FALSE, ![c].autorizada = TRUE]
    BY DEF ConfirmarCancelacion
  <2> QED
    BY <1>1, <2>1 DEF CuentaQueda, TypeOK, TipoCuenta, SinCuenta
<1>5. \A k \in Comandas :
         /\ comandas'[k].cuenta = comandas[k].cuenta
         /\ comandas'[k].numero = comandas[k].numero
         /\ comandas'[k].estado \in PorPreparar =>
               /\ comandas[k].estado \in PorPreparar
               /\ comandas[k].cruzada => comandas'[k].cruzada
               /\ k # renglones[i].comanda \/ comandas'[k].cruzada \/ Quedan(i)
  BY <1>1, ConfirmarComandas
<1>6. LigasSiguen /\ NumerosSiguen /\ NoSeCobran
  BY <1>4, <1>5 DEF LigasSiguen, NumerosSiguen, NoSeCobran, CuentaQueda, Libre
<1>7. ComandasConCuenta
  BY <1>5 DEF ComandasConCuenta
<1>8. SinReferenciasColgantes' /\ PendientesSinComanda' /\ NumerosPorCuenta'
  BY <1>1, <1>3, <1>6, <1>7, ReferenciasSiguen, PendientesSiguen, NumerosBien DEF CocinaInv
<1>9. CobradaTodoEnviado'
  BY <1>3, <1>6, CerradasSiguen, CobrosSiguen DEF CocinaInv
<1>10. PorPrepararSinCanceladas'
  BY <1>1, <1>3, <1>4, <1>5, CanceladasSiguen DEF CocinaInv, NoSeCancelan, CuentaQueda
<1>11. PorPrepararConDestino'
  <2> SUFFICES ASSUME NEW k \in Comandas, comandas'[k].estado \in PorPreparar,
                      ~comandas'[k].cruzada
               PROVE  \E j \in Renglones : /\ renglones'[j].comanda = k
                                           /\ renglones'[j].estado = "ENVIADO"
                                           /\ cuentas'[renglones'[j].cuenta].estado # "CANCELADA"
    BY DEF PorPrepararConDestino, ConDestino, DeLaComanda
  <2>1. PICK j \in Renglones : /\ renglones[j].comanda = k
                               /\ renglones[j].estado = "ENVIADO"
                               /\ cuentas[renglones[j].cuenta].estado # "CANCELADA"
    BY <1>5 DEF CocinaInv, PorPrepararConDestino, ConDestino, DeLaComanda
  <2>2. CASE j # i
    <3>1. renglones[j].cuenta \in Cuentas
      BY <1>1, <2>1, RenglonConCuenta DEF SinRenglon
    <3> QED
      BY <1>2, <1>4, <2>1, <2>2, <3>1 DEF Queda, CuentaQueda
  <2>3. CASE j = i
    <3>1. PICK l \in Renglones : renglones[l].comanda = k /\ l # i /\ renglones[l].estado # "CANCELADO"
      BY <1>5, <2>1, <2>3 DEF Quedan, DeLaComanda
    <3>2. renglones[l] \in TipoRenglon /\ renglones[l].cuenta \in Cuentas
      BY <1>1, <3>1, RenglonConCuenta, ConstantesAssumption DEF SinRenglon
    <3>3. renglones[l].estado = "ENVIADO"
      BY <3>1, <3>2, ConstantesAssumption DEF TipoRenglon, EstadosRenglon, CocinaInv, PendientesSinComanda
    <3>4. cuentas[renglones[l].cuenta].estado # "CANCELADA"
      BY <1>5, <3>1 DEF CocinaInv, PorPrepararSinCanceladas, DeLaComanda
    <3> QED
      BY <1>2, <1>4, <3>1, <3>2, <3>3, <3>4 DEF Queda, CuentaQueda
  <2> QED
    BY <2>2, <2>3
<1> QED
  BY <1>1, <1>8, <1>9, <1>10, <1>11 DEF CocinaInv
\* Cancelling an account: nothing it shares with another is prepared any more.
LEMMA CancelarCuentaCocinaInv ==
    ASSUME CocinaInv, TypeOK', NEW c \in Cuentas, CancelarCuenta(c)
    PROVE  CocinaInv'
<1>1. TypeOK /\ Abierta(c) /\ cuentas[c] \in TipoCuenta
  BY EstadoDeCuenta DEF CocinaInv, CancelarCuenta, Abierta, EstadosCuenta
<1>2. ASSUME NEW j \in Renglones
      PROVE  (Queda(j) \/ Edita(j)) /\ Pasa(j) /\ ~Anula(j)
  <2>1. Queda(j) \/ Edita(j)
    BY <1>1, CancelarCuentaPasa
  <2>2. ~Anula(j)
    BY <2>1 DEF Queda, Edita, Anula
  <2> QED
    BY <2>1, <2>2 DEF Pasa
<1>3. LineasPasan
  BY <1>2 DEF LineasPasan
<1>4. /\ \A x \in Cuentas \ {c} : cuentas'[x] = cuentas[x]
      /\ cuentas'[c].estado = "CANCELADA"
      /\ cuentas'[c].unidaA = cuentas[c].unidaA
      /\ cuentas'[c].divididaDe = cuentas[c].divididaDe
      /\ cuentas'[c].sigComanda = cuentas[c].sigComanda
  <2>1. PICK b : cuentas' = [cuentas EXCEPT ![c].estado = "CANCELADA", ![c].autorizada = b]
    BY DEF CancelarCuenta
  <2> QED
    BY <1>1, <2>1 DEF TypeOK, TipoCuenta
<1>5. ASSUME NEW k \in Comandas
      PROVE  /\ comandas'[k].cuenta = comandas[k].cuenta
             /\ comandas'[k].numero = comandas[k].numero
             /\ comandas'[k].estado \in PorPreparar =>
                   /\ comandas[k].estado \in PorPreparar
                   /\ comandas[k].cruzada = comandas'[k].cruzada
                   /\ DeLaComanda(k) \cap RenglonesDe(c) = {}
  <2>1. comandas'[k] = IF comandas[k].estado \in PorPreparar /\ DeLaComanda(k) \cap RenglonesDe(c) # {}
                       THEN [comandas[k] EXCEPT !.estado = "CANCELADA"] ELSE comandas[k]
    BY DEF CancelarCuenta
  <2>2. comandas[k] \in TipoComanda \cup {SinComanda}
    BY <1>1 DEF TypeOK
  <2>3. CASE comandas[k].estado \in PorPreparar /\ DeLaComanda(k) \cap RenglonesDe(c) # {}
    BY <2>1, <2>2, <2>3 DEF TipoComanda, SinComanda, PorPreparar
  <2>4. CASE ~(comandas[k].estado \in PorPreparar /\ DeLaComanda(k) \cap RenglonesDe(c) # {})
    BY <2>1, <2>4
  <2> QED
    BY <2>3, <2>4
<1>6. LigasSiguen
  BY <1>4 DEF LigasSiguen, Libre
<1>7. NumerosSiguen /\ NoSeCobran /\ ComandasConCuenta
  BY <1>4, <1>5 DEF NumerosSiguen, NoSeCobran, ComandasConCuenta
<1>8. SinReferenciasColgantes' /\ PendientesSinComanda' /\ NumerosPorCuenta'
  BY <1>1, <1>3, <1>6, <1>7, ReferenciasSiguen, PendientesSiguen, NumerosBien DEF CocinaInv
<1>9. CobradaTodoEnviado'
  BY <1>3, <1>7, CerradasSiguen, CobrosSiguen DEF CocinaInv
<1>10. ASSUME NEW k \in Comandas, comandas'[k].estado \in PorPreparar,
              NEW j \in Renglones, renglones[j].comanda = k
       PROVE  /\ renglones[j].cuenta \in Cuentas \ {c}
              /\ cuentas'[renglones[j].cuenta] = cuentas[renglones[j].cuenta]
  <2>1. renglones[j].cuenta \in Cuentas
    BY <1>1, <1>10, RenglonConCuenta, ConstantesAssumption DEF SinRenglon
  <2>2. renglones[j].cuenta # c
    BY <1>5, <1>10 DEF DeLaComanda, RenglonesDe
  <2> QED
    BY <1>4, <2>1, <2>2
<1>11. PorPrepararConDestino'
  <2> SUFFICES ASSUME NEW k \in Comandas, comandas'[k].estado \in PorPreparar,
                      ~comandas'[k].cruzada
               PROVE  \E j \in Renglones : /\ renglones'[j].comanda = k
                                           /\ renglones'[j].estado = "ENVIADO"
                                           /\ cuentas'[renglones'[j].cuenta].estado # "CANCELADA"
    BY DEF PorPrepararConDestino, ConDestino, DeLaComanda
  <2>1. PICK j \in Renglones : /\ renglones[j].comanda = k
                               /\ renglones[j].estado = "ENVIADO"
                               /\ cuentas[renglones[j].cuenta].estado # "CANCELADA"
    BY <1>5 DEF CocinaInv, PorPrepararConDestino, ConDestino, DeLaComanda
  <2>2. renglones'[j] = renglones[j]
    BY <1>2, <2>1 DEF Queda, Edita
  <2> QED
    BY <1>10, <2>1, <2>2
<1>12. PorPrepararSinCanceladas'
  <2> SUFFICES ASSUME NEW k \in Comandas, comandas'[k].estado \in PorPreparar,
                      NEW j \in Renglones, renglones'[j].comanda = k
               PROVE  cuentas'[renglones'[j].cuenta].estado # "CANCELADA"
    BY DEF PorPrepararSinCanceladas, DeLaComanda
  <2>1. renglones[j].comanda = k /\ renglones'[j].cuenta = renglones[j].cuenta
    BY <1>2, ConstantesAssumption DEF Queda, Edita, SinRenglon
  <2>2. cuentas[renglones[j].cuenta].estado # "CANCELADA"
    BY <1>5, <2>1 DEF CocinaInv, PorPrepararSinCanceladas, DeLaComanda
  <2> QED
    BY <1>10, <2>1, <2>2
<1> QED
  BY <1>8, <1>9, <1>11, <1>12 DEF CocinaInv

\* Merging: the comandas of one account go on after the numbers of the other.
LEMMA JuntarCocinaInv ==
    ASSUME CocinaInv, TypeOK', NEW o \in Cuentas, NEW d \in Cuentas, Juntar(o, d)
    PROVE  CocinaInv'
<1>1. /\ TypeOK /\ o # d /\ Abierta(o) /\ Abierta(d)
      /\ cuentas[o] \in TipoCuenta /\ cuentas[d] \in TipoCuenta
  BY EstadoDeCuenta DEF CocinaInv, Juntar, Abierta, EstadosCuenta
<1>2. ASSUME NEW j \in Renglones
      PROVE  Pasa(j) /\ ~Anula(j)
  <2>1. Queda(j) \/ Mueve(j)
    BY <1>1, JuntarPasa
  <2> QED
    BY <2>1 DEF Pasa, Queda, Mueve, Anula
<1>3. LineasPasan
  BY <1>2 DEF LineasPasan
<1>4. cuentas[o].sigComanda \in Nat \ {0} /\ cuentas[d].sigComanda \in Nat \ {0}
  BY <1>1 DEF TipoCuenta
<1>5. /\ \A x \in Cuentas \ {o, d} : cuentas'[x] = cuentas[x]
      /\ cuentas'[o].estado = "UNIDA" /\ cuentas'[o].unidaA = d
      /\ cuentas'[o].divididaDe = cuentas[o].divididaDe
      /\ cuentas'[d].estado = "ABIERTA"
      /\ cuentas'[d].unidaA = cuentas[d].unidaA
      /\ cuentas'[d].divididaDe = cuentas[d].divididaDe
      /\ cuentas'[d].sigComanda = cuentas[d].sigComanda + cuentas[o].sigComanda - 1
  <2>1. PICK n : n = cuentas[d].sigComanda + cuentas[o].sigComanda - 1
    OBVIOUS
  <2>2. cuentas' = [cuentas EXCEPT ![o].estado = "UNIDA", ![o].unidaA = d, ![d].sigComanda = n]
    BY <1>1, <2>1 DEF Juntar, TypeOK
  <2> QED
    BY <1>1, <2>1, <2>2 DEF TypeOK, TipoCuenta, Abierta
<1>6. ASSUME NEW k \in Comandas
      PROVE  /\ comandas'[k].estado = comandas[k].estado
             /\ comandas'[k].cruzada = comandas[k].cruzada
             /\ comandas[k].cuenta = o => /\ comandas'[k].cuenta = d
                                          /\ comandas'[k].numero = comandas[k].numero + cuentas[d].sigComanda - 1
             /\ comandas[k].cuenta # o => comandas'[k] = comandas[k]
  <2>1. CASE comandas[k].cuenta = o
    <3>1. PICK n : n = comandas[k].numero + Salto(d)
      OBVIOUS
    <3>2. comandas'[k] = [comandas[k] EXCEPT !.cuenta = d, !.numero = n]
      BY <2>1, <3>1 DEF Juntar
    <3>3. comandas[k] \in TipoComanda
      BY <1>1, <2>1, ConstantesAssumption DEF TypeOK, SinComanda
    <3>4. comandas[k].numero \in Nat
      BY <3>3 DEF TipoComanda
    <3> QED
      BY <1>4, <2>1, <3>1, <3>2, <3>3, <3>4 DEF TipoComanda, Salto
  <2>2. CASE comandas[k].cuenta # o
    BY <2>2 DEF Juntar
  <2> QED
    BY <2>1, <2>2
<1>7. LigasSiguen
  BY <1>1, <1>5 DEF LigasSiguen, Libre, Abierta
<1>8. NoSeCobran /\ NoSeCancelan /\ EstadosSiguen
  BY <1>5, <1>6 DEF NoSeCobran, NoSeCancelan, EstadosSiguen
<1>9. ComandasConCuenta
  BY <1>5, <1>6, ConstantesAssumption DEF ComandasConCuenta
<1>10. SinReferenciasColgantes' /\ PendientesSinComanda'
  BY <1>1, <1>3, <1>7, <1>9, ReferenciasSiguen, PendientesSiguen DEF CocinaInv
<1>11. CobradaTodoEnviado'
  BY <1>3, <1>8, CerradasSiguen, CobrosSiguen DEF CocinaInv
<1>12. PorPrepararConDestino' /\ PorPrepararSinCanceladas'
  BY <1>1, <1>2, <1>3, <1>8, TestigoSigue, DestinosSiguen, CanceladasSiguen DEF CocinaInv, EstadosSiguen
<1>13. NumerosPorCuenta'
  <2>1. ASSUME NEW m \in Comandas, comandas[m].cuenta # NULL
        PROVE  /\ comandas[m].numero \in Nat \ {0} /\ comandas[m].cuenta \in Cuentas
               /\ comandas[m].numero < cuentas[comandas[m].cuenta].sigComanda
               /\ cuentas[comandas[m].cuenta].sigComanda \in Nat
    <3>1. comandas[m] \in TipoComanda
      BY <1>1, <2>1 DEF TypeOK, SinComanda
    <3>2. comandas[m].numero \in Nat \ {0} /\ comandas[m].cuenta \in Cuentas
      BY <3>1 DEF TipoComanda
    <3>3. cuentas[comandas[m].cuenta].sigComanda \in Nat
      BY <1>1, <3>2 DEF TypeOK, TipoCuenta, SinCuenta
    <3> QED
      BY <2>1, <3>2, <3>3 DEF CocinaInv, NumerosPorCuenta
  <2> SUFFICES ASSUME NEW k \in Comandas, NEW l \in Comandas, comandas'[k].cuenta # NULL
               PROVE  /\ comandas'[k].numero < cuentas'[comandas'[k].cuenta].sigComanda
                      /\ comandas'[l].cuenta = comandas'[k].cuenta /\ comandas'[l].numero = comandas'[k].numero
                         => k = l
    BY DEF NumerosPorCuenta
  <2>2. comandas[k].cuenta # NULL
    BY <1>6, ConstantesAssumption
  <2>3. comandas'[k].numero < cuentas'[comandas'[k].cuenta].sigComanda
    <3>1. CASE comandas[k].cuenta = o
      BY <1>4, <1>5, <1>6, <2>1, <2>2, <3>1
    <3>2. CASE comandas[k].cuenta = d
      BY <1>1, <1>4, <1>5, <1>6, <2>1, <2>2, <3>2
    <3>3. CASE comandas[k].cuenta \notin {o, d}
      BY <1>5, <1>6, <2>1, <2>2, <3>3
    <3> QED
      BY <3>1, <3>2, <3>3
  <2>4. ASSUME comandas'[l].cuenta = comandas'[k].cuenta, comandas'[l].numero = comandas'[k].numero
        PROVE  k = l
    <3>1. comandas[l].cuenta # NULL
      BY <1>6, <2>4, ConstantesAssumption
    <3>2. CASE comandas[k].cuenta = o /\ comandas[l].cuenta = o
      <4>1. comandas[k].numero = comandas[l].numero
        BY <1>4, <1>6, <2>1, <2>2, <2>4, <3>1, <3>2
      <4> QED
        BY <2>2, <3>2, <4>1 DEF CocinaInv, NumerosPorCuenta
    <3>3. CASE comandas[k].cuenta # o /\ comandas[l].cuenta # o
      BY <1>6, <2>2, <2>4, <3>3 DEF CocinaInv, NumerosPorCuenta
    <3>4. CASE comandas[k].cuenta = o /\ comandas[l].cuenta # o
      BY <1>4, <1>6, <2>1, <2>2, <2>4, <3>1, <3>4
    <3>5. CASE comandas[k].cuenta # o /\ comandas[l].cuenta = o
      BY <1>4, <1>6, <2>1, <2>2, <2>4, <3>1, <3>5
    <3> QED
      BY <3>2, <3>3, <3>4, <3>5
  <2> QED
    BY <2>3, <2>4
<1> QED
  BY <1>10, <1>11, <1>12, <1>13 DEF CocinaInv
\* Discarding, also by the purge.
LEMMA DescarteCocinaInv ==
    ASSUME CocinaInv, TypeOK', NEW c \in Cuentas, Descarte(c)
    PROVE  CocinaInv'
<1>1. TypeOK /\ Abierta(c)
  BY DEF CocinaInv, Descarte
<1>2. \A j \in Renglones : Queda(j) \/ Edita(j)
  BY <1>1, DescartePasa
<1>3. comandas' = comandas
  BY <1>1, DescartePasa
<1>4. \A j \in Renglones : Pasa(j) /\ ~Anula(j)
  BY <1>2 DEF Pasa, Queda, Edita, Anula
<1>5. LineasPasan
  BY <1>4 DEF LineasPasan
<1>6. EstadosSiguen
  BY <1>3 DEF EstadosSiguen
<1>7. CASE cuentas' = cuentas
  BY <1>3, <1>4, <1>5, <1>6, <1>7, QuietaCocinaInv DEF CuentaQueda
<1>8. CASE /\ cuentas' = [cuentas EXCEPT ![c] = SinCuenta]
           /\ \A j \in Renglones : renglones'[j].cuenta # c
           /\ \A k \in Comandas : comandas[k].cuenta # c
           /\ \A x \in Cuentas : cuentas[x].unidaA # c /\ cuentas[x].divididaDe # c
  <2>1. /\ \A x \in Cuentas \ {c} : cuentas'[x] = cuentas[x]
        /\ cuentas'[c] = SinCuenta
    BY <1>1, <1>8 DEF TypeOK
  <2>2. NoSeCancelan /\ NoSeCobran
    BY <2>1 DEF NoSeCancelan, NoSeCobran, SinCuenta
  <2>3. PendientesSinComanda'
    BY <1>1, <1>5, PendientesSiguen DEF CocinaInv
  <2>4. CobradaTodoEnviado'
    BY <1>5, <2>2, CerradasSiguen, CobrosSiguen DEF CocinaInv
  <2>5. PorPrepararConDestino' /\ PorPrepararSinCanceladas'
    BY <1>1, <1>4, <1>5, <1>6, <2>2, TestigoSigue, DestinosSiguen, CanceladasSiguen
       DEF CocinaInv, EstadosSiguen
  <2>6. NumerosPorCuenta'
    <3>1. ASSUME NEW k \in Comandas, comandas[k].cuenta # NULL
          PROVE  cuentas'[comandas[k].cuenta] = cuentas[comandas[k].cuenta]
      <4>1. comandas[k].cuenta \in Cuentas
        BY <1>1, <3>1 DEF TypeOK, TipoComanda, SinComanda
      <4> QED
        BY <1>8, <2>1, <4>1
    <3> QED
      BY <1>3, <3>1 DEF CocinaInv, NumerosPorCuenta
  <2>7. SinReferenciasColgantes'
    <3>1. ASSUME NEW j \in Renglones, renglones'[j].cuenta # NULL
          PROVE  /\ cuentas'[renglones'[j].cuenta].estado # "LIBRE"
                 /\ renglones'[j].comanda # NULL => comandas'[renglones'[j].comanda].cuenta # NULL
      <4>1. renglones'[j].cuenta = renglones[j].cuenta /\ renglones'[j].comanda = renglones[j].comanda
        BY <1>2, <3>1 DEF Queda, Edita, SinRenglon
      <4>2. renglones[j].cuenta \in Cuentas
        BY <1>1, <3>1, <4>1, RenglonConCuenta DEF SinRenglon
      <4> QED
        BY <1>3, <1>8, <2>1, <3>1, <4>1, <4>2 DEF CocinaInv, SinReferenciasColgantes, Libre
    <3>2. ASSUME NEW k \in Comandas, comandas'[k].cuenta # NULL
          PROVE  cuentas'[comandas'[k].cuenta].estado # "LIBRE"
      <4>1. comandas[k].cuenta \in Cuentas
        BY <1>1, <1>3, <3>2 DEF TypeOK, TipoComanda, SinComanda
      <4> QED
        BY <1>3, <1>8, <2>1, <3>2, <4>1 DEF CocinaInv, SinReferenciasColgantes, Libre
    <3>3. ASSUME NEW x \in Cuentas, NEW y \in {cuentas'[x].unidaA, cuentas'[x].divididaDe} \ {NULL}
          PROVE  cuentas'[y].estado # "LIBRE"
      <4>1. x # c
        BY <2>1, <3>3 DEF SinCuenta
      <4>2. y \in {cuentas[x].unidaA, cuentas[x].divididaDe} \ {NULL}
        BY <2>1, <3>3, <4>1
      <4>3. y \in Cuentas /\ y # c
        BY <1>1, <1>8, <4>2 DEF TypeOK, TipoCuenta, SinCuenta
      <4> QED
        BY <2>1, <4>2, <4>3 DEF CocinaInv, SinReferenciasColgantes, Libre
    <3> QED
      BY <3>1, <3>2, <3>3 DEF SinReferenciasColgantes, Libre
  <2> QED
    BY <2>3, <2>4, <2>5, <2>6, <2>7 DEF CocinaInv
<1> QED
  BY <1>1, <1>7, <1>8, DescartePasa

\* What splitting does to a line: its state and its comanda stay, or are those
\* of the line it was split from, and it is of the account split or the new one.
LEMMA DividirPasa ==
    ASSUME TypeOK, NEW c \in Cuentas, NEW n \in Cuentas, NEW M \in SUBSET VivosDe(c),
           NEW parte \in [M -> 1..MaxCantidad], Dividir(c, n, parte), NEW j \in Renglones
    PROVE  \/ Queda(j)
           \/ \E i \in Renglones :
                 /\ i = j \/ renglones[j] = SinRenglon
                 /\ renglones[i].cuenta = c
                 /\ renglones'[j].cuenta \in {c, n}
                 /\ renglones'[j].estado = renglones[i].estado
                 /\ renglones'[j].comanda = renglones[i].comanda
<1>1. PICK P \in SUBSET M : \E nuevo \in [P -> Renglones] : Reparto(c, n, M, P, nuevo)
  BY DividirLineas
<1>2. PICK nuevo \in [P -> Renglones] : Reparto(c, n, M, P, nuevo)
  BY <1>1
<1>3. /\ \A i \in P :
            /\ renglones[nuevo[i]] = SinRenglon
            /\ renglones'[nuevo[i]].cuenta = n
            /\ renglones'[nuevo[i]].estado = renglones[i].estado
            /\ renglones'[nuevo[i]].comanda = renglones[i].comanda
            /\ renglones'[i].cuenta = c
            /\ renglones'[i].estado = renglones[i].estado
            /\ renglones'[i].comanda = renglones[i].comanda
      /\ \A i \in M \ P :
            /\ renglones'[i].cuenta = n
            /\ renglones'[i].estado = renglones[i].estado
            /\ renglones'[i].comanda = renglones[i].comanda
      /\ \A i \in Renglones \ M : Queda(i) \/ \E l \in P : nuevo[l] = i
      /\ \A i \in M : renglones[i].cuenta = c /\ i \in Renglones
  BY <1>2 DEF Reparto
<1>4. CASE j \in P
  BY <1>3, <1>4
<1>5. CASE j \in M \ P
  BY <1>3, <1>5
<1>6. ASSUME NEW l \in P, nuevo[l] = j
      PROVE  \E i \in Renglones :
                 /\ i = j \/ renglones[j] = SinRenglon
                 /\ renglones[i].cuenta = c
                 /\ renglones'[j].cuenta \in {c, n}
                 /\ renglones'[j].estado = renglones[i].estado
                 /\ renglones'[j].comanda = renglones[i].comanda
  BY <1>3, <1>6
<1> QED
  BY <1>3, <1>4, <1>5, <1>6

\* Splitting an account in two.
LEMMA DividirCocinaInv ==
    ASSUME CocinaInv, TypeOK', NEW c \in Cuentas, NEW n \in Cuentas, NEW M \in SUBSET VivosDe(c),
           NEW parte \in [M -> 1..MaxCantidad], Dividir(c, n, parte)
    PROVE  CocinaInv' /\ CerradaSinCambios /\ LoEnviadoSigue
<1>1. TypeOK /\ Abierta(c) /\ Libre(n) /\ c # n /\ comandas' = comandas
  BY DEF CocinaInv, Dividir, Abierta, Libre
<1>2. /\ \A x \in Cuentas \ {n} : cuentas'[x] = cuentas[x]
      /\ cuentas'[n].estado = "ABIERTA"
      /\ cuentas'[n].unidaA = NULL /\ cuentas'[n].divididaDe = c
  BY <1>1 DEF Dividir, CuentaNueva, TypeOK
<1>3. ASSUME NEW j \in Renglones, ~Queda(j)
      PROVE  \E i \in Renglones :
                 /\ i = j \/ renglones[j] = SinRenglon
                 /\ renglones[i].cuenta = c
                 /\ renglones'[j].cuenta \in {c, n}
                 /\ renglones'[j].estado = renglones[i].estado
                 /\ renglones'[j].comanda = renglones[i].comanda
  BY <1>1, <1>3, DividirPasa
<1>4. CerradaSinCambios
  <2> SUFFICES ASSUME NEW x \in Cuentas, cuentas[x].estado \in EstadosCuenta \ {"ABIERTA"},
                      NEW j \in Renglones, x \in {renglones[j].cuenta, renglones'[j].cuenta},
                      ~Queda(j)
               PROVE  FALSE
    BY DEF CerradaSinCambios, Queda
  <2>1. x # c /\ x # n /\ x # NULL
    BY <1>1, ConstantesAssumption DEF Abierta, Libre, EstadosCuenta
  <2> QED
    BY <1>3, <2>1 DEF SinRenglon
<1>5. LoEnviadoSigue
  <2> SUFFICES ASSUME NEW j \in Renglones, renglones[j].estado \in {"ENVIADO", "CANCELADO"}
               PROVE  renglones'[j].estado = renglones[j].estado
    BY DEF LoEnviadoSigue
  <2> QED
    BY <1>3 DEF Queda, SinRenglon
<1>6. LigasSiguen /\ NoSeCancelan /\ NoSeCobran
  BY <1>1, <1>2 DEF LigasSiguen, NoSeCancelan, NoSeCobran, Libre, Abierta
<1>7. NumerosSiguen
  BY <1>1, <1>2 DEF NumerosSiguen
<1>8. SinReferenciasColgantes'
  <2>1. ASSUME NEW j \in Renglones, renglones'[j].cuenta # NULL
        PROVE  /\ cuentas'[renglones'[j].cuenta].estado # "LIBRE"
               /\ renglones'[j].comanda # NULL => comandas'[renglones'[j].comanda].cuenta # NULL
    <3>1. CASE Queda(j)
      <4>1. renglones[j].cuenta \in Cuentas
        BY <1>1, <2>1, <3>1, RenglonConCuenta DEF Queda, SinRenglon
      <4> QED
        BY <1>1, <1>2, <2>1, <3>1, <4>1 DEF Queda, CocinaInv, SinReferenciasColgantes, Libre
    <3>2. CASE ~Queda(j)
      <4>1. PICK i \in Renglones : /\ renglones[i].cuenta = c
                                   /\ renglones'[j].cuenta \in {c, n}
                                   /\ renglones'[j].comanda = renglones[i].comanda
        BY <1>3, <3>2
      <4>2. renglones[i].comanda # NULL => comandas[renglones[i].comanda].cuenta # NULL
        BY <4>1, ConstantesAssumption DEF CocinaInv, SinReferenciasColgantes
      <4> QED
        BY <1>1, <1>2, <4>1, <4>2 DEF Abierta
    <3> QED
      BY <3>1, <3>2
  <2>2. ASSUME NEW k \in Comandas, comandas'[k].cuenta # NULL
        PROVE  cuentas'[comandas'[k].cuenta].estado # "LIBRE"
    <3>1. comandas[k].cuenta \in Cuentas
      BY <1>1, <2>2 DEF TypeOK, TipoComanda, SinComanda
    <3> QED
      BY <1>1, <1>2, <2>2, <3>1 DEF CocinaInv, SinReferenciasColgantes, Libre
  <2>3. ASSUME NEW x \in Cuentas, NEW y \in {cuentas'[x].unidaA, cuentas'[x].divididaDe} \ {NULL}
        PROVE  cuentas'[y].estado # "LIBRE"
    <3>1. CASE x = n
      BY <1>1, <1>2, <2>3, <3>1 DEF Abierta
    <3>2. CASE x # n
      <4>1. y \in {cuentas[x].unidaA, cuentas[x].divididaDe} \ {NULL}
        BY <1>2, <2>3, <3>2
      <4>2. y \in Cuentas
        BY <1>1, <4>1 DEF TypeOK, TipoCuenta, SinCuenta
      <4> QED
        BY <1>1, <1>2, <4>1, <4>2 DEF CocinaInv, SinReferenciasColgantes, Libre
    <3> QED
      BY <3>1, <3>2
  <2> QED
    BY <2>1, <2>2, <2>3 DEF SinReferenciasColgantes, Libre
<1>9. PendientesSinComanda'
  BY <1>3 DEF Queda, CocinaInv, PendientesSinComanda
<1>10. NumerosPorCuenta'
  BY <1>1, <1>7, NumerosBien DEF CocinaInv
<1>11. CobradaTodoEnviado'
  BY <1>4, <1>6, CobrosSiguen DEF CocinaInv
<1>12. PorPrepararConDestino'
  <2>1. ASSUME NEW j \in Renglones, renglones[j].estado = "ENVIADO"
        PROVE  /\ renglones'[j].estado = "ENVIADO"
               /\ renglones'[j].comanda = renglones[j].comanda
               /\ cuentas[renglones[j].cuenta].estado # "CANCELADA"
                     => cuentas'[renglones'[j].cuenta].estado # "CANCELADA"
    <3>1. CASE Queda(j)
      <4>1. renglones[j].cuenta \in Cuentas
        BY <1>1, <2>1, RenglonConCuenta DEF SinRenglon
      <4> QED
        BY <1>2, <2>1, <3>1, <4>1 DEF Queda
    <3>2. CASE ~Queda(j)
      BY <1>1, <1>2, <1>3, <2>1, <3>2 DEF Abierta, SinRenglon
    <3> QED
      BY <3>1, <3>2
  <2> QED
    BY <1>1, <2>1, DestinosSiguen DEF CocinaInv, Testigo, EstadosSiguen
<1>13. PorPrepararSinCanceladas'
  <2> SUFFICES ASSUME NEW k \in Comandas, comandas[k].estado \in PorPreparar,
                      NEW j \in Renglones, renglones'[j].comanda = k
               PROVE  cuentas'[renglones'[j].cuenta].estado # "CANCELADA"
    BY <1>1 DEF PorPrepararSinCanceladas, DeLaComanda
  <2>1. CASE Queda(j)
    <3>1. renglones[j].cuenta \in Cuentas
      BY <1>1, <2>1, RenglonConCuenta, ConstantesAssumption DEF Queda, SinRenglon
    <3> QED
      BY <1>2, <2>1, <3>1 DEF Queda, CocinaInv, PorPrepararSinCanceladas, DeLaComanda
  <2>2. CASE ~Queda(j)
    BY <1>1, <1>2, <1>3, <2>2 DEF Abierta
  <2> QED
    BY <2>1, <2>2
<1> QED
  BY <1>4, <1>5, <1>8, <1>9, <1>10, <1>11, <1>12, <1>13 DEF CocinaInv
-----------------------------------------------------------------------------
(* Every step.                                                             *)

Division ==
    \E c \in Cuentas, n \in Cuentas : \E M \in (SUBSET VivosDe(c)) \ {{}} :
        \E parte \in [M -> 1..MaxCantidad] : Dividir(c, n, parte)

\* Every step but splitting makes each line pass in one of the ways above.
LEMMA PasoPasa ==
    ASSUME TypeOK, Candado, [Next]_vars, ~Division
    PROVE  LineasPasan
<1>1. ASSUME UNCHANGED renglones
      PROVE  LineasPasan
  BY <1>1 DEF LineasPasan, Pasa, Queda
<1>2. ASSUME NEW c \in Cuentas, Descarte(c)
      PROVE  LineasPasan
  BY <1>2, DescartePasa DEF LineasPasan, Pasa
<1>3. ASSUME NEW c \in Cuentas, OperarCuenta(c)
      PROVE  LineasPasan
  <2>1. CASE \E a \in Articulos, t \in Tiempos, n \in 1..MaxCantidad, nota \in Notas :
                AgregarItem(c, a, t, n, nota)
    BY <2>1, AgregarItemPasa DEF LineasPasan, Pasa
  <2>2. CASE \/ \E i \in Renglones, n \in 1..MaxCantidad, t \in Tiempos, nota \in Notas :
                   ActualizarItem(c, i, n, t, nota)
             \/ \E i \in Renglones : EliminarItem(c, i)
    BY <2>2, EditarPasa DEF LineasPasan, Pasa
  <2>3. CASE \E I \in SUBSET Renglones, rebaja \in Rebajas : Descontar(c, I, rebaja)
    BY <2>3, DescontarPasa DEF LineasPasan, Pasa
  <2>4. CASE \E t \in Tiempos : Enviar(c, t)
    BY <2>4, EnviarComandas DEF LineasPasan, Pasa
  <2>5. CASE \E i \in Renglones : CancelarItem(c, i)
    BY <1>1, <2>5 DEF CancelarItem
  <2>6. CASE \E m \in Mesas : CambiarMesa(c, m)
    BY <1>1, <2>6 DEF CambiarMesa
  <2>7. CASE Descartar(c)
    BY <1>2, <2>7 DEF Descartar
  <2>8. CASE \E d \in Cuentas : Juntar(c, d)
    BY <2>8, JuntarPasa DEF LineasPasan, Pasa
  <2>9. CASE CancelarCuenta(c)
    BY <2>9, CancelarCuentaPasa DEF LineasPasan, Pasa
  <2>10. CASE Cobrar(c) \/ Anular(c)
    BY <1>1, <2>10 DEF Cobrar, Anular
  <2>11. ~ \E n \in Cuentas, M \in (SUBSET VivosDe(c)) \ {{}} : \E parte \in [M -> 1..MaxCantidad] :
               Dividir(c, n, parte)
    BY DEF Division
  <2> QED
    BY <1>3, <2>1, <2>2, <2>3, <2>4, <2>5, <2>6, <2>7, <2>8, <2>9, <2>10, <2>11 DEF OperarCuenta
<1>4. ASSUME NEW c \in Cuentas, PurgaDescartar(c)
      PROVE  LineasPasan
  BY <1>1, <1>2, <1>4 DEF PurgaDescartar
<1>5. CASE \/ \E c \in Cuentas, m \in Mesas \cup {NULL}, r \in Reservas \cup {NULL} : AbrirCuenta(c, m, r)
           \/ \E k \in Comandas, e \in DOMAIN DESDE : CambiarEstadoComanda(k, e)
           \/ PurgaSeleccionar
           \/ \E m \in MesasEditables, activa \in BOOLEAN : ActivarMesa(m, activa)
           \/ \E m \in MesasEditables : EliminarMesa(m)
           \/ \E r \in Reservas, e \in EstadosReserva : CambiarEstadoReserva(r, e)
           \/ \E r \in Reservas : EliminarReserva(r)
           \/ UNCHANGED vars
  BY <1>1, <1>5 DEF AbrirCuenta, CambiarEstadoComanda, PurgaSeleccionar, ActivarMesa, EliminarMesa,
                    CambiarEstadoReserva, EliminarReserva, vars
<1>6. ASSUME NEW c \in Cuentas, ConfirmarCancelacion(c)
      PROVE  LineasPasan
  BY <1>6, ConfirmarPasa DEF LineasPasan, Pasa
<1> QED
  BY <1>3, <1>4, <1>5, <1>6 DEF Next

\* The initial tables are empty.
LEMMA InitCocinaInv == Init => CocinaInv
<1> SUFFICES ASSUME Init PROVE CocinaInv
  OBVIOUS
<1>1. /\ \A c \in Cuentas : cuentas[c] = SinCuenta
      /\ \A i \in Renglones : renglones[i] = SinRenglon
      /\ \A k \in Comandas : comandas[k] = SinComanda
  BY DEF Init
<1>2. SinReferenciasColgantes
  BY <1>1 DEF SinReferenciasColgantes, SinCuenta, SinRenglon, SinComanda
<1>3. PendientesSinComanda /\ NumerosPorCuenta /\ CobradaTodoEnviado
  BY <1>1 DEF PendientesSinComanda, NumerosPorCuenta, CobradaTodoEnviado, SinCuenta, SinRenglon, SinComanda
<1>4. PorPrepararConDestino /\ PorPrepararSinCanceladas
  BY <1>1 DEF PorPrepararConDestino, PorPrepararSinCanceladas, SinComanda, PorPreparar
<1> QED
  BY <1>2, <1>3, <1>4, InitTypeOK DEF CocinaInv

\* Every step keeps the invariant of the kitchen.
LEMMA NextCocinaInv == CocinaInv /\ Candado /\ [Next]_vars => CocinaInv'
<1> SUFFICES ASSUME CocinaInv, Candado, [Next]_vars PROVE CocinaInv'
  OBVIOUS
<1>1. TypeOK'
  BY NextTypeOK DEF CocinaInv
<1>2. CASE \E c \in Cuentas, m \in Mesas \cup {NULL}, r \in Reservas \cup {NULL} : AbrirCuenta(c, m, r)
  BY <1>1, <1>2, AbrirCocinaInv
<1>3. ASSUME NEW c \in Cuentas, OperarCuenta(c)
      PROVE  CocinaInv'
  <2>1. CASE \/ \E a \in Articulos, t \in Tiempos, n \in 1..MaxCantidad, nota \in Notas :
                   AgregarItem(c, a, t, n, nota)
             \/ \E i \in Renglones, n \in 1..MaxCantidad, t \in Tiempos, nota \in Notas :
                   ActualizarItem(c, i, n, t, nota)
             \/ \E i \in Renglones : EliminarItem(c, i)
             \/ \E I \in SUBSET Renglones, rebaja \in Rebajas : Descontar(c, I, rebaja)
    BY <1>1, <2>1, RenglonesCocinaInv
  <2>2. CASE \E t \in Tiempos : Enviar(c, t)
    BY <1>1, <2>2, EnviarCocinaInv
  <2>3. CASE \E i \in Renglones : CancelarItem(c, i)
    BY <1>1, <2>3, CancelarItemCocinaInv
  <2>4. CASE \E m \in Mesas : CambiarMesa(c, m)
    BY <1>1, <2>4, CambiarMesaCocinaInv
  <2>5. CASE Descartar(c)
    BY <1>1, <2>5, DescarteCocinaInv DEF Descartar
  <2>6. CASE \E d \in Cuentas : Juntar(c, d)
    BY <1>1, <2>6, JuntarCocinaInv
  <2>7. CASE \E n \in Cuentas, M \in (SUBSET VivosDe(c)) \ {{}} : \E parte \in [M -> 1..MaxCantidad] :
                 Dividir(c, n, parte)
    BY <1>1, <2>7, DividirCocinaInv
  <2>8. CASE CancelarCuenta(c)
    BY <1>1, <2>8, CancelarCuentaCocinaInv
  <2>9. CASE Cobrar(c) \/ Anular(c)
    BY <1>1, <2>9, CobrarCocinaInv
  <2> QED
    BY <1>3, <2>1, <2>2, <2>3, <2>4, <2>5, <2>6, <2>7, <2>8, <2>9 DEF OperarCuenta
<1>4. CASE \E k \in Comandas, e \in DOMAIN DESDE : CambiarEstadoComanda(k, e)
  BY <1>1, <1>4, CambiarEstadoCocinaInv
<1>5. ASSUME NEW c \in Cuentas, PurgaDescartar(c)
      PROVE  CocinaInv'
  BY <1>1, <1>5, DescarteCocinaInv, AdministrarCocinaInv DEF PurgaDescartar
<1>6. CASE \/ PurgaSeleccionar
           \/ \E m \in MesasEditables, activa \in BOOLEAN : ActivarMesa(m, activa)
           \/ \E m \in MesasEditables : EliminarMesa(m)
           \/ \E r \in Reservas, e \in EstadosReserva : CambiarEstadoReserva(r, e)
           \/ \E r \in Reservas : EliminarReserva(r)
  BY <1>1, <1>6, AdministrarCocinaInv
<1>7. CASE UNCHANGED vars
  BY <1>1, <1>7, AdministrarCocinaInv DEF vars
<1>8. ASSUME NEW c \in Cuentas, ConfirmarCancelacion(c)
      PROVE  CocinaInv'
  BY <1>1, <1>8, ConfirmarCocinaInv
<1> QED
  BY <1>2, <1>3, <1>4, <1>5, <1>6, <1>7, <1>8 DEF Next

\* It holds in every behaviour.
LEMMA CocinaInvariante == Spec => []CocinaInv
BY InitCocinaInv, NextCocinaInv, BaseInvariante, PTL DEF Spec

\* No line, comanda or link between accounts refers to an account or a
\* comanda that was deleted: neither discarding, merging nor splitting leaves
\* one behind.
THEOREM ReferenciasCorrectas == Spec => []SinReferenciasColgantes
<1>1. CocinaInv => SinReferenciasColgantes
  BY DEF CocinaInv
<1> QED
  BY <1>1, CocinaInvariante, PTL

\* The comandas an account owns are never numbered alike, also after merging.
\* (A comanda of which another account holds lines is not its own.)
THEOREM NumerosCorrectos == Spec => []NumerosPorCuenta
<1>1. CocinaInv => NumerosPorCuenta
  BY DEF CocinaInv
<1> QED
  BY <1>1, CocinaInvariante, PTL

\* A comanda still to prepare has somebody waiting for it, however the account
\* was split, merged and cancelled in part, or its last two lines were
\* cancelled by transactions that did not see each other.
THEOREM DestinosCorrectos == Spec => []PorPrepararConDestino
<1>1. CocinaInv => PorPrepararConDestino
  BY DEF CocinaInv
<1> QED
  BY <1>1, CocinaInvariante, PTL

\* What was charged was sent, and there was something to charge for.
THEOREM CobrosCorrectos == Spec => []CobradaTodoEnviado
<1>1. CocinaInv => CobradaTodoEnviado
  BY DEF CocinaInv
<1> QED
  BY <1>1, CocinaInvariante, PTL

-----------------------------------------------------------------------------
(* What a step may never do.                                               *)

\* No step touches the lines of an account that is not open any more.
LEMMA PasoCerradas == CocinaInv /\ Candado /\ [Next]_vars => CerradaSinCambios
<1> SUFFICES ASSUME CocinaInv, Candado, [Next]_vars PROVE CerradaSinCambios
  OBVIOUS
<1>1. TypeOK /\ TypeOK'
  BY NextTypeOK DEF CocinaInv
<1>2. CASE Division
  BY <1>1, <1>2, DividirCocinaInv DEF Division
<1>3. CASE ~Division
  BY <1>1, <1>3, PasoPasa, CerradasSiguen
<1> QED
  BY <1>2, <1>3

\* No step loses what was sent, or sends what was cancelled.
LEMMA PasoEnviado == CocinaInv /\ Candado /\ [Next]_vars => LoEnviadoSigue
<1> SUFFICES ASSUME CocinaInv, Candado, [Next]_vars PROVE LoEnviadoSigue
  OBVIOUS
<1>1. TypeOK /\ TypeOK'
  BY NextTypeOK DEF CocinaInv
<1>2. CASE Division
  BY <1>1, <1>2, DividirCocinaInv DEF Division
<1>3. CASE ~Division
  <2>1. LineasPasan
    BY <1>1, <1>3, PasoPasa
  <2> QED
    BY <2>1 DEF LoEnviadoSigue, LineasPasan, Pasa, Queda, Edita, Nace, Mueve, Sale, Anula, SinRenglon
<1> QED
  BY <1>2, <1>3

\* The lines of an account that is not open any more do not change, and no
\* line enters it: what was charged, merged or cancelled stays as it was.
THEOREM CerradasCongeladas == Spec => CuentaCerradaCongelada
BY CocinaInvariante, BaseInvariante, PasoCerradas, PTL DEF Spec, CuentaCerradaCongelada

\* What was sent is never deleted nor sent again.
THEOREM EnviadosSiguen == Spec => LoEnviadoNoSePierde
BY CocinaInvariante, BaseInvariante, PasoEnviado, PTL DEF Spec, LoEnviadoNoSePierde
-----------------------------------------------------------------------------
(* The pieces of a comanda.                                                *)

\* A line holds a whole number of pieces.
LEMMA PiezasEnteras ==
    ASSUME TypeOK, NEW i \in Renglones
    PROVE  renglones[i].cant \in Int
BY ConstantesAssumption DEF TypeOK, TipoRenglon, SinRenglon

\* A step other than splitting leaves the lines of a comanda that was sent,
\* and their pieces: only a line still to be sent is changed, and what is
\* sent goes with a new comanda.
LEMMA PiezasPasan ==
    ASSUME CocinaInv, TypeOK', LineasPasan, NEW k \in Comandas, comandas[k].cuenta # NULL
    PROVE  Piezas(DeLaComanda(k))' = Piezas(DeLaComanda(k))
<1> DEFINE f == [i \in Renglones |-> renglones[i].cant]
           g == [i \in Renglones |-> renglones'[i].cant]
           S == DeLaComanda(k)
<1>1. TypeOK /\ PendientesSinComanda /\ k # NULL /\ IsFiniteSet(Renglones)
  BY ConstantesAssumption DEF CocinaInv
<1>2. ASSUME NEW j \in Renglones
      PROVE  /\ renglones'[j].comanda = k <=> renglones[j].comanda = k
             /\ renglones[j].comanda = k => renglones'[j].cant = renglones[j].cant
  <2>1. Pasa(j)
    BY DEF LineasPasan
  <2>2. CASE Queda(j) \/ Mueve(j) \/ Anula(j)
    BY <2>2 DEF Queda, Mueve, Anula
  <2>3. CASE Edita(j)
    BY <1>1, <2>3 DEF Edita, PendientesSinComanda, SinRenglon
  <2>4. CASE Nace(j)
    BY <1>1, <2>4 DEF Nace, SinRenglon
  <2>5. CASE Sale(j)
    BY <1>1, <2>5 DEF Sale, PendientesSinComanda
  <2> QED
    BY <2>1, <2>2, <2>3, <2>4, <2>5 DEF Pasa
<1>3. DeLaComanda(k)' = S
  BY <1>2 DEF DeLaComanda
<1>4. \A i \in S : f[i] = g[i]
  BY <1>2 DEF DeLaComanda
<1>5. IsFiniteSet(S)
  BY <1>1, FS_Subset DEF DeLaComanda
<1>6. SumaDe(f, S) = SumaDe(g, S)
  <2> HIDE DEF f, g, S
  <2> QED
    BY <1>4, <1>5, SumaIgual
<1> QED
  BY <1>3, <1>6 DEF Piezas

\* Splitting shares out the pieces of a line between it and the new line,
\* with the same comanda.
LEMMA PiezasDivididas ==
    ASSUME TypeOK, TypeOK', NEW c \in Cuentas, NEW n \in Cuentas, NEW M \in SUBSET VivosDe(c),
           NEW parte \in [M -> 1..MaxCantidad], Dividir(c, n, parte),
           NEW k \in Comandas
    PROVE  Piezas(DeLaComanda(k))' = Piezas(DeLaComanda(k))
<1>1. PICK P \in SUBSET M : \E nuevo \in [P -> Renglones] : Reparto(c, n, M, P, nuevo)
  BY DividirLineas
<1>2. PICK nuevo \in [P -> Renglones] : Reparto(c, n, M, P, nuevo)
  BY <1>1
<1> DEFINE f == [i \in Renglones |-> renglones[i].cant]
           g == [i \in Renglones |-> renglones'[i].cant]
           S == DeLaComanda(k)
           Q == P \cap S
           otra == [i \in Q |-> nuevo[i]]
<1>3. /\ \A i \in P :
            /\ renglones[nuevo[i]] = SinRenglon
            /\ renglones'[nuevo[i]].comanda = renglones[i].comanda
            /\ renglones'[i].comanda = renglones[i].comanda
            /\ renglones'[nuevo[i]].cant + renglones'[i].cant = renglones[i].cant
      /\ \A i, l \in P : nuevo[i] = nuevo[l] => i = l
      /\ \A i \in M \ P :
            /\ renglones'[i].comanda = renglones[i].comanda
            /\ renglones'[i].cant = renglones[i].cant
      /\ \A i \in Renglones \ M : renglones'[i] = renglones[i] \/ \E l \in P : nuevo[l] = i
      /\ \A i \in M : i \in Renglones
  BY <1>2 DEF Reparto, Queda
<1>4. k # NULL /\ IsFiniteSet(Renglones)
  BY ConstantesAssumption
<1>5. \A i \in P : nuevo[i] \in Renglones /\ renglones[nuevo[i]].comanda # k
  BY <1>3, <1>4 DEF SinRenglon
<1>6. ASSUME NEW j \in Renglones
      PROVE  renglones'[j].comanda = k <=> j \in S \/ \E i \in Q : nuevo[i] = j
  <2>1. CASE j \in M
    <3>1. renglones'[j].comanda = renglones[j].comanda
      BY <1>3, <2>1
    <3>2. ~ \E i \in Q : nuevo[i] = j /\ j \notin S
      <4>1. \A i \in Q : renglones'[nuevo[i]].comanda = k
        BY <1>3 DEF DeLaComanda
      <4> QED
        BY <3>1, <4>1 DEF DeLaComanda
    <3> QED
      BY <3>1, <3>2 DEF DeLaComanda
  <2>2. CASE \E i \in P : nuevo[i] = j
    <3>1. PICK i \in P : nuevo[i] = j
      BY <2>2
    <3>2. j \notin S
      BY <1>5, <3>1 DEF DeLaComanda
    <3>3. renglones'[j].comanda = k <=> i \in S
      BY <1>3, <3>1 DEF DeLaComanda
    <3>4. (\E l \in Q : nuevo[l] = j) <=> i \in S
      BY <1>3, <3>1
    <3> QED
      BY <3>2, <3>3, <3>4
  <2>3. CASE j \notin M /\ ~ \E i \in P : nuevo[i] = j
    <3>1. renglones'[j] = renglones[j]
      BY <1>3, <2>3
    <3> QED
      BY <2>3, <3>1 DEF DeLaComanda
  <2> QED
    BY <2>1, <2>2, <2>3
<1>7. DeLaComanda(k)' = S \cup {otra[i] : i \in Q}
  <2>1. \A i \in Q : otra[i] = nuevo[i] /\ nuevo[i] \in Renglones
    BY <1>5
  <2>2. DeLaComanda(k)' = {j \in Renglones : j \in S \/ \E i \in Q : nuevo[i] = j}
    BY <1>6 DEF DeLaComanda
  <2>3. S \subseteq Renglones
    BY DEF DeLaComanda
  <2> HIDE DEF S, Q, otra
  <2> QED
    BY <2>1, <2>2, <2>3
<1>8. SumaDe(g, S \cup {otra[i] : i \in Q}) = SumaDe(f, S)
  <2>1. S \in SUBSET Renglones /\ Q \in SUBSET S
    BY DEF DeLaComanda
  <2>2. otra \in [Q -> Renglones \ S] /\ \A x, y \in Q : otra[x] = otra[y] => x = y
    BY <1>3, <1>5 DEF DeLaComanda
  <2>3. \A x \in Renglones : f[x] \in Int /\ g[x] \in Int
    <3>1. \A x \in Renglones : renglones[x].cant \in Int
      BY PiezasEnteras
    <3>2. \A x \in Renglones : renglones'[x].cant \in Int
      BY ConstantesAssumption DEF TypeOK, TipoRenglon, SinRenglon
    <3> QED
      BY <3>1, <3>2
  <2>4. \A x \in S \ Q : g[x] = f[x]
    <3>1. ASSUME NEW x \in S \ Q
          PROVE  renglones'[x].cant = renglones[x].cant
      <4>1. x \in Renglones /\ x \notin P /\ renglones[x].comanda = k
        BY DEF DeLaComanda
      <4>2. ~ \E l \in P : nuevo[l] = x
        BY <1>5, <4>1
      <4> QED
        BY <1>3, <4>1, <4>2
    <3> QED
      BY <2>1, <3>1
  <2>5. \A x \in Q : g[otra[x]] + g[x] = f[x]
    <3>1. ASSUME NEW x \in Q
          PROVE  g[otra[x]] + g[x] = f[x]
      <4>1. x \in Renglones /\ otra[x] = nuevo[x] /\ nuevo[x] \in Renglones /\ x \in P
        BY <1>5, <2>1
      <4>2. renglones'[nuevo[x]].cant + renglones'[x].cant = renglones[x].cant
        BY <1>3, <4>1
      <4>3. /\ g[x] = renglones'[x].cant /\ f[x] = renglones[x].cant
            /\ g[nuevo[x]] = renglones'[nuevo[x]].cant
        BY <4>1
      <4> QED
        BY <4>1, <4>2, <4>3
    <3> QED
      BY <3>1
  <2> HIDE DEF f, g, S, Q, otra
  <2> QED
    BY <1>4, <2>1, <2>2, <2>3, <2>4, <2>5, SumaReparte
<1> QED
  BY <1>7, <1>8 DEF Piezas

\* No step changes how many pieces a comanda was sent with.
LEMMA PasoPiezas == CocinaInv /\ Candado /\ [Next]_vars => PiezasFijas
<1> SUFFICES ASSUME CocinaInv, Candado, [Next]_vars PROVE PiezasFijas
  OBVIOUS
<1>1. TypeOK /\ TypeOK'
  BY NextTypeOK DEF CocinaInv
<1>2. CASE Division
  BY <1>1, <1>2, PiezasDivididas DEF Division, PiezasFijas
<1>3. CASE ~Division
  BY <1>1, <1>3, PasoPasa, PiezasPasan DEF PiezasFijas
<1> QED
  BY <1>2, <1>3

\* What was ordered with a comanda is what it was sent with, however its
\* lines are shared out, merged or cancelled later.
THEOREM PiezasConservadas == Spec => PiezasPorComandaFijas
BY CocinaInvariante, BaseInvariante, PasoPiezas, PTL DEF Spec, PiezasPorComandaFijas
=============================================================================
