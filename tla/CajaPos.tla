------------------------------- MODULE CajaPos -------------------------------
(***************************************************************************)
(* The cash register: shifts ("turnos"), charging an account, correcting   *)
(* how it was paid, cancelling a sale, and closing the shift, which sends  *)
(* what was sold with each method to Finanzas ("ingresos").                *)
(*                                                                         *)
(* The transactions are taken apart: each connection runs one statement at *)
(* a time, sees what was committed when the statement ran (READ COMMITTED) *)
(* and holds the row locks it took until it ends.  What it writes is seen  *)
(* by nobody before the COMMIT, so that all of it is one last step.        *)
(*                                                                         *)
(* The lines of an account are CuentasPos's: an account is here ABIERTA    *)
(* while it is open with something to charge for, LIBRE while it has       *)
(* nothing.  The payments of an account with one method are added up,      *)
(* because every query of the code adds them up; the change and the        *)
(* reference of a payment are left out.                                    *)
(***************************************************************************)
EXTENDS Sumas

CONSTANTS
    Conexiones,     \* connections of the pool that serve these requests
    Turnos,         \* ids of pos_turnos rows
    Cuentas,        \* ids of pos_cuentas rows
    Cajeros,        \* users who may charge
    Supervisores,   \* those of them who may authorise and close any shift
    Metodos,        \* METODOS_PAGO
    Total,          \* what each account adds up to, in cents
    Propinas,       \* tips that may come with a payment
    Entregas,       \* tips that may be handed out when a shift closes
    Fondos,         \* cash a shift is opened with
    NULL

ASSUME CajaAssumption ==
    /\ Turnos \cap Cuentas = {}
    /\ NULL \notin Turnos \cup Cuentas \cup Cajeros
    /\ Supervisores \subseteq Cajeros
    /\ "EFECTIVO" \in Metodos
    /\ Total \in [Cuentas -> Nat]
    /\ 0 \in Propinas /\ Propinas \subseteq Nat
    /\ 0 \in Entregas /\ Entregas \subseteq Nat
    /\ Fondos \subseteq Nat
    /\ IsFiniteSet(Cuentas) /\ IsFiniteSet(Metodos)

VARIABLES
    turnos,         \* pos_turnos, with the frozen `resumen` of the closed ones
    cuentas,        \* pos_cuentas, with where the money of a cancelled sale came from
    pagos,          \* pos_pagos of each account, by method
    ingresos,       \* ingresos of each shift by method, those not cancelled; 0 is none
    ajuste,         \* pos_correcciones_pago made after the shift closed, added up
    tx,             \* the transaction each connection runs
    candados        \* row locks held

vars == <<turnos, cuentas, pagos, ingresos, ajuste, tx, candados>>
filas == <<turnos, cuentas, pagos, ingresos, ajuste>>

-----------------------------------------------------------------------------
SinMontos == [m \in Metodos |-> 0]
SinPagos == [m \in Metodos |-> [monto |-> 0, propina |-> 0]]
SinCorte == [montos |-> SinMontos, propinas |-> 0, efectivo |-> 0]
SinTurno == [estado |-> "LIBRE", usuario |-> NULL, fondo |-> 0, resumen |-> SinCorte]
SinCobrar == [estado |-> "LIBRE", turno |-> NULL, devueltaEn |-> NULL, trasCierre |-> FALSE]

\* A connection with no transaction.
TxLibre == [op |-> "NINGUNA", paso |-> 0, usuario |-> NULL, cuenta |-> NULL, turno |-> NULL,
            mio |-> NULL, pagos |-> SinPagos, cerrado |-> FALSE, entregadas |-> 0,
            corte |-> SinCorte]

EfectivoDe(p) == p["EFECTIVO"].monto + p["EFECTIVO"].propina

\* normalizarPagos: the amounts add up to the total, tips are apart.
Cobros(c) ==
    {p \in [Metodos -> [monto : 0..Total[c], propina : Propinas]] :
        SumaDe([m \in Metodos |-> p[m].monto], Metodos) = Total[c]}

\* diferenciaPagos
DeltaMontos(antes, despues) == [m \in Metodos |-> despues[m].monto - antes[m].monto]
DeltaAlReves(antes, despues) == EfectivoDe(antes) - EfectivoDe(despues)
DeltaEfectivo(antes, despues) == EfectivoDe(despues) - EfectivoDe(antes)

\* What each account was paid: with the method m, in tips, in cash.
Montos(m) == [c \in Cuentas |-> pagos[c][m].monto]
PropinasPagadas ==
    [c \in Cuentas |-> SumaDe([m \in Metodos |-> pagos[c][m].propina], Metodos)]
Efectivos == [c \in Cuentas |-> EfectivoDe(pagos[c])]

DelTurno(t) == {c \in Cuentas : cuentas[c].turno = t}
VigentesDe(t) == {c \in DelTurno(t) : cuentas[c].estado = "PAGADA"}

\* POR_METODO, EFECTIVO_INGRESADO and DEVOLUCIONES_EFECTIVO: the first leaves
\* cancelled sales out, the second does not.
VendidoEn(t) == [m \in Metodos |-> SumaDe(Montos(m), VigentesDe(t))]
PropinasDe(t) == SumaDe(PropinasPagadas, VigentesDe(t))
IngresadoVigente(t) == SumaDe(Efectivos, VigentesDe(t))
EfectivoIngresado(t) == SumaDe(Efectivos, DelTurno(t))
EfectivoDevuelto(t) == SumaDe(Efectivos, {c \in Cuentas : cuentas[c].devueltaEn = t})

-----------------------------------------------------------------------------
\* Statements of each transaction after the first lock, in order.
PasosConMiTurnoAntes ==
    [COBRAR   |-> <<"mi_turno", "escribir">>,
     ANULAR   |-> <<"mi_turno", "turno_venta", "escribir">>,
     CORREGIR |-> <<"turno_venta", "escribir">>,
     CERRAR   |-> <<"abiertas", "por_metodo", "ingresado", "devuelto", "escribir">>]
Pasos ==
    [COBRAR   |-> <<"mi_turno", "escribir">>,
     ANULAR   |-> <<"turno_venta", "mi_turno", "escribir">>,
     CORREGIR |-> <<"turno_venta", "escribir">>,
     CERRAR   |-> <<"abiertas", "por_metodo", "ingresado", "devuelto", "escribir">>]

EnPaso(x, s) == tx[x].op # "NINGUNA" /\ Pasos[tx[x].op][tx[x].paso] = s

\* Whether x can lock the row f now: FOR SHARE goes along with FOR SHARE only.
PuedeTomar(x, f, modo) ==
    \A k \in candados : k.fila = f /\ k.tx # x => modo = "SHARE" /\ k.modo = "SHARE"

Tomar(x, f, modo) == candados \cup {[tx |-> x, fila |-> f, modo |-> modo]}

SinTomarVenta(x, f) == candados
\* The lock on the shift of the sale: FOR UPDATE.
TomarVenta(x, f) == Tomar(x, f, "UPDATE")

SinCompartir(x, f) == candados
\* The lock on one's own open shift: FOR SHARE.
Compartir(x, f) == Tomar(x, f, "SHARE")

Empezar(x, op, datos) == tx' = [tx EXCEPT ![x] = [datos EXCEPT !.op = op, !.paso = 1]]
Avanzar(x) == tx' = [tx EXCEPT ![x].paso = @ + 1]

\* COMMIT or ROLLBACK: the locks are released.
Terminar(x) ==
    /\ tx' = [tx EXCEPT ![x] = TxLibre]
    /\ candados' = {k \in candados : k.tx # x}

-----------------------------------------------------------------------------
Init ==
    /\ turnos = [t \in Turnos |-> SinTurno]
    /\ cuentas = [c \in Cuentas |-> SinCobrar]
    /\ pagos = [c \in Cuentas |-> SinPagos]
    /\ ingresos = [t \in Turnos |-> SinMontos]
    /\ ajuste = [t \in Turnos |-> [montos |-> SinMontos, efectivo |-> 0]]
    /\ tx = [x \in Conexiones |-> TxLibre]
    /\ candados = {}

\* abrirTurno: one INSERT; the partial unique index allows one open shift.
AbrirTurno(t, u, f) ==
    /\ turnos[t].estado = "LIBRE"
    /\ \A s \in Turnos : turnos[s].estado # "ABIERTO"
    /\ turnos' = [turnos EXCEPT ![t] = [estado |-> "ABIERTO", usuario |-> u, fondo |-> f,
                                        resumen |-> SinCorte]]
    /\ UNCHANGED <<cuentas, pagos, ingresos, ajuste, tx, candados>>

\* The account gets its first lines, or loses the last one: transactions of
\* CuentasPos, which lock the account too.
Ordenar(c) ==
    /\ cuentas[c].estado = "LIBRE"
    /\ cuentas' = [cuentas EXCEPT ![c].estado = "ABIERTA"]
    /\ UNCHANGED <<turnos, pagos, ingresos, ajuste, tx, candados>>

Vaciar(c) ==
    /\ cuentas[c].estado = "ABIERTA"
    /\ \A k \in candados : k.fila # c
    /\ cuentas' = [cuentas EXCEPT ![c].estado = "LIBRE"]
    /\ UNCHANGED <<turnos, pagos, ingresos, ajuste, tx, candados>>

-----------------------------------------------------------------------------
\* An error in the transaction, or its connection lost: ROLLBACK.
Abortar(x) ==
    /\ tx[x].op # "NINGUNA"
    /\ Terminar(x)
    /\ UNCHANGED filas

\* The first statement of cobrar, anular and corregirPago: the account, FOR UPDATE.
CobrarBloquear(x, u, c, p) ==
    /\ tx[x] = TxLibre
    /\ PuedeTomar(x, c, "UPDATE")
    /\ cuentas[c].estado = "ABIERTA"
    /\ Empezar(x, "COBRAR", [TxLibre EXCEPT !.usuario = u, !.cuenta = c, !.pagos = p])
    /\ candados' = Tomar(x, c, "UPDATE")
    /\ UNCHANGED filas

AnularBloquear(x, u, c) ==
    /\ tx[x] = TxLibre
    /\ Supervisores # {}
    /\ PuedeTomar(x, c, "UPDATE")
    /\ cuentas[c].estado = "PAGADA"
    /\ Empezar(x, "ANULAR", [TxLibre EXCEPT !.usuario = u, !.cuenta = c, !.turno = cuentas[c].turno])
    /\ candados' = Tomar(x, c, "UPDATE")
    /\ UNCHANGED filas

CorregirBloquear(x, c, p) ==
    /\ tx[x] = TxLibre
    /\ Supervisores # {}
    /\ PuedeTomar(x, c, "UPDATE")
    /\ cuentas[c].estado = "PAGADA"
    /\ pagos[c] # SinPagos
    /\ p # pagos[c]
    /\ Empezar(x, "CORREGIR", [TxLibre EXCEPT !.cuenta = c, !.turno = cuentas[c].turno, !.pagos = p])
    /\ candados' = Tomar(x, c, "UPDATE")
    /\ UNCHANGED filas

\* anular and corregirPago: the shift of the sale, and whether it was closed.
BloquearTurnoVenta(x) ==
    /\ EnPaso(x, "turno_venta")
    /\ PuedeTomar(x, tx[x].turno, "UPDATE")
    /\ candados' = TomarVenta(x, tx[x].turno)
    /\ tx' = [tx EXCEPT ![x].paso = @ + 1, ![x].cerrado = turnos[tx[x].turno].estado = "CERRADO"]
    /\ UNCHANGED filas

SinMiTurnoSigue(x) ==
    /\ tx' = [tx EXCEPT ![x].paso = @ + 1, ![x].mio = NULL]
    /\ UNCHANGED candados

\* cobrar and anular find no open shift of the user: only a refund without
\* cash goes on.
SinMiTurno(x) ==
    IF tx[x].op = "ANULAR" /\ pagos[tx[x].cuenta]["EFECTIVO"] = [monto |-> 0, propina |-> 0]
    THEN /\ tx' = [tx EXCEPT ![x].paso = @ + 1, ![x].mio = NULL]
         /\ UNCHANGED candados
    ELSE Terminar(x)

\* SELECT ... estado = 'ABIERTO' FOR SHARE: the row is found first ...
BuscarMiTurno(x) ==
    LET propios == {t \in Turnos : turnos[t].estado = "ABIERTO" /\ turnos[t].usuario = tx[x].usuario}
    IN
    /\ EnPaso(x, "mi_turno")
    /\ tx[x].mio = NULL
    /\ \/ propios = {} /\ SinMiTurno(x)
       \/ \E t \in propios : tx' = [tx EXCEPT ![x].mio = t] /\ UNCHANGED candados
    /\ UNCHANGED filas

\* ... then locked, waiting for who has it, and its state looked at again.
TomarMiTurno(x) ==
    /\ EnPaso(x, "mi_turno")
    /\ tx[x].mio # NULL
    /\ PuedeTomar(x, tx[x].mio, "SHARE")
    /\ IF turnos[tx[x].mio].estado = "ABIERTO"
       THEN candados' = Compartir(x, tx[x].mio) /\ Avanzar(x)
       ELSE SinMiTurno(x)
    /\ UNCHANGED filas

CobrarEscribir(x) ==
    LET c == tx[x].cuenta
    IN
    /\ tx[x].op = "COBRAR" /\ EnPaso(x, "escribir")
    /\ pagos' = [pagos EXCEPT ![c] = tx[x].pagos]
    /\ cuentas' = [cuentas EXCEPT ![c].estado = "PAGADA", ![c].turno = tx[x].mio]
    /\ Terminar(x)
    /\ UNCHANGED <<turnos, ingresos, ajuste>>

IngresosSinQuitar(t, delta) ==
    [m \in Metodos |-> IF delta[m] > 0 THEN ingresos[t][m] + delta[m] ELSE ingresos[t][m]]

\* The ingresos of a closed shift moved by `delta`: one that does not stay
\* above 0 is cancelled, one that was missing is created.
IngresosMovidos(t, delta) ==
    [m \in Metodos |-> LET queda == ingresos[t][m] + delta[m] IN IF queda <= 0 THEN 0 ELSE queda]

AnularEscribir(x) ==
    LET c == tx[x].cuenta
        t == tx[x].turno
    IN
    /\ tx[x].op = "ANULAR" /\ EnPaso(x, "escribir")
    /\ ingresos' = IF tx[x].cerrado
                   THEN [ingresos EXCEPT ![t] = IngresosMovidos(t, DeltaMontos(pagos[c], SinPagos))]
                   ELSE ingresos
    /\ cuentas' = [cuentas EXCEPT ![c].estado = "ANULADA", ![c].devueltaEn = tx[x].mio,
                                  ![c].trasCierre = tx[x].cerrado]
    /\ Terminar(x)
    /\ UNCHANGED <<turnos, pagos, ajuste>>

CorregirEscribir(x) ==
    LET c == tx[x].cuenta
        t == tx[x].turno
        d == DeltaMontos(pagos[c], tx[x].pagos)
    IN
    /\ tx[x].op = "CORREGIR" /\ EnPaso(x, "escribir")
    /\ pagos' = [pagos EXCEPT ![c] = tx[x].pagos]
    /\ IF tx[x].cerrado
       THEN /\ ingresos' = [ingresos EXCEPT ![t] = IngresosMovidos(t, d)]
            /\ ajuste' = [ajuste EXCEPT
                   ![t].montos = [m \in Metodos |-> @[m] + d[m]],
                   ![t].efectivo = @ + DeltaEfectivo(pagos[c], tx[x].pagos)]
       ELSE UNCHANGED <<ingresos, ajuste>>
    /\ Terminar(x)
    /\ UNCHANGED <<turnos, cuentas>>

-----------------------------------------------------------------------------
\* cerrar: the shift FOR UPDATE, one's own or by a supervisor.
CerrarBloquear(x, u, t, n) ==
    /\ tx[x] = TxLibre
    /\ PuedeTomar(x, t, "UPDATE")
    /\ turnos[t].estado = "ABIERTO"
    /\ turnos[t].usuario = u \/ u \in Supervisores
    /\ Empezar(x, "CERRAR", [TxLibre EXCEPT !.usuario = u, !.turno = t, !.entregadas = n])
    /\ candados' = Tomar(x, t, "UPDATE")
    /\ UNCHANGED filas

\* No open account may have something to charge for.
CerrarAbiertas(x) ==
    /\ EnPaso(x, "abiertas")
    /\ IF \E c \in Cuentas : cuentas[c].estado = "ABIERTA"
       THEN Terminar(x)
       ELSE Avanzar(x) /\ UNCHANGED candados
    /\ UNCHANGED filas

\* The three queries of the summary, each with what is committed by then.
CerrarPorMetodo(x) ==
    LET t == tx[x].turno
    IN
    /\ EnPaso(x, "por_metodo")
    /\ tx' = [tx EXCEPT ![x].paso = @ + 1,
                        ![x].corte = [montos |-> VendidoEn(t), propinas |-> PropinasDe(t),
                                      efectivo |-> turnos[t].fondo]]
    /\ UNCHANGED <<filas, candados>>

CerrarIngresado(x) ==
    /\ EnPaso(x, "ingresado")
    /\ tx' = [tx EXCEPT ![x].paso = @ + 1, ![x].corte.efectivo = @ + EfectivoIngresado(tx[x].turno)]
    /\ UNCHANGED <<filas, candados>>

CerrarDevuelto(x) ==
    /\ EnPaso(x, "devuelto")
    /\ tx' = [tx EXCEPT ![x].paso = @ + 1, ![x].corte.efectivo = @ - EfectivoDevuelto(tx[x].turno)]
    /\ UNCHANGED <<filas, candados>>

\* The tips handed out may not exceed the tips charged.
CerrarEscribir(x) ==
    LET t == tx[x].turno
        corte == [tx[x].corte EXCEPT !.efectivo = @ - tx[x].entregadas]
    IN
    /\ tx[x].op = "CERRAR" /\ EnPaso(x, "escribir")
    /\ tx[x].entregadas <= corte.propinas
    /\ turnos' = [turnos EXCEPT ![t].estado = "CERRADO", ![t].resumen = corte]
    /\ ingresos' = [ingresos EXCEPT ![t] = corte.montos]
    /\ Terminar(x)
    /\ UNCHANGED <<cuentas, pagos, ajuste>>

-----------------------------------------------------------------------------
Empieza(x) ==
    \/ \E c \in Cuentas, u \in Cajeros : \E p \in Cobros(c) : CobrarBloquear(x, u, c, p)
    \/ \E c \in Cuentas, u \in Cajeros : AnularBloquear(x, u, c)
    \/ \E c \in Cuentas : \E p \in Cobros(c) : CorregirBloquear(x, c, p)
    \/ \E t \in Turnos, u \in Cajeros, n \in Entregas : CerrarBloquear(x, u, t, n)

Sigue(x) ==
    \/ Abortar(x)
    \/ BloquearTurnoVenta(x)
    \/ BuscarMiTurno(x)
    \/ TomarMiTurno(x)
    \/ CobrarEscribir(x)
    \/ AnularEscribir(x)
    \/ CorregirEscribir(x)
    \/ CerrarAbiertas(x)
    \/ CerrarPorMetodo(x)
    \/ CerrarIngresado(x)
    \/ CerrarDevuelto(x)
    \/ CerrarEscribir(x)

Next ==
    \/ \E t \in Turnos, u \in Cajeros, f \in Fondos : AbrirTurno(t, u, f)
    \/ \E c \in Cuentas : Ordenar(c) \/ Vaciar(c)
    \/ \E x \in Conexiones : Empieza(x) \/ Sigue(x)

Spec == Init /\ [][Next]_vars

-----------------------------------------------------------------------------
Cobro == [Metodos -> [monto : Nat, propina : Propinas]]
Corte == [montos : [Metodos -> Nat], propinas : Nat, efectivo : Int]
FilaTurno == [estado : {"LIBRE", "ABIERTO", "CERRADO"}, usuario : Cajeros \cup {NULL},
              fondo : Fondos \cup {0}, resumen : Corte]
FilaCuenta == [estado : {"LIBRE", "ABIERTA", "PAGADA", "ANULADA"}, turno : Turnos \cup {NULL},
               devueltaEn : Turnos \cup {NULL}, trasCierre : BOOLEAN]
Transaccion == [op : {"NINGUNA"} \cup DOMAIN Pasos, paso : 0..5, usuario : Cajeros \cup {NULL},
                cuenta : Cuentas \cup {NULL}, turno : Turnos \cup {NULL},
                mio : Turnos \cup {NULL}, pagos : Cobro, cerrado : BOOLEAN,
                entregadas : Entregas, corte : Corte]
Candado == [tx : Conexiones, fila : Cuentas \cup Turnos, modo : {"SHARE", "UPDATE"}]

\* The rows, the transactions and the locks are well formed; an account has a
\* shift once it was charged.
TypeOK ==
    /\ turnos \in [Turnos -> FilaTurno]
    /\ cuentas \in [Cuentas -> FilaCuenta]
    /\ \A c \in Cuentas : cuentas[c].turno # NULL <=> cuentas[c].estado \in {"PAGADA", "ANULADA"}
    /\ pagos \in [Cuentas -> Cobro]
    /\ ingresos \in [Turnos -> [Metodos -> Nat]]
    /\ ajuste \in [Turnos -> [montos : [Metodos -> Int], efectivo : Int]]
    /\ tx \in [Conexiones -> Transaccion]
    /\ candados \subseteq Candado

\* What Finanzas has of a closed shift is what its sales still amount to,
\* method by method, after any corrections and cancellations, before and
\* after it closed, whatever ran at the same time.
IngresosCuadran ==
    \A t \in Turnos : turnos[t].estado = "CERRADO" => ingresos[t] = VendidoEn(t)

\* The summary of a closed shift plus the corrections made afterwards
\* (aplicarCorrecciones) is what the shift sold, counting the sales cancelled
\* once it was closed: those are shown apart and only Finanzas takes them off.
CorteExplicaIngresos ==
    \A t \in Turnos, m \in Metodos : turnos[t].estado = "CERRADO" =>
        turnos[t].resumen.montos[m] + ajuste[t].montos[m] =
            ingresos[t][m] + SumaDe(Montos(m), {c \in DelTurno(t) : cuentas[c].trasCierre})

\* No group of transactions waits for one another for ever: each that needs
\* a lock is waiting for one that can go on.
FilaQueEspera(x) ==
    IF EnPaso(x, "turno_venta") THEN tx[x].turno
    ELSE IF EnPaso(x, "mi_turno") THEN tx[x].mio
    ELSE NULL
Espera(x) ==
    {k.tx : k \in {l \in candados :
        /\ l.fila = FilaQueEspera(x) /\ l.tx # x
        /\ l.modo = "UPDATE" \/ EnPaso(x, "turno_venta")}}
SinAbrazoMortal ==
    \A S \in (SUBSET Conexiones) \ {{}} : \E x \in S : Espera(x) \cap S = {}

-----------------------------------------------------------------------------
\* The ledger this module implements.  The cash and the sales of a shift are
\* what a summary taken now would say, and, once it is closed, its frozen
\* summary with the later corrections, and what Finanzas has.
EnCajon(t) ==
    IF turnos[t].estado = "CERRADO"
    THEN turnos[t].resumen.efectivo + ajuste[t].efectivo
    ELSE turnos[t].fondo + EfectivoIngresado(t) - EfectivoDevuelto(t)

Vendido(t) == IF turnos[t].estado = "CERRADO" THEN ingresos[t] ELSE VendidoEn(t)

Venta(c) ==
    [estado |-> CASE cuentas[c].estado = "PAGADA" -> "COBRADA"
                  [] cuentas[c].estado = "ANULADA" -> "ANULADA"
                  [] OTHER -> "POR_COBRAR",
     turno |-> cuentas[c].turno, pagos |-> pagos[c]]

Libro == INSTANCE LibroCaja WITH
    caja <- [t \in Turnos |-> turnos[t].estado],
    cajon <- [t \in Turnos |-> EnCajon(t)],
    vendido <- [t \in Turnos |-> Vendido(t)],
    venta <- [c \in Cuentas |-> Venta(c)]

\* Every committed operation moves the ledger by exactly what it charged,
\* gave back or put right, also while another connection closes the shift.
ImplementaLibro == Libro!Spec
=============================================================================
