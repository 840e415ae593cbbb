------------------------------ MODULE Finanzas ------------------------------
(***************************************************************************)
(* The books of Finance and their summary (finanzas.repository.js and      *)
(* finanzas.logic.js), with the sales of the POS that reach them when a    *)
(* shift is closed.                                                        *)
(*                                                                         *)
(* Each query of the code is a transaction of its own.  A change of a row  *)
(* is two: one that reads the row and checks it, and the one that writes   *)
(* it.  The summary is fifteen queries sent at once to several             *)
(* connections, so they run in any order, each over what is committed when *)
(* it runs; the five with the amounts the summary is made of are here.      *)
(*                                                                         *)
(* One period, one empresa.  CajaPos has the details of the shift; here a  *)
(* charge, a cut and a refund are what they commit.  VAT, food cost and    *)
(* the grouping by category, method and day only divide these amounts up.  *)
(***************************************************************************)
EXTENDS Integers, FiniteSets, Sumas

CONSTANTS
    Registros,      \* ids of the rows of ingresos (by hand), gastos and compra
    TipoDe,         \* "INGRESO", "GASTO" or "COMPRA"
    Cuentas,        \* accounts of the POS
    Importe,        \* what each account adds up to
    Montos,         \* amounts a row may have, none of them 0
    MaxCambios,     \* bound: changes in flight at once
    MaxMovido       \* bound: money that moves while a summary is out

VARIABLES
    registros,      \* the rows: state and amount
    cambios,        \* changes that passed their check and are not written yet
    cuentas,        \* pos_cuentas: "ABIERTA", "PAGADA", "CORTADA" (paid, its shift closed) or "ANULADA"
    corte,          \* amount of the income rows the cuts inserted (pos_turno_id)
    pedido,         \* whether a summary was asked for
    resumen,        \* the answers of its queries that have run
    movido          \* money moved since it was asked for (history)

libro == <<registros, cambios, cuentas, corte>>
vars == <<libro, pedido, resumen, movido>>

Consultas == {"ingresos", "gastos", "compras", "posSinCorte", "posEsperado"}
Nada == [q \in {} |-> 0]

Montado == [r \in Registros |-> registros[r].monto]

\* The rows of one class that are not cancelled.
Vivos(tipo) == {r \in Registros : TipoDe[r] = tipo /\ registros[r].estado = "VIVO"}

En(S) == {c \in Cuentas : cuentas[c] \in S}

Abs(n) == IF n < 0 THEN -n ELSE n

\* A write that moves an amount; the queries of a summary that is out may run
\* before it or after it.
Mueve(n) ==
    /\ movido' = IF pedido THEN movido + Abs(n) ELSE 0
    /\ movido' <= MaxMovido
    /\ UNCHANGED <<pedido, resumen>>

-----------------------------------------------------------------------------
(* Rows entered by hand, and purchases.                                    *)

Init ==
    /\ registros = [r \in Registros |-> [estado |-> "NADA", monto |-> 0]]
    /\ cambios = {}
    /\ cuentas = [c \in Cuentas |-> "ABIERTA"]
    /\ corte = 0
    /\ pedido = FALSE
    /\ resumen = Nada
    /\ movido = 0

\* crearIngreso, crearGasto; for a purchase, what its transaction commits.
Crear(r, n) ==
    /\ registros[r].estado = "NADA"
    /\ registros' = [registros EXCEPT ![r] = [estado |-> "VIVO", monto |-> n]]
    /\ Mueve(n)
    /\ UNCHANGED <<cambios, cuentas, corte>>

\* A change by hand is a new amount, or a cancellation.
ANULAR == 0

\* Its first half: the row is there and not cancelled.  The rows of a cut are
\* refused.
Validar(r, cambio) ==
    /\ registros[r].estado = "VIVO"
    /\ TipoDe[r] # "COMPRA"
    /\ [fila |-> r, a |-> cambio] \notin cambios
    /\ Cardinality(cambios) < MaxCambios
    /\ cambios' = cambios \cup {[fila |-> r, a |-> cambio]}
    /\ UNCHANGED <<registros, cuentas, corte, pedido, resumen, movido>>

\* actualizarIngreso, actualizarGasto: the UPDATE does not ask again whether the
\* row was cancelled meanwhile.
Actualizar(x) ==
    /\ x \in cambios
    /\ x.a # ANULAR
    /\ cambios' = cambios \ {x}
    /\ registros' = [registros EXCEPT ![x.fila].monto = x.a]
    /\ Mueve(IF registros[x.fila].estado = "VIVO" THEN x.a - registros[x.fila].monto ELSE 0)
    /\ UNCHANGED <<cuentas, corte>>

\* anularIngreso, anularGasto: the UPDATE only takes a row that still lives;
\* otherwise it is a 409 and nothing changes.
Anular(x) ==
    /\ x \in cambios
    /\ x.a = ANULAR
    /\ cambios' = cambios \ {x}
    /\ registros' = [registros EXCEPT ![x.fila].estado = "ANULADO"]
    /\ Mueve(IF registros[x.fila].estado = "VIVO" THEN registros[x.fila].monto ELSE 0)
    /\ UNCHANGED <<cuentas, corte>>

\* anular of a purchase: one transaction, over the locked row.
AnularCompra(r) ==
    /\ TipoDe[r] = "COMPRA"
    /\ registros[r].estado = "VIVO"
    /\ registros' = [registros EXCEPT ![r].estado = "ANULADO"]
    /\ Mueve(registros[r].monto)
    /\ UNCHANGED <<cambios, cuentas, corte>>

-----------------------------------------------------------------------------
(* The POS.                                                                *)

Cobrar(c) ==
    /\ cuentas[c] = "ABIERTA"
    /\ cuentas' = [cuentas EXCEPT ![c] = "PAGADA"]
    /\ Mueve(Importe[c])
    /\ UNCHANGED <<registros, cambios, corte>>

\* cerrarTurno: what the accounts of the shift add up to becomes income.
Cortar ==
    /\ En({"PAGADA"}) # {}
    /\ cuentas' = [c \in Cuentas |-> IF cuentas[c] = "PAGADA" THEN "CORTADA" ELSE cuentas[c]]
    /\ corte' = corte + SumaDe(Importe, En({"PAGADA"}))
    /\ Mueve(SumaDe(Importe, En({"PAGADA"})))
    /\ UNCHANGED <<registros, cambios>>

\* anular of a paid account: after the cut it also takes its amount off the
\* income of its shift.
AnularCuenta(c) ==
    /\ cuentas[c] \in {"PAGADA", "CORTADA"}
    /\ cuentas' = [cuentas EXCEPT ![c] = "ANULADA"]
    /\ corte' = IF cuentas[c] = "CORTADA" THEN corte - Importe[c] ELSE corte
    /\ Mueve(Importe[c])
    /\ UNCHANGED <<registros, cambios>>

-----------------------------------------------------------------------------
(* The summary.                                                            *)

\* Mutant: the join with the shift loses its condition that it is open.
SinCorteDeTodoTurno == SumaDe(Importe, En({"PAGADA", "CORTADA"}))

\* Paid accounts of a shift still open.
SinCorte == SumaDe(Importe, En({"PAGADA"}))

Ingresos == SumaDe(Montado, Vivos("INGRESO")) + corte
Gastos == SumaDe(Montado, Vivos("GASTO"))
Compras == SumaDe(Montado, Vivos("COMPRA"))

Respuesta(q) ==
    CASE q = "ingresos"     -> Ingresos
      [] q = "gastos"       -> Gastos
      [] q = "compras"      -> Compras
      [] q = "posSinCorte"  -> SinCorte
      [] q = "posEsperado"  -> SumaDe(Importe, En({"PAGADA", "CORTADA"}))

Pedir ==
    /\ ~pedido
    /\ pedido' = TRUE
    /\ UNCHANGED <<libro, resumen, movido>>

\* One query of resumenRaw, over what is committed at that moment.
Consultar(q) ==
    /\ pedido
    /\ q \notin DOMAIN resumen
    /\ resumen' = [z \in DOMAIN resumen \cup {q} |-> IF z = q THEN Respuesta(q) ELSE resumen[z]]
    /\ UNCHANGED <<libro, pedido, movido>>

Completo == DOMAIN resumen = Consultas

\* armarResumen, and the answer is sent.
Flujo(r) == r["ingresos"] - (r["compras"] + r["gastos"])
Ventas(r) == r["ingresos"] + r["posSinCorte"]

Entregar ==
    /\ Completo
    /\ pedido' = FALSE
    /\ resumen' = Nada
    /\ movido' = 0
    /\ UNCHANGED libro

-----------------------------------------------------------------------------
Next ==
    \/ \E r \in Registros, n \in Montos : Crear(r, n)
    \/ \E r \in Registros, a \in Montos \cup {ANULAR} : Validar(r, a)
    \/ \E x \in cambios : Actualizar(x) \/ Anular(x)
    \/ \E r \in Registros : AnularCompra(r)
    \/ \E c \in Cuentas : Cobrar(c) \/ AnularCuenta(c)
    \/ Cortar
    \/ Pedir
    \/ \E q \in Consultas : Consultar(q)
    \/ Entregar

Spec == Init /\ [][Next]_vars

-----------------------------------------------------------------------------
\* What the books say: each living row of the union (LIBRO_UNION) once, the
\* purchases and expenses negative.
ConSigno == [r \in Registros |-> IF TipoDe[r] = "INGRESO" THEN registros[r].monto
                                 ELSE -registros[r].monto]

FlujoDelLibro ==
    SumaDe(ConSigno, {r \in Registros : registros[r].estado = "VIVO"}) + corte

\* What was sold: the income by hand, and each account paid and not refunded
\* once, wherever its shift is.
Vendido == SumaDe(Montado, Vivos("INGRESO")) + SumaDe(Importe, En({"PAGADA", "CORTADA"}))

\* A finished summary is off by no more than the money that moved while its
\* queries ran; if none moved, its cash flow is that of the books, its sales
\* count every paid account exactly once (as income of a cut or as a sale
\* without a cut, never both or none), and what the POS expected agrees with
\* them.
ResumenCuadra ==
    Completo =>
        /\ Abs(Flujo(resumen) - FlujoDelLibro) <= movido
        /\ Abs(Ventas(resumen) - Vendido) <= movido
        /\ Abs(Ventas(resumen) - resumen["posEsperado"] - Ingresos + corte) <= movido
=============================================================================
