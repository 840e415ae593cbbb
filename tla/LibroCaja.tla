------------------------------ MODULE LibroCaja ------------------------------
(***************************************************************************)
(* What the cash registers promise about the money, without transactions,  *)
(* locks or recomputed totals: a ledger that every operation keeps up to   *)
(* date.  For each shift it has the cash that must be in its drawer and    *)
(* what was sold with each method; a sale enters an open shift only, cash  *)
(* is given back from an open drawer only, and closing a shift changes     *)
(* nothing of what it sold.  CajaPos, which computes both totals when the  *)
(* shift closes and patches them afterwards, implements this module.       *)
(***************************************************************************)
EXTENDS Integers

CONSTANTS Turnos, Cuentas, Metodos, Fondos, Entregas, NULL,
    Cobros(_)       \* ways of paying an account: for each method an amount and a tip

VARIABLES
    caja,           \* state of each shift
    cajon,          \* cash that must be in the drawer of each shift
    vendido,        \* sold in each shift with each method, refunds taken off
    venta           \* the sale of each account, with the shift it belongs to

varsLibro == <<caja, cajon, vendido, venta>>

Nada == [m \in Metodos |-> [monto |-> 0, propina |-> 0]]
PorCobrar == [estado |-> "POR_COBRAR", turno |-> NULL, pagos |-> Nada]

EnEfectivo(p) == p["EFECTIVO"].monto + p["EFECTIVO"].propina

Init ==
    /\ caja = [t \in Turnos |-> "LIBRE"]
    /\ cajon = [t \in Turnos |-> 0]
    /\ vendido = [t \in Turnos |-> [m \in Metodos |-> 0]]
    /\ venta = [c \in Cuentas |-> PorCobrar]

Abrir(t, f) ==
    /\ caja[t] = "LIBRE"
    /\ \A x \in Turnos : caja[x] # "ABIERTO"
    /\ caja' = [caja EXCEPT ![t] = "ABIERTO"]
    /\ cajon' = [cajon EXCEPT ![t] = f]
    /\ UNCHANGED <<vendido, venta>>

Cobrar(c, t, p) ==
    /\ venta[c] = PorCobrar
    /\ caja[t] = "ABIERTO"
    /\ venta' = [venta EXCEPT ![c] = [estado |-> "COBRADA", turno |-> t, pagos |-> p]]
    /\ vendido' = [vendido EXCEPT ![t] = [m \in Metodos |-> @[m] + p[m].monto]]
    /\ cajon' = [cajon EXCEPT ![t] = @ + EnEfectivo(p)]
    /\ UNCHANGED caja

\* The way an account was paid is put right: in the shift it was charged in.
Corregir(c, p) ==
    LET t == venta[c].turno
        antes == venta[c].pagos
    IN
    /\ venta[c].estado = "COBRADA"
    /\ venta' = [venta EXCEPT ![c].pagos = p]
    /\ vendido' = [vendido EXCEPT ![t] = [m \in Metodos |-> @[m] + p[m].monto - antes[m].monto]]
    /\ cajon' = [cajon EXCEPT ![t] = @ + EnEfectivo(p) - EnEfectivo(antes)]
    /\ UNCHANGED caja

\* A refund: the sale leaves its shift, the cash leaves the open drawer d.
Anular(c, d) ==
    LET t == venta[c].turno
        p == venta[c].pagos
    IN
    /\ venta[c].estado = "COBRADA"
    /\ IF d = NULL THEN EnEfectivo(p) = 0 ELSE caja[d] = "ABIERTO"
    /\ venta' = [venta EXCEPT ![c].estado = "ANULADA"]
    /\ vendido' = [vendido EXCEPT ![t] = [m \in Metodos |-> @[m] - p[m].monto]]
    /\ cajon' = [x \in Turnos |-> IF x = d THEN cajon[x] - EnEfectivo(p) ELSE cajon[x]]
    /\ UNCHANGED caja

\* Closing: the tips handed out (n) leave the drawer.
Cerrar(t, n) ==
    /\ caja[t] = "ABIERTO"
    /\ caja' = [caja EXCEPT ![t] = "CERRADO"]
    /\ cajon' = [cajon EXCEPT ![t] = @ - n]
    /\ UNCHANGED <<vendido, venta>>

Next ==
    \/ \E t \in Turnos, f \in Fondos : Abrir(t, f)
    \/ \E c \in Cuentas : \E p \in Cobros(c) :
          \/ \E t \in Turnos : Cobrar(c, t, p)
          \/ Corregir(c, p)
    \/ \E c \in Cuentas, d \in Turnos \cup {NULL} : Anular(c, d)
    \/ \E t \in Turnos, n \in Entregas : Cerrar(t, n)

Spec == Init /\ [][Next]_varsLibro
=============================================================================
