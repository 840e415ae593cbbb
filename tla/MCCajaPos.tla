------------------------------ MODULE MCCajaPos ------------------------------
(***************************************************************************)
(* Three instances of CajaPos in one system; each behaviour is of one of   *)
(* them, chosen at the start.  "cruces": three connections at the same     *)
(* time over two accounts, nothing but the amounts.  "dinero": one         *)
(* transaction at a time, with tips, mixed payments, an account on the     *)
(* house and a fund.  "propinas": one account, and tips handed out.        *)
(* The last two are instances of CajaPosProofs, which adds to CajaPos only *)
(* what is proved of it, so that CajaRunProofs can cite it of them.        *)
(***************************************************************************)
EXTENDS CajaPos, TLC

CONSTANTS c1, c2, d1, d2, y1

VARIABLE parte

\* The accounts of the last two parts are no shift and no NULL either.
ASSUME ParteAssumption == {d1, d2} \cap (Turnos \cup {NULL}) = {}

UnoCadaUna == [c \in {c1, c2} |-> 1]

\* The second account of "dinero" is on the house: nothing to pay.
Dinero == INSTANCE CajaPosProofs WITH
    Conexiones <- {y1}, Cuentas <- {d1, d2}, Cajeros <- Supervisores,
    Total <- [c \in {d1, d2} |-> IF c = d1 THEN 1 ELSE 0],
    Propinas <- {0, 1}, Entregas <- {0}, Fondos <- {1}

Repartido == INSTANCE CajaPosProofs WITH
    Conexiones <- {y1}, Cuentas <- {d1}, Cajeros <- Supervisores,
    Total <- [c \in {d1} |-> 1], Propinas <- {0, 1}, Entregas <- {0, 1}, Fondos <- {1}

\* All the accounts of "cruces" add up to the same.
Simetria == Permutations(Turnos) \cup Permutations(Conexiones) \cup Permutations(Cuentas)

InitCaja ==
    \/ parte = "cruces" /\ Init
    \/ parte = "dinero" /\ Dinero!Init
    \/ parte = "propinas" /\ Repartido!Init

NextCaja ==
    /\ \/ parte = "cruces" /\ Next
       \/ parte = "dinero" /\ Dinero!Next
       \/ parte = "propinas" /\ Repartido!Next
    /\ UNCHANGED parte

SpecCaja == InitCaja /\ [][NextCaja]_<<parte, vars>>

-----------------------------------------------------------------------------
(* The properties of CajaPos, in whichever part.                           *)

\* CajaPos!IngresosCuadran: Finanzas has what the sales of a closed shift amount to.
FinanzasCuadra ==
    /\ parte = "cruces" => IngresosCuadran
    /\ parte = "dinero" => Dinero!IngresosCuadran
    /\ parte = "propinas" => Repartido!IngresosCuadran
\* CajaPos!CorteExplicaIngresos, where there is money to tell apart.
ResumenExplica ==
    /\ parte = "dinero" => Dinero!CorteExplicaIngresos
    /\ parte = "propinas" => Repartido!CorteExplicaIngresos
\* CajaPos!SinAbrazoMortal, where there are transactions to wait for.
NadieSeEspera == parte = "cruces" => SinAbrazoMortal
\* CajaPos!ImplementaLibro: each step is one of the ledger or changes nothing
\* of it.
CajaEsLibro ==
    /\ parte = "cruces" => Libro!Init
    /\ parte = "dinero" => Dinero!Libro!Init
    /\ parte = "propinas" => Repartido!Libro!Init
    /\ [][/\ parte = "cruces" => UNCHANGED Libro!varsLibro \/ Libro!Next
          /\ parte = "dinero" => UNCHANGED Dinero!Libro!varsLibro \/ Dinero!Libro!Next
          /\ parte = "propinas" =>
                UNCHANGED Repartido!Libro!varsLibro \/ Repartido!Libro!Next]_filas
=============================================================================
