---------------------------- MODULE MCServicios ----------------------------
(***************************************************************************)
(* A small instance of Servicios: two requests or connections at once.     *)
(* One more part is added to it here, which is only model-checked because  *)
(* it computes with a recursive operator: the plan of a production         *)
(* (PlanProduccion).                                                       *)
(***************************************************************************)
EXTENDS Servicios, TLC

CONSTANTS a, e1, e2, p1, p2, d, g1, k1

\* Two petitions with one body and a third with another, with the same key.
CuerpoDe == p1 :> 1 @@ p2 :> 1 @@ d :> 2

\* An income entered by hand would be one row more like the expense.
TipoDeCada == g1 :> "GASTO" @@ k1 :> "COMPRA"
ImporteDeCada == p1 :> 1

\* Costeo: two preparations, the second over the first, and a dish over both.
Tabla(f) == [p \in {a, e1, e2} |-> IF p \in DOMAIN f THEN f[p] ELSE 0]
QueProduce == p1 :> e1 @@ p2 :> e2 @@ d :> Ninguno
EscandallosDe == p1 :> {Tabla(a :> 1)} @@ p2 :> {Tabla(a :> 1 @@ e1 :> 1)}
                     @@ d :> {Tabla(e1 :> 1 @@ e2 :> 1)}

\* Cascadas: 3 is made of 1 and 2, and a dish of 2 and 3.
QueElabora == p1 :> 3 @@ d :> Ninguno
ListaDeCada == p1 :> {1, 2} @@ d :> {2, 3}

-----------------------------------------------------------------------------
VARIABLES
    hayPlan,        \* the behaviour exercises the plan, and Servicios stays as it began
    stock, paso, plan

\* 1 is bought; 2 is made of 1, 3 of 1 and 2, 4 of 2 and 3.
Pl == INSTANCE PlanProduccion WITH
    Productos <- 1..4, Factor <- <<2, 1, 1, 1>>, MaxDepth <- 3,
    Preps <- {[elaborado |-> 2, rendimiento |-> 2, detalle |-> <<2, 0, 0, 0>>],
              [elaborado |-> 3, rendimiento |-> 1, detalle |-> <<1, 1, 0, 0>>],
              [elaborado |-> 4, rendimiento |-> 1, detalle |-> <<0, 1, 1, 0>>]},
    Existencias <- {-1, 0, 1}, Minimos <- {1, 2}, MaxLotes <- 2

dePlan == <<stock, paso, plan>>

\* The plan that is not exercised starts with empty shelves.
InitTodo ==
    /\ hayPlan \in BOOLEAN
    /\ InitServicios /\ Pl!Init
    /\ IF hayPlan THEN parte = "idempotencia" ELSE \A p \in 1..4 : stock[p] = 0

NextTodo ==
    /\ IF hayPlan THEN Pl!Next /\ UNCHANGED todas ELSE NextServicios /\ UNCHANGED dePlan
    /\ UNCHANGED hayPlan

\* Its behaviours are behaviours of SpecServicios.
SpecTodo == InitTodo /\ [][NextTodo]_<<hayPlan, dePlan, todas>>

\* The behaviours of the cascades alone.
SpecCascadas == InitTodo /\ parte = "cascadas" /\ [][NextTodo]_<<hayPlan, dePlan, todas>>

\* PlanProduccion: a plan that is followed is enough.
PlanAlcanza == Pl!PlanAlcanza
=============================================================================
