--------------------------- MODULE PlanProduccion ---------------------------
(***************************************************************************)
(* The production plan: produccion.repository.js (sugerencias, planificar) *)
(* and the order of the steps in utils/preparaciones.js.                   *)
(*                                                                         *)
(* A plan says, over the stock it read, what to buy and how many batches   *)
(* of each sub-recipe to make first.  Here somebody follows it to the      *)
(* letter, with nobody else moving the stock: buys what it says is         *)
(* missing, confirms each step in turn, then the production itself.  A     *)
(* confirmation takes whole batches and is refused when an ingredient      *)
(* falls short (Inventario has its transaction).  Only model-checked.      *)
(***************************************************************************)
EXTENDS Preparaciones, SequencesExt

CONSTANTS
    Preps,          \* the preparations: [elaborado, rendimiento, detalle]
    Existencias,    \* stock a product may have when the plan is asked for
    Minimos,        \* stock_minimo a prepared product may have
    MaxLotes        \* bound: batches of a plan

VARIABLES
    stock,
    paso,           \* what the person does next
    plan            \* the plan followed: the preparation and its batches, the steps left, what to buy
    
vars == <<stock, paso, plan>>

SinPlan == [pasos |-> <<>>]

Elaborados == {prep.elaborado : prep \in Preps}
De(e) == CHOOSE prep \in Preps : prep.elaborado = e

Techo(n, d) == -((-n) \div d)

\* Gross ingredients of n batches of a preparation.
Gasto(prep, n) == [p \in Productos |-> NetoABruto(prep.detalle[p] * n, p)]

-----------------------------------------------------------------------------
\* ordenarPorDependencia: depth first over the productions r decided, each
\* after those of its ingredients.  A visited one is not entered again.
RECURSIVE Visitar(_, _, _)
Visitar(r, v, e) ==
    LET deps == SetToSortSeq({p \in Elaborados : r.insumos[e][p] > 0 /\ r.producido[p] > 0}, <)
        w    == FoldLeft(LAMBDA a, p : Visitar(r, a, p), [v EXCEPT !.visto = @ \cup {e}], deps)
    IN  IF e \in v.visto THEN v ELSE [w EXCEPT !.salida = Append(@, e)]

\* Mutant: the steps in the order in which they were decided.
OrdenDeLlegada(r, orden) ==
    SelectSeq([i \in DOMAIN orden |-> orden[i].elaborado], LAMBDA e : r.producido[e] > 0)

Ordenar(r, orden) ==
    FoldLeft(LAMBDA v, e : Visitar(r, v, e), [visto |-> {}, salida |-> <<>>],
             OrdenDeLlegada(r, orden)).salida

\* One step: what is missing, and the batches that are asked for.
Paso(r, e) ==
    [prep |-> De(e), cantidad |-> r.producido[e],
     lotes |-> Max({1, Techo(r.producido[e], De(e).rendimiento)})]

\* calcularSugerencia: whole batches up to the minimum.
LotesSugeridos(prep, minimo) ==
    Max({1, Techo(minimo - stock[prep.elaborado], prep.rendimiento)})

-----------------------------------------------------------------------------
Init ==
    /\ stock \in [Productos -> Existencias]
    /\ paso = "pedir"
    /\ plan = SinPlan

\* planificar, for the batches sugerencias gives for a product under its
\* minimum.  A cascade that does not converge is a 400.
Planificar(prep, minimo) ==
    /\ paso = "pedir"
    /\ stock[prep.elaborado] < minimo
    /\ LotesSugeridos(prep, minimo) <= MaxLotes
    /\ \E orden \in SetToSeqs(Preps) :
          LET n == LotesSugeridos(prep, minimo)
              r == ResolverPreparaciones(Gasto(prep, n), stock, orden)
              s == Ordenar(r, orden)
          IN  /\ ~r.cambio
              /\ plan' = [prep |-> prep, lotes |-> n, minimo |-> minimo,
                          pasos |-> [i \in DOMAIN s |-> Paso(r, s[i])],
                          compra |-> [p \in Productos |->
                              IF p \in Elaborados THEN 0 ELSE Existe(r.consumo[p] - stock[p])],
                          negativos |-> {e \in Elaborados : stock[e] < 0},
                          redondea |-> \E i \in DOMAIN s :
                              Paso(r, s[i]).lotes * De(s[i]).rendimiento # r.producido[s[i]]]
    /\ paso' = "comprar"
    /\ UNCHANGED stock

\* The purchase of what the plan says is missing.
Comprar ==
    /\ paso = "comprar"
    /\ stock' = Mas(stock, plan.compra)
    /\ paso' = "producir"
    /\ UNCHANGED plan

\* confirmar of one recipe: all its ingredients, or nothing.
Alcanza(prep, n) == \A p \in Productos : Gasto(prep, n)[p] > 0 => stock[p] >= Gasto(prep, n)[p]
Producir(prep, n) ==
    stock' = [Mas(stock, Menos(Gasto(prep, n))) EXCEPT ![prep.elaborado] = @ + prep.rendimiento * n]

ConfirmarPaso ==
    /\ paso = "producir"
    /\ plan.pasos # <<>>
    /\ LET x == Head(plan.pasos)
       IN  IF Alcanza(x.prep, x.lotes)
           THEN /\ Producir(x.prep, x.lotes)
                /\ plan' = [plan EXCEPT !.pasos = Tail(@)]
                /\ paso' = "producir"
           ELSE paso' = "rechazado" /\ UNCHANGED <<stock, plan>>

ConfirmarFinal ==
    /\ paso = "producir"
    /\ plan.pasos = <<>>
    /\ IF Alcanza(plan.prep, plan.lotes)
       THEN Producir(plan.prep, plan.lotes) /\ paso' = "hecho"
       ELSE paso' = "rechazado" /\ UNCHANGED stock
    /\ UNCHANGED plan

Next ==
    \/ \E prep \in Preps, m \in Minimos : Planificar(prep, m)
    \/ Comprar
    \/ ConfirmarPaso
    \/ ConfirmarFinal

Spec == Init /\ [][Next]_vars

-----------------------------------------------------------------------------
\* Who buys what the plan says and confirms its steps in its order is never
\* refused for lack of an ingredient, and ends with the minimum that was asked
\* for; unless the batches of a step were rounded up (what the plan says to buy
\* counts them exact), or a prepared product was in the red (the plan counts it
\* as empty).
PlanAlcanza ==
    /\ paso = "rechazado" => plan.redondea \/ plan.negativos # {}
    /\ paso = "hecho" => stock[plan.prep.elaborado] >= plan.minimo
=============================================================================
