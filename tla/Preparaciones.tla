---------------------------- MODULE Preparaciones ----------------------------
(***************************************************************************)
(* Preparations (sub-recipes): src/utils/preparaciones.js, with the merma  *)
(* of src/utils/costeo.js.                                                 *)
(*                                                                         *)
(* A sale that needs more of a prepared product than there is in stock is  *)
(* covered by producing what is missing, whose ingredients may be prepared *)
(* products too.  The code walks the list of preparations again and again  *)
(* until a pass adds nothing, and gives up after MaxDepth + 2 passes.      *)
(*                                                                         *)
(* A quantity is a whole number of the smallest unit (the code rounds to   *)
(* three decimals); a Map from products to quantities is a function, with  *)
(* 0 for what the Map does not hold.                                       *)
(***************************************************************************)
EXTENDS Sequences, Sumas

CONSTANTS
    Productos,      \* ids of the products
    Factor,         \* Factor[p]: gross units of p that give one net unit (merma)
    MaxDepth        \* maxDepth, 5 in the code

ASSUME ProductosAssumption == IsFiniteSet(Productos) /\ Productos \subseteq Nat
ASSUME FactorAssumption == Factor \in [Productos -> Nat \ {0}]
ASSUME MaxDepthAssumption == MaxDepth \in Nat

Nada == [p \in Productos |-> 0]

Mas(f, g) == [p \in Productos |-> f[p] + g[p]]
Menos(f) == [p \in Productos |-> -f[p]]

\* Net quantity of p to the gross quantity that leaves the stock.
NetoABruto(neto, p) == neto * Factor[p]

\* What there is: a negative stock counts as none.
Existe(n) == IF n > 0 THEN n ELSE 0

-----------------------------------------------------------------------------
(* The list of the preparations comes in the order of the rows of a query without ORDER BY.             *)

Preparacion(elaborados) ==
    [receta : STRING, elaborado : elaborados, rendimiento : Nat \ {0},
     detalle : [Productos -> Nat]]

Inicio(consumo) ==
    [consumo |-> consumo, producido |-> Nada,
     insumos |-> [p \in Productos |-> Nada], cambio |-> TRUE]

Faltante(s, stock, prep) ==
    s.consumo[prep.elaborado]
        - (Existe(stock[prep.elaborado]) + s.producido[prep.elaborado])

\* Cover what is missing of one preparation from its ingredients.
Cubrir(s, stock, prep) ==
    LET falta == Faltante(s, stock, prep)
        gasto == [p \in Productos |->
                    NetoABruto((falta * prep.detalle[p]) \div prep.rendimiento, p)]
    IN  IF falta <= 0 THEN s
        ELSE [consumo   |-> Mas(s.consumo, gasto),
              producido |-> [s.producido EXCEPT ![prep.elaborado] = @ + falta],
              insumos   |-> [s.insumos EXCEPT ![prep.elaborado] = Mas(@, gasto)],
              cambio    |-> TRUE]

\* One pass over the preparations.
Vuelta(s, stock, preps) ==
    LET hasta[i \in 0..Len(preps)] ==
            IF i = 0 THEN [s EXCEPT !.cambio = FALSE] ELSE Cubrir(hasta[i-1], stock, preps[i])
    IN  hasta[Len(preps)]

MaxVueltas == MaxDepth + 2

\* The passes, until one changes nothing or there have been MaxVueltas.  The
\* result still has cambio when the code answers 400.
ResolverPreparaciones(consumo, stock, preps) ==
    LET tras[n \in 0..MaxVueltas] ==
            IF n = 0 THEN Inicio(consumo)
            ELSE IF tras[n-1].cambio THEN Vuelta(tras[n-1], stock, preps)
            ELSE tras[n-1]
    IN  tras[MaxVueltas]

\* The movements PRODUCCION of the automatic productions, as one change of
\* stock: what was produced enters, its ingredients leave.
AutoProduccion(r) ==
    [p \in Productos |->
        r.producido[p] - SumaDe([e \in Productos |-> r.insumos[e][p]], Productos)]

-----------------------------------------------------------------------------
\* utils/consumo.js: the lines of an account to what they take of each
\* product.  A recipe takes its ingredients in gross, one level; a product
\* sold as it is takes itself.  Recipes without escandallo take nothing.
Toma(r, escandallo, p) ==
    IF r.receta # "ninguna" THEN NetoABruto(r.cantidad * escandallo[r.receta][p], p)
    ELSE IF r.producto = p THEN r.cantidad
    ELSE 0

ExplotarRenglones(renglones, escandallo) ==
    [p \in Productos |->
        SumaDe([i \in DOMAIN renglones |-> Toma(renglones[i], escandallo, p)], DOMAIN renglones)]
=============================================================================
