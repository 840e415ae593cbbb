------------------------------ MODULE Cascadas ------------------------------
(***************************************************************************)
(* The cascades of costs of module Costeo when several run at once: the    *)
(* transactions of compra.repository.js (crear, confirmarRecepcion,        *)
(* anular) and productos.repository.js (updateProducto), statement by      *)
(* statement, each with the cascade of src/utils/costeo.js in it.          *)
(*                                                                         *)
(* PostgreSQL at READ COMMITTED: a statement sees what is committed and    *)
(* what its own transaction wrote; a written or locked row is held to the  *)
(* end of the transaction, and a statement that wants it waits.  Lists and *)
(* recipes do not change, production cost and protection are 0, a          *)
(* preparation yields one unit, and there is no merma.                     *)
(***************************************************************************)
EXTENDS Integers, Sequences, FiniteSets, FiniteSetsExt, SequencesExt

CONSTANTS
    Conexiones,     \* each runs one transaction at a time
    Insumos,        \* products that are bought, in order of id
    Recetas,
    Elaborado,      \* Elaborado[r]: the product r makes, or SinElaborado
    SinElaborado,
    Lista,          \* Lista[r]: the products r is made of, one unit of each
    Precios

VARIABLES
    costo,          \* productos.costo_unitario, committed
    copia,          \* receta_detalle.costo_unitario, committed
    total,          \* recetas.costo_total, committed
    tx              \* the transaction of each connection

vars == <<costo, copia, total, tx>>

Elaborados == {Elaborado[r] : r \in Recetas} \ {SinElaborado}
Productos == Insumos \cup Elaborados
Renglones == {k \in Recetas \X Productos : k[2] \in Lista[k[1]]}

\* No transaction.  Of one: the statements it still has to run, the rows it
\* holds, what it wrote, and the products its cascade propagated.
SinTx == [activa |-> FALSE, edita |-> FALSE, pila |-> <<>>, filas |-> {},
          costo |-> <<>>, copia |-> <<>>, total |-> <<>>, vistos |-> {}]

\* What the transaction of x sees.
Costo(x) == tx[x].costo @@ costo
Copia(x) == tx[x].copia @@ copia

-----------------------------------------------------------------------------
(* Rows and who waits for whom.                                            *)

ConFila == {"inventario", "productos", "recetas"}

\* The row the next statement of x takes.
Pide(x) ==
    IF tx[x].pila = <<>> \/ tx[x].pila[1][1] \notin ConFila THEN {}
    ELSE {<<tx[x].pila[1][1], tx[x].pila[1][2]>>}

Espera(x) == {y \in Conexiones \ {x} : Pide(x) \cap tx[y].filas # {}}

-----------------------------------------------------------------------------
(* The operations, as the statements they will run.                        *)

Renglon(p) == <<"inventario", p, 0>>

Costear(p, precio) == <<"productos", p, precio>>

\* Mutant: the lines in the order in which they came.
SinOrdenar(ps) == SetToSeqs(ps)

\* Lines in order of producto_id.
EnOrden(ps) ==
    {lineas \in SetToSeqs(ps) : \A i, j \in DOMAIN lineas : i < j => lineas[i] < lineas[j]}

\* crear and confirmarRecepcion: line by line, the row of inventario and then
\* the cost of the product.
SentenciasDeCompra(lineas, precio) ==
    [k \in 1..2 * Len(lineas) |->
        LET p == lineas[(k + 1) \div 2]
        IN  IF k % 2 = 1 THEN Renglon(p) ELSE Costear(p, precio)]

\* anular: every row of inventario, then the costs that come back.
SentenciasDeAnulacion(lineas, precio) ==
    [k \in 1..Len(lineas) |-> Renglon(lineas[k])]
        \o [k \in 1..Len(lineas) |-> Costear(lineas[k], precio)]

\* Any of them ends with the cascade.
Empezar(x, edita, sentencias, ps) ==
    /\ ~tx[x].activa
    /\ tx' = [tx EXCEPT ![x] = [SinTx EXCEPT !.activa = TRUE, !.edita = edita,
                                    !.pila = sentencias \o <<<<"copias", ps, 0>>>>]]
    /\ UNCHANGED <<costo, copia, total>>

Comprar(x, ps, precio) ==
    \E lineas \in EnOrden(ps) : Empezar(x, FALSE, SentenciasDeCompra(lineas, precio), ps)

AnularCompra(x, ps, precio) ==
    \E lineas \in EnOrden(ps) : Empezar(x, FALSE, SentenciasDeAnulacion(lineas, precio), ps)

\* updateProducto writes the product before its row of inventario.
EditarProducto(x, p, precio) ==
    Empezar(x, TRUE, <<Costear(p, precio), Renglon(p)>>, {p})

-----------------------------------------------------------------------------
(* Statements.                                                             *)

Sentencia(x, que) ==
    /\ tx[x].pila # <<>>
    /\ tx[x].pila[1][1] = que
    /\ Espera(x) = {}
    /\ UNCHANGED <<costo, copia, total>>

\* The transaction of x, with this statement done and these to do next.
Hecha(x, siguientes) ==
    [tx[x] EXCEPT !.pila = siguientes \o Tail(@), !.filas = @ \cup Pide(x)]

TomarInventario(x) ==
    /\ Sentencia(x, "inventario")
    /\ tx' = [tx EXCEPT ![x] = Hecha(x, <<>>)]

EscribirCosto(x) ==
    /\ Sentencia(x, "productos")
    /\ tx' = [tx EXCEPT ![x] = [Hecha(x, <<>>) EXCEPT
                  !.costo = (tx[x].pila[1][2] :> tx[x].pila[1][3]) @@ @]]

\* propagarCostoInsumos: refresh the copies that differ; their recipes are
\* recalculated in the order in which the rows came.
RefrescarCopias(x) ==
    /\ Sentencia(x, "copias")
    /\ LET nuevos == tx[x].pila[1][2] \ tx[x].vistos
           viejas == {k \in Renglones : k[2] \in nuevos /\ Copia(x)[k] # Costo(x)[k[2]]}
       IN  \E orden \in SetToSeqs({k[1] : k \in viejas}) :
               tx' = [tx EXCEPT ![x] =
                   [Hecha(x, [k \in 1..Len(orden) |-> <<"sumar", orden[k], 0>>]) EXCEPT
                       !.vistos = @ \cup nuevos,
                       !.copia = [k \in viejas |-> Costo(x)[k[2]]] @@ @]]

\* recalcularCostoTotal reads the sum ...
SumarInsumos(x) ==
    /\ Sentencia(x, "sumar")
    /\ LET r == tx[x].pila[1][2]
       IN  tx' = [tx EXCEPT ![x] = Hecha(x, <<<<"recetas", r,
                      MapThenSumSet(LAMBDA p : Copia(x)[<<r, p>>], Lista[r])>>>>)]

\* Mutant: the product of the preparation gets its cost and nothing follows.
EscribirTotalSinCascada(x) ==
    /\ Sentencia(x, "recetas")
    /\ LET r    == tx[x].pila[1][2]
           suma == tx[x].pila[1][3]
           e    == Elaborado[r]
       IN  tx' = [tx EXCEPT ![x] =
               [Hecha(x, IF e = SinElaborado THEN <<>> ELSE <<Costear(e, suma)>>) EXCEPT
                   !.total = (r :> suma) @@ @]]

\* ... then writes it, and of a preparation the cost of its product.
EscribirTotal(x) ==
    /\ Sentencia(x, "recetas")
    /\ LET r    == tx[x].pila[1][2]
           suma == tx[x].pila[1][3]
           e    == Elaborado[r]
       IN  tx' = [tx EXCEPT ![x] =
               [Hecha(x, IF e = SinElaborado THEN <<>>
                         ELSE <<Costear(e, suma), <<"copias", {e}, 0>>>>) EXCEPT
                   !.total = (r :> suma) @@ @]]

\* COMMIT.
Confirmar(x) ==
    /\ tx[x].activa
    /\ tx[x].pila = <<>>
    /\ costo' = Costo(x)
    /\ copia' = Copia(x)
    /\ total' = tx[x].total @@ total
    /\ tx' = [tx EXCEPT ![x] = SinTx]

\* An error of any statement, a deadlock that PostgreSQL breaks, a lost
\* connection: ROLLBACK.
Abortar(x) ==
    /\ tx[x].activa
    /\ tx' = [tx EXCEPT ![x] = SinTx]
    /\ UNCHANGED <<costo, copia, total>>

-----------------------------------------------------------------------------
Init ==
    /\ costo = [p \in Productos |-> 0]
    /\ copia = [k \in Renglones |-> 0]
    /\ total = [r \in Recetas |-> 0]
    /\ tx = [x \in Conexiones |-> SinTx]

Next ==
    \E x \in Conexiones :
        \/ \E ps \in (SUBSET Insumos) \ {{}}, precio \in Precios :
               \/ Comprar(x, ps, precio)
               \/ AnularCompra(x, ps, precio)
        \/ \E p \in Insumos, precio \in Precios : EditarProducto(x, p, precio)
        \/ TomarInventario(x)
        \/ EscribirCosto(x)
        \/ RefrescarCopias(x)
        \/ SumarInsumos(x)
        \/ EscribirTotal(x)
        \/ Confirmar(x)
        \/ Abortar(x)

Spec == Init /\ [][Next]_vars

-----------------------------------------------------------------------------
\* What is committed agrees along every edge, however the cascades cross: each
\* copy is the cost of its product, and the product of a preparation costs
\* what its recipe says.
CopiasAlDia ==
    /\ \A k \in Renglones : copia[k] = costo[k[2]]
    /\ \A r \in Recetas : Elaborado[r] # SinElaborado => costo[Elaborado[r]] = total[r]

(* What the order of the lines is for, and how far it goes: transactions    *)
(* that wait for each other in a circle have the edition of a product among *)
(* them, or some have reached their cascades and those are in a circle of   *)
(* their own: the lines of purchases never close one.                       *)
LasLineasNoSeTraban ==
    \A circulo \in (SUBSET Conexiones) \ {{}} :
        (\A x \in circulo : Espera(x) \cap circulo # {}) =>
            \/ \E x \in circulo : tx[x].edita
            \/ LET enCascada == {x \in circulo : tx[x].vistos # {}}
               IN  /\ enCascada # {}
                   /\ \A x \in enCascada : Espera(x) \cap enCascada # {}

\* docs/API.md:287: when a cost changes the copies are refreshed and the total
\* of the recipes that use it is recalculated.  Two transactions that each sum
\* before the other commits do not see each other's copies, and the total that
\* is written last counts only one of the two new costs.
TotalDeSusCopias ==
    \A r \in Recetas :
        total[r] = MapThenSumSet(LAMBDA p : copia[<<r, p>>], Lista[r])
=============================================================================
