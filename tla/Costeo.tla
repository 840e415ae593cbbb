------------------------------- MODULE Costeo -------------------------------
(***************************************************************************)
(* The cost of products and recipes: src/utils/costeo.js and the           *)
(* operations that change a cost, in compra.repository.js (crear, anular), *)
(* productos.repository.js (updateProducto) and receta.repository.js.      *)
(*                                                                         *)
(* A recipe keeps a copy of the useful cost of each ingredient (snap) and  *)
(* its own cost (total).  A preparation is a recipe whose product, the     *)
(* elaborado, may be an ingredient of others: a change of cost runs down   *)
(* this graph.  The rows an UPDATE returns come in no order, so the order  *)
(* in which recipes are visited is a choice of each operation.             *)
(*                                                                         *)
(* Costs are whole numbers of the smallest unit.  Each operation is one    *)
(* transaction and runs alone here.                                        *)
(***************************************************************************)
EXTENDS Sequences, FiniteSetsExt, Sumas

CONSTANTS
    Insumos,        \* products that are bought
    Elaborados,     \* products that a preparation makes
    Recetas,
    Elaborado,      \* Elaborado[r]: what the preparation r makes, or SinElaborado
    SinElaborado,
    Escandallos,    \* Escandallos[r]: the ingredient lists r may be given
    Precios,        \* prices of a purchase or an edition
    Rendimientos,   \* units a preparation makes, as the user edits them
    Factores,       \* merma of a product: gross units per net unit
    Protecciones,   \* proteccion_pct of a recipe
    MaxCompras      \* bound: purchases in a behaviour

VARIABLES
    costo,          \* productos.costo_unitario
    factor,         \* productos.merma_pct, as a factor
    receta,         \* the rows of recetas
    detalle,        \* receta_detalle.cantidad, 0 where there is no row
    snap,           \* receta_detalle.costo_unitario
    compras,        \* the purchases received, in order
    editado,        \* products whose cost was edited by hand (history)
    enRombo         \* elaborados made in two ways from one product (history)

vars == <<costo, factor, receta, detalle, snap, compras, editado, enRombo>>

Productos == Insumos \cup Elaborados

Redondeo(n, d) == (2 * n + d) \div (2 * d)

\* The rows as a transaction sees them, with what it has written.  vistos are
\* the products its cascade already propagated (ctx.productos).
Tablas == [costo |-> costo, factor |-> factor, receta |-> receta,
           detalle |-> detalle, snap |-> snap, vistos |-> {}]

\* The products q is made of, itself and down to what is bought.
Base(t, q) ==
    LET hasta[n \in 0..Cardinality(Elaborados)] ==
            IF n = 0 THEN {q}
            ELSE LET de == hasta[n-1]
                 IN  de \cup {p \in Productos : \E r \in Recetas :
                                 t.receta[r].elaborado \in de /\ t.detalle[r][p] > 0}
    IN  hasta[Cardinality(Elaborados)]

\* Elaborados with two ingredients that share a product.
Rombos(t) ==
    {e \in Elaborados : \E r \in Recetas : \E p, q \in Productos :
        /\ t.receta[r].elaborado = e
        /\ p # q
        /\ t.detalle[r][p] > 0 /\ t.detalle[r][q] > 0
        /\ Base(t, p) \cap Base(t, q) # {}}

Guardar(t) ==
    /\ costo' = t.costo
    /\ factor' = t.factor
    /\ receta' = t.receta
    /\ detalle' = t.detalle
    /\ snap' = t.snap
    /\ enRombo' = IF t.detalle = detalle THEN enRombo ELSE enRombo \cup Rombos(t)

\* Cost of one net unit.
CostoUtil(t, p) == t.costo[p] * t.factor[p]

\* costo_total of r over the copies it holds.
CostoTotal(t, r) ==
    LET sumaInsumos == SumaDe([p \in Productos |-> t.detalle[r][p] * t.snap[r][p]], Productos)
    IN  Redondeo(sumaInsumos * (100 + t.receta[r].proteccion), 100)

\* A copy that is not the present useful cost.
Vieja(t, r, p) == t.detalle[r][p] > 0 /\ t.snap[r][p] # CostoUtil(t, p)

-----------------------------------------------------------------------------
(* The cascade: PropagarCostoInsumos and RecalcularCostoTotal call each    *)
(* other, depth first.  A stage of it is the tables so far and, for each   *)
(* call that has not ended, the recipes it has still to recalculate, the   *)
(* innermost call first.                                                   *)

\* The places in which the rows of the recipes there are may come.
Ordenes ==
    LET hay == {r \in Recetas : receta[r].estado = "existe"}
    IN  {orden \in [hay -> 1..Cardinality(hay)] : IsInjective(orden)}

Primera(orden, S) == CHOOSE r \in S : \A q \in S : orden[r] <= orden[q]

Apilar(S, pila) == IF S = {} THEN pila ELSE <<S>> \o pila

\* Refresh the copies that differ and leave to recalculate the recipes that
\* had one.
Refrescar(e, productos, orden) ==
    LET t       == e.tablas
        nuevos  == productos \ t.vistos
        tocadas == {r \in DOMAIN orden : \E p \in nuevos : Vieja(t, r, p)}
    IN  [tablas |-> [t EXCEPT
             !.vistos = @ \cup nuevos,
             !.snap = [r \in Recetas |-> [p \in Productos |->
                 IF p \in nuevos /\ Vieja(t, r, p) THEN CostoUtil(t, p) ELSE @[r][p]]]],
         pendientes |-> Apilar(tocadas, e.pendientes)]

\* The total of r and, of a preparation, the cost of its product.
Calculado(t, r) ==
    LET total == CostoTotal(t, r)
        u     == [t EXCEPT !.receta[r].total = total]
        q     == t.receta[r].elaborado
    IN  IF q = SinElaborado THEN u
        ELSE [u EXCEPT !.costo[q] = Redondeo(total, t.receta[r].rendimiento)]

\* Mutant: the cost of the product of a preparation is stored and goes no
\* further.
RecalcularSinPropagar(e, r, orden) == [e EXCEPT !.tablas = Calculado(@, r)]

\* One recipe is recalculated, and the product of a preparation propagated.
Recalcular(e, r, orden) ==
    LET q == e.tablas.receta[r].elaborado
        u == [e EXCEPT !.tablas = Calculado(@, r)]
    IN  IF q = SinElaborado THEN u ELSE Refrescar(u, {q}, orden)

\* The next recipe of the innermost call, until every call has ended.
Avanzar(e, orden) ==
    LET S == Head(e.pendientes)
        r == Primera(orden, S)
    IN  IF e.pendientes = <<>> THEN e
        ELSE Recalcular([e EXCEPT !.pendientes = Apilar(S \ {r}, Tail(@))], r, orden)

\* Recipes a cascade recalculates at most: each product is propagated once.
MaxPasos == Cardinality(Recetas) * (1 + Cardinality(Elaborados))

\* Stage by stage.
Cascada(inicio, orden) ==
    LET tras[n \in 0..MaxPasos] ==
            IF n = 0 THEN inicio ELSE Avanzar(tras[n-1], orden)
    IN  tras[MaxPasos].tablas

Parado(t) == [tablas |-> t, pendientes |-> <<>>]

PropagarCostoInsumos(t, productos, orden) ==
    Cascada(Refrescar(Parado(t), productos, orden), orden)

RecalcularCostoTotal(t, r, orden) == Cascada(Recalcular(Parado(t), r, orden), orden)

-----------------------------------------------------------------------------
SinReceta == [estado |-> "no", proteccion |-> 0, rendimiento |-> 1, total |-> 0,
              elaborado |-> SinElaborado]

SinLista == [p \in Productos |-> 0]

Init ==
    /\ costo = [p \in Productos |-> IF p \in Insumos THEN 1 ELSE 0]
    /\ factor = [p \in Productos |-> 1]
    /\ receta = [r \in Recetas |-> SinReceta]
    /\ detalle = [r \in Recetas |-> SinLista]
    /\ snap = detalle
    /\ compras = <<>>
    /\ editado = {}
    /\ enRombo = {}

\* compra.repository crear and confirmarRecepcion: the cost of each product
\* jumps to the price of this purchase.  precios is the function from
\* the products of its lines to their prices.
Comprar(precios, orden) ==
    /\ Len(compras) < MaxCompras
    /\ compras' = Append(compras, [precio |-> precios, anulada |-> FALSE])
    /\ Guardar(PropagarCostoInsumos(
           [Tablas EXCEPT !.costo = [p \in Productos |->
               IF p \in DOMAIN precios THEN precios[p] ELSE @[p]]],
           DOMAIN precios, orden))
    /\ editado' = editado \ DOMAIN precios

\* Mutant: cancelled purchases count too.
ReferenciasConAnuladas(c, p) == {k \in 1..Len(compras) : p \in DOMAIN compras[k].precio}

\* The purchases a cost may be taken from: those in force, and the one that
\* is being cancelled (Q.LAST_COMPRA_MOV).
Referencias(c, p) ==
    {k \in 1..Len(compras) :
        p \in DOMAIN compras[k].precio /\ (~compras[k].anulada \/ k = c)}

\* anular, on a received purchase.  The previous price comes back where this
\* purchase is the last one and there is another.
AnularCompra(c, orden) ==
    LET Otras(p)  == Referencias(c, p) \ {c}
        afectados == {p \in DOMAIN compras[c].precio :
                        Otras(p) # {} /\ Max(Referencias(c, p)) = c}
    IN  /\ ~compras[c].anulada
        /\ compras' = [compras EXCEPT ![c].anulada = TRUE]
        /\ Guardar(PropagarCostoInsumos(
               [Tablas EXCEPT !.costo = [p \in Productos |->
                   IF p \in afectados THEN compras[Max(Otras(p))].precio[p] ELSE @[p]]],
               afectados, orden))
        /\ UNCHANGED editado

\* updateProducto: a new cost or merma, for what is not elaborado.
EditarProducto(p, nuevo, f, orden) ==
    /\ <<nuevo, f>> # <<costo[p], factor[p]>>
    /\ Guardar(PropagarCostoInsumos(
           [Tablas EXCEPT !.costo[p] = nuevo, !.factor[p] = f], {p}, orden))
    /\ editado' = IF nuevo = costo[p] THEN editado ELSE editado \cup {p}
    /\ UNCHANGED compras

-----------------------------------------------------------------------------
\* Write the list of r with the costs of now.
EscribirEscandallo(t, r, lista) ==
    [t EXCEPT !.detalle[r] = lista,
              !.snap[r] = [p \in Productos |->
                              IF lista[p] > 0 THEN CostoUtil(t, p) ELSE 0]]

\* The products of a list exist: an elaborado does once its recipe was
\* created.
HayProductos(lista) ==
    \A p \in Elaborados : lista[p] > 0 =>
        \E r \in Recetas : Elaborado[r] = p /\ receta[r].estado # "no"

\* createConDetalle: header, list and total, then the product of a
\* preparation, that nothing uses yet, and the link to it.
CrearReceta(r, lista, prot, orden) ==
    LET t == RecalcularCostoTotal(
                 EscribirEscandallo([Tablas EXCEPT
                     !.receta[r] = [SinReceta EXCEPT !.estado = "existe", !.proteccion = prot]],
                     r, lista), r, orden)
    IN  /\ receta[r].estado = "no"
        /\ HayProductos(lista)
        /\ Guardar(IF Elaborado[r] = SinElaborado THEN t
                   ELSE [t EXCEPT !.costo[Elaborado[r]] = t.receta[r].total,
                                  !.receta[r].elaborado = Elaborado[r]])
        /\ UNCHANGED <<compras, editado>>

\* update of the header: proteccion and, of a preparation, rendimiento.
EditarEncabezado(r, prot, rend, orden) ==
    /\ receta[r].estado = "existe"
    /\ rend # receta[r].rendimiento => receta[r].elaborado # SinElaborado
    /\ Guardar(RecalcularCostoTotal(
           [Tablas EXCEPT !.receta[r].proteccion = prot, !.receta[r].rendimiento = rend],
           r, orden))
    /\ UNCHANGED <<compras, editado>>

\* update with a list (#reemplazarEscandallo): the product of r is not in it.
ReemplazarEscandallo(r, lista, orden) ==
    /\ receta[r].estado = "existe"
    /\ HayProductos(lista)
    /\ receta[r].elaborado # SinElaborado => lista[receta[r].elaborado] = 0
    /\ Guardar(RecalcularCostoTotal(EscribirEscandallo(Tablas, r, lista), r, orden))
    /\ UNCHANGED <<compras, editado>>

\* remove: the row and, in cascade, its list.  Its product stays.
BorrarReceta(r) ==
    /\ receta[r].estado = "existe"
    /\ Guardar([Tablas EXCEPT !.receta[r] = [SinReceta EXCEPT !.estado = "borrada"],
                              !.detalle[r] = SinLista, !.snap[r] = SinLista])
    /\ UNCHANGED <<compras, editado>>

Next ==
    \/ \E orden \in Ordenes :
           \/ \E ps \in (SUBSET Insumos) \ {{}} : \E precios \in [ps -> Precios] :
                  Comprar(precios, orden)
           \/ \E c \in 1..Len(compras) : AnularCompra(c, orden)
           \/ \E p \in Insumos, nuevo \in Precios, f \in Factores :
                  EditarProducto(p, nuevo, f, orden)
           \/ \E r \in Recetas, lista \in UNION {Escandallos[q] : q \in Recetas} :
                  /\ lista \in Escandallos[r]
                  /\ \/ \E prot \in Protecciones : CrearReceta(r, lista, prot, orden)
                     \/ ReemplazarEscandallo(r, lista, orden)
           \/ \E r \in Recetas, prot \in Protecciones, rend \in Rendimientos :
                  EditarEncabezado(r, prot, rend, orden)
    \/ \E r \in Recetas : BorrarReceta(r)

Spec == Init /\ [][Next]_vars

-----------------------------------------------------------------------------
\* After any operation every total is the formula over the copies, the product
\* of every preparation costs what its recipe says, and every copy is the
\* present useful cost of its product: no cascade stops short, whatever the
\* order in which it visits the recipes.  The one exception is the copy of a
\* product whose preparation reaches some product by two of its ingredients:
\* the cascade visits it once for each, and only the first visit goes on
\* (ctx.productos), with a cost that the second changes.
CopiaViejaSoloTrasRombo ==
    \A r \in Recetas : receta[r].estado = "existe" =>
        /\ \A p \in Productos : Vieja(Tablas, r, p) => p \in enRombo
        /\ receta[r].total = CostoTotal(Tablas, r)
        /\ receta[r].elaborado # SinElaborado =>
               costo[receta[r].elaborado] = Redondeo(receta[r].total, receta[r].rendimiento)

\* While a product has a purchase in force and nobody edited its cost after
\* the last one, its cost is the price of the last purchase in force,
\* whatever was cancelled, and in whatever order.
CostoDeLaUltimaCompra ==
    \A p \in Insumos \ editado :
        LET vigentes == {k \in 1..Len(compras) :
                            ~compras[k].anulada /\ p \in DOMAIN compras[k].precio}
        IN  vigentes # {} => costo[p] = compras[Max(vigentes)].precio[p]
=============================================================================
