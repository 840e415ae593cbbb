---------------------------- MODULE MCInventario ----------------------------
(* Instance of Inventario: two insumos (1 and 3) and a product prepared from *)
(* them (2), and the documents of each class that a restaurant has.          *)
EXTENDS Inventario, TLC

Linea(p, n) == [receta |-> "ninguna", producto |-> p, cantidad |-> n]
Platillo(n) == [receta |-> "platillo", producto |-> 0, cantidad |-> n]
Lote(n)     == [receta |-> "salsa", producto |-> 2, cantidad |-> n]

Simetria == Permutations(Conexiones)

MCClaseDe ==
    [compra |-> "compra", produccion |-> "produccion", conteo |-> "conteo", otroConteo |-> "conteo",
     venta |-> "venta", merma |-> "merma", ajuste |-> "manual"]

MCDocumentos == DOMAIN MCClaseDe

MCPeticiones ==
    [compra     |-> {<<Linea(3, 1), Linea(1, 1), Linea(1, 1)>>},
     produccion |-> {<<Lote(1), Linea(2, 2)>>, <<Lote(1), Linea(2, 0), Lote(1)>>},
     conteo     |-> {<<Linea(3, 0), Linea(1, 0)>>},
     otroConteo |-> {<<Linea(1, 0)>>},
     venta      |-> {<<Platillo(1), Linea(3, 1)>>, <<Platillo(2)>>},
     merma      |-> {<<Platillo(1)>>},
     ajuste     |-> {<<Linea(1, -1)>>}]

\* salsa takes one of 1 and one of 3; platillo takes one of the product 2.
MCEscandallo == [salsa |-> <<1, 0, 1>>, platillo |-> <<0, 1, 0>>]
MCPreps == <<[receta |-> "salsa", elaborado |-> 2, rendimiento |-> 1, detalle |-> <<1, 0, 1>>]>>
MCInicial == <<1, 1, 2>>
MCDesfase == <<1, 0, -1>>
MCFactor == <<1, 1, 1>>
=============================================================================
