--------------------------- MODULE MCMigrarCatalogo ---------------------------
(* Instance of MigrarCatalogo for repeating it: two products to an empty     *)
(* destination, whose answers hold one; no request fails.                    *)
EXTENDS MigrarCatalogo

Vendido(n) ==
    [nombre |-> n, proveedor |-> "p", activo |-> TRUE, elaborado |-> FALSE, categoria |-> "c"]

DosProductos == <<Vendido("ajo"), Vendido("col")>>

Vacio == [provs |-> <<>>, cats |-> {}, prods |-> <<>>]
=============================================================================
