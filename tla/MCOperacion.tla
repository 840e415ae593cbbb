----------------------------- MODULE MCOperacion -----------------------------
(* Instance of Operacion: the stock of MCInventario, and a few rows of each  *)
(* of the other parts.                                                       *)
EXTENDS Operacion, MCInventario

\* Of three files the second one brings its own transaction.
TresArchivos == <<"001", "002", "003">>

\* Two groups that dispute three options, edited between three contents, a fourth that
\* asks for more than it offers and a fifth that names its only option twice.
CincoContenidos ==
    {[minimo |-> 0, maximo |-> 1, ofrece |-> [o \in {1} |-> 2], entradas |-> 1],
     [minimo |-> 1, maximo |-> 2, ofrece |-> <<3, 2>>, entradas |-> 2],
     [minimo |-> 1, maximo |-> 1, ofrece |-> [o \in {3} |-> 2], entradas |-> 1],
     [minimo |-> 0, maximo |-> 2, ofrece |-> [o \in {2} |-> 1], entradas |-> 1],
     [minimo |-> 2, maximo |-> 2, ofrece |-> [o \in {1} |-> 2], entradas |-> 2]}

\* An active product with its supplier there, one to be created with its
\* supplier, an inactive one and a prepared one; pages of one product.
Producto(n, v, activo, elaborado, c) ==
    [nombre |-> n, proveedor |-> v, activo |-> activo, elaborado |-> elaborado, categoria |-> c]

CuatroProductos ==
    <<Producto("ajo", "p", TRUE, FALSE, "c"), Producto("col", "q", TRUE, FALSE, "d"),
      Producto("pan", "p", FALSE, FALSE, "c"), Producto("sal", "q", TRUE, TRUE, "c")>>

UnProductoYa ==
    [provs |-> <<[nombre |-> "p", activo |-> TRUE]>>, cats |-> {"c"},
     prods |-> <<[nombre |-> "col", prov |-> 1, activo |-> TRUE]>>]
=============================================================================
