------------------------------ MODULE Catalogo ------------------------------
(***************************************************************************)
(* The catalogues products refer to: categories, by their name             *)
(* (categoria.repository.js), and suppliers, by a foreign key              *)
(* (proveedor.repository.js); and the writes of productos.repository.js    *)
(* that refer to them.  A recipe has a category too, and a purchase and an *)
(* expense have a supplier, checked the same way: a product stands for     *)
(* them all.                                                               *)
(*                                                                         *)
(* A request reads and checks in statements of its own and writes later.   *)
(* The trigger of migration 028 looks the category up in the statement     *)
(* that writes the product; a foreign key also keeps the supplier from     *)
(* being deleted until that write commits.  A rename, a reassignment and a *)
(* merge are one transaction each, whose statements see what is committed  *)
(* and wait for the rows another transaction has written.                  *)
(*                                                                         *)
(* Names are told apart as lower(nombre) does.                             *)
(***************************************************************************)
EXTENDS FiniteSets, Functions

CONSTANTS
    Conexiones,     \* requests that may be served at once
    Categorias,     \* ids of categorias
    Nombres,        \* names a category may have
    Productos,      \* ids of productos
    Proveedores,    \* ids of proveedores
    Nada

VARIABLES
    categorias,     \* name of each row, Nada if there is no row
    productos,      \* category and supplier of each committed row, or Nada
    proveedores,    \* "ACTIVO", "INACTIVO" or "BORRADO"
    tx              \* what each request has read, or Nada

vars == <<categorias, productos, proveedores, tx>>

Listadas == Range(categorias) \ {Nada}
Guardados == {p \in Productos : productos[p] # Nada}
DeCategoria(n) == {p \in Guardados : productos[p].categoria = n}
DeProveedor(v) == {p \in Guardados : productos[p].proveedor = v}

\* Requests at a step of an operation.
En(paso) == {x \in Conexiones : tx[x] # Nada /\ tx[x].paso = paso}

\* Products with a row another transaction wrote and has not committed.
Bloqueados == {tx[x].producto : x \in En("escrito")}

Libre(x) == tx[x] = Nada
Seguir(x, r) == tx' = [tx EXCEPT ![x] = r]
Terminar(x) == Seguir(x, Nada)

Init ==
    /\ categorias = [k \in Categorias |-> Nada]
    /\ productos = [p \in Productos |-> Nada]
    /\ proveedores = [v \in Proveedores |-> "ACTIVO"]
    /\ tx = [x \in Conexiones |-> Nada]

-----------------------------------------------------------------------------
(* Categories.                                                             *)

\* create: the unique index stands behind the check.
Crear(k, n) ==
    /\ categorias[k] = Nada
    /\ n \notin Listadas
    /\ categorias' = [categorias EXCEPT ![k] = n]
    /\ UNCHANGED <<productos, proveedores, tx>>

\* The name runs down to the products that bear it.
Renombrados(S, n) == [p \in Productos |->
    IF p \in S THEN [productos[p] EXCEPT !.categoria = n] ELSE productos[p]]

\* update, with its cascade.
Renombrar(k, n) ==
    /\ categorias[k] # Nada
    /\ n \notin Listadas
    /\ DeCategoria(categorias[k]) \cap Bloqueados = {}
    /\ categorias' = [categorias EXCEPT ![k] = n]
    /\ productos' = Renombrados(DeCategoria(categorias[k]), n)
    /\ UNCHANGED <<proveedores, tx>>

\* remove: reads the category, and the one its products are to go to.
LeerBaja(x, k) ==
    /\ Libre(x)
    /\ categorias[k] # Nada
    /\ \E d \in Categorias :
          /\ categorias[d] # Nada
          /\ Seguir(x, [paso |-> IF d = k THEN "cuenta" ELSE "reasigna", id |-> k,
                        nombre |-> categorias[k], destino |-> categorias[d]])
    /\ UNCHANGED <<categorias, productos, proveedores>>

\* Without a destination: 409 if a product uses the name that was read.
ContarUso(x) ==
    /\ x \in En("cuenta")
    /\ IF DeCategoria(tx[x].nombre) = {} THEN Seguir(x, [tx[x] EXCEPT !.paso = "borra"])
                                         ELSE Terminar(x)
    /\ UNCHANGED <<categorias, productos, proveedores>>

\* DELETE by id, whatever happened since the count.
Borrar(x) ==
    /\ x \in En("borra")
    /\ categorias' = [categorias EXCEPT ![tx[x].id] = Nada]
    /\ Terminar(x)
    /\ UNCHANGED <<productos, proveedores>>

\* With a destination, by the names that were read; the trigger refuses a
\* destination that is no longer in the list, if there is a product to move.
Reasignar(x) ==
    LET P == DeCategoria(tx[x].nombre)
    IN  /\ x \in En("reasigna")
        /\ P \cap Bloqueados = {}
        /\ IF P # {} /\ tx[x].destino \notin Listadas
           THEN UNCHANGED <<categorias, productos>>
           ELSE /\ categorias' = [categorias EXCEPT ![tx[x].id] = Nada]
                /\ productos' = Renombrados(P, tx[x].destino)
        /\ Terminar(x)
        /\ UNCHANGED proveedores

-----------------------------------------------------------------------------
(* Products.                                                               *)

\* createProducto and updateProducto: the supplier must be active, unless it is
\* the one the product already has.
Revisar(x, p, n, v) ==
    /\ Libre(x)
    /\ productos[p] = Nada => \A y \in Conexiones : tx[y] # Nada => tx[y].id # p
    /\ \/ proveedores[v] = "ACTIVO"
       \/ productos[p] # Nada /\ productos[p].proveedor = v
    /\ Seguir(x, [paso |-> "escribe", id |-> p, producto |-> p, categoria |-> n, proveedor |-> v])
    /\ UNCHANGED <<categorias, productos, proveedores>>

\* The INSERT or UPDATE: trigger of the category, foreign key of the supplier.
Escribir(x) ==
    /\ x \in En("escribe")
    /\ tx[x].producto \notin Bloqueados
    /\ IF tx[x].categoria \in Listadas /\ proveedores[tx[x].proveedor] # "BORRADO"
       THEN Seguir(x, [tx[x] EXCEPT !.paso = "escrito"])
       ELSE Terminar(x)
    /\ UNCHANGED <<categorias, productos, proveedores>>

\* COMMIT, after the row of inventario or the cascade of the cost.
Confirmar(x) ==
    /\ x \in En("escrito")
    /\ productos' = [productos EXCEPT ![tx[x].producto] =
                        [categoria |-> tx[x].categoria, proveedor |-> tx[x].proveedor]]
    /\ Terminar(x)
    /\ UNCHANGED <<categorias, proveedores>>

-----------------------------------------------------------------------------
(* Suppliers.                                                              *)

\* update may give activo again; remove takes it away.
Activar(v, e) ==
    /\ proveedores[v] \in {"ACTIVO", "INACTIVO"} \ {e}
    /\ proveedores' = [proveedores EXCEPT ![v] = e]
    /\ UNCHANGED <<categorias, productos, tx>>

\* eliminarDefinitivo: the count of what refers to it.
ContarReferencias(x, v) ==
    /\ Libre(x)
    /\ proveedores[v] # "BORRADO"
    /\ DeProveedor(v) = {}
    /\ Seguir(x, [paso |-> "elimina", id |-> v])
    /\ UNCHANGED <<categorias, productos, proveedores>>

\* Mutant: nothing stands behind the count.
EliminarSinLlave(x) ==
    /\ x \in En("elimina")
    /\ proveedores' = [proveedores EXCEPT ![tx[x].id] = "BORRADO"]
    /\ Terminar(x)
    /\ UNCHANGED <<categorias, productos>>

\* The DELETE waits for the writes that refer to the row; ON DELETE RESTRICT
\* refuses it if one is there.
Eliminar(x) ==
    LET v == tx[x].id
    IN  /\ x \in En("elimina")
        /\ \A y \in En("escrito") : tx[y].proveedor # v
        /\ proveedores' = IF DeProveedor(v) = {} THEN [proveedores EXCEPT ![v] = "BORRADO"]
                                                 ELSE proveedores
        /\ Terminar(x)
        /\ UNCHANGED <<categorias, productos>>

\* fusionar: both are there, and the destination is active.
LeerFusion(x, v, w) ==
    /\ Libre(x)
    /\ v # w
    /\ proveedores[v] # "BORRADO"
    /\ proveedores[w] = "ACTIVO"
    /\ Seguir(x, [paso |-> "fusiona", id |-> v, destino |-> w])
    /\ UNCHANGED <<categorias, productos, proveedores>>

\* Moves what is committed and leaves the origin inactive; the foreign key
\* refuses a destination that was deleted, if there is something to move.
Fusionar(x) ==
    LET v == tx[x].id
        w == tx[x].destino
        P == DeProveedor(v)
    IN  /\ x \in En("fusiona")
        /\ P \cap Bloqueados = {}
        /\ IF P # {} /\ proveedores[w] = "BORRADO"
           THEN UNCHANGED <<productos, proveedores>>
           ELSE /\ productos' = [p \in Productos |->
                      IF p \in P THEN [productos[p] EXCEPT !.proveedor = w] ELSE productos[p]]
                /\ proveedores' = [proveedores EXCEPT ![v] = IF @ = "BORRADO" THEN @ ELSE "INACTIVO"]
        /\ Terminar(x)
        /\ UNCHANGED categorias

-----------------------------------------------------------------------------
Next ==
    \/ \E k \in Categorias, n \in Nombres : Crear(k, n) \/ Renombrar(k, n)
    \/ \E v \in Proveedores, e \in {"ACTIVO", "INACTIVO"} : Activar(v, e)
    \/ \E x \in Conexiones :
          \/ \E k \in Categorias : LeerBaja(x, k)
          \/ ContarUso(x) \/ Borrar(x) \/ Reasignar(x)
          \/ \E p \in Productos, n \in Nombres, v \in Proveedores : Revisar(x, p, n, v)
          \/ Escribir(x) \/ Confirmar(x)
          \/ \E v \in Proveedores : ContarReferencias(x, v)
          \/ Eliminar(x)
          \/ \E v, w \in Proveedores : LeerFusion(x, v, w)
          \/ Fusionar(x)

Spec == Init /\ [][Next]_vars

-----------------------------------------------------------------------------
\* A product always has a supplier that exists, whatever deletion, merge and
\* write of a product overlap: eliminarDefinitivo never takes away one that got
\* its first product after the count, and a merge never gives the products to
\* one that was deleted meanwhile.
HistorialConProveedor ==
    \A p \in Guardados : proveedores[productos[p].proveedor] # "BORRADO"

\* README.md and migration 028: no product may be saved with a category that is
\* not in the list.
SinCategoriasHuerfanas ==
    \A p \in Guardados : productos[p].categoria \in Listadas
=============================================================================
