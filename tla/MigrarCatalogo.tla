--------------------------- MODULE MigrarCatalogo ---------------------------
(***************************************************************************)
(* scripts/migrar_catalogo.js: the catalogue of a company is carried to    *)
(* another installation through its API, one request at a time.  The       *)
(* script keeps nothing between runs: a run asks what is already there and *)
(* skips what has the same name.  Each request may be refused (also after  *)
(* the four attempts of a 429), or its answer may be lost, which ends the  *)
(* run wherever it was.                                                    *)
(***************************************************************************)
EXTENDS Naturals, Sequences, FiniteSets

CONSTANTS
    Origen,       \* the products of the source, by name
    Categorias,   \* the active categories of the source
    YaEsta,       \* what the destination has before the first run
    Pagina,       \* products in an answer without ?limit (pagination.js: 50)
    MaxCorridas,  \* bound: times the script is run
    MaxFallos     \* bound: requests refused or cut off, and rows deactivated by people

VARIABLES
    destino,   \* [provs, cats, prods]: the rows of the destination, by ascending id
    paso,      \* what the run does next; "fuera" when no run is in progress
    plan,      \* the products this run carries: their places in Origen
    quedan,    \* those it has not finished with
    falta,     \* suppliers or categories of the plan still to be looked at
    ya,        \* names in the last list asked for, with their id
    deEste,    \* supplier of the source -> its id at the destination (idProveedor)
    nuevos,    \* ids of the products this run created
    errores,   \* informe.errores.length
    corridas, fallos

vars == <<destino, paso, plan, quedan, falta, ya, deEste, nuevos, errores, corridas, fallos>>
corrida == <<plan, quedan, falta, ya, deEste, nuevos, errores>>

Nombres(s) == {s[k].nombre : k \in DOMAIN s}
NoHay == [n \in {} |-> 0]

-----------------------------------------------------------------------------
(* leerOrigen and validarPlan                                              *)

\* Prepared products are never carried, inactive ones on request only.
Llevar(inactivos) ==
    {k \in DOMAIN Origen : ~Origen[k].elaborado /\ (Origen[k].activo \/ inactivos)}

SinProblemas(llevar) == \A k \in llevar : Origen[k].categoria \in Categorias

Proveedores(llevar) == {Origen[k].proveedor : k \in llevar}

(* migrar up to the first list: the plan, its validation and the login.    *)
Empezar(inactivos) ==
    LET llevar == Llevar(inactivos)
    IN /\ paso = "fuera" /\ corridas < MaxCorridas
       /\ SinProblemas(llevar)
       /\ paso' = "listarProveedores"
       /\ plan' = llevar /\ quedan' = llevar
       /\ falta' = Proveedores(llevar)
       /\ ya' = NoHay /\ deEste' = NoHay /\ nuevos' = {} /\ errores' = 0
       /\ corridas' = corridas + 1
       /\ UNCHANGED <<destino, fallos>>

-----------------------------------------------------------------------------
(* The lists.  Suppliers and products are listed active only, the products *)
(* one page, by id; a refused list is taken as an empty one (lista).       *)

Activos(s) == {k \in DOMAIN s : s[k].activo}
Primeros(ids, n) == {k \in ids : Cardinality({m \in ids : m < k}) < n}
\* of two rows with one name the Map keeps the last
PorNombre(s, ids) == [n \in {s[k].nombre : k \in ids} |->
                        CHOOSE k \in ids : s[k].nombre = n /\ \A m \in ids : s[m].nombre = n => m <= k]

ListaProveedores == PorNombre(destino.provs, Activos(destino.provs))
ListaProductos == PorNombre(destino.prods, Primeros(Activos(destino.prods), Pagina))
ListaCategorias == [c \in destino.cats |-> 1]

Rechazo == fallos < MaxFallos /\ fallos' = fallos + 1
Listar(de, lista, a) ==
    /\ paso = de /\ paso' = a
    /\ \/ ya' = lista /\ UNCHANGED fallos
       \/ Rechazo /\ ya' = NoHay
    /\ UNCHANGED <<destino, deEste, nuevos, errores, corridas>>

ListarProveedores ==
    Listar("listarProveedores", ListaProveedores, "proveedores") /\ UNCHANGED <<plan, quedan, falta>>

ListarCategorias ==
    /\ falta = {} /\ falta' = Categorias
    /\ Listar("proveedores", ListaCategorias, "categorias") /\ UNCHANGED <<plan, quedan>>

ListarProductos ==
    /\ falta = {} /\ Listar("categorias", ListaProductos, "productos") /\ UNCHANGED <<plan, quedan, falta>>

-----------------------------------------------------------------------------
(* One supplier, one category, one product                                 *)

Anotar == errores' = errores + 1

PasoProveedor(p) ==
    /\ paso = "proveedores" /\ p \in falta /\ falta' = falta \ {p}
    /\ \/ /\ p \in DOMAIN ya
          /\ deEste' = [q \in DOMAIN deEste \cup {p} |-> IF q = p THEN ya[p] ELSE deEste[q]]
          /\ UNCHANGED <<destino, errores, fallos>>
       \/ /\ p \notin DOMAIN ya
          /\ destino' = [destino EXCEPT !.provs = Append(@, [nombre |-> p, activo |-> TRUE])]
          /\ deEste' = [q \in DOMAIN deEste \cup {p} |->
                          IF q = p THEN Len(destino'.provs) ELSE deEste[q]]
          /\ UNCHANGED <<errores, fallos>>
       \/ /\ p \notin DOMAIN ya /\ Rechazo /\ Anotar /\ UNCHANGED <<destino, deEste>>
    /\ UNCHANGED <<paso, plan, quedan, ya, nuevos, corridas>>

\* The unique index on the names refuses a category the list did not show.
PasoCategoria(c) ==
    /\ paso = "categorias" /\ c \in falta /\ falta' = falta \ {c}
    /\ \/ c \in DOMAIN ya /\ UNCHANGED <<destino, errores, fallos>>
       \/ /\ c \notin DOMAIN ya /\ c \notin destino.cats
          /\ destino' = [destino EXCEPT !.cats = @ \cup {c}] /\ UNCHANGED <<errores, fallos>>
       \/ /\ c \notin DOMAIN ya /\ c \in destino.cats
          /\ Anotar /\ UNCHANGED <<destino, fallos>>
       \/ c \notin DOMAIN ya /\ Rechazo /\ Anotar /\ UNCHANGED destino
    /\ UNCHANGED <<paso, plan, quedan, ya, deEste, nuevos, corridas>>

\* createProducto: its supplier is active and its category is in the list.
SeAcepta(p) ==
    destino.provs[deEste[p.proveedor]].activo /\ p.categoria \in destino.cats

Crear(p) ==
    /\ destino' = [destino EXCEPT !.prods =
            Append(@, [nombre |-> p.nombre, prov |-> deEste[p.proveedor], activo |-> TRUE])]
    /\ nuevos' = nuevos \cup {Len(destino'.prods)}

\* The product whose turn it is: they are taken by name.
Turno == CHOOSE k \in quedan : \A m \in quedan : k <= m
Pasar == quedan' = quedan \ {Turno}

PasoProducto ==
    /\ paso = "productos" /\ quedan # {}
    /\ LET p == Origen[Turno]
           sabe == p.proveedor \in DOMAIN deEste
       IN \/ p.nombre \in DOMAIN ya /\ UNCHANGED <<destino, nuevos, errores, fallos>>
          \/ /\ p.nombre \notin DOMAIN ya /\ (sabe => ~SeAcepta(p))
             /\ Anotar /\ UNCHANGED <<destino, nuevos, fallos>>
          \/ /\ p.nombre \notin DOMAIN ya /\ sabe
             /\ Rechazo /\ Anotar /\ UNCHANGED <<destino, nuevos>>
          \/ /\ p.nombre \notin DOMAIN ya /\ sabe /\ SeAcepta(p)
             /\ Crear(p) /\ UNCHANGED <<errores, fallos>>
    /\ IF nuevos' # nuevos /\ ~Origen[Turno].activo
       THEN paso' = "inactivar" /\ UNCHANGED quedan
       ELSE Pasar /\ UNCHANGED paso
    /\ UNCHANGED <<plan, falta, ya, deEste, corridas>>

DejarInactivoSinAnotar ==
    /\ paso = "inactivar" /\ paso' = "productos" /\ Pasar
    /\ \/ /\ destino' = [destino EXCEPT !.prods[Len(destino.prods)].activo = FALSE]
          /\ UNCHANGED fallos
       \/ Rechazo /\ UNCHANGED destino
    /\ UNCHANGED <<plan, falta, ya, deEste, nuevos, errores, corridas>>

\* The PUT that leaves what was just created as inactive as it was.
DejarInactivo ==
    /\ paso = "inactivar" /\ paso' = "productos" /\ Pasar
    /\ \/ /\ destino' = [destino EXCEPT !.prods[Len(destino.prods)].activo = FALSE]
          /\ UNCHANGED <<errores, fallos>>
       \/ Rechazo /\ Anotar /\ UNCHANGED destino
    /\ UNCHANGED <<plan, falta, ya, deEste, nuevos, corridas>>

Terminar ==
    /\ paso = "productos" /\ quedan = {} /\ paso' = "fin"
    /\ UNCHANGED <<destino, corrida, corridas, fallos>>

\* The informe is printed and the process ends.
Salir ==
    /\ paso = "fin" /\ paso' = "fuera"
    /\ UNCHANGED <<destino, corrida, corridas, fallos>>

\* fetch throws, or the terminal is closed: what was written stays.
Cortar ==
    /\ paso \notin {"fuera", "fin"} /\ Rechazo /\ paso' = "fuera"
    /\ UNCHANGED <<destino, corrida, corridas>>

\* The people of the destination work with what has arrived.
DesactivarProveedor(k) ==
    /\ k \in DOMAIN destino.provs /\ destino.provs[k].activo /\ Rechazo
    /\ destino' = [destino EXCEPT !.provs[k].activo = FALSE]
    /\ UNCHANGED <<paso, corrida, corridas>>

-----------------------------------------------------------------------------
Init ==
    /\ destino = YaEsta
    /\ paso = "fuera" /\ plan = {} /\ quedan = {} /\ falta = {} /\ ya = NoHay /\ deEste = NoHay
    /\ nuevos = {} /\ errores = 0 /\ corridas = 0 /\ fallos = 0

Next ==
    \/ \E b \in BOOLEAN : Empezar(b)
    \/ ListarProveedores \/ ListarCategorias \/ ListarProductos
    \/ \E p \in falta : PasoProveedor(p) \/ PasoCategoria(p)
    \/ PasoProducto \/ DejarInactivo \/ Terminar \/ Salir \/ Cortar
    \/ \E k \in DOMAIN destino.provs : DesactivarProveedor(k)

Spec == Init /\ [][Next]_vars

-----------------------------------------------------------------------------
(* docs/DESPLIEGUE.md:171 and the head of the script: it can be repeated,  *)
(* what already exists with the same name is left out.  No run, or         *)
(* sequence of runs, leaves two products with one name.                    *)
SinRepetidos ==
    \A a, b \in DOMAIN destino.prods :
        destino.prods[a].nombre = destino.prods[b].nombre => a = b

(* A run that ends without errors left nothing out, however many runs were *)
(* cut off before it and whatever was refused: every product of the plan   *)
(* is at the destination, and each that this run created is one of the     *)
(* plan, hangs from a supplier of the same name as at the source and is    *)
(* active if it was there.                                                 *)
ComoEra(d) ==
    \E k \in plan :
        /\ Origen[k].nombre = d.nombre
        /\ Origen[k].proveedor = destino.provs[d.prov].nombre
        /\ Origen[k].activo = d.activo

MigracionCompleta ==
    paso = "fin" /\ errores = 0 =>
        /\ {Origen[k].nombre : k \in plan} \subseteq Nombres(destino.prods)
        /\ \A k \in nuevos : ComoEra(destino.prods[k])
=============================================================================
