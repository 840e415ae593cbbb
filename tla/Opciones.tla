------------------------------ MODULE Opciones ------------------------------
(***************************************************************************)
(* Options of the articles (pos.opciones.repository.js and pos.opciones.   *)
(* logic.js): an administrator replaces the groups while orders are taken. *)
(* An order reads the groups of its article in one statement and their     *)
(* options in another, and keeps a copy of what was chosen.                *)
(***************************************************************************)
EXTENDS Naturals, FiniteSets

CONSTANTS
    Grupos, Opcion,  \* ids of groups and of options
    Contenidos,      \* [minimo, maximo, ofrece, entradas]: what an edit may bring; ofrece: option ->
                     \* price; entradas: how many entries name them (an id may come twice)
    Elecciones,      \* sets of options a waiter may ask for
    Ligas,           \* whether an edit offers its group with the article: a set of Booleans
    Renglones,       \* lines of orders
    SinGrupo

VARIABLES
    grupos,    \* id -> [existe, activo, minimo, maximo, articulo]: offered with the article or not
    opciones,  \* id -> [grupo, activo, precio]; of no group until it is inserted
    renglon,   \* line -> [paso, elige, limites, faltan, opciones]
    menus,     \* line -> the menus there have been since it began to read (history)
    repetidos  \* groups whose last edit named one option twice (history)

vars == <<grupos, opciones, renglon, menus, repetidos>>

NoExiste == [existe |-> FALSE, activo |-> FALSE, minimo |-> 0, maximo |-> 1, articulo |-> FALSE]
Libre == [paso |-> "nada", elige |-> {}, limites |-> {}, faltan |-> {}, opciones |-> {}]

Activas(o, gs) == {x \in Opcion : o[x].grupo \in gs /\ o[x].activo}
Copia(o, gs) == {[id |-> x, grupo |-> o[x].grupo, precio |-> o[x].precio] : x \in Activas(o, gs)}

-----------------------------------------------------------------------------
(* The catalogue.  Each of its transactions holds the row of its group.    *)

Ofrecidas(d) == DOMAIN d.ofrece

ValidoSinMaximo(d) == d.minimo <= d.maximo /\ Ofrecidas(d) # {}

\* #validarDatos, where names, ingredients and articles are data: the maximum is
\* compared with the entries of the request, whatever options they name.
Valido(d) ==
    /\ d.minimo <= d.maximo
    /\ Ofrecidas(d) # {}
    /\ d.maximo <= d.entradas

Repite(d) == d.entradas > Cardinality(Ofrecidas(d))

\* #guardarHijos: what no longer comes is left inactive; an option of another
\* group undoes the whole edit.
DeCualquierGrupo(g, d) == TRUE
DeEsteGrupo(g, d) == \A x \in Ofrecidas(d) : opciones[x].grupo \in {g, SinGrupo}

\* Only what the group already has comes by its id, so only that can come twice; the
\* second UPDATE of an option leaves its own price.
PorSuId(g, d) == Repite(d) => \E x \in Ofrecidas(d) : opciones[x].grupo = g

GuardarHijos(g, d) ==
    [x \in Opcion |->
        IF x \in Ofrecidas(d) THEN [grupo |-> g, activo |-> TRUE, precio |-> d.ofrece[x]]
        ELSE IF opciones[x].grupo = g THEN [opciones[x] EXCEPT !.activo = FALSE]
        ELSE opciones[x]]

Guardar(g, d, articulo) ==
    /\ Valido(d) /\ DeEsteGrupo(g, d) /\ PorSuId(g, d)
    /\ grupos' = [grupos EXCEPT ![g] = [existe |-> TRUE, activo |-> TRUE, minimo |-> d.minimo,
                                        maximo |-> d.maximo, articulo |-> articulo]]
    /\ opciones' = GuardarHijos(g, d)
    /\ repetidos' = IF Repite(d) THEN repetidos \cup {g} ELSE repetidos \ {g}
    /\ menus' = [r \in Renglones |->
            IF renglon[r].paso \in {"nada", "tomado"} THEN menus[r]
            ELSE menus[r] \cup {Copia(opciones', Grupos)}]
    /\ UNCHANGED renglon

Crear(g, d, articulo) == ~grupos[g].existe /\ Guardar(g, d, articulo)

Actualizar(g, d, articulo) == grupos[g].activo /\ Guardar(g, d, articulo)

Desactivar(g) ==
    /\ grupos[g].activo
    /\ grupos' = [grupos EXCEPT ![g].activo = FALSE]
    /\ UNCHANGED <<opciones, renglon, menus, repetidos>>

-----------------------------------------------------------------------------
(* Taking an order: gruposDeArticulo and resolver.                         *)

LeerGrupos(r, elige) ==
    /\ renglon[r].paso = "nada"
    /\ LET gs == {g \in Grupos : grupos[g].activo /\ grupos[g].articulo}
       IN renglon' = [renglon EXCEPT ![r] = [Libre EXCEPT !.paso = "grupos", !.elige = elige,
            !.faltan = gs,
            !.limites = {[grupo |-> g, minimo |-> grupos[g].minimo, maximo |-> grupos[g].maximo] :
                           g \in gs}]]
    /\ menus' = [menus EXCEPT ![r] = {Copia(opciones, Grupos)}]
    /\ UNCHANGED <<grupos, opciones, repetidos>>

LecturaPorGrupo(gs) == IF gs = {} THEN {gs} ELSE {{g} : g \in gs}

\* MODIFICADORES: one statement for the options of all the groups.
Lecturas(gs) == {gs}

LeerOpciones(r) ==
    /\ renglon[r].paso = "grupos"
    /\ \E gs \in Lecturas(renglon[r].faltan) :
          renglon' = [renglon EXCEPT ![r].faltan = @ \ gs,
              ![r].opciones = @ \cup Copia(opciones, gs),
              ![r].paso = IF renglon[r].faltan \ gs = {} THEN "validar" ELSE @]
    /\ UNCHANGED <<grupos, opciones, menus, repetidos>>

\* validarSeleccion: everything chosen is on offer, and each group has between
\* its minimum and its maximum.
Elegidas(t, g) == {o \in t.opciones : o.id \in t.elige /\ o.grupo = g}
Seleccionable(t) ==
    /\ t.elige \subseteq {o.id : o \in t.opciones}
    /\ \A l \in t.limites : Cardinality(Elegidas(t, l.grupo)) \in l.minimo .. l.maximo

Tomar(r) ==
    LET t == renglon[r]
    IN /\ t.paso = "validar"
       /\ renglon' = [renglon EXCEPT ![r] =
            IF Seleccionable(t)
            THEN [t EXCEPT !.paso = "tomado", !.opciones = {o \in t.opciones : o.id \in t.elige}]
            ELSE Libre]
       /\ menus' = IF Seleccionable(t) THEN menus ELSE [menus EXCEPT ![r] = {}]
       /\ UNCHANGED <<grupos, opciones, repetidos>>

-----------------------------------------------------------------------------
Init ==
    /\ grupos = [g \in Grupos |-> NoExiste]
    /\ opciones = [x \in Opcion |-> [grupo |-> SinGrupo, activo |-> FALSE, precio |-> 0]]
    /\ renglon = [r \in Renglones |-> Libre]
    /\ menus = [r \in Renglones |-> {}]
    /\ repetidos = {}

Next ==
    \/ \E g \in Grupos :
         \/ \E d \in Contenidos, si \in Ligas : Crear(g, d, si) \/ Actualizar(g, d, si)
         \/ Desactivar(g)
    \/ \E r \in Renglones :
         \/ \E e \in Elecciones : LeerGrupos(r, e)
         \/ LeerOpciones(r) \/ Tomar(r)

Spec == Init /\ [][Next]_vars

-----------------------------------------------------------------------------
(* A group on offer asks for no more than it admits, after any edits, and  *)
(* it has at least as many active options as it admits, so that an order   *)
(* can satisfy it, unless its last edit named one option twice: the check  *)
(* of #validarDatos counts the entries, and those two are one option.      *)
GruposSirven ==
    \A g \in Grupos : grupos[g].activo =>
        /\ grupos[g].minimo <= grupos[g].maximo
        /\ Activas(opciones, {g}) # {}
        /\ g \notin repetidos => grupos[g].maximo <= Cardinality(Activas(opciones, {g}))

(* What a line took was on offer at one time, all of it and at the price   *)
(* it has, while it was being taken, however the catalogue changes.        *)
TomadoDeUnMenu ==
    \A r \in Renglones : renglon[r].paso = "tomado" =>
        \E menu \in menus[r] : renglon[r].opciones \subseteq menu
=============================================================================
