------------------------------- MODULE Areas -------------------------------
(***************************************************************************)
(* The preparation areas of a company (posConfig.repository.js, pos.areas. *)
(* js): created and changed by transactions that read the row they change  *)
(* under its lock and take the default off the others with one UPDATE,     *)
(* under READ COMMITTED.  A partial unique index allows one default.       *)
(***************************************************************************)
EXTENDS Naturals, FiniteSets

CONSTANTS
    Ids,         \* ids an area may have
    Semillas,    \* those of the areas that are seeded ...
    Cocina,      \* ... of which this one is the default
    Conexiones   \* transactions at the same time

VARIABLES
    areas,   \* committed: id -> [existe, activo, porDefecto]
    tx       \* connection -> [paso, id, cambio, actual, mias, quitar]

vars == <<areas, tx>>

Ninguna == [existe |-> FALSE, activo |-> FALSE, porDefecto |-> FALSE]
SinCambios == [i \in {} |-> Ninguna]
Fuera == [paso |-> "fuera", id |-> Cocina, alta |-> FALSE, elegir |-> FALSE, activo |-> "igual",
          actual |-> Ninguna, mias |-> SinCambios, quitar |-> {}]

\* What a connection sees: the committed rows, and those it has written.
Ve(c, i) == IF i \in DOMAIN tx[c].mias THEN tx[c].mias[i] ELSE areas[i]
Bloqueada(i, c) == \E o \in Conexiones \ {c} : i \in DOMAIN tx[o].mias
\* A default other than i that is being written or taken off.
OtraEnVilo(c, i) ==
    \E o \in Conexiones \ {c} : \E j \in DOMAIN tx[o].mias \ {i} :
        areas[j].porDefecto \/ tx[o].mias[j].porDefecto
Escribir(m, i, fila) == [j \in DOMAIN m \cup {i} |-> IF j = i THEN fila ELSE m[j]]

-----------------------------------------------------------------------------
\* asegurarAreas: one query sees that the company has none ...
VerSiHay(c) ==
    /\ tx[c].paso = "fuera" /\ \A i \in Ids : ~areas[i].existe
    /\ tx' = [tx EXCEPT ![c] = [Fuera EXCEPT !.paso = "sembrar"]]
    /\ UNCHANGED areas

\* ... and another one writes the seed, but for the names that are taken by
\* then; a default chosen meanwhile makes the index refuse that of the seed,
\* and with it all of it.
Sembrar(c) ==
    /\ tx[c].paso = "sembrar"
    /\ ~OtraEnVilo(c, Cocina) /\ \A i \in Semillas : ~Bloqueada(i, c)
    /\ tx' = [tx EXCEPT ![c] = Fuera]
    /\ areas' = IF ~areas[Cocina].existe /\ \E i \in Ids : areas[i].porDefecto THEN areas
                ELSE [i \in Ids |-> IF i \notin Semillas \/ areas[i].existe THEN areas[i]
                        ELSE [existe |-> TRUE, activo |-> TRUE, porDefecto |-> i = Cocina]]

\* crearArea: BEGIN, the names, and on to the default or to the INSERT.
Crear(c, i, elegir) ==
    /\ tx[c].paso = "fuera"
    /\ ~areas[i].existe
    /\ tx' = [tx EXCEPT ![c] = [Fuera EXCEPT !.paso = IF elegir THEN "buscar" ELSE "escribir",
                                             !.id = i, !.alta = TRUE, !.elegir = elegir]]
    /\ UNCHANGED areas

\* actualizarArea: SELECT ... FOR UPDATE, the row as it is once the lock is had,
\* and what is asked of it; the default area has to stay active.
QuedaActiva(t) == IF t.activo = "igual" THEN t.actual.activo ELSE t.activo = "si"
SeRechazaSoloElegida(t) == t.elegir /\ ~QuedaActiva(t)
SeRechaza(t) == (t.elegir \/ t.actual.porDefecto) /\ ~QuedaActiva(t)

Actualizar(c, i, elegir, activo) ==
    LET t == [Fuera EXCEPT !.id = i, !.elegir = elegir, !.activo = activo, !.actual = areas[i],
                           !.paso = IF elegir /\ ~areas[i].porDefecto THEN "buscar" ELSE "escribir",
                           !.mias = Escribir(@, i, areas[i])]
    IN /\ tx[c].paso = "fuera" /\ areas[i].existe /\ ~Bloqueada(i, c)
       /\ ~SeRechaza(t)
       /\ tx' = [tx EXCEPT ![c] = t]
       /\ UNCHANGED areas

\* UNSET_DEFAULT looks for the default areas when it starts ...
Buscar(c) ==
    /\ tx[c].paso = "buscar"
    /\ tx' = [tx EXCEPT ![c].paso = "quitar", ![c].quitar = {i \in Ids : Ve(c, i).porDefecto}]
    /\ UNCHANGED areas

\* ... waits for each, and takes it off from those that still are.
Quitar(c) ==
    /\ tx[c].paso = "quitar"
    /\ IF tx[c].quitar = {}
       THEN tx' = [tx EXCEPT ![c].paso = "escribir"]
       ELSE \E i \in tx[c].quitar :
              /\ ~Bloqueada(i, c)
              /\ tx' = [tx EXCEPT ![c].quitar = @ \ {i},
                    ![c].mias = IF Ve(c, i).porDefecto
                                THEN Escribir(@, i, [Ve(c, i) EXCEPT !.porDefecto = FALSE]) ELSE @]
    /\ UNCHANGED areas

\* The INSERT or UPDATE of the row.  Another default makes the index refuse it,
\* and one that is not committed yet makes it wait.
Nueva(t) ==
    [existe |-> TRUE, activo |-> t.alta \/ QuedaActiva(t),
     porDefecto |-> t.elegir \/ (~t.alta /\ t.actual.porDefecto)]
SinIndice(c) == FALSE

OtraPorDefecto(c) == \E i \in Ids \ {tx[c].id} : Ve(c, i).porDefecto

Guardar(c) ==
    LET t == tx[c] i == t.id n == Nueva(t)
    IN /\ t.paso = "escribir"
       /\ n.porDefecto => ~OtraEnVilo(c, i)
       /\ t.alta => ~Bloqueada(i, c)
       /\ tx' = [tx EXCEPT ![c] =
            IF (n.porDefecto /\ OtraPorDefecto(c)) \/ (t.alta /\ areas[i].existe) THEN Fuera
            ELSE [t EXCEPT !.paso = "commit", !.mias = Escribir(t.mias, i, n)]]
       /\ UNCHANGED areas

Confirmar(c) ==
    /\ tx[c].paso = "commit"
    /\ areas' = [i \in Ids |-> Ve(c, i)]
    /\ tx' = [tx EXCEPT ![c] = Fuera]

\* The connection falls, or the database ends a wait in a circle: ROLLBACK.
Deshacer(c) ==
    /\ tx[c].paso # "fuera" /\ tx' = [tx EXCEPT ![c] = Fuera] /\ UNCHANGED areas

-----------------------------------------------------------------------------
Init ==
    /\ areas = [i \in Ids |-> Ninguna]
    /\ tx = [c \in Conexiones |-> Fuera]

Next ==
    \/ \E c \in Conexiones :
         \/ \E i \in Ids, elegir \in BOOLEAN :
              \/ Crear(c, i, elegir)
              \/ \E activo \in {"igual", "si", "no"} : Actualizar(c, i, elegir, activo)
         \/ VerSiHay(c) \/ Sembrar(c)
         \/ Buscar(c) \/ Quitar(c)
         \/ Guardar(c) \/ Confirmar(c) \/ Deshacer(c)

Spec == Init /\ [][Next]_vars

-----------------------------------------------------------------------------
(* posConfig.schema.js:14: the default is changed by choosing another, and *)
(* never by leaving none.  A company with exactly one default area, which  *)
(* is active, keeps one and active, whatever changes, creations and seeds  *)
(* overlap.                                                                *)
UnaPredeterminada ==
    \E i \in Ids : /\ areas[i].porDefecto /\ areas[i].activo
                  /\ \A j \in Ids \ {i} : ~areas[j].porDefecto
PredeterminadaSigue == UnaPredeterminada => UnaPredeterminada'
SiemprePredeterminada == [][PredeterminadaSigue]_vars
=============================================================================
