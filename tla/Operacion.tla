------------------------------ MODULE Operacion ------------------------------
(***************************************************************************)
(* The stock (Inventario) and five parts of the system that share no row   *)
(* with it or with each other.  Each behaviour exercises one of them,      *)
(* chosen at the start, and the others stay as they began: the reachable   *)
(* states are the union of theirs.                                         *)
(***************************************************************************)
EXTENDS Inventario

CONSTANTS
    Archivos, ConTransaccion,                                 \* Migraciones
    Agentes, Dispositivos, MaxCodigos,                        \* Canjes
    Ids, Semillas, Cocina,                                    \* Areas
    Grupos, Opcion, Contenidos, Elecciones, Ligas, SinGrupo, i1,  \* Opciones (i1, a line)
    Origen, Categorias, YaEsta, Pagina, MaxCorridas, MaxFallos  \* MigrarCatalogo

\* The files of a directory have different names.
ASSUME MigracionesAssumption ==
    /\ Archivos \in Seq(STRING)
    /\ \A m, n \in DOMAIN Archivos : Archivos[m] = Archivos[n] => m = n

ASSUME CanjesAssumption == Agentes \cap Dispositivos = {} /\ MaxCodigos \in Nat

\* The default area is one of those that are seeded.
ASSUME AreasAssumption == Cocina \in Semillas /\ Semillas \subseteq Ids

\* What pos.schema.js lets in: two naturals and entries with the ids of options.
ASSUME OpcionesAssumption ==
    /\ SinGrupo \notin Grupos /\ IsFiniteSet(Opcion)
    /\ \A d \in Contenidos :
          /\ d.minimo \in Nat /\ d.maximo \in Nat /\ DOMAIN d.ofrece \subseteq Opcion
          /\ d.entradas \in Nat /\ d.entradas >= Cardinality(DOMAIN d.ofrece)

\* Each product of the destination has a supplier there.
ASSUME MigrarAssumption ==
    /\ YaEsta \in [provs : Seq([nombre : STRING, activo : BOOLEAN]), cats : SUBSET STRING,
                   prods : Seq([nombre : STRING, prov : Nat, activo : BOOLEAN])]
    /\ \A k \in DOMAIN YaEsta.prods : YaEsta.prods[k].prov \in DOMAIN YaEsta.provs
    /\ Origen \in Seq([nombre : STRING, proveedor : STRING, activo : BOOLEAN,
                       elaborado : BOOLEAN, categoria : STRING])
    /\ Categorias \subseteq STRING

VARIABLES
    parte,
    filas, marcadas, efecto, corre,                                           \* Migraciones
    equipo, empresa, canje, emitidos, canjeados, enlaces, usuario, acepta,    \* Canjes
    areas, txArea,                                                            \* Areas
    grupos, opciones, renglon, menus, repetidos,                              \* Opciones
    destino, paso, plan, quedan, falta, ya, deEste, nuevos, errores, corridas,
    fallos                                                                    \* MigrarCatalogo

\* Several deploys at once.
Mi == INSTANCE Migraciones WITH Corredores <- Conexiones

\* Print agents and devices.
Cj == INSTANCE Canjes WITH Canjeadores <- Conexiones

Ar == INSTANCE Areas WITH tx <- txArea

Op == INSTANCE Opciones WITH Renglones <- {i1}

Mg == INSTANCE MigrarCatalogo

deMigraciones == <<filas, marcadas, efecto, corre>>
deCanjes == <<equipo, empresa, canje, emitidos, canjeados, enlaces, usuario, acepta>>
deAreas == <<areas, txArea>>
deOpciones == <<grupos, opciones, renglon, menus, repetidos>>
deMigrar == <<destino, paso, plan, quedan, falta, ya, deEste, nuevos, errores, corridas, fallos>>

-----------------------------------------------------------------------------
InitOperacion ==
    /\ parte \in {"inventario", "migraciones", "canjes", "areas", "opciones", "migrar"}
    /\ Init /\ Mi!Init /\ Cj!Init /\ Ar!Init /\ Op!Init /\ Mg!Init

NextOperacion ==
    /\ IF parte = "inventario" THEN Next ELSE UNCHANGED vars
    /\ IF parte = "migraciones" THEN Mi!Next ELSE UNCHANGED deMigraciones
    /\ IF parte = "canjes" THEN Cj!Next ELSE UNCHANGED deCanjes
    /\ IF parte = "areas" THEN Ar!Next ELSE UNCHANGED deAreas
    /\ IF parte = "opciones" THEN Op!Next ELSE UNCHANGED deOpciones
    /\ IF parte = "migrar" THEN Mg!Next ELSE UNCHANGED deMigrar
    /\ UNCHANGED parte

todas == <<parte, vars, deMigraciones, deCanjes, deAreas, deOpciones, deMigrar>>

SpecOperacion == InitOperacion /\ [][NextOperacion]_todas

-----------------------------------------------------------------------------
(* The properties of the parts, each stated in its module; those of the     *)
(* stock are checked as they are there.                                    *)

\* Migraciones and Canjes: what is for once happens once and in its order.
UnaSolaVez ==
    /\ parte = "migraciones" => Mi!AplicadaUnaVez /\ Mi!EnOrden
    /\ parte = "canjes" => Cj!CanjeUnico
\* Areas: the default area is never lost.
SiemprePredeterminada == [][parte = "areas" => Ar!PredeterminadaSigue]_areas
\* Opciones: a group whose last edit repeats no option can be satisfied, and a line is
\* of one menu.
OpcionesCoherentes == parte = "opciones" => Op!GruposSirven /\ Op!TomadoDeUnMenu
\* MigrarCatalogo: a run without errors left nothing out.
MigracionCompleta == parte = "migrar" => Mg!MigracionCompleta
=============================================================================
