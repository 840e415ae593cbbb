----------------------------- MODULE Servicios -----------------------------
(***************************************************************************)
(* Components that meet in no row of another's, as one system: the keys of *)
(* repeated requests (Idempotencia), who is let in (Sesion, Pin), the books*)
(* (Finanzas), the catalogues (Catalogo), the costs (Costeo) and their     *)
(* cascades when several cross (Cascadas).  Each behaviour exercises one   *)
(* of them, chosen at the start, and the others stay as they began: the    *)
(* reachable states are the union of theirs.                               *)
(***************************************************************************)
EXTENDS Idempotencia

CONSTANTS
    EnVuelo, TTL, MaxEspera, MaxCambios, MaxSesiones,                       \* Sesion
    Intentos, Equipos, MaxEquipo, MaxDuro, Enfria, Ventana, Hora, MaxPines, \* Pin
    Registros, TipoDe, Cuentas, Importe, Montos, MaxEdiciones, MaxMovido,   \* Finanzas
    Conexiones, Categorias, Nombres, Articulos, Proveedores,                \* Catalogo
    Materias, Preparados, Fichas, Produce, Escandallos, Tarifas,
    Rendimientos, Factores, Protecciones, MaxCompras,                       \* Costeo
    Insumos, Recetas, Elaborado, Lista, Precios,                            \* Cascadas
    Ninguno

\* TTL_MS of activeUser.js.
ASSUME SesionAssumption == TTL \in Nat \ {0} /\ MaxEspera \in Nat

\* LIMITES of pin.logic.js: some failures are forgiven, and a device cools within
\* the 15 minutes, and these within the hour.
ASSUME PinAssumption ==
    /\ IsFiniteSet(Intentos) /\ IsFiniteSet(Equipos)
    /\ MaxEquipo \in Nat \ {0} /\ MaxDuro \in Nat \ {0} /\ MaxPines \in Nat
    /\ Enfria \in Nat \ {0} /\ Ventana \in Nat /\ Hora \in Nat
    /\ Enfria <= Ventana /\ Ventana <= Hora

\* The three tables of the books, whose amounts are whole cents.
ASSUME FinanzasAssumption ==
    /\ IsFiniteSet(Registros) /\ IsFiniteSet(Cuentas)
    /\ TipoDe \in [Registros -> {"INGRESO", "GASTO", "COMPRA"}]
    /\ Importe \in [Cuentas -> Int] /\ Montos \subseteq Int

\* A preparation makes a product of its own (es_elaborado), that is not bought;
\* costs, quantities and percentages are not negative and a yield is not 0
\* (receta.schema.js).
ASSUME CosteoAssumption ==
    /\ IsFiniteSet(Materias) /\ IsFiniteSet(Preparados) /\ IsFiniteSet(Fichas)
    /\ Materias \cap Preparados = {} /\ Ninguno \notin Materias \cup Preparados
    /\ Produce \in [Fichas -> Preparados \cup {Ninguno}]
    /\ \A r \in Fichas : Escandallos[r] \subseteq [Materias \cup Preparados -> Nat]
    /\ Tarifas \subseteq Nat /\ Factores \subseteq Nat /\ Protecciones \subseteq Nat
    /\ Rendimientos \subseteq Nat \ {0}

\* The ingredients are bought and the products of the preparations are not
\* (compra.repository.js and updateProducto refuse es_elaborado); lines go by id.
ASSUME CascadasAssumption ==
    /\ IsFiniteSet(Conexiones) /\ IsFiniteSet(Insumos) /\ IsFiniteSet(Recetas)
    /\ Insumos \subseteq Int
    /\ \A r \in Recetas : Elaborado[r] \notin Insumos

VARIABLES
    parte,
    bd, sesiones, cache, cacheEquipos, pet, porInvalidar, cambios,
    vigilado, rota,                                                         \* Sesion
    usuario, fallos, intento, admin, definidos, entradas, quitados,         \* Pin
    registros, edicion, cuentas, corte, pedido, resumen, movido,            \* Finanzas
    categorias, productos, proveedores, tx,                                 \* Catalogo
    costo, factor, receta, detalle, snap, compras, editado, enRombo,        \* Costeo
    precio, copia, total, txs                                               \* Cascadas

Se == INSTANCE Sesion WITH Peticiones <- EnVuelo, Nada <- Ninguno

Pi == INSTANCE Pin WITH sesiones <- entradas

Fi == INSTANCE Finanzas WITH MaxCambios <- MaxEdiciones, cambios <- edicion

Ca == INSTANCE Catalogo WITH Productos <- Articulos, Nada <- Ninguno

Co == INSTANCE Costeo WITH
    Insumos <- Materias, Elaborados <- Preparados, Recetas <- Fichas, Elaborado <- Produce,
    Precios <- Tarifas, SinElaborado <- Ninguno

Cd == INSTANCE Cascadas WITH SinElaborado <- Ninguno, costo <- precio, tx <- txs

deSesion == <<bd, sesiones, cache, cacheEquipos, pet, porInvalidar, cambios, vigilado, rota>>
dePin == <<usuario, fallos, intento, admin, definidos, entradas, quitados>>
deFinanzas == <<registros, edicion, cuentas, corte, pedido, resumen, movido>>
deCatalogo == <<categorias, productos, proveedores, tx>>
deCosteo == <<costo, factor, receta, detalle, snap, compras, editado, enRombo>>
deCascadas == <<precio, copia, total, txs>>

-----------------------------------------------------------------------------
\* A part that is not exercised starts in one of its initial states.
InitServicios ==
    /\ parte \in {"idempotencia", "sesion", "pin", "finanzas", "catalogo", "costeo",
                 "cascadas"}
    /\ Init /\ Pi!Init /\ Fi!Init /\ Ca!Init /\ Co!Init /\ Cd!Init
    /\ Se!Init
    /\ parte # "sesion" => vigilado = "activo" /\ ~bd.admin

NextServicios ==
    /\ IF parte = "idempotencia" THEN Next ELSE UNCHANGED vars
    /\ IF parte = "sesion" THEN Se!Next ELSE UNCHANGED deSesion
    /\ IF parte = "pin" THEN Pi!Next ELSE UNCHANGED dePin
    /\ IF parte = "finanzas" THEN Fi!Next ELSE UNCHANGED deFinanzas
    /\ IF parte = "catalogo" THEN Ca!Next ELSE UNCHANGED deCatalogo
    /\ IF parte = "costeo" THEN Co!Next ELSE UNCHANGED deCosteo
    /\ IF parte = "cascadas" THEN Cd!Next ELSE UNCHANGED deCascadas
    /\ UNCHANGED parte

todas == <<parte, vars, deSesion, dePin, deFinanzas, deCatalogo, deCosteo, deCascadas>>

SpecServicios == InitServicios /\ [][NextServicios]_todas

-----------------------------------------------------------------------------
(* The properties of the parts, each stated in its module.                 *)

\* Sesion: what was revoked lets nobody in after the TTL and the waits.
RevocacionAcotada == Se!RevocacionAcotada
\* Pin: overlapping attempts do not get past the limits.
IntentosAcotados == Pi!IntentosAcotados
\* Pin: a PIN that was removed leaves no valid session.
PinQuitadoFuera == Pi!PinQuitadoFuera
\* Finanzas: a summary agrees with the books up to what moved meanwhile.
ResumenCuadra == Fi!ResumenCuadra
\* Catalogo: no product is left without its supplier.
HistorialConProveedor == Ca!HistorialConProveedor
\* Costeo: every total and copy is up to date, but for the known diamond.
CopiaViejaSoloTrasRombo == Co!CopiaViejaSoloTrasRombo
\* Costeo: the cost is the price of the last purchase in force.
CostoDeLaUltimaCompra == Co!CostoDeLaUltimaCompra
\* Cascadas: copies and costs agree however the cascades cross.
CopiasAlDia == Cd!CopiasAlDia
\* Cascadas: the order of the lines keeps purchases from waiting in a circle.
LasLineasNoSeTraban == Cd!LasLineasNoSeTraban
\* Cascadas: the total of a recipe is the sum of its copies.
TotalDeSusCopias == Cd!TotalDeSusCopias
=============================================================================
