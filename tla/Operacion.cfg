SPECIFICATION SpecOperacion
CONSTANTS
    i1 = i1
    SinGrupo = SinGrupo
    Archivos <- TresArchivos
    ConTransaccion = {"002"}
    Agentes = {agente}
    Dispositivos = {equipo1}
    MaxCodigos = 2
    Ids = {1, 2, 3}
    Semillas = {1, 2}
    Cocina = 1
    Grupos = {g1, g2}
    Opcion = {1, 2, 3}
    Contenidos <- CincoContenidos
    Elecciones = {{1, 2}, {1, 3}}
    Ligas = {TRUE}
    Origen <- CuatroProductos
    Categorias = {"c", "d"}
    YaEsta <- UnProductoYa
    Pagina = 1
    MaxCorridas = 2
    MaxFallos = 2
    Productos = {1, 2, 3}
    Elaborados = {2}
    Conexiones = {c1, c2}
    Documentos <- MCDocumentos
    ClaseDe <- MCClaseDe
    Peticiones <- MCPeticiones
    Escandallo <- MCEscandallo
    Preps <- MCPreps
    Inicial <- MCInicial
    Desfase <- MCDesfase
    Factor <- MCFactor
    MaxDepth = 1
    MaxDocumentos = 3
SYMMETRY Simetria
INVARIANTS
    ConteoCorrige
    SinAbrazoMortal
    UnaSolaVez
    OpcionesCoherentes
    MigracionCompleta
PROPERTIES
    AlmacenImplementado
    NuncaBajoCero
    SiemprePredeterminada
CHECK_DEADLOCK FALSE
