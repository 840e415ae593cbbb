SPECIFICATION SpecCascadas
CONSTANTS
    a = a
    e1 = e1
    e2 = e2
    p1 = p1
    p2 = p2
    d = d
    g1 = g1
    k1 = k1
    Ninguno = Ninguno
    SinFila = SinFila
    Nadie = Nadie
    Peticiones = {p1, p2, d}
    Cuerpo <- CuerpoDe
    MaxCaidas = 2
    EnVuelo = {p1}
    TTL = 2
    MaxEspera = 1
    MaxCambios = 1
    MaxSesiones = 2
    Intentos = {p1, p2}
    Equipos = {d}
    MaxEquipo = 2
    MaxDuro = 3
    Enfria = 2
    Ventana = 3
    Hora = 4
    MaxPines = 2
    Registros = {g1, k1}
    TipoDe <- TipoDeCada
    Cuentas = {p1}
    Importe <- ImporteDeCada
    Montos = {1, 2}
    MaxEdiciones = 2
    MaxMovido = 2
    Conexiones = {p1, p2}
    Categorias = {e1, e2}
    Nombres = {g1, k1}
    Articulos = {e1}
    Proveedores = {1, 2}
    Materias = {a}
    Preparados = {e1, e2}
    Fichas = {p1, p2, d}
    Produce <- QueProduce
    Escandallos <- EscandallosDe
    Tarifas = {2, 3}
    Rendimientos = {2}
    Factores = {2}
    Protecciones = {50}
    MaxCompras = 3
    Insumos = {1, 2}
    Recetas = {p1, d}
    Elaborado <- QueElabora
    Lista <- ListaDeCada
    Precios = {1, 2}
INVARIANTS
    TotalDeSusCopias
CHECK_DEADLOCK FALSE
