SPECIFICATION SpecEntregas
CONSTANTS
    j1 = j1
    a1 = a1
    a2 = a2
    c1 = c1
    c2 = c2
    SinFila = SinFila
    Nadie = Nadie
    Trabajos = {j1}
    Agentes = {a1, a2}
    AgentesDe <- DeCualquiera
    MAX_INTENTOS = 3
    MaxVueltas = 2
    Clientes = {c1, c2}
    MaxPorUsuario = 2
    MaxCambios = 1
    MaxCortes = 1
    MaxCierres = 1
    Peticiones = {c1, c2, j1}
    Cuerpo <- DosYOtro
    MaxCaidas = 2
INVARIANTS
    EntregasContadas
    NadieQuedaAtras
PROPERTIES
    LoImpresoNoVuelve
    TodoTrabajoTermina
    TodosSeEnteran
    TodasTerminan
CHECK_DEADLOCK FALSE
