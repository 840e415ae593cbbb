SPECIFICATION SpecCuentas
CONSTANTS
    Cuentas = {c1, c2, c3}
    Renglones = {i1, i2}
    Comandas = {k1, k2}
    Mesas = {m1, m2}
    Reservas = {r1}
    Articulos = {"sopa", "agua"}
    AreaDe <- Areas
    ConPantalla = {"cocina"}
    ConPapel = {}
    Tiempos = {1, 2}
    Notas = {TRUE, FALSE}
    Rebajas = {TRUE}
    MaxPurga = 0
    MesasEditables = {}
    MaxCantidad = 2
    MaxFolio = 3
    HaySupervisor = TRUE
    NULL = NULL
SYMMETRY Simetria
PROPERTIES LaPurgaNoBorraRenglones
