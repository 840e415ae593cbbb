SPECIFICATION SpecCaja
CONSTANTS
    c1 = c1
    c2 = c2
    d1 = d1
    d2 = d2
    y1 = y1
    Conexiones = {x1, x2, x3}
    Turnos = {t1, t2}
    Cuentas = {c1, c2}
    Cajeros = {ana, beto}
    Supervisores = {beto}
    Metodos = {"EFECTIVO", "TARJETA"}
    Total <- UnoCadaUna
    Propinas = {0}
    Entregas = {0}
    Fondos = {0}
    NULL = NULL
SYMMETRY Simetria
INVARIANTS FinanzasCuadra ResumenExplica NadieSeEspera
PROPERTIES CajaEsLibro
CHECK_DEADLOCK FALSE
