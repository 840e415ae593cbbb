SPECIFICATION Spec
CONSTANTS
    j1 = j1
    a1 = a1
    a2 = a2
    Trabajos = {j1}
    Agentes = {a1, a2}
    AgentesDe <- DeCualquiera
    MAX_INTENTOS = 3
    MaxVueltas = 1
INVARIANTS ReimpresionSale
