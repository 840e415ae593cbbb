SPECIFICATION Spec
CONSTANTS
    Conexiones = {x1, x2}
    Categorias = {k1, k2}
    Nombres = {n1, n2}
    Productos = {taco}
    Proveedores = {v1, v2}
    Nada = Nada
INVARIANTS SinCategoriasHuerfanas
CHECK_DEADLOCK FALSE
