SPECIFICATION Spec
CONSTANTS
    Origen <- DosProductos
    Categorias = {"c"}
    YaEsta <- Vacio
    Pagina = 1
    MaxCorridas = 2
    MaxFallos = 0
INVARIANTS SinRepetidos
CHECK_DEADLOCK FALSE
