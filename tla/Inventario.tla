------------------------------ MODULE Inventario ------------------------------
(***************************************************************************)
(* The stock of a company and the documents that move it: manual movements *)
(* (movimiento.repository.js), purchases (compra.repository.js),           *)
(* productions (produccion.repository.js), physical counts                 *)
(* (conteo.repository.js) and the sales and losses of the POS              *)
(* (aplicarConsumo.js).                                                    *)
(*                                                                         *)
(* A request is a transaction of PostgreSQL, statement by statement: it    *)
(* locks the row of its document (SELECT ... FOR UPDATE, when the          *)
(* operation does so), then the rows of inventario one by one, reading the *)
(* stock of each when it gets the lock, and then writes stock and          *)
(* movements and commits.  Locks are held to the end.  The code writes the *)
(* stock as an absolute value computed from what it read.                  *)
(*                                                                         *)
(* Not here: the costs (Costeo), and who may do what.                      *)
(***************************************************************************)
EXTENDS Preparaciones

CONSTANTS
    Conexiones,     \* requests in course, one client of the pool each
    Documentos,     \* ids of documents
    ClaseDe,        \* "compra", "produccion", "conteo", "venta", "merma", "manual"
    Peticiones,     \* Peticiones[d]: the lines the document may be asked with
    Elaborados,     \* products that are produced and not bought
    Escandallo,     \* Escandallo[r][p]: net quantity of p in the recipe r
    Preps,          \* the preparations, in the order the query returns them
    Inicial,        \* stock at the start
    Desfase,        \* what is really there minus the stock, at the start
    MaxDocumentos   \* bound: documents created

ASSUME ClaseAssumption ==
    ClaseDe \in [Documentos ->
                   {"compra", "produccion", "conteo", "venta", "merma", "manual"}]
ASSUME PrepsAssumption ==
    /\ Elaborados \subseteq Productos
    /\ Preps \in Seq(Preparacion(Elaborados))
    /\ \A r \in DOMAIN Escandallo : Escandallo[r] \in [Productos -> Nat]
ASSUME InicialAssumption ==
    /\ Inicial \in [Productos -> Int]
    /\ Desfase \in [Productos -> Int]
ASSUME DocumentosAssumption == IsFiniteSet(Documentos)

\* A line: a recipe (or "ninguna"), a product and a quantity.
TipoLinea == [receta : DOMAIN Escandallo \cup {"ninguna"}, producto : Nat, cantidad : Int]

\* What compra.schema.js and validarLineasConteo let in: quantities bought are
\* positive, and no product is counted twice in a count.  In a production
\* (produccion.schema.js) a line with a recipe is a batch, and one without, after
\* it, what it really yielded.
ASSUME PeticionesAssumption ==
    \A d \in Documentos : \A lineas \in Peticiones[d] :
        /\ lineas \in Seq(TipoLinea)
        /\ ClaseDe[d] = "compra" => \A i \in DOMAIN lineas : lineas[i].cantidad > 0
        /\ ClaseDe[d] = "conteo" =>
              /\ \A i \in DOMAIN lineas : lineas[i].producto \in Productos
              /\ \A i, j \in DOMAIN lineas : lineas[i].producto = lineas[j].producto => i = j
        /\ ClaseDe[d] \in {"produccion", "manual"} => lineas # <<>>
        /\ ClaseDe[d] = "produccion" =>
              \A i \in DOMAIN lineas :
                 IF lineas[i].receta # "ninguna"
                 THEN \E k \in DOMAIN Preps : Preps[k].receta = lineas[i].receta
                 ELSE i > 1 /\ lineas[i - 1].receta # "ninguna"

VARIABLES
    stock,          \* inventario.stock_actual
    docs,           \* compra, produccion, conteo_fisico, pos_cuentas
    kardex,         \* movimientosinventario of each document, by reference
    tx              \* the request each connection runs

vars == <<stock, docs, kardex, tx>>

-----------------------------------------------------------------------------
(* Documents and movements                                                 *)

SinDocumento == [estado |-> "ausente", lineas |-> <<>>, op |-> "libre"]

\* Movements of one type written by one operation: "alta" is the reference of
\* the document, "baja" that of its annulment (COMPRA_ANULADA and the like).
Asiento(ref, tipo, delta) == [ref |-> ref, tipo |-> tipo, delta |-> delta]

\* Change of stock of the movements I of a sequence.
SumaEn(asientos, I) ==
    [p \in Productos |-> SumaDe([i \in I |-> asientos[i].delta[p]], I)]
Suma(asientos) == SumaEn(asientos, DOMAIN asientos)

\* The movements the document was applied with.
DeAlta(d) == {i \in DOMAIN kardex[d] : kardex[d][i].ref = "alta"}
DeTipo(d, tipo) == {i \in DeAlta(d) : kardex[d][i].tipo = tipo}

\* The least of a set of ids or of places in a list.
Primero(S) == CHOOSE x \in S : \A y \in S : x <= y

LineasDe(lineas, p) == {i \in DOMAIN lineas : lineas[i].producto = p}
CantidadDe(lineas, p) ==
    SumaDe([i \in DOMAIN lineas |-> lineas[i].cantidad], LineasDe(lineas, p))
ProductosDe(lineas) == {lineas[i].producto : i \in DOMAIN lineas}
PrimeraDe(lineas, p) == lineas[Primero(LineasDe(lineas, p))].cantidad

PrepDe(receta) == Preps[CHOOSE i \in 1..Len(Preps) : Preps[i].receta = receta]

-----------------------------------------------------------------------------
(* Requests                                                                *)

Libre ==
    [op |-> "libre", doc |-> "ninguno", fase |-> "libre", lineas |-> <<>>,
     leido |-> Nada, plan |-> <<>>, filas |-> {}, candados |-> {}, lectura |-> Nada]

\* Operations that first lock the row of a document that already exists.
PideCabecera(op) ==
    op \in {"recibir", "anularCompra", "anularProduccion", "anularConteo",
            "cobrar", "merma", "anularVenta"}

Anula(op) == op \in {"anularCompra", "anularProduccion", "anularConteo", "anularVenta"}
Cuenta(op) == op \in {"conteo", "conteoConBase"}
Consume(op) == op \in {"cobrar", "merma"}

\* The state the row must have once it is locked.
Admite(op, estado) ==
    CASE op = "recibir"      -> estado = "pedido"
      [] op = "anularCompra" -> estado \in {"pedido", "vigente"}
      [] Consume(op)         -> estado = "ausente"
      [] OTHER               -> estado = "vigente"

Deja(op) == IF Anula(op) THEN "anulado" ELSE "vigente"

\* A sale, or the loss of what was prepared: first what has to be produced,
\* given what was read of the stock before any row was locked.
DeConsumo(tipo, lineas, leido) ==
    LET consumo == ExplotarRenglones(lineas, Escandallo)
    IN  <<Asiento("alta", "PRODUCCION",
                  AutoProduccion(ResolverPreparaciones(consumo, leido, Preps))),
          Asiento("alta", tipo, Menos(consumo))>>

\* What one line of a production changes: the ingredients of a batch leave in
\* gross and its product enters; cantidad_real corrects what the recipe predicts.
Producido(lineas, i) ==
    LET esLote == lineas[i].receta # "ninguna"
        lote   == lineas[IF esLote THEN i ELSE i - 1]
        prep   == PrepDe(lote.receta)
        teoria == prep.rendimiento * lote.cantidad
    IN  IF esLote
        THEN [p \in Productos |->
                 (IF p = prep.elaborado THEN teoria ELSE 0)
                   - NetoABruto(prep.detalle[p] * lote.cantidad, p)]
        ELSE [Nada EXCEPT ![prep.elaborado] = lineas[i].cantidad - teoria]

SumaProducida(lineas, I) ==
    [p \in Productos |-> SumaDe([i \in I |-> Producido(lineas, i)[p]], I)]

DeProduccion(lineas) ==
    LET lotes == {i \in DOMAIN lineas : lineas[i].receta # "ninguna"}
    IN  <<Asiento("alta", "PRODUCCION", SumaProducida(lineas, lotes)),
          Asiento("alta", "AJUSTE", SumaProducida(lineas, DOMAIN lineas \ lotes))>>

DeLineas(tipo, lineas) ==
    <<Asiento("alta", tipo, [p \in Productos |-> CantidadDe(lineas, p)])>>

\* revertirPorReferencia: the inverse of the movements VENTA and PRODUCCION.
Inversos(d) ==
    <<Asiento("alta", "PRODUCCION", Menos(SumaEn(kardex[d], DeTipo(d, "PRODUCCION")))),
      Asiento("alta", "DEVOLUCION", Menos(SumaEn(kardex[d], DeTipo(d, "VENTA"))))>>

\* The other annulments: an AJUSTE of the opposite sign, for the net of each
\* product, under a reference of its own.
Contrario(d) == <<Asiento("baja", "AJUSTE", Menos(SumaEn(kardex[d], DeAlta(d))))>>

\* The movements of an operation, but those of a count.
Plan(op, lineas, leido, d) ==
    CASE op \in {"compra", "recibir"} -> DeLineas("COMPRA", lineas)
      [] op = "manual" ->
            DeLineas(IF lineas[1].cantidad < 0 THEN "MERMA" ELSE "DEVOLUCION", lineas)
      [] op = "produccion"  -> DeProduccion(lineas)
      [] op = "cobrar"      -> DeConsumo("VENTA", lineas, leido)
      [] op = "merma"       -> DeConsumo("MERMA", lineas, leido)
      [] op = "anularVenta" -> Inversos(d)
      [] Cuenta(op)         -> <<>>
      [] OTHER              -> Contrario(d)

\* Mutant: the count ignores the stock of when it began.
VariacionSinBase(t) ==
    [p \in Productos |->
        IF p \notin t.filas THEN 0 ELSE CantidadDe(t.lineas, p) - t.lectura[p]]

\* Those of a count: each product against the stock of when the count began, or
\* against that of this moment.
Variacion(t) ==
    [p \in Productos |->
        IF p \notin t.filas THEN 0
        ELSE CantidadDe(t.lineas, p)
               - (IF t.op = "conteoConBase" THEN t.leido[p] ELSE t.lectura[p])]

Asientos(t) == IF Cuenta(t.op) THEN <<Asiento("alta", "AJUSTE", Variacion(t))>> ELSE t.plan

\* The lines of a production that move p.
LineasQueMueven(lineas, p) == {i \in DOMAIN lineas : Producido(lineas, i)[p] # 0}

\* Rows of inventario the operation locks: those of its movements (of each line
\* of a production, whatever they add up to); a count locks all it lists.
Filas(op, lineas, plan) ==
    IF Cuenta(op) THEN ProductosDe(lineas)
    ELSE {p \in Productos : \/ \E i \in DOMAIN plan : plan[i].delta[p] # 0
                            \/ op = "produccion" /\ LineasQueMueven(lineas, p) # {}}

\* Mutant: a sale locks its rows as it applies them, ingredients first.
SiguientePorFases(t) ==
    LET faltan == t.filas \ t.candados
        crudos == faltan \ Elaborados
    IN  IF Consume(t.op) /\ crudos # {} THEN Primero(crudos) ELSE Primero(faltan)

\* Rows are locked in ascending order of product id.
Siguiente(t) == Primero(t.filas \ t.candados)

\* Mutant: the stock is read without FOR UPDATE.
TomadaNunca(c, p) == FALSE

\* A row of inventario somebody else holds.
Tomada(c, p) == \E otra \in Conexiones \ {c} : p \in tx[otra].candados

\* Mutant: an annulment is let through like a sale.
PermiteNegativoAlAnular(t, p) ==
    \/ Consume(t.op) \/ Anula(t.op)
    \/ t.op = "conteoConBase" /\ t.leido[p] # t.lectura[p]

\* permitirNegativo: the sale already happened; a count whose stock moved
\* meanwhile shows the difference.
PermiteNegativo(t, p) ==
    \/ t.op \in {"cobrar", "merma", "anularVenta"}
    \/ t.op = "conteoConBase" /\ t.leido[p] # t.lectura[p]

\* The changes of p at which its stock is checked on the way: purchases and
\* productions apply their lines one by one.
Pasos(t, p) ==
    CASE t.op \in {"compra", "recibir"} -> {PrimeraDe(t.lineas, p)}
      [] t.op = "produccion" -> {SumaProducida(t.lineas, 1..i)[p] : i \in LineasQueMueven(t.lineas, p)}
      [] OTHER -> {}

\* No product the operation changes is below zero, on the way or at the end.
Alcanza(t, cambio) ==
    \A p \in t.filas :
        \/ PermiteNegativo(t, p)
        \/ \A n \in Pasos(t, p) \cup ({cambio[p]} \ {0}) : t.lectura[p] + n >= 0
-----------------------------------------------------------------------------
Init ==
    /\ stock = Inicial
    /\ docs = [d \in Documentos |-> SinDocumento]
    /\ kardex = [d \in Documentos |-> <<>>]
    /\ tx = [c \in Conexiones |-> Libre]

\* BEGIN.
Abrir(c, op, d, fase, lineas, leido, plan) ==
    /\ tx[c] = Libre
    /\ tx' = [tx EXCEPT ![c] = [op |-> op, doc |-> d, fase |-> fase, lineas |-> lineas,
                                leido |-> leido, plan |-> plan,
                                filas |-> Filas(op, lineas, plan),
                                candados |-> {}, lectura |-> Nada]]
    /\ UNCHANGED <<stock, docs, kardex>>

\* A document whose id nobody has used (bounded by MaxDocumentos).
Nuevo(d) ==
    /\ docs[d].estado = "ausente"
    /\ \A c \in Conexiones : tx[c].doc # d
    /\ Cardinality({e \in Documentos : \/ docs[e].estado # "ausente"
                                       \/ \E c \in Conexiones : tx[c].doc = e}) < MaxDocumentos

\* A new document of class clase: the header is inserted, and the rows of its
\* products locked one by one.
Crear(c, op, clase, d) ==
    /\ ClaseDe[d] = clase
    /\ Nuevo(d)
    /\ \E lineas \in Peticiones[d] :
          Abrir(c, op, d, "inventario", lineas, Nada, Plan(op, lineas, Nada, d))

RegistrarMovimiento(c, d) == Crear(c, "manual", "manual", d)
CrearCompra(c, d) ==
    /\ Crear(c, "compra", "compra", d)
    /\ ProductosDe(tx'[c].lineas) \cap Elaborados = {}
ConfirmarProduccion(c, d) == Crear(c, "produccion", "produccion", d)

\* A purchase that is only ordered touches no stock.
CrearPedido(d) ==
    /\ ClaseDe[d] = "compra"
    /\ Nuevo(d)
    /\ \E lineas \in Peticiones[d] :
          /\ ProductosDe(lineas) \cap Elaborados = {}
          /\ docs' = [docs EXCEPT ![d] = [estado |-> "pedido", lineas |-> lineas, op |-> "pedido"]]
    /\ UNCHANGED <<stock, kardex, tx>>

\* What somebody who counts p finds on the shelf: the difference from the
\* stock is the one of the start less what counts have corrected.
EnAnaquel(p) ==
    stock[p] + Desfase[p]
      - SumaDe([d \in Documentos |-> Suma(kardex[d])[p]],
               {d \in Documentos : ClaseDe[d] = "conteo"})

\* Someone takes the template (conBase: it keeps the stock of that moment) and
\* counts; the count is sent later.
EmpezarConteo(c, d, conBase) ==
    /\ ClaseDe[d] = "conteo"
    /\ Nuevo(d)
    /\ \E lineas \in Peticiones[d] :
          /\ \A p \in ProductosDe(lineas) : EnAnaquel(p) >= 0
          /\ Abrir(c, IF conBase THEN "conteoConBase" ELSE "conteo", d, "contando",
                   [i \in 1..Len(lineas) |->
                       [lineas[i] EXCEPT !.cantidad = EnAnaquel(lineas[i].producto)]],
                   stock, <<>>)

EnviarConteo(c) ==
    /\ tx[c].fase = "contando"
    /\ tx' = [tx EXCEPT ![c].fase = "inventario"]
    /\ UNCHANGED <<stock, docs, kardex>>

\* Operations on a document that exists: it will be locked first.  An account
\* to charge, or whose line is cancelled with loss, is open.
Sobre(c, op, clase, d) ==
    /\ ClaseDe[d] = clase
    /\ IF Consume(op) /\ docs[d].estado = "ausente"
       THEN Nuevo(d) \/ \E otra \in Conexiones : tx[otra].doc = d
       ELSE docs[d].estado # "ausente"
    /\ Abrir(c, op, d, "cabecera", <<>>, Nada, <<>>)

ConfirmarRecepcion(c, d) == Sobre(c, "recibir", "compra", d)
AnularCompra(c, d)       == Sobre(c, "anularCompra", "compra", d)
AnularProduccion(c, d)   == Sobre(c, "anularProduccion", "produccion", d)
AnularConteo(c, d)       == Sobre(c, "anularConteo", "conteo", d)
Cobrar(c, d)             == Sobre(c, "cobrar", "venta", d)
CancelarConMerma(c, d)   == Sobre(c, "merma", "merma", d)
AnularVenta(c, d)        == Sobre(c, "anularVenta", "venta", d)

\* Mutant: the document is read without FOR UPDATE.
CabeceraSinBloqueo(c) == TRUE

\* The row of the document is free for c.
CabeceraLibre(c) ==
    \A otra \in Conexiones \ {c} :
        ~(tx[otra].doc = tx[c].doc /\ PideCabecera(tx[otra].op) /\ tx[otra].fase = "inventario")

\* The row is locked and has the state the operation needs; what it needs of
\* the document, and the stock of the prepared products, is read now.
TomarCabecera(c) ==
    LET t == tx[c] IN
    /\ t.fase = "cabecera"
    /\ CabeceraLibre(c)
    /\ Admite(t.op, docs[t.doc].estado)
    /\ \E lineas \in IF Consume(t.op) THEN Peticiones[t.doc] ELSE {docs[t.doc].lineas} :
          LET plan == Plan(t.op, lineas, stock, t.doc)
          IN  tx' = [tx EXCEPT ![c].fase = "inventario", ![c].lineas = lineas,
                               ![c].plan = plan, ![c].filas = Filas(t.op, lineas, plan)]
    /\ UNCHANGED <<stock, docs, kardex>>

\* 409: already annulled, already received, already charged.
RechazarCabecera(c) ==
    /\ tx[c].fase = "cabecera"
    /\ CabeceraLibre(c)
    /\ ~Admite(tx[c].op, docs[tx[c].doc].estado)
    /\ tx' = [tx EXCEPT ![c] = Libre]
    /\ UNCHANGED <<stock, docs, kardex>>

\* SELECT stock_actual ... FOR UPDATE of the next row.
TomarInventario(c) ==
    LET t == tx[c] IN
    /\ t.fase = "inventario"
    /\ t.candados # t.filas
    /\ LET p == Siguiente(t) IN
          /\ ~Tomada(c, p)
          /\ tx' = [tx EXCEPT ![c].candados = @ \cup {p}, ![c].lectura[p] = stock[p]]
    /\ UNCHANGED <<stock, docs, kardex>>

ConTodo(t) == t.fase = "inventario" /\ t.candados = t.filas

\* Stock, movements and state of the document; COMMIT.
Escribir(c) ==
    LET t == tx[c]
        cambio == Suma(Asientos(t))
    IN
    /\ ConTodo(t)
    /\ Alcanza(t, cambio)
    /\ stock' = [p \in Productos |->
                    IF p \in t.filas THEN t.lectura[p] + cambio[p] ELSE stock[p]]
    /\ kardex' = [kardex EXCEPT ![t.doc] = @ \o Asientos(t)]
    /\ docs' = [docs EXCEPT ![t.doc] =
                   IF Anula(t.op) THEN [@ EXCEPT !.estado = Deja(t.op)]
                   ELSE [estado |-> Deja(t.op), lineas |-> t.lineas, op |-> t.op]]
    /\ tx' = [tx EXCEPT ![c] = Libre]

\* 400 or 409: the stock does not reach; ROLLBACK.
Rechazar(c) ==
    /\ ConTodo(tx[c])
    /\ ~Alcanza(tx[c], Suma(Asientos(tx[c])))
    /\ tx' = [tx EXCEPT ![c] = Libre]
    /\ UNCHANGED <<stock, docs, kardex>>

\* The connection or the server fails before the COMMIT: ROLLBACK.
Abortar(c) ==
    /\ tx[c] # Libre
    /\ tx' = [tx EXCEPT ![c] = Libre]
    /\ UNCHANGED <<stock, docs, kardex>>

\* What the server and the database do next with a request.
Sigue(c) ==
    \/ TomarCabecera(c) \/ RechazarCabecera(c)
    \/ TomarInventario(c)
    \/ Escribir(c) \/ Rechazar(c)

Empieza(c, d) ==
    \/ RegistrarMovimiento(c, d)
    \/ CrearCompra(c, d) \/ ConfirmarRecepcion(c, d) \/ AnularCompra(c, d)
    \/ ConfirmarProduccion(c, d) \/ AnularProduccion(c, d)
    \/ \E conBase \in BOOLEAN : EmpezarConteo(c, d, conBase)
    \/ AnularConteo(c, d)
    \/ Cobrar(c, d) \/ CancelarConMerma(c, d) \/ AnularVenta(c, d)

Next ==
    \/ \E c \in Conexiones : Sigue(c) \/ EnviarConteo(c) \/ Abortar(c)
    \/ \E c \in Conexiones, d \in Documentos : Empieza(c, d)
    \/ \E d \in Documentos : CrearPedido(d)

Spec == Init /\ [][Next]_vars

-----------------------------------------------------------------------------
(* Properties                                                              *)

Operaciones ==
    {"libre", "compra", "recibir", "anularCompra", "produccion", "anularProduccion",
     "conteo", "conteoConBase", "anularConteo", "manual", "cobrar", "merma", "anularVenta"}

\* Types; a connection only holds rows it asked for, and no row of inventario
\* or document is held by two (FOR UPDATE).
TypeOK ==
    /\ stock \in [Productos -> Int]
    /\ \A d \in Documentos :
          /\ docs[d].estado \in {"ausente", "pedido", "vigente", "anulado"}
          /\ \A i \in 1..Len(kardex[d]) : kardex[d][i].delta \in [Productos -> Int]
    /\ \A c \in Conexiones :
          /\ tx[c].op \in Operaciones
          /\ tx[c].fase \in {"libre", "contando", "cabecera", "inventario"}
          /\ tx[c].candados \subseteq tx[c].filas
          /\ tx[c].filas \subseteq Productos
          /\ \A otra \in Conexiones \ {c} : tx[c].candados \cap tx[otra].candados = {}

\* The documents as Almacen sees them.
Almacen ==
    INSTANCE Almacen WITH
        existencia <- stock,
        estado <- [d \in Documentos |->
                     IF docs[d].estado = "pedido" THEN "ausente" ELSE docs[d].estado],
        neto <- [d \in Documentos |-> Suma(kardex[d])],
        Anulables <- {d \in Documentos : ClaseDe[d] \in {"compra", "produccion", "conteo", "venta"}}

\* The stock is the one of the start plus what the documents in force moved;
\* each document moves it once and as a whole, and annulling it (a purchase,
\* a production, a count or a charged account, however its preparations were
\* produced and whatever moved in between) takes back exactly that, once, even
\* if two requests ask for it at the same time.
ImplementaAlmacen == Almacen!Spec

\* The same, as TLC checks it: a step that leaves the three tables leaves what
\* Almacen sees of them, and there is no need to add the movements up.
AlmacenImplementado ==
    /\ Almacen!Init
    /\ [][UNCHANGED <<stock, docs, kardex>> \/ Almacen!Next \/ UNCHANGED Almacen!vars]_vars

\* Only a sale, a loss, the annulment of a sale or a count with base whose
\* stock moved meanwhile may take a product below zero; a product already
\* below zero is only brought back to zero or more.
NuncaBajoCero ==
    [][\A p \in Productos :
          stock'[p] # stock[p] /\ stock'[p] < 0 =>
              \E c \in Conexiones :
                  /\ tx[c] # Libre /\ tx'[c] = Libre
                  /\ \/ tx[c].op \in {"cobrar", "merma", "anularVenta"}
                     \/ tx[c].op = "conteoConBase" /\ tx[c].leido[p] # stock[p]]_vars

\* No count other than d was ever sent.  (Two counts of a product that overlap
\* both find the same difference, and both correct it.)
UnicoConteo(d) ==
    \A e \in Documentos \ {d} : ClaseDe[e] = "conteo" => docs[e].estado = "ausente"

\* A count sent with the stock of when it began (stock_teorico_base) leaves the
\* stock as it really is, whatever was sold, bought or produced while it was
\* being counted, as long as nobody else counts.
ConteoCorrige ==
    \A d \in Documentos :
        /\ docs[d].op = "conteoConBase" /\ docs[d].estado = "vigente"
        /\ UnicoConteo(d)
        => \A p \in ProductosDe(docs[d].lineas) : EnAnaquel(p) = stock[p]

\* c waits for a row (of a document or of inventario) that otra holds.
Espera(c, otra) ==
    \/ /\ tx[c].fase = "cabecera" /\ tx[otra].fase = "inventario"
       /\ tx[c].doc = tx[otra].doc /\ PideCabecera(tx[otra].op)
    \/ /\ tx[c].fase = "inventario" /\ tx[c].filas # tx[c].candados
       /\ Siguiente(tx[c]) \in tx[otra].candados

\* No group of requests in which each waits for a row of another of the group,
\* whatever the order in which the clients listed the products.
SinAbrazoMortal ==
    \A S \in (SUBSET Conexiones) \ {{}} :
        \E c \in S : \A otra \in S \ {c} : ~Espera(c, otra)
=============================================================================
