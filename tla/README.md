# Formal model of the NexoMesa / Inventario backend

TLA+ models of the repository (`src/`: Node.js, Express, PostgreSQL), the
configurations that model-check them with TLC, and theorems about them checked
by TLAPS. `PROJECT.json` maps every definition to the lines it stands for.

## 1. The system

One server program, run as one or more instances, in front of one PostgreSQL
database shared by many companies (`empresa_id` in every query). Outside the
database there are two caches per instance (the active user and devices, the
last purge of empty accounts), the SSE streams of each instance, the print
agents, programs of their own that poll the server, and a script that talks to
the API of another installation. Nearly all concurrency is between transactions:
READ COMMITTED, each statement with its own snapshot, and row locks (`FOR
UPDATE`, `FOR SHARE`, `SKIP LOCKED`) taken by hand.

| Component | State | Operations | Hard behaviour |
|---|---|---|---|
| Accounts (`pos.cuentas.repository.js`) | `pos_cuentas`, `pos_cuenta_items`, `pos_comandas`, `pos_folios` | open, order, change, send, cancel, move, merge, split, discard, charge | lines and kitchen tickets shared by accounts after splitting; numbers and folios given back; a purge that chooses first and deletes later |
| Kitchen screen (`pos.comandas.repository.js`) | `pos_comandas.estado` | change state | several tablets; the states the accounts cancel meanwhile |
| Cash register (`pos.turnos`, `pos.ajustes`) | `pos_turnos`, `pos_pagos`, `pos_devoluciones`, `pos_correcciones_pago`, `ingresos` | open and close a shift, charge, refund, correct a payment | closing while somebody charges or refunds; corrections after the close; lock order |
| Print queue (`pos.impresion.repository.js`) | `pos_impresiones` | enqueue, claim, report, discard, reprint | leases, retries, agents that stop, late and repeated reports |
| Tables, areas (`posConfig.repository.js`) | `mesas`, `areas_preparacion` | configuration | editing a table that is in use; one default area under concurrent changes |
| POS options (`pos.opciones.*`) | option groups | CRUD, validate what was chosen | groups replaced between the two reads of an order |
| Reservations | `reservaciones` | change state, delete, seat | seating twice |
| Idempotency (`utils/idempotencia.js`) | `pos_idempotencia` | reserve key, replay answer | a crash between the commit and saving the answer |
| Real time (`realtime/`) | LISTEN connection, SSE clients | notify, resync | lost notices while reconnecting |
| Inventory, purchases, production, counts | `inventario`, `movimientos`, headers and lines | move, consume, receive, confirm, cancel | ordered locks, stock read before it is locked, reversing what others built upon |
| Recipes and costs (`utils/costeo.js`) | copies of costs in recipes | cascade | two cascades that meet; visiting a preparation twice |
| Categories, suppliers, products | catalogue | rename, merge, delete, write | a check in one statement, a write in another |
| Finance | `ingresos`, expenses, purchases | CRUD, summary | a summary of fifteen queries |
| Session, PIN, invitations, devices (`activeUser.js`, `auth/`, `dispositivos/`) | users, credentials, codes, one cache per instance | log in, invite, pair, revoke | a load racing an invalidation; counters of attempts; single use |
| Server, migrations, scripts (`server.js`, `db/migrate.js`, `scripts/`) | process, `schema_migrations` | stop, migrate, carry a catalogue | two stops at once, two deploys at once, a run that is cut off |
| Pure logic, authorisation, platform, reports | - | - | rounding |

They interact through the rows they share: charging an account writes payments
of a shift, takes stock and enqueues a ticket; sending enqueues comandas;
closing a shift creates `ingresos`; opening an account seats a reservation;
receiving a purchase moves stock and starts a cascade of costs.

What makes each one correct, in short: an account keeps what was ordered and
sent until it is charged, alone at its table; the kitchen is told to prepare
what somebody waits for, and nothing else; each sale is in one shift and in
Finance with the same amount; each print job comes out or somebody is told;
stock is what its documents in force add up to; costs are those of the last
purchase in force; a request repeated has one effect; who was shut out does not
enter for longer than a known time; no screen keeps an old state for ever.

## 2. Modules

| Module | Models | Instance | Theorems |
|---|---|---|---|
| `CuentasPos` | accounts, lines, comandas, folios, tables, reservations | `MCCuentasPos` | `CuentasPosProofs` |
| `LibroCaja` | what the cash register promises: a ledger | | |
| `CajaPos` | shifts, charges, refunds, corrections and closing, statement by statement; implements `LibroCaja` | `MCCajaPos` | `CajaPosProofs`, `CajaRunProofs` |
| `ColaImpresion` | the print queue and what it counts on of the agents | `MCColaImpresion`, `Entregas` | `EntregasProofs` |
| `Eventos` | the notices of one instance: LISTEN, its falls, the SSE streams | `Entregas` | `EntregasProofs` |
| `Idempotencia` | one key: reserved in the transaction, answered after the commit | `Entregas`, `Servicios` | `ServiciosProofs` |
| `Cierre` | how a process ends: signals, uncaught errors, deadlines | `Entregas` | `EntregasProofs` |
| `Almacen` | what the stock promises: each document applied once, reverted once | | |
| `Preparaciones` | which preparations a consumption needs, and in which order | | |
| `Inventario` | movements, purchases, productions, counts and sales under row locks; implements `Almacen` | `MCInventario`, `Operacion` | `InventarioProofs` |
| `PlanProduccion` | suggestions and the plan of production | `MCServicios` | |
| `Costeo` | the cost of products and recipes, whole operations | `Servicios` | `ServiciosProofs` |
| `Cascadas` | the same cascades, statement by statement, several at once | `Servicios` | `ServiciosProofs` |
| `Sesion` | who is let in: the caches of the active user and of devices | `Servicios` | `ServiciosProofs` |
| `Pin` | attempts with a PIN and its administration | `Servicios` | `ServiciosProofs` |
| `Canjes` | codes and links of one use | `Operacion` | `OperacionProofs` |
| `Finanzas` | the books and the summary, query by query | `Servicios` | `ServiciosProofs` |
| `Catalogo` | categories, suppliers, and the products that refer to them | itself, `Servicios` | `ServiciosProofs` |
| `Areas` | the default preparation area | `Operacion` | `OperacionProofs` |
| `Opciones` | groups of options and what an order takes of them | `Operacion` | `OperacionProofs` |
| `Migraciones` | the runner of migrations, several at once | `Operacion` | `OperacionProofs` |
| `MigrarCatalogo` | the script that carries a catalogue to another installation | `MCMigrarCatalogo`, `Operacion` | `OperacionProofs` |
| `Operacion` | the stock and five parts that share no row with it, put together with any constants | `MCOperacion` | `OperacionProofs` |
| `Entregas` | what has to arrive or to end: `ColaImpresion`, `Eventos`, `Idempotencia` and `Cierre`, put together with any constants | `MCEntregas` | `EntregasProofs` |
| `Servicios` | `Idempotencia`, `Sesion`, `Pin`, `Finanzas`, `Catalogo`, `Costeo` and `Cascadas`, put together with any constants | `MCServicios` | `ServiciosProofs` |
| `Sumas` | the SUM of a query | | `SumasProofs` |

An action is named after the method it models; where a method is several
actions, each is a statement or a step after which others may run. Throughout:

* *Transactions.* What a transaction writes is seen by nobody before it
  commits; a row it wrote or locked makes others wait (their action is not
  enabled). A statement that had to wait looks again at the row, and only at
  that row, as READ COMMITTED does (`TomarMiTurno` in `CajaPos`,
  `SigueSirviendo` in `Canjes`). An entry of a unique index that is not
  committed makes another INSERT wait.
* *Data.* Names, prices that nothing is computed from, wording and layout are
  left out. Costs, stock and money are whole numbers of the smallest unit.
* *Time* is a choice: what a lease, a pause, a TTL or an expiry allows may
  happen before or after it.

### CuentasPos

Rows are records in functions from ids. One action per operation, whole: every
operation of `pos.cuentas.repository.js` is one transaction whose first
statement locks the account (`#bloquear`), `abrirCuenta` and `cambiarMesa` lock
the table before looking whether it is free. Three things are taken apart: the
purge (`#purgarVacias`: `PurgaSeleccionar`, `PurgaDescartar`), which chooses
accounts in a query of its own and discards them later; a request of several
lines (`agregarItems`), one action per line, which allows more orders than the
code has and none less; and the cancellation of a line, which locks the account
only, while a split leaves one comanda with lines of two accounts.
`CancelarItem` is the transaction up to the statement that asks whether the
comanda has another live line, `ConfirmarCancelacion` its commit: between them
the account is locked (`cancelando`, `Suelta`), what was seen is kept (`quedan`),
and another account may do the same without either seeing the other. `raiz` and
`cruzada` are history: the account an account was first split from, and a comanda
whose last line was cancelled by a transaction that had seen another one alive.
Discounts and notes are kept as "has some" (they keep lines apart).

### CajaPos and LibroCaja

Each connection runs one transaction: `tx` says where it is and what it has
read, `candados` which row locks it holds. Its writes are one last step, and
`Abortar` may end it before. `LibroCaja` is the specification a bookkeeper would
write: no locks, no transactions, totals kept by increments. The refinement
mapping gives the cash and the sales of a shift, while open, from the queries of
the summary and, once closed, from the frozen summary, the later corrections and
the income rows of Finance. So `CajaEsLibro` says that closing a shift changes
nothing of what it sold, that a sale enters an open shift only, and that a
refund or a correction moves the frozen and the live side by its own amount, in
whatever order the transactions run.

### Inventario, Almacen, Preparaciones

A request is a transaction statement by statement: it locks the row of its
document (where the operation does so), then the rows of `inventario` in the
order of the code, reading the stock of each as it gets the lock, and writes
stock as an absolute value. A sale decides its automatic production from a
reading made before the locks (`aplicarConsumo.js`). `Almacen` has no locks and
no phases: a document changes the stock once, as a whole, and its cancellation
takes back what it changed. The mapping takes the documents in force from the
movements. A production is a list of batches, each perhaps followed by what it
really yielded; purchases and productions apply their lines one by one, so the
stock must reach at each of them (`Pasos`) and not only at the end. `Preparaciones`
has the pure functions (consumption through
preparations, order of the steps), used by `PlanProduccion` too.

### Costeo and Cascadas

`Costeo` runs each operation alone, over preparations nested in preparations,
with the rows of an UPDATE in any order; the two functions of the cascade, which
call each other, are a stack of the recipes left to recalculate in each call.
`Cascadas` runs two at once, statement
by statement, over two purchased products, a preparation and a dish.

### Sesion, Pin, Canjes

`Sesion` is one instance with its two caches, a clock in fractions of the TTL,
and one person with a base company, a shared company and a device; a write of
another instance is one whose invalidation never comes. `Pin` has every query of
an attempt as a step, since nothing there is in a transaction; the failures are
counted by device and age, and each `Tic` makes every row older, so they leave the
windows one by one as in the code. A device that never goes 300 s without a failure
may therefore be given more wrong PINs than `max` over time; what the code does
bound, and `IntentosAcotados` states, is how many there are in one window. In
`Canjes` the
UPDATE that redeems a code is two steps, finding its row and looking again at
the row it locked; the links of invitations are transactions with the hash of
the password in the middle.

### ColaImpresion, Eventos, Idempotencia, Cierre

A claim of print jobs is two statements outside a transaction (`Rendir`,
`Tomar`); the agent is external (`Imprimir`, `Caida`, `Perder`) and a report may
be handled twice. `Eventos` keeps the promise of the opening apart from the
connection, because a fall while opening lets an older promise forget a newer
one. `Idempotencia` lets a server stop between any two steps and each statement
fail. `Cierre` runs `cerrarTodo` for the signals and for uncaught errors, each
with its flag and deadline, over requests and streams that owe nothing.

### The rest

`Finanzas`: a change of a row reads and writes in two statements; the summary is
its queries in any order. `Catalogo`: checks and writes in statements of their
own, the trigger of migration 028, and the foreign key of suppliers.
`PlanProduccion`: somebody follows a plan to the letter. `Areas`: the default
moves with one UPDATE under a partial unique index. `Opciones`: an order reads
groups and options in two statements, and an edit brings entries that may name an
option twice (`entradas`), which the code compares with the maximum and writes one
over the other; `menus` and `repetidos` are history, the menus there were while a
line was read and the groups whose last edit did so. `Migraciones`: the runner owns the transaction of each file, and
"mark" writes rows without running anything. `MigrarCatalogo`: one request at a
time, each may be refused, or its answer lost, and another run follows.

`Operacion`, `Entregas` and `Servicios` are generic: what their parts need of
their constants is in named assumptions, and their `MC` modules give values. So
the theorems of `OperacionProofs`, `EntregasProofs` and `ServiciosProofs` are
about the very specifications that the runs check (`MCServicios` adds one part,
the plan, during which `Servicios` does nothing: its behaviours are behaviours of
`SpecServicios`).

## 3. Runs

Components that share no row are checked together where they are small: one
module holds the variables of several, `parte` says which one a behaviour
exercises, chosen at the start, and the others stay as they began. The reachable
states are the union of theirs, and a property of the run is the one of the part
(its name in that module is given below when it differs).

| Run | Question | Distinct states |
|---|---|---|
| `Cuentas` | Parts `mesas`, `obra`, `reserva`, `cocina`, `cancelaciones`, `sala`: can folios, tables, reservations or references go wrong by opening, moving, splitting, merging, discarding and purging; do the numbers and pieces of the kitchen, and what is charged, survive splitting, merging and cancelling? | about 495 thousand |
| `Caja` | Parts `cruces` (three concurrent transactions), `dinero` (tips, mixed payments, a courtesy account, a fund) and `propinas` (tips handed out): does the money agree, and is there a deadlock? | about 320 thousand |
| `Entregas` | Parts `cola`, `eventos`, `eventosLleno`, `idempotencia`, `cierre`: does what has to arrive, or to end, do so? | about 255 thousand |
| `Servicios` | Parts `idempotencia`, `costeo`, `cascadas`, `sesion`, `pin`, `finanzas`, `catalogo`, and the plan of a production: is a request done once, do the limits and delays hold, are the figures those of the rows? | about 930 thousand |
| `Operacion` | Parts `inventario`, `migraciones`, `canjes`, `areas`, `opciones`, `migrar`: is the stock that of its documents, is each thing done once, is there always a default area, is what was ordered on the menu, does a migration that reports success leave nothing out? | about 440 thousand |
| `CuentasPurga` | Does the purge only free empty accounts, as API.md says? No. | counterexample |
| `CuentasDividida` | Is a comanda cancelled only when nothing of it is left, as API.md says? No. | counterexample |
| `CuentasCruzadas` | Does a comanda become cancelled when nothing is left to prepare, as the code's comment and API.md say? Not when its last lines are cancelled at once. | counterexample |
| `ColaReimpresion` | Is every reprint closed as printed one that came out, as migration 032 says? No. | counterexample |
| `CategoriasHuerfanas` | Can no product keep a category that is not in the list, as README.md says? It can. | counterexample |
| `CascadasCruzadas` | Is the total of a recipe the sum of its refreshed copies, as API.md says? Not always. | counterexample |
| `MigrarRepetida` | Does repeating the migration duplicate nothing, as DESPLIEGUE.md says? It does duplicate. | counterexample |

### Properties

* Accounts. `FoliosSanos`, `MesaUnaFamilia`, `ReservaUnaCuenta`,
  `SinReferenciasColgantes`, `NumerosPorCuenta`, `CobradaTodoEnviado` relate rows
  of several accounts; `PiezasPorComandaFijas`, `LoEnviadoNoSePierde`,
  `CuentaCerradaCongelada` say what no step may do. `PorPrepararConDestino`: the
  kitchen prepares what somebody waits for; the one exception, a comanda whose last
  two lines were cancelled by transactions that did not see each other, is the
  finding of `CuentasCruzadas`.
* Cash. `FinanzasCuadra` (`IngresosCuadran`) and `ResumenExplica`
  (`CorteExplicaIngresos`): the three places where the money of a shift is
  written agree. `NadieSeEspera` (`SinAbrazoMortal`): no cycle of transactions
  waiting for one another. `CajaEsLibro` (`ImplementaLibro`): refinement.
* Deliveries. `EntregasContadas`, `LoImpresoNoVuelve`; `NadieQuedaAtras`: a
  screen with an old state has something on its way (`NadieOlvidado`), and a
  process that ends well, or closes the database, left no request halfway
  (`EsperaALasPeticiones`). Liveness: `TodoTrabajoTermina`, `TodosSeEnteran`,
  `TodasTerminan` (every petition with a key gets an answer; every process told
  to stop ends, `SiempreTermina`).
* Services. `UnSoloEfecto`; `CostoDeLaUltimaCompra` and
  `CopiaViejaSoloTrasRombo` (every copy and total is up to date, but below a
  diamond of preparations, which the code visits once); `CopiasAlDia` and
  `LasLineasNoSeTraban` with two cascades at once (the lines of purchases, taken
  in order, are never what makes transactions wait in a circle: a circle has the
  edition of a product in it, or one of cascades alone inside); `RevocacionAcotada` (nothing
  that was revoked lets anybody in after the TTL and the waits in flight);
  `IntentosAcotados`, `PinQuitadoFuera`; `ResumenCuadra` (a summary is off by at
  most what moved between its queries); `HistorialConProveedor`; `PlanAlcanza`
  (a plan that is followed is never short of an ingredient).
* Operation. `AlmacenImplementado` (`ImplementaAlmacen`), `NuncaBajoCero`,
  `ConteoCorrige` (a count corrects what was off, whatever happened since it
  began), `SinAbrazoMortal`;
  `UnaSolaVez` (`AplicadaUnaVez`, `EnOrden`, `CanjeUnico`);
  `SiemprePredeterminada`; `OpcionesCoherentes` (`GruposSirven`,
  `TomadoDeUnMenu`; that a group has as many options as its maximum is promised
  of those whose last edit named each option once, see below); `MigracionCompleta`.

`TypeOK` is checked where it says something (`Cuentas`: a line never goes
past the cap, a remainder is at least one piece) and is what `TypeCorrect`
proves; the type predicates of `CajaPos`, `ColaImpresion`, `Inventario` and
`Idempotencia` document their variables.

### Bounds, and why they are enough

* Accounts: three are needed for two to share a comanda, or a table, while a
  third one enters; two lines and two comandas for one comanda to outlive the
  other and for a merge to renumber; `MaxCantidad` 2 gives a part and a
  remainder. `MaxFolio` is the number of accounts there can be, `MaxPurga` how
  many a purge selects (they are discarded independently). Each part has what its
  question needs: `mesas`, `obra` and `reserva` serve from a counter, without
  comandas; `cocina`, `cancelaciones` and `sala` have no tables. In `cocina` three
  accounts share comandas, and nobody may cancel what was sent; in `cancelaciones`
  two do, and a supervisor may; `sala` has one account with two courses, notes,
  discounts and an article without a comanda.
* Cash: a cycle of locks needs two transactions and a third to bring another
  shift in; one cent tells a payment counted from one that was not.
* Print queue: jobs are independent rows, so one is enough; two agents, for a
  claim between the statements of another. `MAX_INTENTOS` is 3 (5 in the code),
  `MaxVueltas` bounds reprints. The guard `DeMas` leaves out a claim slower than
  its lease more than once in a row.
* Notices: two tabs, with room for both and pushing each other out; two falls,
  one cut stream, one stop. Idempotency: three petitions of two bodies, two
  crashes. End of a process: two requests and a stream.
* Stock: two purchased products and a prepared one, seven documents of all
  classes with a second count, `MaxDocumentos` 3 of them in a behaviour, two
  connections: a cycle of two and a document between the phases of another. The
  production has a batch with its real yield, or two batches of which the first
  yielded nothing.
* Costs: `MaxCompras` 3, so that a cancellation has a purchase before and after
  it; two preparations and a dish over both (the diamond). Cascades: two
  connections, prices 1 and 2.
* Session: TTL of 2 ticks, `MaxEspera` 1, one write, two tokens. PIN:
  two attempts at once, `MaxEquipo` 2, `MaxDuro` 3, two definitions; `Enfria` 2,
  `Ventana` 3, `Hora` 4 ticks, the least with which a failure leaves the 15 minutes
  while another keeps the device warm, and still counts in the hour.
* Finance: `MaxCambios` 2, one account, an expense and a purchase; a summary is
  abandoned once more than `MaxMovido` 2 cents moved. Catalogue: two
  connections, two categories, names and suppliers. Plan: three preparations
  nested, all stocks of -1 to 1, `MaxLotes` 2.
* Codes: an agent, a device, two requests, `MaxCodigos` 2. Areas: the two seeded
  ones and a third, two connections. Migrations: three files, one with a
  transaction of its own, two runners. Options: two groups that dispute three
  options, five contents, of which one asks for more than it offers and is refused,
  and one names its only option twice.
* Migration of a catalogue: `Pagina` 1 stands for the 50 rows of a page, so that
  two products are more than a page; `MaxCorridas` 2, `MaxFallos` 2.

Symmetry is declared over ids only (accounts, lines, comandas, tables, shifts,
connections), never in the run with liveness properties. The runs over documents
and shifts end when these are used up, so `CHECK_DEADLOCK FALSE` there; waiting
in a circle is an invariant computed from the locks.

### Fairness

* `ColaImpresion`: `Vencer` (time passes, so a lease runs out; strong, because
  `DeMas` may disable it while a claim is between its statements), `Rendir` and
  `Tomar` (an agent keeps polling; without one `TodoTrabajoTermina` asks
  nothing). Nothing is assumed of printing, reporting or the network: a job
  terminates because the server gives up.
* `Eventos`: the event loop delivers, the opening ends, the retry timer fires, a
  browser whose stream ended connects again and reads when told, a stopped
  process is replaced (as its orchestrator does).
* `Idempotencia`: a petition goes on as long as its server lives.
* `Cierre`: Node fires the two deadlines and calls back what has finished. Not
  assumed: that a request, a stream or the database ever finishes.

### Findings

1. `CuentasPurga`: the purge discards an account by id without looking again
   whether it is empty; a line ordered in between is deleted.
2. `CuentasDividida`: `cancelarCuenta` cancels every comanda its lines refer to,
   also those shared with an account that was split from it and is still open.
3. `CuentasCruzadas`: `cancelarItem` locks its account only; two accounts that
   share a comanda and cancel its last lines at once each see the other's, and
   the comanda stays to be prepared with nothing in it.
4. `ColaReimpresion`: a report names the job only; a late report of the first
   print closes a reprint as printed before it came out, and if it then fails
   its report is refused.
5. `CategoriasHuerfanas`: the trigger looks the category up without locking it;
   a rename or deletion that commits before the product does leaves the product
   with a name out of the list.
6. `CascadasCruzadas`: `recalcularCostoTotal` adds up in one statement and
   writes in another; of two cascades that meet, the second writes a total
   without the first's change.
7. `MigrarRepetida`: the script takes one page of active rows for all there is;
   a second run creates again the products beyond it.

Met while modelling, without a run of their own:

* an edit of a group of options that names one option twice is accepted with a
  maximum of two, since `#validarDatos` compares it with the entries of the request
  (`pos.opciones.repository.js:62`) and `pos.schema.js:65` does not forbid
  repeats, and `#guardarHijos` updates the one option twice: with a minimum of two
  as well, the group is on offer and no order can satisfy it, against the
  «`maximo` ≥ 1 y ≤ nº de opciones» of API.md:471. The model accepts such edits and
  reaches that state; it is the case that `GruposSirven` sets apart by `repetidos`;
* a product created inactive at the destination and cut off before it is switched
  off stays active: a later run omits it as already there and reports no error.
  `MigracionCompleta` speaks of the plan of each run and does not see it;
* a claim whose lease runs out between its two statements hands a job out once more
  than the maximum; `EntregasContadas` counts that every delivery after the first
  used an attempt, and does not forbid it;
* two invitations of one user at once leave two links that work
  (`crearInvitacion` deletes and inserts in two statements); each works once;
* two counts with base of one product that overlap: both correct the same
  difference, and the stock ends up wrong by it. `ConteoCorrige` asks that no
  other count was sent (`UnicoConteo`);
* an area created before the company's seeds leaves it without a default one;
* a signal that arrives while a process closes after an uncaught error runs
  `cerrarTodo` again, does not wait for the requests (the server listens no
  more) and may end the process with code 0;
* a stream accepted while `cerrarEventos` waits is not ended, and holds the
  orderly stop until its deadline of ten seconds.

### Hazards without a property

* The check that no account with lines is open when a shift closes locks nothing
  (`pos.turnos.repository.js:155`). What matters of it, that the sale enters an
  open shift, is checked.
* A reprint from `ERROR` keeps its number (`pos.impresion.repository.js:395`):
  whether it prints twice depends on the agent's memory, which is not here.
* The check of an atypical cost reads outside the transaction
  (`compra.repository.js:207`); it only asks for a confirmation.

## 4. Proofs

TLC checks small instances; the theorems below hold for any constants that meet
the named assumptions of the modules (`ConstantesAssumption`, `CajaAssumption`,
...), which say what the code or the schema guarantees (ids differ from `NULL`,
a bound is a natural) and that what is added up or put in order is finite. TLC
evaluates each assumption in a run. `PROJECT.json` lists the theorems.

Every safety theorem goes the same way: an inductive invariant that holds at the
start, is kept by every step (one lemma per action, or per kind of step) and
implies the property. What each one had to add to the property is what the code
relies on:

* **Accounts** (`CuentasPosProofs`). `TypeOK` is inductive (a line stays below
  its cap, a remainder has a piece, a folio given back was at least 1); with it goes
  `Candado` (`BaseInvariante`): a line being cancelled was sent and is of the open
  account whose lock is held, so that its commit finds it as it was. The dining
  room, `SalonInv`, is `FoliosSanos` (whose bound, no folio ahead of the counter, is
  what keeps the next one new), `MesaUnaFamilia` and `ReservaUnaCuenta`. The
  kitchen, `CocinaInv`, adds two facts to `SinReferenciasColgantes`,
  `NumerosPorCuenta`, `PorPrepararConDestino` and `CobradaTodoEnviado`: a pending
  line has no comanda (or sending could steal a line of another comanda), and a
  comanda still to be prepared has no line in a cancelled account (or deleting
  that account could leave the comanda with no destination). All
  actions but the split do one of six things to each line (`Pasa`); a conjunct
  needs of a step only what it did to lines, accounts and comandas, so each is
  proved once for all of them. From the same description come the action
  properties `CuentaCerradaCongelada`, `LoEnviadoNoSePierde` and
  `PiezasPorComandaFijas`.
* **Cash register** (`CajaPosProofs`). `IInv`: the rows a transaction has locked
  are those its statement implies, nobody else has them, and what it read of a
  locked row is still so (`CandadosDeTx`, `Exclusion`, `VistoVigente`); with that,
  a sale cannot reach a shift between the queries of its closing and the commit,
  and the sums of `IngresosCuadran` and `CorteExplicaIngresos` move by the same
  amount on both sides. `SinAbrazos`: who asks for the
  shift of a sale holds nothing that others want, and who then finds an open shift
  waits only for somebody who waits for nobody, because whoever holds an open shift
  to write it wants no other (`EsperasBien`); so a step that leaves a transaction
  waiting closes no circle. `CajaImplementaLibro`: each step is one
  entry of `LibroCaja` or none, under the mapping of section 2.
* **Stock** (`InventarioProofs`). `Inv` says of each request that it agrees with
  its operation (`Sana`), whose turn it is on a document (`Turno`: a document
  being made is known to one request only; who locked it saw it in a state that
  lasts), and that the rows it has locked are the lowest it needs, are only its
  own, and still have the stock it read (`Candados`); and of each document, what
  its movements add up to (`Papel`). `InventarioSinAbrazos`: in a circle,
  take the greatest row awaited; who holds it waits for another, and asks for rows
  in ascending order. `InventarioImplementaAlmacen` is the refinement: an
  annulment's movements are the opposite of what is in force, so a document ends
  up moving nothing. `StockBajoCero` is the action property on negative stock.
  `ConteosCorrigen` needs one invariant more, `ConteoInv`: what a count in
  progress has counted, less what it read at its start, is what was off then, and
  it is still off until the count is applied.
* **The parts of `Entregas`** (`EntregasProofs`). `IInv` of the print queue: a job
  that waits has an attempt left, one being printed is on its last at most, and a
  claim between its two statements finds no job past its last attempt. `EvInv`: a
  client has one stream at most and is inside (`FilaDeFlujos`), and nobody gets past
  the wait for the connection that listens while it is down, unless its fall left
  the mark that makes the next opening tell everybody (`CaidaMarcada`); so
  `NadieOlvidado` is kept. `CiInv`: as long as no error was left uncaught only the
  handler of the signals is at work, and each of its steps finds the server, the
  requests and the database as the one before left them (`SoloLaSenal`).
* **The parts of `Servicios`** (`ServiciosProofs`).
  * *Idempotency*, `IInv`: a row of the key that is not committed is of a petition
    in its transaction, and the committed one is of the only effect there is; what
    a petition read of the row is still so when it answers.
  * *PIN*, `PinInv`: a removed PIN is never defined again, and who read it before
    the removal holds an old token version (`SinElQuitado`); until the block there
    is room below the limit of the hour for all but those who have compared and not
    gone (`PresupuestoDuro`), and on each device the failures since it last cooled,
    with those about to be compared and written, stay below its limit plus the
    attempts (`PresupuestoDeEquipo`). Time and a right PIN only lower the sums
    (`MasViejos`: the rows of a window are some of those of the one before).
  * *Session*, `SesInv`: on an entry, or in the hands of a request, a fact that is
    said to hold stopped holding no longer ago than the age of the entry and the
    waits since it was read (`CacheBien`, `EquiposBien`, `PeticionesBien`).
    `RevocacionAcotada`, an action property, follows at the step that lets in.
  * *Finance*, `FinInv`: what a summary has read so far, and what it would read
    now of the rest, differ from the books by no more than what has moved since
    it began (`DesvioDelFlujo`, `DesvioDeVentas`, `DesvioDelCorte`), and a closing
    holds what was charged until then (`CorteCuadra`).
  * *Catalogue*, `CatInv`: a product written and not committed holds the row of its
    supplier by the foreign key, so the supplier is there (`EscritosConProveedor`).
  * *Costs*, `CosInv`: the cost of each bought product is the price of its last
    purchase in force. The cascade is passed through stage by stage: it writes the
    cost of what preparations make, and never of what is bought.
  * *Cascades*, `CasInv`: the rows of `inventario` a purchase has still to take go
    up, are past those it holds and come before the product of the same line
    (`EnLineas`); whoever holds a bought product holds its row of `inventario`;
    cascades take only rows of recipes and of what they make (`DeCascada`); and a
    row has one owner. `LasLineasNoSeTraban`: the greatest line awaited in a
    circle belongs to somebody who waits for a greater one.
* **The parts of `Operacion`** (`OperacionProofs`). `MiInv`: a run holds the row of a
  file between writing it and its COMMIT, while the row is not in the table yet; no
  two runs hold the same row, and every file a run does not have ahead of it is in
  the table. `CjInv`: a code is in one row at most, and in none once accepted; a
  revoked device has none; a link being accepted is there and unused, and one
  request only has it; there are as many passwords as used links. `ArInv`: the
  rows that two transactions hold or have written are disjoint; a change holds its
  own row, as it read it, and no other unless it is to be the default; once one has
  written a default there is no other, in the table or on its way.
  `OpInv`: what a line has read so far is part of one of the menus there have
  been; a group on offer has the active options of its last edit, which are as many
  as the entries of that edit unless it named one twice. `MgInv`: the list of names
  a run trusts is still of the destination, and what it has finished with is there
  as long as it noted no error. The stock brings its own (`Inv`, `ConteoInv`).

The runs put several instances together; `CajaRunProofs`, `OperacionProofs`,
`EntregasProofs` and `ServiciosProofs` prove the properties of the run, of the
specification that puts them together (`SpecServicios` is `SpecTodo` of the run
without the plan): each instance's constants meet the assumptions of its module, a
step is one of the part that runs (`PasoDeParte`, `PasoDeServicios`), and the invariant of that
part is kept. The assumptions are those of `Operacion`, `Entregas` and `Servicios`,
with what in the code makes them so beside each: a TTL and limits that are not 0,
whole cents, what a preparation makes is not bought, ids that are numbers.

Two techniques stand for the induction over data that the prover does not have:

* *Sums.* `SumasProofs`: if a fact on sums failed for a finite set, it would fail
  for a smallest one of its subsets (`Minimo`), and a fold
  is defined by what it does to one element. So a sum is a number, depends on its
  set only, moves by what one term moves, and splits over classes.
* *Recursive passes* (the steps of a production, the reversals of a document, the stages of
  a cascade of costs) are
  recursive functions over the places of a sequence (`Recorre`, in
  `SumasProofs`); that they exist and have a type is shown in the same way, from
  the first place where they would not.

Only model-checked, and why:

* Liveness (`TodoTrabajoTermina`, `TodosSeEnteran`, `TodasTerminan`): fairness and
  `ENABLED` are out of the prover's reach.
* `CopiaViejaSoloTrasRombo`, `CopiasAlDia`: what a cascade has written when it
  ends depends on it having reached every recipe above, an induction over the graph
  of recipes. The second also depends on the graph: it is checked on one with no
  diamond of preparations, below which the code leaves old copies (section 3).
* `PlanAlcanza`: `PlanProduccion` goes down the recipes with a RECURSIVE operator,
  and that a plan suffices is again an induction over their graph.
* The counterexamples of section 3: they are what does not hold.
* What `Preparaciones` computes (that its order visits every preparation after
  those it needs): the theorems about the stock hold for whatever it returns.

## 5. Not modelled

* Reports and analysis, listings, and the reading side of each repository:
  queries that change nothing.
* Controllers, schemas and routes: validation of shapes, permissions by role,
  wording of answers.
* Data without a protocol: name and persons of an account, tables' data, printing
  flags, printers, expense categories, roles, companies, the activity log,
  changing and resetting a password by its owner.
* The rounding of totals and discounts in `pos.logic.js` (amounts here are whole
  and given).
* Several companies in one database: every query filters by `empresa_id`, and
  row-level security is the database's.
* The audits, the backup and the import of products: run alone, by hand, I/O.

## 6. Plan

1. `CuentasPos`, `LibroCaja`, `CajaPos`, `ColaImpresion`, and the three
   invariants of the dining room proved. **Done.**
2. The stock and its documents, costs, plan; idempotency, notices and the end of
   a process; sessions, PIN and codes; finance and catalogue; areas, options,
   migrations. **Done.**
3. Proofs of the accounts, the cash register, the stock, and the parts of
   `Operacion`, `Entregas` and `Servicios`. **Done.**
4. `CopiaViejaSoloTrasRombo` and `PlanAlcanza` for any graph of recipes, with the
   order of the graph given as a constant.
5. The rounding of `pos.logic.js` against a reference.
