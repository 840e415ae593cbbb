----------------------------- MODULE CuentasPos -----------------------------
(***************************************************************************)
(* Life of the accounts of a restaurant ("cuentas"): their folio, their    *)
(* table, their lines ("renglones"), and the kitchen tickets ("comandas")  *)
(* the lines are sent with.  One empresa (tenant) is modelled: every query *)
(* of the code filters by empresa_id.                                      *)
(*                                                                         *)
(* Every operation of pos.cuentas.repository.js runs in one transaction    *)
(* that first locks the row of the account (FOR UPDATE), so each is one    *)
(* atomic action here, with two exceptions.  The purge of empty accounts   *)
(* chooses them in a query of its own, without locks, and discards them    *)
(* later one by one.  Cancelling a line looks at the other lines of its    *)
(* comanda, which may be of another account that this one does not lock:   *)
(* what it saw and its commit are two actions.                             *)
(*                                                                         *)
(* Left out, because another module has it: the payments and the shift     *)
(* (CajaPos) and the print jobs (ColaImpresion).  Names, prices, persons   *)
(* and the text of the notes are data.                                     *)
(***************************************************************************)
EXTENDS Integers, FiniteSets, Functions, Sumas

CONSTANTS
    Cuentas,        \* ids of pos_cuentas rows (an id is reused once its row is deleted)
    Renglones,      \* ids of pos_cuenta_items rows
    Comandas,       \* ids of pos_comandas rows
    Mesas,          \* tables
    Reservas,       \* reservations
    Articulos,      \* an article with its options and its diner: what makes two lines mergeable
    AreaDe,         \* preparation area each article is sent to
    ConPantalla,    \* areas shown on the kitchen screen (area.pantalla and usa_pantalla_cocina)
    ConPapel,       \* areas that print their comandas (area.imprime)
    Tiempos,        \* courses a line may be served in
    Notas,          \* whether the lines ordered carry notes: a set of Booleans
    MesasEditables, \* tables an administrator changes or deletes meanwhile
    Rebajas,        \* whether a supervisor gives a discount or takes it off: a set of Booleans
    MaxPurga,       \* bound of the model on the accounts one purge selects
    MaxCantidad,    \* pieces a line may hold (MAX_CANTIDAD, 99 in the code)
    MaxFolio,       \* bound of the model on the folio counter
    HaySupervisor,  \* whether somebody who may authorise is at hand
    NULL

ASSUME ConstantesAssumption ==
    /\ NULL \notin Cuentas \cup Renglones \cup Comandas \cup Mesas \cup Reservas
    /\ DOMAIN AreaDe = Articulos
    /\ IsFiniteSet(Renglones)
    /\ IsFiniteSet(ConPantalla \cup ConPapel)
    /\ Notas \subseteq BOOLEAN
    /\ Rebajas \subseteq BOOLEAN
    /\ MaxPurga \in Nat
    /\ MesasEditables \subseteq Mesas
    /\ MaxCantidad \in Nat \ {0}
    /\ MaxFolio \in Nat
    /\ HaySupervisor \in BOOLEAN

VARIABLES
    cuentas,        \* pos_cuentas
    renglones,      \* pos_cuenta_items
    comandas,       \* pos_comandas
    ultimoFolio,    \* pos_folios.ultimo
    mesas,          \* mesas: state of each table
    reservas,       \* reservaciones: state of each reservation
    candidatas      \* accounts a purge in progress selected and has not discarded yet

vars == <<cuentas, renglones, comandas, ultimoFolio, mesas, reservas, candidatas>>

-----------------------------------------------------------------------------
EstadosCuenta == {"ABIERTA", "PAGADA", "UNIDA", "CANCELADA", "ANULADA"}
EstadosRenglon == {"PENDIENTE", "ENVIADO", "CANCELADO"}
PorPreparar == {"NUEVA", "EN_PREPARACION", "LISTA"}
EstadosComanda == PorPreparar \cup {"ENTREGADA", "CANCELADA"}
EstadosMesa == {"ACTIVA", "INACTIVA", "BORRADA"}
EstadosReserva == {"pendiente", "confirmada", "sentada", "no_show", "cancelada"}

\* Comanda states each target state may be reached from.
DESDE == [EN_PREPARACION |-> {"NUEVA", "LISTA"},
          LISTA          |-> {"NUEVA", "EN_PREPARACION"},
          ENTREGADA      |-> {"LISTA"}]

\* A row that does not exist.
SinCuenta == [estado |-> "LIBRE", folio |-> 0, mesa |-> NULL, reserva |-> NULL,
              unidaA |-> NULL, divididaDe |-> NULL, raiz |-> NULL,
              sigComanda |-> 1, autorizada |-> FALSE, cancelando |-> NULL, quedan |-> FALSE]
SinRenglon == [cuenta |-> NULL, art |-> NULL, cant |-> 0, estado |-> "LIBRE",
               comanda |-> NULL, tiempo |-> 0, nota |-> FALSE, rebaja |-> FALSE]
SinComanda == [cuenta |-> NULL, numero |-> 0, estado |-> "LIBRE", papel |-> FALSE,
               cruzada |-> FALSE]

\* `raiz` is history: the account an account was split from, its root over
\* several splits, itself otherwise.  `autorizada`: pos_autorizaciones has a
\* row for the account.  `cancelando`: the line a transaction that holds the
\* lock of the account is cancelling; `quedan`: it saw another live line in the
\* comanda of that one.
TipoCuenta ==
    [estado : EstadosCuenta, folio : 1..MaxFolio, mesa : Mesas \cup {NULL},
     reserva : Reservas \cup {NULL}, unidaA : Cuentas \cup {NULL},
     divididaDe : Cuentas \cup {NULL}, raiz : Cuentas, sigComanda : Nat \ {0},
     autorizada : BOOLEAN, cancelando : Renglones \cup {NULL}, quedan : BOOLEAN]

\* `rebaja`: the line has a discount or a courtesy.
TipoRenglon ==
    [cuenta : Cuentas, art : Articulos, cant : 1..MaxCantidad,
     estado : EstadosRenglon, comanda : Comandas \cup {NULL}, tiempo : Tiempos,
     nota : BOOLEAN, rebaja : BOOLEAN]

\* `cruzada` is history: while it was still to prepare, its last live line was
\* cancelled by a transaction that had seen another one, cancelled meanwhile.
TipoComanda ==
    [cuenta : Cuentas, numero : Nat \ {0}, estado : EstadosComanda, papel : BOOLEAN,
     cruzada : BOOLEAN]

-----------------------------------------------------------------------------
Libre(c) == cuentas[c].estado = "LIBRE"

AbiertaOPagada(c) == cuentas[c].estado \in {"ABIERTA", "PAGADA"}
Abierta(c) == cuentas[c].estado = "ABIERTA"

\* No transaction holds the lock of the account.
Suelta(c) == cuentas[c].cancelando = NULL

OcupadaSinDividir(m) ==
    \E c \in Cuentas : Abierta(c) /\ cuentas[c].mesa = m /\ cuentas[c].divididaDe = NULL
Ocupada(m) == \E c \in Cuentas : Abierta(c) /\ cuentas[c].mesa = m

ConCuentaAbierta(r) == \E c \in Cuentas : cuentas[c].reserva = r /\ Abierta(c)

\* A reservation that already has an account, open or not, other than a cancelled one.
ConCuenta(r) ==
    \E c \in Cuentas : cuentas[c].reserva = r /\ cuentas[c].estado # "CANCELADA"

RenglonesDe(c) == {i \in Renglones : renglones[i].cuenta = c}
VivosDe(c) == {i \in RenglonesDe(c) : renglones[i].estado # "CANCELADO"}
PendientesDe(c) == {i \in RenglonesDe(c) : renglones[i].estado = "PENDIENTE"}
EnviadosDe(c) == {i \in RenglonesDe(c) : renglones[i].estado = "ENVIADO"}
RenglonesLibres == {i \in Renglones : renglones[i].cuenta = NULL}

ComandasDe(c) == {k \in Comandas : comandas[k].cuenta = c}
ComandasLibres == {k \in Comandas : comandas[k].cuenta = NULL}
DeLaComanda(k) == {i \in Renglones : renglones[i].comanda = k}
Piezas(I) == SumaDe([i \in Renglones |-> renglones[i].cant], I)

UsadaSinLigadas(c) ==
    \/ \E i \in RenglonesDe(c) : renglones[i].estado # "PENDIENTE"
    \/ ComandasDe(c) # {}
    \/ cuentas[c].autorizada

UsadaSinRenglones(c) ==
    \/ cuentas[c].autorizada
    \/ \E x \in Cuentas : c \in {cuentas[x].unidaA, cuentas[x].divididaDe}

\* What keeps an account from being deleted when it is discarded, once its
\* pending lines are gone.
Usada(c) ==
    \/ \E i \in RenglonesDe(c) : renglones[i].estado # "PENDIENTE"
    \/ ComandasDe(c) # {}
    \/ cuentas[c].autorizada
    \/ \E x \in Cuentas : c \in {cuentas[x].unidaA, cuentas[x].divididaDe}

BorrarRenglones(I) == [i \in Renglones |-> IF i \in I THEN SinRenglon ELSE renglones[i]]

FolioSiempreDevuelto(c) == ultimoFolio - 1

\* The folio counter once account c is deleted: its folio goes back only if
\* it was the last one.
FolioSin(c) == IF ultimoFolio = cuentas[c].folio THEN ultimoFolio - 1 ELSE ultimoFolio

-----------------------------------------------------------------------------
\* No accounts yet; a table may be out of use, and a reservation not there.
Init ==
    /\ cuentas = [c \in Cuentas |-> SinCuenta]
    /\ renglones = [i \in Renglones |-> SinRenglon]
    /\ comandas = [k \in Comandas |-> SinComanda]
    /\ ultimoFolio = 0
    /\ mesas \in [Mesas -> {"ACTIVA", "INACTIVA"}]
    /\ reservas \in [Reservas -> {"pendiente", "BORRADA"}]
    /\ candidatas = {}

-----------------------------------------------------------------------------
\* The row of an account just opened at table m, or split from `origen`.
CuentaNueva(m, r, origen, raiz) ==
    [estado |-> "ABIERTA", folio |-> ultimoFolio + 1, mesa |-> m, reserva |-> r,
     unidaA |-> NULL, divididaDe |-> origen, raiz |-> raiz, sigComanda |-> 1,
     autorizada |-> FALSE, cancelando |-> NULL, quedan |-> FALSE]

\* abrirCuenta: at a free active table, or to take away (m = NULL), perhaps
\* for a reservation that has no account yet.
AbrirCuenta(c, m, r) ==
    /\ Libre(c) /\ c \notin candidatas
    /\ m # NULL => mesas[m] = "ACTIVA" /\ ~Ocupada(m)
    /\ r # NULL => reservas[r] # "BORRADA" /\ ~ConCuenta(r)
    /\ ultimoFolio < MaxFolio
    /\ ultimoFolio' = ultimoFolio + 1
    /\ cuentas' = [cuentas EXCEPT ![c] = CuentaNueva(m, r, NULL, c)]
    /\ reservas' = [x \in Reservas |->
           IF x = r /\ reservas[x] \in {"pendiente", "confirmada"}
           THEN "sentada" ELSE reservas[x]]
    /\ UNCHANGED <<renglones, comandas, mesas, candidatas>>

\* The pending lines a new one without notes may be added to: alike, without
\* notes, discount or courtesy.
Sumable(c, a, t) ==
    {i \in PendientesDe(c) : /\ renglones[i].art = a
                             /\ renglones[i].tiempo = t
                             /\ ~renglones[i].nota
                             /\ ~renglones[i].rebaja}

CabeSinSumar(i, n) == n <= MaxCantidad

\* Whether n more pieces fit in line i.
Cabe(i, n) == renglones[i].cant + n <= MaxCantidad

\* agregarItems, one line of it: n pieces of article a for course t.
AgregarItem(c, a, t, n, conNota) ==
    /\ Abierta(c)
    /\ \/ /\ ~conNota
          /\ \E i \in Sumable(c, a, t) :
                /\ Cabe(i, n)
                /\ renglones' = [renglones EXCEPT ![i].cant = @ + n]
       \/ /\ conNota \/ Sumable(c, a, t) = {}
          /\ \E i \in RenglonesLibres :
                renglones' = [renglones EXCEPT ![i] =
                    [cuenta |-> c, art |-> a, cant |-> n, estado |-> "PENDIENTE",
                     comanda |-> NULL, tiempo |-> t, nota |-> conNota, rebaja |-> FALSE]]
    /\ UNCHANGED <<cuentas, comandas, ultimoFolio, mesas, reservas, candidatas>>

\* actualizarItem: pieces, notes or course of a line still pending.
ActualizarItem(c, i, n, t, conNota) ==
    /\ Abierta(c)
    /\ i \in PendientesDe(c)
    /\ renglones' = [renglones EXCEPT ![i].cant = n, ![i].tiempo = t, ![i].nota = conNota]
    /\ UNCHANGED <<cuentas, comandas, ultimoFolio, mesas, reservas, candidatas>>

EliminarItem(c, i) ==
    /\ Abierta(c)
    /\ i \in PendientesDe(c)
    /\ renglones' = BorrarRenglones({i})
    /\ UNCHANGED <<cuentas, comandas, ultimoFolio, mesas, reservas, candidatas>>

\* descuentoItem and descuentoCuenta: a discount, a courtesy, or taking them
\* off; the authorisation is written down in the account.
Descontar(c, I, conRebaja) ==
    /\ HaySupervisor
    /\ Abierta(c)
    /\ I # {} /\ I \subseteq VivosDe(c)
    /\ renglones' = [i \in Renglones |->
           IF i \in I THEN [renglones[i] EXCEPT !.rebaja = conRebaja] ELSE renglones[i]]
    /\ cuentas' = [cuentas EXCEPT ![c].autorizada = TRUE]
    /\ UNCHANGED <<comandas, ultimoFolio, mesas, reservas, candidatas>>

-----------------------------------------------------------------------------
\* enviar: the pending lines of one course go to their areas.  Each area with
\* a screen or a printer gets a comanda, numbered after the account's last
\* one; without a screen nobody would move the comanda, so it is born
\* delivered.  The lines of the other areas are sent without comanda.
Enviar(c, t) ==
    LET P == {i \in PendientesDe(c) : renglones[i].tiempo = t}
        Area(i) == AreaDe[renglones[i].art]
        A == {Area(i) : i \in P} \cap (ConPantalla \cup ConPapel)
        sig == cuentas[c].sigComanda
        n == Cardinality(A)
    IN
    /\ Abierta(c)
    /\ P # {}
    /\ \E nueva \in Injection(A, ComandasLibres), num \in Bijection(A, sig..(sig + n - 1)) :
          /\ renglones' = [i \in Renglones |->
                IF i \in P
                THEN [renglones[i] EXCEPT !.estado = "ENVIADO",
                                          !.comanda = IF Area(i) \in A THEN nueva[Area(i)] ELSE NULL]
                ELSE renglones[i]]
          /\ comandas' = [k \in Comandas |->
                IF \E a \in A : nueva[a] = k
                THEN LET a == CHOOSE x \in A : nueva[x] = k
                     IN [cuenta |-> c, numero |-> num[a],
                         estado |-> IF a \in ConPantalla THEN "NUEVA" ELSE "ENTREGADA",
                         papel |-> a \in ConPapel, cruzada |-> FALSE]
                ELSE comandas[k]]
    /\ cuentas' = [cuentas EXCEPT ![c].sigComanda = @ + n]
    /\ UNCHANGED <<ultimoFolio, mesas, reservas, candidatas>>

\* The comanda of line i has other lines that are not cancelled.
Quedan(i) == \E j \in DeLaComanda(renglones[i].comanda) \ {i} : renglones[j].estado # "CANCELADO"

SinSincronizar(k, quedan) == comandas[k]

\* #sincronizarComanda: when no line of the comanda is left to prepare, a
\* comanda the kitchen still had becomes CANCELADA.  `quedan` is what its
\* NOT EXISTS saw.
Sincronizar(k, quedan) ==
    IF comandas[k].estado \in PorPreparar /\ ~quedan
    THEN [comandas[k] EXCEPT !.estado = "CANCELADA"]
    ELSE comandas[k]

\* cancelarItem, up to the statement that looks at the other lines of the
\* comanda: it sees the lines as they are committed.  Should the transaction
\* be rolled back later, nothing has changed.
CancelarItem(c, i) ==
    /\ HaySupervisor
    /\ Abierta(c)
    /\ i \in EnviadosDe(c)
    /\ cuentas' = [cuentas EXCEPT ![c].cancelando = i, ![c].quedan = Quedan(i)]
    /\ UNCHANGED <<renglones, comandas, ultimoFolio, mesas, reservas, candidatas>>

\* Its commit: the line is not deleted, it stays as CANCELADO.  The comanda is
\* left as it was, with nothing to prepare, when the other live line that was
\* seen has been cancelled since.
ConfirmarCancelacion(c) ==
    LET i == cuentas[c].cancelando
        k == renglones[i].comanda
        seVio == cuentas[c].quedan
        seCruza == comandas[k].estado \in PorPreparar /\ seVio /\ ~Quedan(i)
    IN
    /\ i # NULL
    /\ renglones' = [renglones EXCEPT ![i].estado = "CANCELADO"]
    /\ comandas' = [l \in Comandas |->
           IF l # k THEN comandas[l]
           ELSE IF seCruza THEN [comandas[k] EXCEPT !.cruzada = TRUE]
           ELSE Sincronizar(k, seVio)]
    /\ cuentas' = [cuentas EXCEPT ![c].cancelando = NULL, ![c].quedan = FALSE,
                                  ![c].autorizada = TRUE]
    /\ UNCHANGED <<ultimoFolio, mesas, reservas, candidatas>>

\* cambiarEstado of a comanda, by the kitchen or the waiter.  Going back from
\* LISTA is possible for ten minutes only, which is a choice here: the action
\* may or may not be taken.
CambiarEstadoComanda(k, e) ==
    /\ comandas[k].estado \in DESDE[e]
    /\ comandas' = [comandas EXCEPT ![k].estado = e]
    /\ UNCHANGED <<cuentas, renglones, ultimoFolio, mesas, reservas, candidatas>>

-----------------------------------------------------------------------------
\* cambiarMesa: to another active table with no open account.
CambiarMesa(c, m) ==
    /\ Abierta(c)
    /\ cuentas[c].mesa \notin {NULL, m}
    /\ mesas[m] = "ACTIVA" /\ ~Ocupada(m)
    /\ cuentas' = [cuentas EXCEPT ![c].mesa = m]
    /\ UNCHANGED <<renglones, comandas, ultimoFolio, mesas, reservas, candidatas>>

\* What descartar does to an open account: its pending lines are deleted and,
\* when nothing else hangs from it, the account too, with whatever still
\* hangs from it (ON DELETE CASCADE).  A seated reservation is confirmed
\* again.
Descarte(c) ==
    /\ Abierta(c)
    /\ \/ /\ Usada(c)
          /\ renglones' = BorrarRenglones(PendientesDe(c))
          /\ UNCHANGED <<cuentas, comandas, ultimoFolio, reservas>>
       \/ /\ ~Usada(c)
          /\ renglones' = BorrarRenglones(RenglonesDe(c))
          /\ comandas' = [k \in Comandas |-> IF k \in ComandasDe(c) THEN SinComanda ELSE comandas[k]]
          /\ cuentas' = [cuentas EXCEPT ![c] = SinCuenta]
          /\ ultimoFolio' = FolioSin(c)
          /\ reservas' = [r \in Reservas |->
                IF r = cuentas[c].reserva /\ reservas[r] = "sentada"
                THEN "confirmada" ELSE reservas[r]]
    /\ UNCHANGED mesas

Descartar(c) == Descarte(c) /\ UNCHANGED candidatas

\* #purgarVacias, first half: the open accounts without lines or comandas
\* that were idle for half an hour.  Which of the empty ones were idle that
\* long is a choice.
PurgaSeleccionar ==
    /\ candidatas = {}
    /\ \E S \in SUBSET {c \in Cuentas : Abierta(c) /\ RenglonesDe(c) = {} /\ ComandasDe(c) = {}} :
          /\ Cardinality(S) <= MaxPurga
          /\ candidatas' = S
    /\ UNCHANGED <<cuentas, renglones, comandas, ultimoFolio, mesas, reservas>>

\* Second half: each selected account is discarded; an error of descartar
\* (the account is not open any more) is swallowed.
PurgaDescartar(c) ==
    /\ c \in candidatas
    /\ Suelta(c)
    /\ candidatas' = candidatas \ {c}
    /\ \/ Descarte(c)
       \/ ~Abierta(c) /\ UNCHANGED <<cuentas, renglones, comandas, ultimoFolio, mesas, reservas>>

SinSalto(d) == 0

\* How far the comandas merged into account d are renumbered.
Salto(d) == cuentas[d].sigComanda - 1

\* juntar: account o is merged into d.  The comandas of o continue the
\* numbering of d.
Juntar(o, d) ==
    /\ o # d
    /\ Abierta(o) /\ Abierta(d) /\ Suelta(d)
    /\ renglones' = [i \in Renglones |->
           IF renglones[i].cuenta = o THEN [renglones[i] EXCEPT !.cuenta = d] ELSE renglones[i]]
    /\ comandas' = [k \in Comandas |->
           IF comandas[k].cuenta = o
           THEN [comandas[k] EXCEPT !.cuenta = d, !.numero = @ + Salto(d)]
           ELSE comandas[k]]
    /\ cuentas' = [cuentas EXCEPT ![o].estado = "UNIDA", ![o].unidaA = d,
                                  ![d].sigComanda = @ + cuentas[o].sigComanda - 1]
    /\ UNCHANGED <<ultimoFolio, mesas, reservas, candidatas>>

PiezasMovidas(parte) == SumaDe(parte, DOMAIN parte)

\* The lines of which only some pieces are moved.
Parciales(parte) == {i \in DOMAIN parte : parte[i] < renglones[i].cant}

RestoEntero(i, n) == renglones[i]

\* What a line leaves behind when n of its pieces are moved.
Resto(i, n) == [renglones[i] EXCEPT !.cant = @ - n]

\* The lines once `parte` of them went to account n: a line moved in part
\* leaves its remainder behind and becomes a new line, nuevo[i], with the same
\* state and the same comanda; the others change account.
Repartidos(n, parte, nuevo) ==
    [j \in Renglones |->
        IF \E i \in DOMAIN nuevo : nuevo[i] = j
        THEN LET i == CHOOSE x \in DOMAIN nuevo : nuevo[x] = j
             IN [renglones[i] EXCEPT !.cuenta = n, !.cant = parte[i]]
        ELSE IF j \in DOMAIN nuevo THEN Resto(j, parte[j])
        ELSE IF j \in DOMAIN parte THEN [renglones[j] EXCEPT !.cuenta = n]
        ELSE renglones[j]]

\* dividir: some of the live lines of c, whole or in part, go to a new
\* account n at the same table; something must stay.
Dividir(c, n, parte) ==
    /\ Abierta(c)
    /\ Libre(n) /\ n \notin candidatas
    /\ DOMAIN parte \subseteq VivosDe(c)
    /\ \A i \in DOMAIN parte : parte[i] <= renglones[i].cant
    /\ PiezasMovidas(parte) < Piezas(VivosDe(c))
    /\ ultimoFolio < MaxFolio
    /\ ultimoFolio' = ultimoFolio + 1
    /\ cuentas' = [cuentas EXCEPT ![n] = CuentaNueva(cuentas[c].mesa, NULL, c, cuentas[c].raiz)]
    /\ \E nuevo \in Injection(Parciales(parte), RenglonesLibres) :
          renglones' = Repartidos(n, parte, nuevo)
    /\ UNCHANGED <<comandas, mesas, reservas, candidatas>>

\* cancelarCuenta: pending lines are deleted, lines already sent stay (and
\* need a supervisor), and what the kitchen still had of them is cancelled.
CancelarCuenta(c) ==
    LET hayEnviados == EnviadosDe(c) # {}
    IN
    /\ Abierta(c)
    /\ hayEnviados => HaySupervisor
    /\ renglones' = BorrarRenglones(PendientesDe(c))
    /\ comandas' = [k \in Comandas |->
           IF comandas[k].estado \in PorPreparar /\ DeLaComanda(k) \cap RenglonesDe(c) # {}
           THEN [comandas[k] EXCEPT !.estado = "CANCELADA"]
           ELSE comandas[k]]
    /\ cuentas' = [cuentas EXCEPT ![c].estado = "CANCELADA", ![c].autorizada = @ \/ hayEnviados]
    /\ UNCHANGED <<ultimoFolio, mesas, reservas, candidatas>>

CobrarSinRevisar(c) ==
    /\ Abierta(c)
    /\ VivosDe(c) # {}
    /\ cuentas' = [cuentas EXCEPT ![c].estado = "PAGADA"]
    /\ UNCHANGED <<renglones, comandas, ultimoFolio, mesas, reservas, candidatas>>

\* cobrar, as the account sees it: only with lines, all of them sent.
Cobrar(c) ==
    /\ Abierta(c)
    /\ VivosDe(c) # {}
    /\ PendientesDe(c) = {}
    /\ cuentas' = [cuentas EXCEPT ![c].estado = "PAGADA"]
    /\ UNCHANGED <<renglones, comandas, ultimoFolio, mesas, reservas, candidatas>>

\* anular, as the account sees it.
Anular(c) ==
    /\ HaySupervisor
    /\ cuentas[c].estado = "PAGADA"
    /\ cuentas' = [cuentas EXCEPT ![c].estado = "ANULADA", ![c].autorizada = TRUE]
    /\ UNCHANGED <<renglones, comandas, ultimoFolio, mesas, reservas, candidatas>>

-----------------------------------------------------------------------------
\* actualizarMesa with `activo`.
ActivarMesa(m, activa) ==
    /\ mesas[m] # "BORRADA"
    /\ mesas' = [mesas EXCEPT ![m] = IF activa THEN "ACTIVA" ELSE "INACTIVA"]
    /\ UNCHANGED <<cuentas, renglones, comandas, ultimoFolio, reservas, candidatas>>

\* eliminarMesa: not with an open account; deleted if it was never used.
EliminarMesa(m) ==
    /\ mesas[m] # "BORRADA"
    /\ ~Ocupada(m)
    /\ mesas' = [mesas EXCEPT ![m] =
           IF \E c \in Cuentas : cuentas[c].mesa = m THEN "INACTIVA" ELSE "BORRADA"]
    /\ UNCHANGED <<cuentas, renglones, comandas, ultimoFolio, reservas, candidatas>>

\* cambiarEstado of a reservation: from any state to any state.
CambiarEstadoReserva(r, e) ==
    /\ reservas[r] # "BORRADA"
    /\ reservas' = [reservas EXCEPT ![r] = e]
    /\ UNCHANGED <<cuentas, renglones, comandas, ultimoFolio, mesas, candidatas>>

\* eliminar a reservation: its accounts stay, no longer linked (ON DELETE SET NULL).
EliminarReserva(r) ==
    /\ reservas[r] # "BORRADA"
    /\ \A c \in Cuentas : cuentas[c].reserva = r => Suelta(c)
    /\ reservas' = [reservas EXCEPT ![r] = "BORRADA"]
    /\ cuentas' = [c \in Cuentas |->
           IF cuentas[c].reserva = r THEN [cuentas[c] EXCEPT !.reserva = NULL] ELSE cuentas[c]]
    /\ UNCHANGED <<renglones, comandas, ultimoFolio, mesas, candidatas>>

-----------------------------------------------------------------------------
\* The requests on an account that is already there: each begins
\* by locking its row.
OperarCuenta(c) ==
    /\ Suelta(c)
    /\ \/ \E a \in Articulos, t \in Tiempos, n \in 1..MaxCantidad, nota \in Notas :
             AgregarItem(c, a, t, n, nota)
       \/ \E i \in Renglones, n \in 1..MaxCantidad, t \in Tiempos, nota \in Notas :
             ActualizarItem(c, i, n, t, nota)
       \/ \E i \in Renglones : EliminarItem(c, i)
       \/ \E I \in SUBSET Renglones, rebaja \in Rebajas : Descontar(c, I, rebaja)
       \/ \E t \in Tiempos : Enviar(c, t)
       \/ \E i \in Renglones : CancelarItem(c, i)
       \/ \E m \in Mesas : CambiarMesa(c, m)
       \/ Descartar(c)
       \/ \E d \in Cuentas : Juntar(c, d)
       \/ \E n \in Cuentas, M \in (SUBSET VivosDe(c)) \ {{}} : \E parte \in [M -> 1..MaxCantidad] :
             Dividir(c, n, parte)
       \/ CancelarCuenta(c)
       \/ Cobrar(c)
       \/ Anular(c)

Next ==
    \/ \E c \in Cuentas, m \in Mesas \cup {NULL}, r \in Reservas \cup {NULL} : AbrirCuenta(c, m, r)
    \/ \E c \in Cuentas : OperarCuenta(c)
    \/ \E c \in Cuentas : ConfirmarCancelacion(c)
    \/ \E k \in Comandas, e \in DOMAIN DESDE : CambiarEstadoComanda(k, e)
    \/ PurgaSeleccionar
    \/ \E c \in Cuentas : PurgaDescartar(c)
    \/ \E m \in MesasEditables, activa \in BOOLEAN : ActivarMesa(m, activa)
    \/ \E m \in MesasEditables : EliminarMesa(m)
    \/ \E r \in Reservas, e \in EstadosReserva : CambiarEstadoReserva(r, e)
    \/ \E r \in Reservas : EliminarReserva(r)

Spec == Init /\ [][Next]_vars

-----------------------------------------------------------------------------
\* The rows are well formed; a line or a comanda that exists has an account.
TypeOK ==
    /\ cuentas \in [Cuentas -> TipoCuenta \cup {SinCuenta}]
    /\ renglones \in [Renglones -> TipoRenglon \cup {SinRenglon}]
    /\ comandas \in [Comandas -> TipoComanda \cup {SinComanda}]
    /\ ultimoFolio \in 0..MaxFolio
    /\ mesas \in [Mesas -> EstadosMesa]
    /\ reservas \in [Reservas -> EstadosReserva \cup {"BORRADA"}]
    /\ candidatas \subseteq Cuentas

\* No two accounts have the same folio, and none is ahead of the counter:
\* giving folios back (descartar, the purge) never lets one be issued twice.
FoliosSanos ==
    /\ \A c \in Cuentas : ~Libre(c) => cuentas[c].folio \in 1..ultimoFolio
    /\ \A c, d \in Cuentas :
          ~Libre(c) /\ ~Libre(d) /\ cuentas[c].folio = cuentas[d].folio => c = d

\* A table is shared only by accounts split from one another: two parties
\* are never seated at the same table, whatever is moved, merged or split.
MesaUnaFamilia ==
    \A c, d \in Cuentas :
        Abierta(c) /\ Abierta(d) /\ cuentas[c].mesa = cuentas[d].mesa /\ cuentas[c].mesa # NULL
        => cuentas[c].raiz = cuentas[d].raiz

\* A reservation is never seated twice: at most one of its accounts was not
\* cancelled, even after merging, splitting or discarding.
ReservaUnaCuenta ==
    \A c, d \in Cuentas :
        /\ cuentas[c].reserva = cuentas[d].reserva /\ cuentas[c].reserva # NULL
        /\ cuentas[c].estado # "CANCELADA" /\ cuentas[d].estado # "CANCELADA"
        => c = d

\* What a row points to is there: the account a line, a comanda, a merged or
\* a split account refers to, and the comanda of a line.
SinReferenciasColgantes ==
    /\ \A i \in Renglones :
          renglones[i].cuenta # NULL =>
             /\ ~Libre(renglones[i].cuenta)
             /\ renglones[i].comanda # NULL => comandas[renglones[i].comanda].cuenta # NULL
    /\ \A k \in Comandas : comandas[k].cuenta # NULL => ~Libre(comandas[k].cuenta)
    /\ \A c \in Cuentas : \A x \in {cuentas[c].unidaA, cuentas[c].divididaDe} \ {NULL} : ~Libre(x)

\* The comandas of an account are numbered without repetition below the
\* number of its next one, also once the comandas of another account have
\* been merged into it.
NumerosPorCuenta ==
    \A k, l \in Comandas :
        comandas[k].cuenta # NULL =>
            /\ comandas[k].numero < cuentas[comandas[k].cuenta].sigComanda
            /\ comandas[l].cuenta = comandas[k].cuenta /\ comandas[l].numero = comandas[k].numero
               => k = l

\* Somebody waits for the comanda: a line of it was not cancelled, in an
\* account that was not cancelled.
ConDestino(k) ==
    \E i \in DeLaComanda(k) : /\ renglones[i].estado = "ENVIADO"
                              /\ cuentas[renglones[i].cuenta].estado # "CANCELADA"

\* The kitchen is left with a comanda nobody waits for in one case only: its
\* last two lines, of accounts split from one another, were cancelled by
\* transactions that did not see each other.  One still to prepare has
\* somebody waiting for it otherwise, whatever is split, merged or cancelled.
PorPrepararConDestino ==
    \A k \in Comandas :
        comandas[k].estado \in PorPreparar => ConDestino(k) \/ comandas[k].cruzada

\* A charged account has something to charge for and nothing left to send,
\* and stays so: nothing is added to it or taken from it later.
CobradaTodoEnviado ==
    \A c \in Cuentas : cuentas[c].estado \in {"PAGADA", "ANULADA"} =>
        EnviadosDe(c) # {} /\ PendientesDe(c) = {}

-----------------------------------------------------------------------------
\* What was ordered with a comanda is what it was sent with: splitting and
\* merging move its pieces between accounts, cancelling marks them, and
\* nothing adds or removes one.
PiezasFijas ==
    \A k \in Comandas : comandas[k].cuenta # NULL =>
        Piezas(DeLaComanda(k))' = Piezas(DeLaComanda(k))
PiezasPorComandaFijas == [][PiezasFijas]_vars

\* A line that was sent is never deleted and never goes back to pending,
\* and a cancelled one stays cancelled: also when its account is discarded.
LoEnviadoSigue ==
    \A i \in Renglones :
        /\ renglones[i].estado = "ENVIADO" => renglones'[i].estado \in {"ENVIADO", "CANCELADO"}
        /\ renglones[i].estado = "CANCELADO" => renglones'[i].estado = "CANCELADO"
LoEnviadoNoSePierde == [][LoEnviadoSigue]_vars

\* The lines of an account that is not open any more do not change, and no
\* line enters it.
CerradaSinCambios ==
    \A c \in Cuentas : cuentas[c].estado \in EstadosCuenta \ {"ABIERTA"} =>
        \A i \in Renglones : c \in {renglones[i].cuenta, renglones'[i].cuenta} =>
            renglones'[i] = renglones[i]
CuentaCerradaCongelada == [][CerradaSinCambios]_vars

-----------------------------------------------------------------------------
\* Stated by docs/API.md: the map frees on its own the open accounts
\* "without any line or comanda".  So the purge never deletes a line.
PurgaSinBorrar ==
    \A c \in candidatas \ candidatas' : \A i \in RenglonesDe(c) : renglones'[i] = renglones[i]
LaPurgaNoBorraRenglones == [][PurgaSinBorrar]_vars

\* Stated by pos.cuentas.repository.js of #sincronizarComanda: "if nothing is
\* left to prepare", the comanda "becomes CANCELADA"; docs/API.md says it too.
\* So a comanda still to prepare has somebody waiting for it.
SinNadaCancelada ==
    \A k \in Comandas : comandas[k].estado \in PorPreparar => ConDestino(k)

\* Stated by docs/API.md: cancelling marks a comanda CANCELADA "if nothing is
\* left"; pos.comandas.repository.js: a cancelled comanda is shown for a while
\* "so that the kitchen sees that it is not prepared any more".  So no line
\* of an open account still waits for a cancelled comanda.
CanceladaSinPorServir ==
    \A i \in Renglones :
        /\ renglones[i].estado = "ENVIADO"
        /\ Abierta(renglones[i].cuenta)
        /\ renglones[i].comanda # NULL
        => comandas[renglones[i].comanda].estado # "CANCELADA"
=============================================================================
