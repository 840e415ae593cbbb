---------------------------- MODULE Idempotencia ----------------------------
(***************************************************************************)
(* One idempotency key of the POS: src/utils/idempotencia.js around a      *)
(* handler whose repository runs one transaction (pos.cuentas.repository,  *)
(* #tx): abrir, agregar, enviar and cobrar.                                *)
(*                                                                         *)
(* The petitions are the ones a client sends with the same key: a double   *)
(* tap, a retry after the signal was cut, or, by mistake, another body.    *)
(* The key is reserved by an INSERT inside the transaction of the effect,  *)
(* so it waits for whoever holds the key uncommitted; the answer is saved  *)
(* after the commit, in another statement.  A server may stop at any point *)
(* between two steps, and each of these steps may fail.  Retries are taken *)
(* to come before the 48 hours a key is kept.                              *)
(***************************************************************************)
EXTENDS Integers, FiniteSets

CONSTANTS
    Peticiones,     \* petitions with the same key
    Cuerpo,         \* Cuerpo[p]: the body of p (req_hash)
    SinFila,        \* no row for the key
    Nadie,
    MaxCaidas       \* bound: times a server stops

ASSUME LlaveAssumption ==
    /\ SinFila \notin [dueno: Peticiones, confirmada: BOOLEAN, guardada: BOOLEAN]
    /\ MaxCaidas \in Nat

VARIABLES
    pc,             \* where each petition is
    fila,           \* the row of pos_idempotencia
    efectos,        \* petitions whose effect was committed
    respuesta,      \* respuesta[p]: whose result p got, in a 2xx
    caidas

vars == <<pc, fila, efectos, respuesta, caidas>>

\* A row is [dueno, confirmada, guardada]: the petition that reserved the key,
\* whether its transaction was committed, and whether the answer is there
\* (status > 0).  Its req_hash and respuesta are those of dueno.
Visible == fila # SinFila /\ fila.confirmada

Terminada == {"2xx", "4xx", "5xx", "422", "409procesada", "409reintenta", "cortada"}
EnCurso(p) == pc[p] \notin Terminada \cup {"nueva"}

Ir(p, donde) == pc' = [pc EXCEPT ![p] = donde]

Init ==
    /\ pc = [p \in Peticiones |-> "nueva"]
    /\ fila = SinFila
    /\ efectos = {}
    /\ respuesta = [p \in Peticiones |-> Nadie]
    /\ caidas = 0

\* The client sends p: preparar finds a valid key.
Llegar(p) ==
    /\ pc[p] = "nueva"
    /\ Ir(p, "busca")
    /\ UNCHANGED <<fila, efectos, respuesta, caidas>>

\* responderGuardada: the row of the key is read, up to ESPERAS_MAX times
\* while it has no answer.  Without a row, preparar lets the handler run and
\* repetida says 409.
SinReserva(p) ==
    /\ pc[p] \in {"busca", "repetida"}
    /\ ~Visible
    /\ Ir(p, IF pc[p] = "busca" THEN "abre" ELSE "409reintenta")
    /\ UNCHANGED <<fila, efectos, respuesta, caidas>>

OtroCuerpo(p) ==
    /\ pc[p] \in {"busca", "repetida"}
    /\ Visible
    /\ Cuerpo[fila.dueno] # Cuerpo[p]
    /\ Ir(p, "422")
    /\ UNCHANGED <<fila, efectos, respuesta, caidas>>

Repetir(p) ==
    /\ pc[p] \in {"busca", "repetida"}
    /\ Visible
    /\ Cuerpo[fila.dueno] = Cuerpo[p]
    /\ fila.guardada
    /\ Ir(p, "2xx")
    /\ respuesta' = [respuesta EXCEPT ![p] = fila.dueno]
    /\ UNCHANGED <<fila, efectos, caidas>>

\* The last of the waits ends and there is still no answer.
Agotar(p) ==
    /\ pc[p] \in {"busca", "repetida"}
    /\ Visible
    /\ Cuerpo[fila.dueno] = Cuerpo[p]
    /\ ~fila.guardada
    /\ Ir(p, "409procesada")
    /\ UNCHANGED <<fila, efectos, respuesta, caidas>>

\* Mutant: a key that is already there does not stop the transaction.
ReclamarSinConflicto(p) ==
    /\ pc[p] = "abre"
    /\ Ir(p, "efecto")
    /\ \/ /\ fila = SinFila
          /\ fila' = [dueno |-> p, confirmada |-> FALSE, guardada |-> FALSE]
       \/ /\ Visible
          /\ UNCHANGED fila
    /\ UNCHANGED <<efectos, respuesta, caidas>>

\* reclamarIdempotencia, first statement of the transaction: INSERT ... ON
\* CONFLICT DO NOTHING.  It waits while the row is not committed.
Reclamar(p) ==
    /\ pc[p] = "abre"
    /\ \/ /\ fila = SinFila
          /\ fila' = [dueno |-> p, confirmada |-> FALSE, guardada |-> FALSE]
          /\ Ir(p, "efecto")
       \/ /\ Visible
          /\ Ir(p, "repetida")
          /\ UNCHANGED fila
    /\ UNCHANGED <<efectos, respuesta, caidas>>

\* The rest of #tx: the effect and the reservation are committed together, or
\* neither is.
Confirmar(p) ==
    /\ pc[p] = "efecto"
    /\ fila' = [fila EXCEPT !.confirmada = TRUE]
    /\ efectos' = efectos \cup {p}
    /\ Ir(p, "confirmada")
    /\ UNCHANGED <<respuesta, caidas>>

Deshacer(p) ==
    /\ pc[p] = "efecto"
    /\ fila' = SinFila
    /\ Ir(p, "4xx")
    /\ UNCHANGED <<efectos, respuesta, caidas>>

\* After the commit: the handler reads the result to answer (a failure there
\* is a 5xx, and nothing is saved), res.json saves the answer, whose failure
\* is only logged, and the answer goes out.
FallarAlLeer(p) ==
    /\ pc[p] = "confirmada"
    /\ Ir(p, "5xx")
    /\ UNCHANGED <<fila, efectos, respuesta, caidas>>

Guardar(p) ==
    /\ pc[p] = "confirmada"
    /\ \/ fila' = [fila EXCEPT !.guardada = TRUE]
       \/ UNCHANGED fila
    /\ Ir(p, "responde")
    /\ UNCHANGED <<efectos, respuesta, caidas>>

Responder(p) ==
    /\ pc[p] = "responde"
    /\ Ir(p, "2xx")
    /\ respuesta' = [respuesta EXCEPT ![p] = p]
    /\ UNCHANGED <<fila, efectos, caidas>>

\* Mutant: the session of a server that stops keeps its transaction open.
CaidaConLlave(ps) ==
    /\ caidas < MaxCaidas
    /\ ps # {} /\ \A p \in ps : EnCurso(p)
    /\ pc' = [p \in Peticiones |-> IF p \in ps THEN "cortada" ELSE pc[p]]
    /\ caidas' = caidas + 1
    /\ UNCHANGED <<fila, efectos, respuesta>>

\* The server that attends the petitions ps stops: the database rolls back
\* what they had not committed.
Caida(ps) ==
    /\ caidas < MaxCaidas
    /\ ps # {} /\ \A p \in ps : EnCurso(p)
    /\ pc' = [p \in Peticiones |-> IF p \in ps THEN "cortada" ELSE pc[p]]
    /\ fila' = IF fila # SinFila /\ ~fila.confirmada /\ fila.dueno \in ps
               THEN SinFila ELSE fila
    /\ caidas' = caidas + 1
    /\ UNCHANGED <<efectos, respuesta>>

Paso(p) ==
    \/ SinReserva(p) \/ OtroCuerpo(p) \/ Repetir(p) \/ Agotar(p)
    \/ Reclamar(p) \/ Confirmar(p) \/ Deshacer(p)
    \/ FallarAlLeer(p) \/ Guardar(p) \/ Responder(p)

Next ==
    \/ \E p \in Peticiones : Llegar(p) \/ Paso(p)
    \/ \E ps \in SUBSET Peticiones : Caida(ps)

\* Each petition the server has goes on: its statements end and its waits are
\* counted.  Nothing makes a client send one, or a server stop.
Justicia == \A p \in Peticiones : WF_vars(Paso(p))

Spec == Init /\ [][Next]_vars /\ Justicia

-----------------------------------------------------------------------------
TypeOK ==
    /\ pc \in [Peticiones -> Terminada \cup {"nueva", "busca", "abre", "efecto",
                                  "repetida", "confirmada", "responde"}]
    /\ fila \in {SinFila} \cup [dueno: Peticiones, confirmada: BOOLEAN, guardada: BOOLEAN]
    /\ efectos \subseteq Peticiones
    /\ respuesta \in [Peticiones -> Peticiones \cup {Nadie}]
    /\ caidas \in 0..MaxCaidas

\* One key makes one effect, whatever petitions come at once, stop half way or
\* come again; a 2xx always carries the result of that effect, asked for with
\* the same body; and "ya se proceso" is only said of an effect that was
\* committed.
UnSoloEfecto ==
    /\ Cardinality(efectos) <= 1
    /\ \A p \in Peticiones :
        /\ pc[p] = "2xx" => /\ respuesta[p] \in efectos
                            /\ Cuerpo[respuesta[p]] = Cuerpo[p]
        /\ pc[p] = "409procesada" => \E q \in efectos : Cuerpo[q] = Cuerpo[p]
        /\ pc[p] = "4xx" => p \notin efectos

\* Every petition gets an answer, unless its server stops: no one waits for
\* ever for a key, not even one whose owner stopped in its transaction.  A
\* petition goes on in one direction, so it is enough that there is no
\* moment from which on somebody is always waiting.
TodasTerminan == []<>(\A p \in Peticiones : ~EnCurso(p))
=============================================================================
