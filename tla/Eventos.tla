------------------------------- MODULE Eventos -------------------------------
(***************************************************************************)
(* The real-time notices of the POS in one server instance                  *)
(* (realtime/eventosPos.js and eventosPos.sse.js): one connection that      *)
(* LISTENs, opened on demand and reopened after a fall, and the SSE streams *)
(* of the clients.  A notice carries no data: who receives one reads the    *)
(* state again, so what matters is that nobody is left with an old state    *)
(* and nothing on the way that will make her read.                          *)
(*                                                                          *)
(* The browser is external: after "conectado" or any other notice it reads  *)
(* the state; when its stream ends it connects again.  Its clients belong   *)
(* to one user and one company.  Bounds: MaxCambios commits, MaxCaidas      *)
(* falls of the listening connection, MaxCortes broken streams, MaxCierres  *)
(* orderly stops; at most one opening that fell is still unsettled.         *)
(***************************************************************************)
EXTENDS Naturals, Sequences, SequencesExt

CONSTANTS Clientes,       \* tabs and devices of the user
          MaxPorUsuario,  \* MAX_POR_USUARIO
          MaxCambios, MaxCaidas, MaxCortes, MaxCierres

VARIABLES dato,           \* commits that notify, so far
          cliente,        \* the listening connection: "nada", "abriendo", "lista"
          avisos,         \* notices the database has queued for that connection
          enCurso,        \* a promise of abrir() is kept
          vieja,          \* an opening fell and its promise is not settled yet
          huboCaida,      \* the flag of the module
          reintento,      \* the retry timer is armed
          cerrado,        \* cerrarEventos has run; the process is about to end
          con,            \* client -> "fuera", "espera", "esperaVieja", "pasa", "dentro"
          abiertas,       \* subscribed clients, oldest first
          porLeer,        \* clients that have been told to read
          visto,          \* client -> the commits its last reading showed
          fallas          \* falls, cuts and stops so far (bounds)

vars == <<dato, cliente, avisos, enCurso, vieja, huboCaida, reintento, cerrado,
          con, abiertas, porLeer, visto, fallas>>

Init ==
    /\ dato = 0 /\ cliente = "nada" /\ avisos = 0
    /\ enCurso = FALSE /\ vieja = FALSE /\ huboCaida = FALSE
    /\ reintento = FALSE /\ cerrado = FALSE
    /\ con = [c \in Clientes |-> "fuera"]
    /\ abiertas = <<>>
    /\ porLeer = {}
    /\ visto = [c \in Clientes |-> 0]
    /\ fallas = [caidas |-> 0, cortes |-> 0, cierres |-> 0]

Dentro == ToSet(abiertas)

\* Who waited for a promise goes on when it settles.
Soltar(estado, cs) == [c \in Clientes |-> IF cs[c] = estado THEN "pasa" ELSE cs[c]]

-----------------------------------------------------------------------------
(* The database.                                                            *)

\* pg_notify is sent by the COMMIT, to the connections that listen by then.
Cambiar ==
    /\ dato < MaxCambios
    /\ dato' = dato + 1
    /\ avisos' = IF cliente = "lista" THEN avisos + 1 ELSE avisos
    /\ UNCHANGED <<cliente, enCurso, vieja, huboCaida, reintento, cerrado,
                   con, abiertas, porLeer, visto, fallas>>

\* repartir
Entregar ==
    /\ avisos > 0
    /\ avisos' = avisos - 1
    /\ porLeer' = porLeer \cup Dentro
    /\ UNCHANGED <<dato, cliente, enCurso, vieja, huboCaida, reintento, cerrado,
                   con, abiertas, visto, fallas>>

-----------------------------------------------------------------------------
(* escuchar, abrir and caer.                                                *)

\* escuchar() opens only if there is no connection; in a closed module, never.
Escuchar ==
    IF cliente = "nada" /\ ~cerrado
    THEN cliente' = "abriendo" /\ enCurso' = TRUE
    ELSE UNCHANGED <<cliente, enCurso>>

AbrirBien ==
    /\ cliente = "abriendo"
    /\ cliente' = "lista"
    /\ enCurso' = FALSE
    /\ con' = Soltar("espera", con)
    /\ huboCaida' = FALSE
    /\ porLeer' = IF huboCaida THEN porLeer \cup Dentro ELSE porLeer      \* resync
    /\ UNCHANGED <<dato, avisos, vieja, reintento, cerrado, abiertas, visto, fallas>>

Falla(que, tope) ==
    /\ fallas[que] < tope
    /\ fallas' = [fallas EXCEPT ![que] = @ + 1]

\* Mutant: an opening that fails is not tried again.
AbrirMalSinReintento ==
    /\ cliente = "abriendo"
    /\ Falla("caidas", MaxCaidas)
    /\ cliente' = "nada" /\ huboCaida' = TRUE
    /\ enCurso' = FALSE
    /\ con' = Soltar("espera", con)
    /\ UNCHANGED <<dato, avisos, vieja, reintento, cerrado, abiertas, porLeer, visto>>

\* connect or LISTEN fails: the catch of abrir calls caer.
AbrirMal ==
    /\ cliente = "abriendo"
    /\ Falla("caidas", MaxCaidas)
    /\ cliente' = "nada" /\ huboCaida' = TRUE /\ reintento' = TRUE
    /\ enCurso' = FALSE
    /\ con' = Soltar("espera", con)
    /\ UNCHANGED <<dato, avisos, vieja, cerrado, abiertas, porLeer, visto>>

\* The connection ends while it opens: caer runs before the promise settles ...
CaerAbriendo ==
    /\ cliente = "abriendo" /\ ~vieja
    /\ Falla("caidas", MaxCaidas)
    /\ cliente' = "nada" /\ huboCaida' = TRUE /\ reintento' = TRUE
    /\ vieja' = TRUE
    /\ con' = [c \in Clientes |-> IF con[c] = "espera" THEN "esperaVieja" ELSE con[c]]
    /\ UNCHANGED <<dato, avisos, enCurso, cerrado, abiertas, porLeer, visto>>

\* ... and its finally forgets the promise kept by then, which may be a newer one.
AsentarVieja ==
    /\ vieja
    /\ vieja' = FALSE /\ enCurso' = FALSE
    /\ con' = Soltar("esperaVieja", con)
    /\ UNCHANGED <<dato, cliente, avisos, huboCaida, reintento, cerrado,
                   abiertas, porLeer, visto, fallas>>

\* Mutant: a fall of the open connection leaves no trace.
CaerSinMarca ==
    /\ cliente = "lista"
    /\ Falla("caidas", MaxCaidas)
    /\ cliente' = "nada" /\ avisos' = 0 /\ reintento' = TRUE
    /\ UNCHANGED <<dato, enCurso, vieja, huboCaida, cerrado, con, abiertas, porLeer, visto>>

\* The open connection falls, and with it the notices on their way.
Caer ==
    /\ cliente = "lista"
    /\ Falla("caidas", MaxCaidas)
    /\ cliente' = "nada" /\ avisos' = 0 /\ huboCaida' = TRUE /\ reintento' = TRUE
    /\ UNCHANGED <<dato, enCurso, vieja, cerrado, con, abiertas, porLeer, visto>>

Reintentar ==
    /\ reintento
    /\ reintento' = FALSE
    /\ Escuchar
    /\ UNCHANGED <<dato, avisos, vieja, huboCaida, cerrado, con, abiertas, porLeer, visto, fallas>>

-----------------------------------------------------------------------------
(* eventosSSE                                                               *)

\* escuchaLista: waits for the promise of the opening, if there is one.
Conectar(c) ==
    /\ con[c] = "fuera"
    /\ Escuchar
    /\ con' = [con EXCEPT ![c] = IF cliente' = "abriendo" /\ enCurso' THEN "espera" ELSE "pasa"]
    /\ UNCHANGED <<dato, avisos, vieja, huboCaida, reintento, cerrado,
                   abiertas, porLeer, visto, fallas>>

\* Over the limit the oldest streams are ended; what they were sent arrives.
Suscribir(c) ==
    /\ con[c] = "pasa"
    /\ LET sobran == IF Len(abiertas) < MaxPorUsuario THEN 0
                     ELSE Len(abiertas) - MaxPorUsuario + 1
           echadas == {abiertas[i] : i \in 1..sobran}
       IN /\ abiertas' = Append(SubSeq(abiertas, sobran + 1, Len(abiertas)), c)
          /\ con' = [x \in Clientes |-> IF x = c THEN "dentro"
                                        ELSE IF x \in echadas THEN "fuera" ELSE con[x]]
    /\ porLeer' = porLeer \cup {c}                                        \* conectado
    /\ Escuchar
    /\ UNCHANGED <<dato, avisos, vieja, huboCaida, reintento, cerrado, visto, fallas>>

\* The stream breaks or its session expires: what was on its way is lost.
Cortar(c) ==
    /\ con[c] # "fuera"
    /\ Falla("cortes", MaxCortes)
    /\ con' = [con EXCEPT ![c] = "fuera"]
    /\ abiertas' = RemoveFirst(abiertas, c)
    /\ porLeer' = porLeer \ {c}
    /\ UNCHANGED <<dato, cliente, avisos, enCurso, vieja, huboCaida, reintento, cerrado, visto>>

\* The browser reads the state over a request of its own.
Leer(c) ==
    /\ c \in porLeer
    /\ porLeer' = porLeer \ {c}
    /\ visto' = [visto EXCEPT ![c] = dato]
    /\ UNCHANGED <<dato, cliente, avisos, enCurso, vieja, huboCaida, reintento, cerrado,
                   con, abiertas, fallas>>

-----------------------------------------------------------------------------
(* The orderly stop and the new process.                                    *)

\* cerrarEventos: every stream gets "cierre" and ends; the connection is left.
CerrarEventos ==
    /\ ~cerrado
    /\ Falla("cierres", MaxCierres)
    /\ cerrado' = TRUE /\ reintento' = FALSE
    /\ cliente' = "nada" /\ avisos' = 0
    /\ con' = [c \in Clientes |-> IF con[c] = "fuera" \/ con[c] = "dentro" THEN "fuera" ELSE "pasa"]
    /\ abiertas' = <<>>
    /\ enCurso' = FALSE /\ vieja' = FALSE
    /\ UNCHANGED <<dato, huboCaida, porLeer, visto>>

\* The process ends, by itself or forced, and another one starts.
Arrancar ==
    /\ cerrado
    /\ cerrado' = FALSE /\ huboCaida' = FALSE
    /\ con' = [c \in Clientes |-> "fuera"]
    /\ abiertas' = <<>>
    /\ UNCHANGED <<dato, cliente, avisos, enCurso, vieja, reintento, porLeer, visto, fallas>>

Next ==
    \/ Cambiar
    \/ Entregar
    \/ AbrirBien
    \/ AbrirMal
    \/ CaerAbriendo
    \/ AsentarVieja
    \/ Caer
    \/ Reintentar
    \/ \E c \in Clientes : Conectar(c) \/ Suscribir(c) \/ Cortar(c) \/ Leer(c)
    \/ CerrarEventos
    \/ Arrancar

\* The event loop and the database answer, the timer fires, a browser whose
\* stream ended tries again and reads when told, a closed process is replaced.
Justicia ==
    /\ WF_vars(Entregar) /\ WF_vars(AbrirBien) /\ WF_vars(AsentarVieja)
    /\ WF_vars(Reintentar) /\ WF_vars(Arrancar)
    /\ \A c \in Clientes : WF_vars(Conectar(c)) /\ WF_vars(Suscribir(c)) /\ WF_vars(Leer(c))

Spec == Init /\ [][Next]_vars /\ Justicia

-----------------------------------------------------------------------------
(* A client whose stream is open and who has not seen the last commit has   *)
(* been told to read, or a notice is queued for the listening connection,   *)
(* or that connection is down and marked, so that its return tells          *)
(* everybody: no order of falls, openings, cut streams and commits leaves   *)
(* an open screen forgotten, not even an opening whose promise another one  *)
(* overwrote.                                                               *)
NadieOlvidado ==
    \A c \in Dentro :
        visto[c] < dato /\ ~cerrado
            => c \in porLeer \/ avisos > 0 \/ (cliente # "lista" /\ huboCaida)

(* Every client ends up seeing every commit, through falls of the listening *)
(* connection, broken streams, restarts, and more tabs than the limit that  *)
(* push each other out.  Commits are bounded, so after the last one there   *)
(* must be moments at which everybody has seen it.                          *)
TodosSeEnteran == []<>(\A c \in Clientes : visto[c] = dato)
=============================================================================
