---------------------------- MODULE ColaImpresion ----------------------------
(***************************************************************************)
(* The print queue: jobs of pos_impresiones, claimed under a lease by the  *)
(* print agents, which poll the server, print, and report how it went.     *)
(*                                                                         *)
(* The agent is another program: of it, the model has what the server      *)
(* counts on.  It prints what it was given or fails, it may stop at any    *)
(* time, and its report may come late, twice or never.  Whether it skips   *)
(* a job it knows it has printed makes no difference here: what is         *)
(* recorded is which jobs came out on paper, not how many times.           *)
(***************************************************************************)
EXTENDS Integers, FiniteSets

CONSTANTS
    Trabajos,       \* ids of pos_impresiones rows
    Agentes,        \* print agents of the empresa
    AgentesDe,      \* the agents that may claim each job: those of its printer
    MAX_INTENTOS,   \* attempts before a job is given up
    MaxVueltas      \* bound of the model on the reprints of a job

ASSUME ColaAssumption ==
    /\ AgentesDe \in [Trabajos -> SUBSET Agentes]
    /\ MAX_INTENTOS \in Nat \ {0}
    /\ MaxVueltas \in Nat

VARIABLES
    trabajos,       \* pos_impresiones
    reclamando,     \* agents whose claim ran its first statement and not yet its second
    manos,          \* what each agent was given and has not printed yet
    reportes,       \* results sent and not yet handled
    salidas         \* history: the jobs that came out on paper, at which reprint

vars == <<trabajos, reclamando, manos, reportes, salidas>>

-----------------------------------------------------------------------------
EnCola == {"PENDIENTE", "IMPRIMIENDO"}
Cerrados == {"IMPRESO", "ERROR", "SIN_IMPRESORA", "DESCARTADA"}

\* `bloqueado`: bloqueado_hasta is still to come, the lease of a job being
\* printed or the pause before a retry.  `reimpresiones` numbers the reprints
\* asked for.  `entregas` and `navegador` are history: how often the job was
\* given to an agent since it was queued, and whether it was closed as
\* printed from the browser.
SinTrabajo ==
    [estado |-> "LIBRE", intentos |-> 0, bloqueado |-> FALSE, reimpresiones |-> 0,
     entregas |-> 0, navegador |-> FALSE]

Init ==
    /\ trabajos = [j \in Trabajos |-> SinTrabajo]
    /\ reclamando = {}
    /\ manos = [a \in Agentes |-> {}]
    /\ reportes = {}
    /\ salidas = {}

\* #crearImpresion and #encolarCorte: without a printer the job waits for one.
Encolar(j, conImpresora) ==
    /\ trabajos[j].estado = "LIBRE"
    /\ trabajos' = [trabajos EXCEPT ![j].estado = IF conImpresora THEN "PENDIENTE" ELSE "SIN_IMPRESORA"]
    /\ UNCHANGED <<reclamando, manos, reportes, salidas>>

\* A lease that runs out between the two statements of a claim can go one
\* attempt past the last.  Bound of the model: once one did, claims come one
\* at a time, and the lease runs out between two claims.
DeMas(j) == trabajos[j].estado = "IMPRIMIENDO" /\ trabajos[j].intentos >= MAX_INTENTOS

\* Time reaches bloqueado_hasta.
Vencer(j) ==
    /\ trabajos[j].bloqueado
    /\ DeMas(j) => reclamando = {}
    /\ trabajos' = [trabajos EXCEPT ![j].bloqueado = FALSE]
    /\ UNCHANGED <<reclamando, manos, reportes, salidas>>

-----------------------------------------------------------------------------
\* The give-up comes too late.
AgotadoTarde(j) ==
    /\ trabajos[j].estado = "IMPRIMIENDO"
    /\ ~trabajos[j].bloqueado
    /\ trabajos[j].intentos > MAX_INTENTOS + 1

\* A job whose lease ran out with no attempt left.
Agotado(j) ==
    /\ trabajos[j].estado = "IMPRIMIENDO"
    /\ ~trabajos[j].bloqueado
    /\ trabajos[j].intentos >= MAX_INTENTOS - 1

\* reclamarPendientes, first statement: the jobs nobody confirmed in time,
\* whoever had them, are given up.
Rendir(a) ==
    /\ a \notin reclamando
    /\ (\E j \in Trabajos : DeMas(j)) => reclamando = {}
    /\ reclamando' = reclamando \cup {a}
    /\ trabajos' = [j \in Trabajos |->
           IF Agotado(j) THEN [trabajos[j] EXCEPT !.estado = "ERROR"] ELSE trabajos[j]]
    /\ UNCHANGED <<manos, reportes, salidas>>

\* The redelivery is not counted.
SinContar(j) == trabajos[j].intentos

\* A job claimed again because its lease ran out has used an attempt.
IntentosAlTomar(j) == trabajos[j].intentos + (IF trabajos[j].estado = "IMPRIMIENDO" THEN 1 ELSE 0)

\* Only what waits is given: a job whose agent stopped is nobody's.
SoloPendiente(j) == trabajos[j].estado = "PENDIENTE" /\ ~trabajos[j].bloqueado

\* What waits, and what was not confirmed in time.
Tomable(j) == trabajos[j].estado \in EnCola /\ ~trabajos[j].bloqueado

\* Second statement: what can be taken of the agent's printers is given to it
\* under a lease.
Tomar(a) ==
    LET T == {j \in Trabajos : a \in AgentesDe[j] /\ Tomable(j)}
    IN
    /\ a \in reclamando
    /\ reclamando' = reclamando \ {a}
    /\ trabajos' = [j \in Trabajos |->
           IF j \in T
           THEN [trabajos[j] EXCEPT !.estado = "IMPRIMIENDO", !.bloqueado = TRUE,
                                    !.intentos = IntentosAlTomar(j), !.entregas = @ + 1]
           ELSE trabajos[j]]
    /\ manos' = [manos EXCEPT ![a] =
           @ \cup {[trabajo |-> j, vuelta |-> trabajos[j].reimpresiones] : j \in T}]
    /\ UNCHANGED <<reportes, salidas>>

\* The agent prints a job it was given, or fails to, and reports it.
Imprimir(a, e, ok) ==
    /\ e \in manos[a]
    /\ manos' = [manos EXCEPT ![a] = @ \ {e}]
    /\ salidas' = IF ok THEN salidas \cup {e} ELSE salidas
    /\ reportes' = reportes \cup {[trabajo |-> e.trabajo, ok |-> ok]}
    /\ UNCHANGED <<trabajos, reclamando>>

\* The agent stops, or the answer to its claim never reaches it.
Caida(a) ==
    /\ manos[a] # {}
    /\ manos' = [manos EXCEPT ![a] = {}]
    /\ UNCHANGED <<trabajos, reclamando, reportes, salidas>>

Perder(r) ==
    /\ r \in reportes
    /\ reportes' = reportes \ {r}
    /\ UNCHANGED <<trabajos, reclamando, manos, salidas>>

\* The report is taken whatever became of the job.
ComoSea(j) == trabajos[j].estado # "LIBRE"

EnImpresion(j) == trabajos[j].estado = "IMPRIMIENDO"

\* resultado: only of a job being printed; which agent reports is not looked
\* at.  The report may be sent again.
Resultado(r) ==
    LET j == r.trabajo
        intentos == trabajos[j].intentos + 1
        agotado == intentos >= MAX_INTENTOS
    IN
    /\ r \in reportes
    /\ reportes' \in {reportes, reportes \ {r}}
    /\ \/ /\ EnImpresion(j) /\ r.ok
          /\ trabajos' = [trabajos EXCEPT ![j].estado = "IMPRESO", ![j].bloqueado = FALSE]
       \/ /\ EnImpresion(j) /\ ~r.ok
          /\ trabajos' = [trabajos EXCEPT ![j].estado = IF agotado THEN "ERROR" ELSE "PENDIENTE",
                                          ![j].intentos = intentos, ![j].bloqueado = ~agotado]
       \/ ~EnImpresion(j) /\ UNCHANGED trabajos
    /\ UNCHANGED <<reclamando, manos, salidas>>

-----------------------------------------------------------------------------
\* marcarImpresoNavegador
ImpresoNavegador(j) ==
    /\ trabajos[j].estado \in {"SIN_IMPRESORA", "ERROR"}
    /\ trabajos' = [trabajos EXCEPT ![j].estado = "IMPRESO", ![j].navegador = TRUE]
    /\ UNCHANGED <<reclamando, manos, reportes, salidas>>

\* descartar, and descartarVarios for several jobs
Descartar(J) ==
    /\ J # {}
    /\ \A j \in J : trabajos[j].estado \in {"PENDIENTE", "ERROR", "SIN_IMPRESORA"}
    /\ trabajos' = [j \in Trabajos |->
           IF j \in J THEN [trabajos[j] EXCEPT !.estado = "DESCARTADA", !.bloqueado = FALSE]
           ELSE trabajos[j]]
    /\ UNCHANGED <<reclamando, manos, reportes, salidas>>

\* reimprimir: back to the queue from any state.  It is numbered as a new
\* print unless the job had been given up, discarded or never had a printer.
Reimprimir(j) ==
    LET nueva == trabajos[j].estado \notin {"ERROR", "SIN_IMPRESORA", "DESCARTADA"}
    IN
    /\ trabajos[j].estado # "LIBRE"
    /\ trabajos[j].reimpresiones < MaxVueltas
    /\ trabajos' = [trabajos EXCEPT ![j] =
           [estado |-> "PENDIENTE", intentos |-> 0, bloqueado |-> FALSE,
            reimpresiones |-> @.reimpresiones + (IF nueva THEN 1 ELSE 0),
            entregas |-> 0, navegador |-> FALSE]]
    /\ UNCHANGED <<reclamando, manos, reportes, salidas>>

-----------------------------------------------------------------------------
Next ==
    \/ \E j \in Trabajos : \/ \E con \in BOOLEAN : Encolar(j, con)
                           \/ Vencer(j)
                           \/ ImpresoNavegador(j)
                           \/ Reimprimir(j)
    \/ \E J \in SUBSET Trabajos : Descartar(J)
    \/ \E a \in Agentes : \/ Rendir(a)
                          \/ Tomar(a)
                          \/ Caida(a)
                          \/ \E e \in manos[a], ok \in BOOLEAN : Imprimir(a, e, ok)
    \/ \E r \in reportes : Perder(r) \/ Resultado(r)

\* Time passes (strong fairness, because the bound above may put a lease off
\* while a claim runs), and the agents keep polling; nothing says that they
\* print, or that their reports arrive.
Spec ==
    /\ Init /\ [][Next]_vars
    /\ \A j \in Trabajos : SF_vars(Vencer(j))
    /\ \A a \in Agentes : WF_vars(Rendir(a)) /\ WF_vars(Tomar(a))

-----------------------------------------------------------------------------
\* The rows are well formed, and the agents and the reports refer to jobs
\* that were queued.
TypeOK ==
    /\ trabajos \in [Trabajos ->
           [estado : {"LIBRE"} \cup EnCola \cup Cerrados, intentos : 0..(MAX_INTENTOS + 1),
            bloqueado : BOOLEAN, reimpresiones : 0..MaxVueltas, entregas : Nat,
            navegador : BOOLEAN]]
    /\ reclamando \subseteq Agentes
    /\ manos \in [Agentes -> SUBSET [trabajo : Trabajos, vuelta : 0..MaxVueltas]]
    /\ reportes \subseteq [trabajo : Trabajos, ok : BOOLEAN]
    /\ salidas \subseteq [trabajo : Trabajos, vuelta : 0..MaxVueltas]

\* A job is never handed out again for free: each time after the first one
\* has used an attempt, whoever lets the lease run out, stops or reports
\* twice.
EntregasContadas ==
    \A j \in Trabajos : trabajos[j].estado \in EnCola =>
        trabajos[j].entregas <=
            trabajos[j].intentos + (IF trabajos[j].estado = "IMPRIMIENDO" THEN 1 ELSE 0)

\* What was printed stays printed: no timeout and no late, repeated or
\* contradicting report puts it back in the queue; only somebody asking for a
\* reprint does, and the job is then numbered as a new print.
LoImpresoNoVuelve ==
    [][\A j \in Trabajos : trabajos[j].estado = "IMPRESO" =>
           \/ trabajos'[j].estado = "IMPRESO"
           \/ trabajos'[j].reimpresiones > trabajos[j].reimpresiones]_vars

\* A job that can be claimed does not stay in the queue for ever, even if
\* every agent keeps stopping or its reports are lost: it comes out, it is
\* given up (and the POS tells so), or somebody discards it.
TodoTrabajoTermina ==
    \A j \in Trabajos : AgentesDe[j] # {} =>
        (trabajos[j].estado \in EnCola ~> trabajos[j].estado \in Cerrados)

\* Stated by db/migrations/032: every manual reprint is a new print, told
\* apart from the redelivery of a job whose confirmation was lost.  So a
\* reprint the queue has as printed did come out.
ReimpresionSale ==
    \A j \in Trabajos : trabajos[j].estado = "IMPRESO" =>
        \/ trabajos[j].navegador
        \/ [trabajo |-> j, vuelta |-> trabajos[j].reimpresiones] \in salidas
=============================================================================
