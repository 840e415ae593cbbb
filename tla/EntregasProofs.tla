--------------------------- MODULE EntregasProofs ---------------------------
(***************************************************************************)
(* Theorems about what is delivered, for any jobs, agents, clients,         *)
(* petitions and limits: the print queue on its own, and the composition of *)
(* Entregas, whose notices (Eventos) and end of a process (Cierre) have the *)
(* invariants EvInv and CiInv.                                              *)
(***************************************************************************)
EXTENDS Entregas, FiniteSetTheorems, SequenceTheorems, TLAPS

-----------------------------------------------------------------------------
(* ColaImpresion                                                            *)

\* The attempts a job has used where it is: one that waits has one left, one
\* that is printed is on its last at most, and one that was never queued has
\* none.
IntentosJustos ==
    \A j \in Trabajos :
        /\ trabajos[j].estado = "PENDIENTE" => trabajos[j].intentos < MAX_INTENTOS
        /\ trabajos[j].estado = "IMPRIMIENDO" => trabajos[j].intentos <= MAX_INTENTOS
        /\ trabajos[j].estado = "LIBRE" => trabajos[j] = SinTrabajo

\* A claim that is half way finds no job past its last attempt (what the
\* model's bound on such claims, in Vencer and Rendir, is for; only the bound of
\* `intentos` in TypeOK rests on it).
NadieDeMas ==
    \A j \in Trabajos : DeMas(j) /\ ~trabajos[j].bloqueado => reclamando = {}

\* The inductive invariant.
IInv == TypeOK /\ IntentosJustos /\ NadieDeMas /\ EntregasContadas

\* The row of a job in pos_impresiones.
Fila ==
    [estado : {"LIBRE"} \cup EnCola \cup Cerrados, intentos : 0..(MAX_INTENTOS + 1),
     bloqueado : BOOLEAN, reimpresiones : 0..MaxVueltas, entregas : Nat,
     navegador : BOOLEAN]

-----------------------------------------------------------------------------
\* What an action does to the rows keeps the invariant if it does so row by
\* row and claims nothing: the rows it touches stay well formed and counted,
\* and none of them becomes one past its last attempt out of its lease.
LEMMA PorFilas ==
    ASSUME IInv,
           reclamando' = reclamando, manos' \in [Agentes -> SUBSET [trabajo : Trabajos, vuelta : 0..MaxVueltas]],
           reportes' \subseteq [trabajo : Trabajos, ok : BOOLEAN],
           salidas' \subseteq [trabajo : Trabajos, vuelta : 0..MaxVueltas],
           trabajos' \in [Trabajos -> Fila],
           \A j \in Trabajos : trabajos'[j] # trabajos[j] =>
               LET f == trabajos'[j]
               IN  /\ f.estado = "PENDIENTE" => f.intentos < MAX_INTENTOS /\ f.entregas <= f.intentos
                   /\ f.estado \notin {"IMPRIMIENDO", "LIBRE"}
    PROVE  IInv'
<1>1. TypeOK'
  BY DEF IInv, TypeOK, Fila
<1>2. IntentosJustos'
  BY DEF IInv, IntentosJustos
<1>3. NadieDeMas'
  BY DEF IInv, NadieDeMas, DeMas
<1>4. EntregasContadas'
  <2> SUFFICES ASSUME NEW j \in Trabajos, trabajos'[j].estado \in EnCola
               PROVE  trabajos'[j].entregas <= trabajos'[j].intentos
                          + (IF trabajos'[j].estado = "IMPRIMIENDO" THEN 1 ELSE 0)
    BY DEF EntregasContadas
  <2>1. CASE trabajos'[j] = trabajos[j]
    BY <2>1 DEF IInv, EntregasContadas
  <2>2. CASE trabajos'[j] # trabajos[j]
    BY <2>2 DEF EnCola, Fila
  <2> QED
    BY <2>1, <2>2
<1> QED
  BY <1>1, <1>2, <1>3, <1>4 DEF IInv

\* At the start nothing is queued.
LEMMA InitIInv == Init => IInv
BY ColaAssumption DEF Init, IInv, TypeOK, IntentosJustos, NadieDeMas, DeMas, EntregasContadas,
   SinTrabajo, EnCola, Cerrados

\* A queued job starts with its attempts untouched.
LEMMA EncolarIInv ==
    ASSUME IInv, NEW j \in Trabajos, NEW lista \in BOOLEAN, Encolar(j, lista)
    PROVE  IInv'
<1> DEFINE e == IF lista THEN "PENDIENTE" ELSE "SIN_IMPRESORA"
<1>1. trabajos[j] = SinTrabajo
  BY DEF IInv, IntentosJustos, Encolar
<1>2. trabajos' = [trabajos EXCEPT ![j].estado = e]
  BY DEF Encolar
<1>3. trabajos' \in [Trabajos -> Fila]
  BY <1>2 DEF IInv, TypeOK, Fila, EnCola, Cerrados
<1>4. trabajos'[j].estado = e /\ trabajos'[j].intentos = 0 /\ trabajos'[j].entregas = 0
  BY <1>1, <1>2 DEF IInv, TypeOK, SinTrabajo
<1>5. \A x \in Trabajos : x # j => trabajos'[x] = trabajos[x]
  BY <1>2 DEF IInv, TypeOK
<1> QED
  BY <1>3, <1>4, <1>5, ColaAssumption, PorFilas DEF IInv, TypeOK, Encolar

\* A lease that runs out past the last attempt does so with no claim half way.
LEMMA VencerIInv ==
    ASSUME IInv, NEW j \in Trabajos, Vencer(j)
    PROVE  IInv'
<1>1. trabajos' = [trabajos EXCEPT ![j].bloqueado = FALSE]
  BY DEF Vencer
<1>2. TypeOK'
  <2>1. trabajos' \in [Trabajos -> Fila]
    BY <1>1 DEF IInv, TypeOK, Fila
  <2> QED
    BY <2>1 DEF IInv, TypeOK, Fila, Vencer
<1>3. \A x \in Trabajos : /\ trabajos'[x].estado = trabajos[x].estado
                          /\ trabajos'[x].intentos = trabajos[x].intentos
                          /\ trabajos'[x].entregas = trabajos[x].entregas
                          /\ x # j => trabajos'[x] = trabajos[x]
  BY <1>1 DEF IInv, TypeOK
<1>4. IntentosJustos'
  BY <1>3 DEF IInv, IntentosJustos, Vencer, SinTrabajo
<1>5. NadieDeMas'
  BY <1>3 DEF IInv, NadieDeMas, DeMas, Vencer
<1>6. EntregasContadas'
  BY <1>3 DEF IInv, EntregasContadas
<1> QED
  BY <1>2, <1>4, <1>5, <1>6 DEF IInv

\* Giving up before a claim closes every job past its last attempt that is
\* out of its lease.
LEMMA RendirIInv ==
    ASSUME IInv, NEW a \in Agentes, Rendir(a)
    PROVE  IInv'
<1> DEFINE fin(j) == [trabajos[j] EXCEPT !.estado = "ERROR"]
<1>1. trabajos' = [j \in Trabajos |-> IF Agotado(j) THEN fin(j) ELSE trabajos[j]]
  BY DEF Rendir
<1>2. \A j \in Trabajos : trabajos[j] \in Fila
  BY DEF IInv, TypeOK, Fila
<1>3. \A j \in Trabajos : /\ Agotado(j) => trabajos'[j] = fin(j) /\ trabajos'[j].estado = "ERROR"
                          /\ ~Agotado(j) => trabajos'[j] = trabajos[j]
  BY <1>1, <1>2 DEF Fila
<1>4. TypeOK'
  <2>1. trabajos' \in [Trabajos -> Fila]
    BY <1>1, <1>2 DEF Fila, Cerrados
  <2> QED
    BY <2>1 DEF IInv, TypeOK, Fila, Rendir
<1>5. IntentosJustos'
  BY <1>3 DEF IInv, IntentosJustos
<1>6. NadieDeMas'
  <2> SUFFICES ASSUME NEW j \in Trabajos, DeMas(j)', ~trabajos'[j].bloqueado
               PROVE  FALSE
    BY DEF NadieDeMas
  <2>1. ~Agotado(j) /\ trabajos'[j] = trabajos[j]
    BY <1>3 DEF DeMas
  <2> QED
    BY <2>1, <1>2, ColaAssumption DEF DeMas, Agotado, Fila
<1>7. EntregasContadas'
  BY <1>3 DEF IInv, EntregasContadas, EnCola
<1> QED
  BY <1>4, <1>5, <1>6, <1>7 DEF IInv

\* A job is given with an attempt left, or on its last; the delivery of one
\* whose lease ran out is paid with an attempt.
LEMMA TomarIInv ==
    ASSUME IInv, NEW a \in Agentes, Tomar(a)
    PROVE  IInv'
<1> DEFINE T == {j \in Trabajos : a \in AgentesDe[j] /\ Tomable(j)}
           dada(j) == [trabajos[j] EXCEPT !.estado = "IMPRIMIENDO", !.bloqueado = TRUE,
                                          !.intentos = IntentosAlTomar(j), !.entregas = @ + 1]
<1>1. trabajos' = [j \in Trabajos |-> IF j \in T THEN dada(j) ELSE trabajos[j]]
  BY DEF Tomar
<1>2. \A j \in Trabajos : trabajos[j] \in Fila
  BY DEF IInv, TypeOK, Fila
<1>3. ASSUME NEW j \in T
      PROVE  /\ IntentosAlTomar(j) \in 0..MAX_INTENTOS
             /\ trabajos[j].entregas + 1 <= IntentosAlTomar(j) + 1
  <2>1. /\ trabajos[j].estado \in EnCola /\ ~trabajos[j].bloqueado
        /\ trabajos[j].intentos \in Nat /\ trabajos[j].entregas \in Nat
    BY <1>2 DEF Tomable, Fila
  <2>2. CASE trabajos[j].estado = "PENDIENTE"
    BY <2>1, <2>2, ColaAssumption DEF IInv, IntentosJustos, EntregasContadas, IntentosAlTomar, EnCola
  <2>3. CASE trabajos[j].estado = "IMPRIMIENDO"
    <3>1. ~DeMas(j)
      BY <2>1 DEF IInv, NadieDeMas, Tomar
    <3>2. trabajos[j].entregas <= trabajos[j].intentos + 1
      BY <2>1, <2>3 DEF IInv, EntregasContadas
    <3> QED
      BY <2>1, <2>3, <3>1, <3>2, ColaAssumption DEF DeMas, IntentosAlTomar
  <2> QED
    BY <2>1, <2>2, <2>3 DEF EnCola
<1>4. ASSUME NEW j \in T
      PROVE  dada(j) \in Fila
  <2>1. IntentosAlTomar(j) \in 0..(MAX_INTENTOS + 1)
    BY <1>3, ColaAssumption
  <2>2. trabajos[j] \in Fila
    BY <1>2
  <2>3. /\ trabajos[j].entregas + 1 \in Nat
        /\ "IMPRIMIENDO" \in {"LIBRE"} \cup EnCola \cup Cerrados
    BY <2>2 DEF Fila, EnCola
  <2> HIDE DEF T
  <2> QED
    BY <2>1, <2>2, <2>3 DEF Fila
<1>5. /\ \A j \in T : trabajos'[j] = dada(j)
      /\ \A j \in Trabajos : j \notin T => trabajos'[j] = trabajos[j]
  BY <1>1
<1>6. \A j \in T : /\ trabajos'[j].estado = "IMPRIMIENDO" /\ trabajos'[j].bloqueado
                   /\ trabajos'[j].intentos = IntentosAlTomar(j)
                   /\ trabajos'[j].entregas = trabajos[j].entregas + 1
  BY <1>2, <1>5 DEF Fila
<1>7. TypeOK'
  <2>1. trabajos' \in [Trabajos -> Fila]
    BY <1>1, <1>2, <1>4
  <2>2. manos' \in [Agentes -> SUBSET [trabajo : Trabajos, vuelta : 0..MaxVueltas]]
    <3>1. {[trabajo |-> j, vuelta |-> trabajos[j].reimpresiones] : j \in T}
             \subseteq [trabajo : Trabajos, vuelta : 0..MaxVueltas]
      BY <1>2 DEF Fila
    <3>2. manos' = [manos EXCEPT ![a] =
              @ \cup {[trabajo |-> j, vuelta |-> trabajos[j].reimpresiones] : j \in T}]
      BY DEF Tomar
    <3> QED
      BY <3>1, <3>2 DEF IInv, TypeOK
  <2> QED
    BY <2>1, <2>2 DEF IInv, TypeOK, Fila, Tomar
<1>8. IntentosJustos'
  <2> SUFFICES ASSUME NEW j \in Trabajos
               PROVE  /\ trabajos'[j].estado = "PENDIENTE" => trabajos'[j].intentos < MAX_INTENTOS
                      /\ trabajos'[j].estado = "IMPRIMIENDO" => trabajos'[j].intentos <= MAX_INTENTOS
                      /\ trabajos'[j].estado = "LIBRE" => trabajos'[j] = SinTrabajo
    BY DEF IntentosJustos
  <2>1. CASE j \in T
    BY <1>3, <1>6, <2>1, ColaAssumption
  <2>2. CASE j \notin T
    BY <1>5, <2>2 DEF IInv, IntentosJustos
  <2> QED
    BY <2>1, <2>2
<1>9. NadieDeMas'
  BY <1>5, <1>6 DEF IInv, NadieDeMas, DeMas, Tomar
<1>10. EntregasContadas'
  <2> SUFFICES ASSUME NEW j \in Trabajos, trabajos'[j].estado \in EnCola
               PROVE  trabajos'[j].entregas <= trabajos'[j].intentos
                          + (IF trabajos'[j].estado = "IMPRIMIENDO" THEN 1 ELSE 0)
    BY DEF EntregasContadas
  <2>1. CASE j \in T
    BY <1>3, <1>6, <2>1
  <2>2. CASE j \notin T
    BY <1>5, <2>2 DEF IInv, EntregasContadas
  <2> QED
    BY <2>1, <2>2
<1> QED
  BY <1>7, <1>8, <1>9, <1>10 DEF IInv

-----------------------------------------------------------------------------
\* The agents and the network touch no row.
LEMMA AgenteIInv ==
    ASSUME IInv, NEW a \in Agentes,
           Caida(a) \/ \E e \in manos[a], ok \in BOOLEAN : Imprimir(a, e, ok)
    PROVE  IInv'
<1>1. trabajos' = trabajos /\ reclamando' = reclamando
  BY DEF Caida, Imprimir
<1>2. /\ manos' \in [Agentes -> SUBSET [trabajo : Trabajos, vuelta : 0..MaxVueltas]]
      /\ reportes' \subseteq [trabajo : Trabajos, ok : BOOLEAN]
      /\ salidas' \subseteq [trabajo : Trabajos, vuelta : 0..MaxVueltas]
  BY DEF IInv, TypeOK, Caida, Imprimir
<1> QED
  BY <1>1, <1>2, PorFilas DEF IInv, TypeOK, Fila

\* A report that is lost touches no row; one that is taken closes the job, or
\* puts it back to wait with an attempt less.
LEMMA ReporteIInv ==
    ASSUME IInv, NEW r \in reportes, Perder(r) \/ Resultado(r)
    PROVE  IInv'
<1> DEFINE j == r.trabajo
           intentos == trabajos[j].intentos + 1
           agotado == intentos >= MAX_INTENTOS
<1>1. /\ reclamando' = reclamando /\ manos' = manos /\ salidas' = salidas
      /\ reportes' \subseteq [trabajo : Trabajos, ok : BOOLEAN]
  BY DEF IInv, TypeOK, Perder, Resultado
<1>2. j \in Trabajos /\ trabajos[j] \in Fila
  BY DEF IInv, TypeOK, Fila
<1>3. CASE trabajos' = trabajos
  BY <1>1, <1>3, PorFilas DEF IInv, TypeOK, Fila
<1>4. CASE EnImpresion(j) /\ trabajos' = [trabajos EXCEPT ![j].estado = "IMPRESO", ![j].bloqueado = FALSE]
  <2>1. trabajos' \in [Trabajos -> Fila]
    BY <1>2, <1>4 DEF IInv, TypeOK, Fila, Cerrados
  <2>2. trabajos'[j].estado = "IMPRESO" /\ \A x \in Trabajos : x # j => trabajos'[x] = trabajos[x]
    BY <1>2, <1>4 DEF IInv, TypeOK, Fila
  <2> QED
    BY <1>1, <2>1, <2>2, PorFilas DEF IInv, TypeOK
<1>5. CASE /\ EnImpresion(j)
           /\ trabajos' = [trabajos EXCEPT ![j].estado = IF agotado THEN "ERROR" ELSE "PENDIENTE",
                                           ![j].intentos = intentos, ![j].bloqueado = ~agotado]
  <2>1. /\ intentos \in 0..(MAX_INTENTOS + 1)
        /\ trabajos[j].entregas <= intentos
    BY <1>2, <1>5, ColaAssumption DEF IInv, IntentosJustos, EntregasContadas, EnImpresion, EnCola, Fila
  <2>2. trabajos' \in [Trabajos -> Fila]
    BY <1>2, <1>5, <2>1 DEF IInv, TypeOK, Fila, Cerrados, EnCola
  <2>3. /\ trabajos'[j].estado = IF agotado THEN "ERROR" ELSE "PENDIENTE"
        /\ trabajos'[j].intentos = intentos
        /\ trabajos'[j].entregas = trabajos[j].entregas
        /\ \A x \in Trabajos : x # j => trabajos'[x] = trabajos[x]
    BY <1>2, <1>5 DEF IInv, TypeOK, Fila
  <2>4. ~agotado => intentos < MAX_INTENTOS
    BY <2>1, ColaAssumption
  <2> QED
    BY <1>1, <2>1, <2>2, <2>3, <2>4, PorFilas DEF IInv, TypeOK
<1> QED
  BY <1>3, <1>4, <1>5 DEF Perder, Resultado

-----------------------------------------------------------------------------
\* Closing jobs from the POS takes them out of the queue.
LEMMA CerrarIInv ==
    ASSUME IInv,
           \/ \E j \in Trabajos : ImpresoNavegador(j)
           \/ \E J \in SUBSET Trabajos : Descartar(J)
    PROVE  IInv'
<1>1. /\ reclamando' = reclamando /\ manos' = manos
      /\ reportes' = reportes /\ salidas' = salidas
  BY DEF ImpresoNavegador, Descartar
<1>2. \A j \in Trabajos : trabajos[j] \in Fila
  BY DEF IInv, TypeOK, Fila
<1>3. ASSUME NEW j \in Trabajos, ImpresoNavegador(j)
      PROVE  IInv'
  <2>1. trabajos' = [trabajos EXCEPT ![j].estado = "IMPRESO", ![j].navegador = TRUE]
    BY <1>3 DEF ImpresoNavegador
  <2>2. trabajos' \in [Trabajos -> Fila]
    BY <1>2, <2>1 DEF IInv, TypeOK, Fila, Cerrados
  <2>3. trabajos'[j].estado = "IMPRESO" /\ \A x \in Trabajos : x # j => trabajos'[x] = trabajos[x]
    BY <1>2, <2>1 DEF IInv, TypeOK, Fila
  <2> QED
    BY <1>1, <2>2, <2>3, PorFilas DEF IInv, TypeOK
<1>4. ASSUME NEW J \in SUBSET Trabajos, Descartar(J)
      PROVE  IInv'
  <2>1. trabajos' = [j \in Trabajos |->
            IF j \in J THEN [trabajos[j] EXCEPT !.estado = "DESCARTADA", !.bloqueado = FALSE]
            ELSE trabajos[j]]
    BY <1>4 DEF Descartar
  <2>2. trabajos' \in [Trabajos -> Fila]
    BY <1>2, <2>1 DEF Fila, Cerrados
  <2>3. \A j \in Trabajos : trabajos'[j] # trabajos[j] => trabajos'[j].estado = "DESCARTADA"
    BY <1>2, <2>1 DEF Fila
  <2> QED
    BY <1>1, <2>2, <2>3, PorFilas DEF IInv, TypeOK
<1> QED
  BY <1>3, <1>4

\* A reprint starts over.
LEMMA ReimprimirIInv ==
    ASSUME IInv, NEW j \in Trabajos, Reimprimir(j)
    PROVE  IInv'
<1> DEFINE nueva == trabajos[j].estado \notin {"ERROR", "SIN_IMPRESORA", "DESCARTADA"}
           vuelta == trabajos[j].reimpresiones + (IF nueva THEN 1 ELSE 0)
           otra == [estado |-> "PENDIENTE", intentos |-> 0, bloqueado |-> FALSE,
                    reimpresiones |-> vuelta, entregas |-> 0, navegador |-> FALSE]
<1>1. /\ reclamando' = reclamando /\ manos' = manos
      /\ reportes' = reportes /\ salidas' = salidas
      /\ trabajos' = [trabajos EXCEPT ![j] = otra]
  BY DEF Reimprimir
<1>2. vuelta \in 0..MaxVueltas
  BY ColaAssumption DEF IInv, TypeOK, Reimprimir
<1>3. otra \in Fila
  BY <1>2, ColaAssumption DEF Fila, EnCola
<1>4. trabajos' \in [Trabajos -> Fila]
  BY <1>1, <1>3 DEF IInv, TypeOK, Fila
<1>5. trabajos'[j] = otra /\ \A x \in Trabajos : x # j => trabajos'[x] = trabajos[x]
  BY <1>1 DEF IInv, TypeOK
<1> QED
  BY <1>1, <1>4, <1>5, ColaAssumption, PorFilas DEF IInv, TypeOK

\* Every step of the queue keeps the invariant.
LEMMA PasoIInv == IInv /\ [Next]_vars => IInv'
<1> SUFFICES ASSUME IInv, [Next]_vars PROVE IInv'
  OBVIOUS
<1>1. CASE UNCHANGED vars
  BY <1>1, PorFilas DEF vars, IInv, TypeOK, Fila
<1>2. CASE Next
  BY <1>2, EncolarIInv, VencerIInv, RendirIInv, TomarIInv, AgenteIInv, ReporteIInv,
     CerrarIInv, ReimprimirIInv DEF Next
<1> QED
  BY <1>1, <1>2

\* The rows of the queue are always well formed, and the agents and the
\* reports refer to jobs that exist, at a reprint that was asked for.
THEOREM TypeCorrect == Spec => []TypeOK
<1>1. IInv => TypeOK
  BY DEF IInv
<1> QED
  BY <1>1, InitIInv, PasoIInv, PTL DEF Spec

\* reclamarPendientes never hands a job out again for free: each delivery
\* after the first has used an attempt, however leases, crashes and repeated
\* reports cross.
THEOREM EntregasCorrectas == Spec => []EntregasContadas
<1>1. IInv => EntregasContadas
  BY DEF IInv
<1> QED
  BY <1>1, InitIInv, PasoIInv, PTL DEF Spec

\* In one step, a printed job stays so or has a reprint more.
QuedaImpreso ==
    \A j \in Trabajos : trabajos[j].estado = "IMPRESO" =>
        \/ trabajos'[j].estado = "IMPRESO"
        \/ trabajos'[j].reimpresiones > trabajos[j].reimpresiones

\* Only a reprint takes a printed job back to the queue.
LEMMA PasoImpreso == IInv /\ [Next]_vars => [QuedaImpreso]_vars
<1> SUFFICES ASSUME IInv, Next, NEW j \in Trabajos, trabajos[j].estado = "IMPRESO",
                    trabajos'[j].estado # "IMPRESO"
             PROVE  trabajos'[j].reimpresiones > trabajos[j].reimpresiones
  BY DEF QuedaImpreso
<1>1. trabajos \in [Trabajos -> Fila] /\ trabajos[j] \in Fila
  BY DEF IInv, TypeOK, Fila
<1>2. ASSUME NEW x \in Trabajos, NEW lista \in BOOLEAN, Encolar(x, lista) PROVE FALSE
  BY <1>1, <1>2 DEF Encolar
<1>3. ASSUME NEW x \in Trabajos, Vencer(x) \/ ImpresoNavegador(x) PROVE FALSE
  BY <1>1, <1>3 DEF Vencer, ImpresoNavegador, Fila
<1>4. ASSUME NEW x \in Trabajos, Reimprimir(x)
      PROVE  trabajos'[j].reimpresiones > trabajos[j].reimpresiones
  BY <1>1, <1>4 DEF Reimprimir, Fila
<1>5. ASSUME NEW J \in SUBSET Trabajos, Descartar(J) PROVE FALSE
  BY <1>5 DEF Descartar
<1>6. ASSUME NEW a \in Agentes, Rendir(a) \/ Tomar(a) PROVE FALSE
  BY <1>6 DEF Rendir, Agotado, Tomar, Tomable, EnCola
<1>7. ASSUME NEW a \in Agentes,
             Caida(a) \/ \E e \in manos[a], ok \in BOOLEAN : Imprimir(a, e, ok)
      PROVE  FALSE
  BY <1>7 DEF Caida, Imprimir
<1>8. ASSUME NEW r \in reportes, Perder(r) \/ Resultado(r) PROVE FALSE
  BY <1>1, <1>8 DEF Perder, Resultado, EnImpresion, Fila
<1> QED
  BY <1>2, <1>3, <1>4, <1>5, <1>6, <1>7, <1>8 DEF Next

\* What was printed stays printed: of all the steps, only reimprimir takes a
\* printed job back to the queue, and it numbers a new print.
THEOREM ImpresoNoVuelve == Spec => LoImpresoNoVuelve
BY InitIInv, PasoIInv, PasoImpreso, PTL DEF Spec, LoImpresoNoVuelve, QuedaImpreso

-----------------------------------------------------------------------------
(* Cierre                                                                  *)

\* As long as no error was left uncaught, the only handler at work is the one
\* of the signals, and it goes on from one step to the next with the server,
\* the requests and the database as that step found them.
SoloLaSenal ==
    cierre["fatal"] = "fuera" =>
        /\ cierre["senal"] = "eventos" => servidor = "escucha"
        /\ cierre["senal"] \in {"servidor", "base", "hecho"} <=> servidor = "dejo"
        /\ cierre["senal"] \in {"base", "hecho"} <=> base # "abierta"
        /\ base # "abierta" => Ci!EnCurso = {} /\ flujo = "fuera"
        /\ salida = "limpia" => base # "abierta"

CiInv ==
    /\ cierre \in [Ci!Quienes -> {"fuera", "eventos", "servidor", "base", "hecho"}]
    /\ servidor \in {"arranca", "escucha", "dejo"}
    /\ peticion \in [Clientes -> {"fuera", "corre", "consulta"}]
    /\ SoloLaSenal

\* At the start nobody closes anything.
LEMMA CiInicio == Ci!Init => CiInv
BY DEF Ci!Init, CiInv, SoloLaSenal, Ci!Quienes

\* Every step of the process that ends, and of what it was doing, keeps it.
LEMMA CiPaso == CiInv /\ [Ci!Next]_deCierre => CiInv'
<1> SUFFICES ASSUME CiInv, [Ci!Next]_deCierre PROVE CiInv'
  OBVIOUS
<1>1. CASE UNCHANGED deCierre
  BY <1>1 DEF CiInv, SoloLaSenal, deCierre, Ci!EnCurso
<1>2. CASE Ci!Escuchar \/ Ci!Flujo
  BY <1>2 DEF CiInv, SoloLaSenal, Ci!Escuchar, Ci!Flujo, Ci!clientes, Ci!EnCurso
<1>3. CASE Ci!Senal
  BY <1>3 DEF CiInv, SoloLaSenal, Ci!Senal, Ci!Empezar, Ci!Quienes, Ci!EnCurso
<1>4. CASE Ci!Fatal
  BY <1>4 DEF CiInv, SoloLaSenal, Ci!Fatal, Ci!Empezar, Ci!Quienes, Ci!clientes
<1>5. ASSUME NEW p \in Clientes, Ci!Pedir(p) \/ Ci!Consultar(p) \/ Ci!Devolver(p) \/ Ci!Responder(p)
      PROVE  CiInv'
  BY <1>5 DEF CiInv, SoloLaSenal, Ci!Pedir, Ci!Consultar, Ci!Devolver, Ci!Responder, Ci!EnCurso
<1>6. ASSUME NEW q \in Ci!Quienes, Ci!EventosCerrados(q)
      PROVE  CiInv'
  BY <1>6 DEF CiInv, SoloLaSenal, Ci!EventosCerrados, Ci!CerrarBase, Ci!Quienes, Ci!clientes,
     Ci!EnCurso
<1>7. ASSUME NEW q \in Ci!Quienes, Ci!ServidorCerrado(q)
      PROVE  CiInv'
  BY <1>7 DEF CiInv, SoloLaSenal, Ci!ServidorCerrado, Ci!CerrarBase, Ci!Quienes, Ci!clientes,
     Ci!EnCurso
<1>8. ASSUME NEW q \in Ci!Quienes, Ci!BaseCerrada(q)
      PROVE  CiInv'
  BY <1>8 DEF CiInv, SoloLaSenal, Ci!BaseCerrada, Ci!Quienes, Ci!clientes, Ci!EnCurso
<1>9. ASSUME NEW q \in Ci!Quienes, Ci!Salir(q) \/ Ci!Forzar(q)
      PROVE  CiInv'
  BY <1>9 DEF CiInv, SoloLaSenal, Ci!Salir, Ci!Forzar, Ci!Quienes, Ci!clientes, Ci!EnCurso
<1> QED
  BY <1>1, <1>2, <1>3, <1>4, <1>5, <1>6, <1>7, <1>8, <1>9 DEF Ci!Next

-----------------------------------------------------------------------------
(* Eventos                                                                 *)

\* The streams in order of age: each client has one at most, and is inside.
FilaDeFlujos ==
    /\ abiertas \in Seq(Clientes)
    /\ \A i, j \in 1..Len(abiertas) : abiertas[i] = abiertas[j] => i = j
    /\ \A i \in 1..Len(abiertas) : con[abiertas[i]] = "dentro"

\* Nobody has got past the wait for the connection that listens, nor is about to,
\* while it is down and its fall left no mark; a closed process has none.
CaidaMarcada ==
    /\ cliente # "lista" /\ ~huboCaida /\ ~cerrado =>
          /\ \A c \in Clientes : con[c] \notin {"pasa", "dentro"}
          /\ ~vieja
          /\ cliente = "abriendo" => enCurso
    /\ cerrado => cliente = "nada" /\ ~vieja

EvInv ==
    /\ dato \in Nat /\ avisos \in Nat /\ visto \in [Clientes -> Nat]
    /\ cliente \in {"nada", "abriendo", "lista"}
    /\ enCurso \in BOOLEAN /\ vieja \in BOOLEAN /\ huboCaida \in BOOLEAN /\ cerrado \in BOOLEAN
    /\ con \in [Clientes -> {"fuera", "espera", "esperaVieja", "pasa", "dentro"}]
    /\ FilaDeFlujos
    /\ CaidaMarcada
    /\ Ev!NadieOlvidado

\* Whoever is inside has a place among the streams.
LEMMA DentroEs == Ev!Dentro = {abiertas[i] : i \in DOMAIN abiertas}
BY DEF Ev!Dentro, Ev!ToSet

\* What keeps the streams as they are, and inside.
LEMMA MismosFlujos ==
    ASSUME EvInv, abiertas' = abiertas,
           \A c \in Clientes : con[c] = "dentro" => con'[c] = "dentro"
    PROVE  /\ FilaDeFlujos' /\ Ev!Dentro' = Ev!Dentro
           /\ \A c \in Ev!Dentro : c \in Clientes /\ con[c] = "dentro"
<1>1. \A i \in 1..Len(abiertas) : abiertas[i] \in Clientes /\ con[abiertas[i]] = "dentro"
  BY DEF EvInv, FilaDeFlujos
<1>2. FilaDeFlujos'
  BY <1>1 DEF EvInv, FilaDeFlujos
<1>3. DOMAIN abiertas = 1..Len(abiertas)
  BY DEF EvInv, FilaDeFlujos
<1> QED
  BY <1>1, <1>2, <1>3, DentroEs DEF Ev!Dentro, Ev!ToSet

\* What ends them all.
LEMMA SinFlujos ==
    ASSUME abiertas' = <<>>
    PROVE  FilaDeFlujos' /\ Ev!Dentro' = {}
<1>1. /\ <<>> \in Seq(Clientes) /\ 1..Len(<<>>) = {}
      /\ \A i \in 1..Len(<<>>) : FALSE
  OBVIOUS
<1>2. FilaDeFlujos'
  BY <1>1 DEF FilaDeFlujos
<1> QED
  BY <1>2 DEF Ev!Dentro, Ev!ToSet

LEMMA EvInicio == Ev!Init => EvInv
<1> SUFFICES ASSUME Ev!Init PROVE EvInv
  OBVIOUS
<1>1. <<>> \in Seq(Clientes) /\ \A i \in 1..Len(<<>>) : FALSE
  OBVIOUS
<1>2. FilaDeFlujos /\ Ev!NadieOlvidado
  BY <1>1 DEF Ev!Init, FilaDeFlujos, Ev!NadieOlvidado, Ev!Dentro, Ev!ToSet
<1> QED
  BY <1>2 DEF Ev!Init, EvInv, CaidaMarcada

\* The database: a commit that finds nobody listening finds the mark of the fall.
LEMMA EvCambiar == EvInv /\ Ev!Cambiar => EvInv'
<1> SUFFICES ASSUME EvInv, Ev!Cambiar PROVE EvInv'
  OBVIOUS
<1>1. /\ FilaDeFlujos' /\ Ev!Dentro' = Ev!Dentro
      /\ \A c \in Ev!Dentro : c \in Clientes /\ con[c] = "dentro"
  BY MismosFlujos DEF Ev!Cambiar
<1>2. CaidaMarcada'
  BY DEF Ev!Cambiar, EvInv, CaidaMarcada
<1>3. Ev!NadieOlvidado'
  <2> SUFFICES ASSUME NEW c \in Ev!Dentro, ~cerrado, ~(avisos' > 0)
               PROVE  cliente # "lista" /\ huboCaida
    BY <1>1 DEF Ev!NadieOlvidado, Ev!Cambiar
  <2>1. cliente # "lista"
    BY DEF Ev!Cambiar, EvInv
  <2> QED
    BY <1>1, <2>1 DEF EvInv, CaidaMarcada
<1> QED
  BY <1>1, <1>2, <1>3 DEF EvInv, Ev!Cambiar

LEMMA EvEntregar == EvInv /\ Ev!Entregar => EvInv'
<1> SUFFICES ASSUME EvInv, Ev!Entregar PROVE EvInv'
  OBVIOUS
<1>1. FilaDeFlujos' /\ Ev!Dentro' = Ev!Dentro
  BY MismosFlujos DEF Ev!Entregar
<1>2. CaidaMarcada' /\ Ev!NadieOlvidado'
  BY <1>1 DEF Ev!Entregar, EvInv, CaidaMarcada, Ev!NadieOlvidado
<1> QED
  BY <1>1, <1>2 DEF EvInv, Ev!Entregar

\* The connection that listens: when it opens after a fall everybody is told to
\* read, and whatever way it falls leaves its mark.
LEMMA EvAbrirBien == EvInv /\ Ev!AbrirBien => EvInv'
<1> SUFFICES ASSUME EvInv, Ev!AbrirBien PROVE EvInv'
  OBVIOUS
<1>1. con' = Ev!Soltar("espera", con) /\ con' \in [Clientes -> {"fuera", "espera", "esperaVieja", "pasa", "dentro"}]
  BY DEF Ev!AbrirBien, Ev!Soltar, EvInv
<1>2. FilaDeFlujos' /\ Ev!Dentro' = Ev!Dentro
  BY <1>1, MismosFlujos DEF Ev!AbrirBien, Ev!Soltar
<1>3. CaidaMarcada' /\ Ev!NadieOlvidado'
  BY <1>2 DEF Ev!AbrirBien, EvInv, CaidaMarcada, Ev!NadieOlvidado
<1> QED
  BY <1>1, <1>2, <1>3 DEF EvInv, Ev!AbrirBien

LEMMA EvCae ==
    ASSUME EvInv, \/ Ev!AbrirMal \/ Lleno!AbrirMal \/ Ev!CaerAbriendo \/ Lleno!CaerAbriendo
                  \/ Ev!Caer \/ Lleno!Caer
    PROVE  EvInv'
<1>1. /\ cliente' = "nada" /\ huboCaida' = TRUE /\ abiertas' = abiertas
      /\ cerrado' = cerrado /\ porLeer' = porLeer /\ visto' = visto /\ dato' = dato
      /\ avisos' \in {0, avisos} /\ enCurso' \in BOOLEAN /\ vieja' \in BOOLEAN
      /\ cliente # "nada"
  BY DEF EvInv, Ev!AbrirMal, Lleno!AbrirMal, Ev!CaerAbriendo, Lleno!CaerAbriendo, Ev!Caer,
     Lleno!Caer
<1>2. /\ con' \in [Clientes -> {"fuera", "espera", "esperaVieja", "pasa", "dentro"}]
      /\ \A c \in Clientes : con[c] = "dentro" => con'[c] = "dentro"
  BY DEF EvInv, Ev!AbrirMal, Lleno!AbrirMal, Ev!CaerAbriendo, Lleno!CaerAbriendo, Ev!Caer,
     Lleno!Caer, Ev!Soltar, Lleno!Soltar
<1>3. FilaDeFlujos' /\ Ev!Dentro' = Ev!Dentro
  BY <1>1, <1>2, MismosFlujos
<1>4. CaidaMarcada' /\ Ev!NadieOlvidado'
  BY <1>1 DEF EvInv, CaidaMarcada, Ev!NadieOlvidado
<1> QED
  BY <1>1, <1>2, <1>3, <1>4 DEF EvInv

LEMMA EvAsentarVieja == EvInv /\ Ev!AsentarVieja => EvInv'
<1> SUFFICES ASSUME EvInv, Ev!AsentarVieja PROVE EvInv'
  OBVIOUS
<1>1. con' = Ev!Soltar("esperaVieja", con) /\ con' \in [Clientes -> {"fuera", "espera", "esperaVieja", "pasa", "dentro"}]
  BY DEF Ev!AsentarVieja, Ev!Soltar, EvInv
<1>2. FilaDeFlujos' /\ Ev!Dentro' = Ev!Dentro
  BY <1>1, MismosFlujos DEF Ev!AsentarVieja, Ev!Soltar
<1>3. CaidaMarcada' /\ Ev!NadieOlvidado'
  BY <1>2 DEF Ev!AsentarVieja, EvInv, CaidaMarcada, Ev!NadieOlvidado
<1> QED
  BY <1>1, <1>2, <1>3 DEF EvInv, Ev!AsentarVieja

\* What opening the connection does, if it does something.
LEMMA EscucharEs ==
    ASSUME EvInv, Ev!Escuchar
    PROVE  /\ cliente' \in {"nada", "abriendo", "lista"} /\ enCurso' \in BOOLEAN
           /\ \/ cliente' = cliente /\ enCurso' = enCurso /\ (cliente = "nada" => cerrado)
              \/ cliente = "nada" /\ cliente' = "abriendo" /\ enCurso' = TRUE /\ ~cerrado
BY DEF Ev!Escuchar, EvInv

LEMMA EvReintentar == EvInv /\ Ev!Reintentar => EvInv'
<1> SUFFICES ASSUME EvInv, Ev!Reintentar PROVE EvInv'
  OBVIOUS
<1>1. FilaDeFlujos' /\ Ev!Dentro' = Ev!Dentro
  BY MismosFlujos DEF Ev!Reintentar
<1>2. CaidaMarcada' /\ Ev!NadieOlvidado'
  BY <1>1, EscucharEs DEF Ev!Reintentar, EvInv, CaidaMarcada, Ev!NadieOlvidado
<1> QED
  BY <1>1, <1>2, EscucharEs DEF EvInv, Ev!Reintentar

\* The clients.
LEMMA EvConectar == ASSUME EvInv, NEW c \in Clientes, Ev!Conectar(c) PROVE EvInv'
<1>1. /\ con' \in [Clientes -> {"fuera", "espera", "esperaVieja", "pasa", "dentro"}]
      /\ \A x \in Clientes : x # c => con'[x] = con[x]
      /\ con[c] = "fuera" /\ con'[c] = IF cliente' = "abriendo" /\ enCurso' THEN "espera" ELSE "pasa"
  BY DEF EvInv, Ev!Conectar
<1>2. FilaDeFlujos' /\ Ev!Dentro' = Ev!Dentro
  BY <1>1, MismosFlujos DEF Ev!Conectar
<1>3. CaidaMarcada' /\ Ev!NadieOlvidado'
  BY <1>1, <1>2, EscucharEs DEF Ev!Conectar, EvInv, CaidaMarcada, Ev!NadieOlvidado
<1> QED
  BY <1>1, <1>2, <1>3, EscucharEs DEF EvInv, Ev!Conectar

LEMMA EvLeer == ASSUME EvInv, NEW c \in Clientes, Ev!Leer(c) PROVE EvInv'
<1>1. FilaDeFlujos' /\ Ev!Dentro' = Ev!Dentro
  BY MismosFlujos DEF Ev!Leer
<1>2. CaidaMarcada' /\ visto' \in [Clientes -> Nat]
  BY DEF Ev!Leer, EvInv, CaidaMarcada
<1>3. Ev!NadieOlvidado'
  BY <1>1 DEF Ev!Leer, EvInv, Ev!NadieOlvidado
<1> QED
  BY <1>1, <1>2, <1>3 DEF EvInv, Ev!Leer

\* The orderly stop.
LEMMA EvCerrar == EvInv /\ (Ev!CerrarEventos \/ Lleno!CerrarEventos) => EvInv'
<1> SUFFICES ASSUME EvInv, Ev!CerrarEventos \/ Lleno!CerrarEventos PROVE EvInv'
  OBVIOUS
<1>1. FilaDeFlujos' /\ Ev!Dentro' = {}
  BY SinFlujos DEF Ev!CerrarEventos, Lleno!CerrarEventos
<1>2. con' \in [Clientes -> {"fuera", "espera", "esperaVieja", "pasa", "dentro"}]
  BY DEF EvInv, Ev!CerrarEventos, Lleno!CerrarEventos
<1>3. CaidaMarcada' /\ Ev!NadieOlvidado'
  BY <1>1 DEF EvInv, Ev!CerrarEventos, Lleno!CerrarEventos, CaidaMarcada, Ev!NadieOlvidado
<1>4. /\ dato' = dato /\ avisos' = 0 /\ visto' = visto /\ cliente' = "nada" /\ enCurso' = FALSE
      /\ vieja' = FALSE /\ huboCaida' = huboCaida /\ cerrado' = TRUE
  BY DEF Ev!CerrarEventos, Lleno!CerrarEventos
<1> QED
  BY <1>1, <1>2, <1>3, <1>4 DEF EvInv

LEMMA EvArrancar == EvInv /\ Ev!Arrancar => EvInv'
<1> SUFFICES ASSUME EvInv, Ev!Arrancar PROVE EvInv'
  OBVIOUS
<1>1. FilaDeFlujos' /\ Ev!Dentro' = {}
  BY SinFlujos DEF Ev!Arrancar
<1>2. CaidaMarcada' /\ Ev!NadieOlvidado'
  BY <1>1 DEF EvInv, Ev!Arrancar, CaidaMarcada, Ev!NadieOlvidado
<1> QED
  BY <1>1, <1>2 DEF EvInv, Ev!Arrancar
\* Nothing is twice in a row; every place of one holds what a place of the other
\* does, other than x, or after the first m.
SinRepetir(s)    == \A i, j \in 1..Len(s) : s[i] = s[j] => i = j
DeElla(t, s, x)  == \A i \in 1..Len(t) : \E j \in 1..Len(s) : t[i] = s[j] /\ s[j] # x
Tras(t, s, m, c) == \A i \in 1..Len(t) : t[i] = c \/ \E j \in 1..Len(s) : t[i] = s[j] /\ j > m

\* A row without one of its places.
LEMMA SinUno ==
    ASSUME NEW S, NEW s \in Seq(S), SinRepetir(s), NEW k \in 1..Len(s),
           NEW t, t = SubSeq(s, 1, k - 1) \o SubSeq(s, k + 1, Len(s))
    PROVE  t \in Seq(S) /\ SinRepetir(t) /\ DeElla(t, s, s[k])
<1> DEFINE n == Len(s)
           de == SubSeq(s, 1, k - 1)
           a  == SubSeq(s, k + 1, n)
<1>1. n \in Nat /\ k \in Nat /\ 1 <= k /\ k <= n
  OBVIOUS
<1>2. de \in Seq(S) /\ Len(de) = k - 1 /\ \A i \in 1..(k - 1) : de[i] = s[i]
  BY <1>1
<1>3. a \in Seq(S) /\ Len(a) = n - k /\ \A i \in 1..(n - k) : a[i] = s[k + i]
  BY <1>1
<1> HIDE DEF de, a
<1>4. t = de \o a
  BY DEF de, a
<1>5. /\ t \in Seq(S) /\ Len(t) = n - 1
      /\ \A i \in 1..(n - 1) : t[i] = IF i <= k - 1 THEN de[i] ELSE a[i - (k - 1)]
  <2>1. /\ de \o a \in Seq(S) /\ Len(de \o a) = Len(de) + Len(a)
        /\ \A i \in 1..(Len(de) + Len(a)) : (de \o a)[i] = IF i <= Len(de) THEN de[i] ELSE a[i - Len(de)]
    BY <1>2, <1>3, ConcatProperties
  <2>2. Len(de) + Len(a) = n - 1
    BY <1>1, <1>2, <1>3
  <2> QED
    BY <1>2, <1>4, <2>1, <2>2
<1>6. ASSUME NEW i \in 1..(n - 1), i < k
      PROVE  i \in 1..n /\ i # k /\ t[i] = s[i]
  <2>1. i \in 1..(k - 1) /\ i <= k - 1 /\ i \in 1..n /\ i # k
    BY <1>1, <1>6
  <2>2. t[i] = de[i] /\ de[i] = s[i]
    BY <1>2, <1>5, <2>1
  <2> QED
    BY <2>1, <2>2
<1>7. ASSUME NEW i \in 1..(n - 1), ~(i < k)
      PROVE  i + 1 \in 1..n /\ i + 1 # k /\ t[i] = s[i + 1]
  <2>1. i - (k - 1) \in 1..(n - k) /\ ~(i <= k - 1) /\ k + (i - (k - 1)) = i + 1
    BY <1>1, <1>7
  <2>2. t[i] = a[i - (k - 1)]
    BY <1>5, <2>1
  <2>3. a[i - (k - 1)] = s[k + (i - (k - 1))]
    BY <1>3, <2>1
  <2>4. i + 1 \in 1..n /\ i + 1 # k
    BY <1>1, <1>7
  <2> QED
    BY <2>1, <2>2, <2>3, <2>4
<1>8. k \in 1..n
  OBVIOUS
<1> HIDE DEF n
<1>9. \A i, j \in 1..n : s[i] = s[j] => i = j
  BY DEF n, SinRepetir
<1>10. ASSUME NEW i \in 1..(n - 1), NEW j \in 1..(n - 1), t[i] = t[j] PROVE i = j
  <2>1. CASE i < k /\ j < k
    BY <1>6, <1>9, <1>10, <2>1
  <2>2. CASE i < k /\ ~(j < k)
    <3>1. i \in 1..n /\ j + 1 \in 1..n /\ t[i] = s[i] /\ t[j] = s[j + 1]
      BY <1>6, <1>7, <2>2
    <3>2. i = j + 1
      BY <1>9, <1>10, <3>1
    <3> QED
      BY <1>1, <2>2, <3>2
  <2>3. CASE ~(i < k) /\ j < k
    <3>1. j \in 1..n /\ i + 1 \in 1..n /\ t[j] = s[j] /\ t[i] = s[i + 1]
      BY <1>6, <1>7, <2>3
    <3>2. i + 1 = j
      BY <1>9, <1>10, <3>1
    <3> QED
      BY <1>1, <2>3, <3>2
  <2>4. CASE ~(i < k) /\ ~(j < k)
    <3>1. i + 1 \in 1..n /\ j + 1 \in 1..n /\ t[i] = s[i + 1] /\ t[j] = s[j + 1]
      BY <1>7, <2>4
    <3>2. i + 1 = j + 1
      BY <1>9, <1>10, <3>1
    <3> QED
      BY <1>1, <3>2
  <2> QED
    BY <2>1, <2>2, <2>3, <2>4
<1>11. ASSUME NEW i \in 1..(n - 1) PROVE \E j \in 1..n : t[i] = s[j] /\ s[j] # s[k]
  <2>1. CASE i < k
    BY <1>6, <1>8, <1>9, <2>1
  <2>2. CASE ~(i < k)
    BY <1>7, <1>8, <1>9, <2>2
  <2> QED
    BY <2>1, <2>2
<1> QED
  BY <1>5, <1>10, <1>11 DEF n, SinRepetir, DeElla

\* A row that loses its first places and gains one at the end.
LEMMA Recorrida ==
    ASSUME NEW S, NEW s \in Seq(S), SinRepetir(s), NEW m \in 0..Len(s),
           NEW c \in S, \A i \in 1..Len(s) : s[i] # c,
           NEW t, t = Append(SubSeq(s, m + 1, Len(s)), c)
    PROVE  t \in Seq(S) /\ SinRepetir(t) /\ Tras(t, s, m, c)
<1> DEFINE n == Len(s)
           a == SubSeq(s, m + 1, n)
<1>1. n \in Nat /\ m \in Nat /\ m <= n
  OBVIOUS
<1>2. a \in Seq(S) /\ Len(a) = n - m /\ \A i \in 1..(n - m) : a[i] = s[m + i]
  BY <1>1
<1> HIDE DEF a
<1>3. t = Append(a, c)
  BY DEF a
<1>4. /\ t \in Seq(S) /\ Len(t) = n - m + 1 /\ t[n - m + 1] = c
      /\ \A i \in 1..(n - m) : t[i] = a[i]
  BY <1>1, <1>2, <1>3
<1>5. \A i \in 1..(n - m) : m + i \in 1..n /\ m + i > m /\ t[i] = s[m + i]
  BY <1>1, <1>2, <1>4
<1>6. \A i \in 1..(n - m + 1) : i = n - m + 1 \/ i \in 1..(n - m)
  BY <1>1
<1>7. \A i, j \in 1..(n - m) : m + i = m + j => i = j
  BY <1>1
<1>8. \A i, j \in 1..n : s[i] = s[j] => i = j
  BY DEF SinRepetir
<1>9. \A i \in 1..n : s[i] # c
  OBVIOUS
<1> HIDE DEF n
<1>10. ASSUME NEW i \in 1..(n - m + 1), NEW j \in 1..(n - m + 1), t[i] = t[j] PROVE i = j
  <2>1. CASE i \in 1..(n - m) /\ j \in 1..(n - m)
    <3>1. m + i = m + j
      BY <1>5, <1>8, <1>10, <2>1
    <3> QED
      BY <1>7, <2>1, <3>1
  <2>2. ASSUME NEW x \in 1..(n - m) PROVE t[x] # c
    BY <1>5, <1>9
  <2>3. CASE i = n - m + 1 \/ j = n - m + 1
    BY <1>4, <1>6, <1>10, <2>2, <2>3
  <2> QED
    BY <1>6, <2>1, <2>3
<1>11. ASSUME NEW i \in 1..(n - m + 1)
       PROVE  t[i] = c \/ \E j \in 1..n : t[i] = s[j] /\ j > m
  BY <1>4, <1>5, <1>6
<1> QED
  BY <1>4, <1>10, <1>11 DEF n, SinRepetir, Tras

\* The stream of a client that is cut leaves the row, and no other moves in.
LEMMA EvCortar ==
    ASSUME EvInv, NEW c \in Clientes, Ev!Cortar(c) \/ Lleno!Cortar(c)
    PROVE  EvInv'
<1> DEFINE Suyas == {i \in 1..Len(abiertas) : abiertas[i] = c}
<1>1. /\ abiertas' = Ev!RemoveFirst(abiertas, c) /\ porLeer' = porLeer \ {c}
      /\ con' = [con EXCEPT ![c] = "fuera"]
      /\ UNCHANGED <<dato, cliente, avisos, enCurso, vieja, huboCaida, cerrado, visto>>
  BY DEF Ev!Cortar, Lleno!Cortar, Ev!RemoveFirst, Lleno!RemoveFirst, Ev!SelectInSeq,
     Lleno!SelectInSeq, Ev!RemoveAt, Lleno!RemoveAt, Ev!Min, Lleno!Min
<1>2. /\ abiertas \in Seq(Clientes) /\ \A i \in 1..Len(abiertas) : con[abiertas[i]] = "dentro"
      /\ \A i, j \in 1..Len(abiertas) : abiertas[i] = abiertas[j] => i = j
      /\ \A i \in 1..Len(abiertas) : abiertas[i] \in Clientes
  BY DEF EvInv, FilaDeFlujos
<1>3. /\ abiertas' \in Seq(Clientes)
      /\ \A i, j \in 1..Len(abiertas') : abiertas'[i] = abiertas'[j] => i = j
      /\ \A i \in 1..Len(abiertas') :
            \E j \in 1..Len(abiertas) : abiertas'[i] = abiertas[j] /\ abiertas[j] # c
  <2>1. CASE Suyas = {}
    BY <1>1, <1>2, <2>1 DEF Ev!RemoveFirst
  <2>2. CASE Suyas # {}
    <3>1. PICK k \in 1..Len(abiertas) : Suyas = {k} /\ abiertas[k] = c
      BY <1>2, <2>2
    <3>2. Ev!SelectInSeq(abiertas, LAMBDA v : v = c) = k
      <4>1. Ev!SelectInSeq(abiertas, LAMBDA v : v = c) = Ev!Min(Suyas)
        BY <2>2 DEF Ev!SelectInSeq
      <4>2. Ev!Min(Suyas) = k
        BY <3>1 DEF Ev!Min
      <4> QED
        BY <4>1, <4>2
    <3>3. abiertas' = SubSeq(abiertas, 1, k - 1) \o SubSeq(abiertas, k + 1, Len(abiertas))
      BY <1>1, <3>1, <3>2 DEF Ev!RemoveFirst, Ev!RemoveAt
    <3> HIDE DEF Suyas
    <3> DEFINE t == abiertas'
    <3>4. t = SubSeq(abiertas, 1, k - 1) \o SubSeq(abiertas, k + 1, Len(abiertas))
      BY <3>3
    <3>5. abiertas \in Seq(Clientes) /\ SinRepetir(abiertas)
      BY <1>2 DEF SinRepetir
    <3> HIDE DEF t
    <3>6. t \in Seq(Clientes) /\ SinRepetir(t) /\ DeElla(t, abiertas, abiertas[k])
      BY <3>4, <3>5, SinUno
    <3> QED
      BY <3>1, <3>6 DEF t, SinRepetir, DeElla
  <2> QED
    BY <2>1, <2>2
<1>4. FilaDeFlujos'
  BY <1>1, <1>2, <1>3 DEF EvInv, FilaDeFlujos
<1>5. Ev!Dentro' \subseteq Ev!Dentro \ {c}
  <2>1. /\ Ev!Dentro = {abiertas[j] : j \in 1..Len(abiertas)}
        /\ Ev!Dentro' = {abiertas'[i] : i \in 1..Len(abiertas')}
    BY <1>2, <1>3 DEF Ev!Dentro, Ev!ToSet
  <2> QED
    BY <1>3, <2>1
<1>6. CaidaMarcada'
  BY <1>1 DEF EvInv, CaidaMarcada
<1>7. Ev!NadieOlvidado'
  BY <1>1, <1>5 DEF EvInv, Ev!NadieOlvidado
<1> QED
  BY <1>1, <1>4, <1>6, <1>7 DEF EvInv

\* A client that gets in goes last, and those that were ended to make room are
\* the first of the row.
LEMMA EvSuscribir ==
    ASSUME EvInv, NEW c \in Clientes, Ev!Suscribir(c) \/ Lleno!Suscribir(c)
    PROVE  EvInv'
<1> DEFINE n == Len(abiertas)
<1>1. PICK m \in 0..n :
         /\ abiertas' = Append(SubSeq(abiertas, m + 1, n), c)
         /\ con' = [x \in Clientes |-> IF x = c THEN "dentro"
                                       ELSE IF x \in {abiertas[i] : i \in 1..m} THEN "fuera" ELSE con[x]]
  <2>1. n \in Nat
    BY DEF EvInv, FilaDeFlujos
  <2>2. CASE Ev!Suscribir(c)
    <3>1. (IF n < MaxPorUsuario THEN 0 ELSE n - MaxPorUsuario + 1) \in 0..n
      BY <2>1, EventosAssumption
    <3> QED
      BY <2>2, <3>1 DEF Ev!Suscribir
  <2>3. CASE Lleno!Suscribir(c)
    <3>1. (IF n < 1 THEN 0 ELSE n - 1 + 1) \in 0..n
      BY <2>1
    <3> QED
      BY <2>3, <3>1 DEF Lleno!Suscribir
  <2> QED
    BY <2>2, <2>3
<1>2. /\ con[c] = "pasa" /\ porLeer' = porLeer \cup {c} /\ Ev!Escuchar
      /\ UNCHANGED <<dato, avisos, vieja, huboCaida, cerrado, visto>>
  BY DEF Ev!Suscribir, Lleno!Suscribir, Ev!Escuchar, Lleno!Escuchar
<1>3. /\ n \in Nat /\ abiertas \in Seq(Clientes)
      /\ \A i, j \in 1..n : abiertas[i] = abiertas[j] => i = j
      /\ \A i \in 1..n : con[abiertas[i]] = "dentro" /\ abiertas[i] \in Clientes /\ abiertas[i] # c
  <2>1. /\ n \in Nat /\ abiertas \in Seq(Clientes)
        /\ \A i, j \in 1..n : abiertas[i] = abiertas[j] => i = j
        /\ \A i \in 1..n : con[abiertas[i]] = "dentro"
    BY DEF EvInv, FilaDeFlujos
  <2>2. \A i \in 1..n : abiertas[i] \in Clientes
    BY <2>1
  <2> HIDE DEF n
  <2>3. \A i \in 1..n : abiertas[i] # c
    BY <1>2, <2>1
  <2> QED
    BY <2>1, <2>2, <2>3
<1>4. /\ abiertas' \in Seq(Clientes)
      /\ \A i, j \in 1..Len(abiertas') : abiertas'[i] = abiertas'[j] => i = j
      /\ \A i \in 1..Len(abiertas') :
            abiertas'[i] = c \/ \E j \in 1..n : abiertas'[i] = abiertas[j] /\ j > m
  <2> DEFINE t == abiertas'
  <2>1. /\ abiertas \in Seq(Clientes) /\ m \in 0..Len(abiertas)
        /\ SinRepetir(abiertas) /\ \A i \in 1..Len(abiertas) : abiertas[i] # c
        /\ t = Append(SubSeq(abiertas, m + 1, Len(abiertas)), c)
    BY <1>1, <1>3 DEF SinRepetir
  <2> HIDE DEF t
  <2>2. t \in Seq(Clientes) /\ SinRepetir(t) /\ Tras(t, abiertas, m, c)
    BY <2>1, Recorrida
  <2> QED
    BY <2>2 DEF t, SinRepetir, Tras
<1>5. FilaDeFlujos'
  <2>1. ASSUME NEW j \in 1..n, j > m
        PROVE  con'[abiertas[j]] = "dentro"
    <3>1. abiertas[j] \notin {abiertas[i] : i \in 1..m}
      BY <1>3, <2>1
    <3> QED
      BY <1>1, <1>3, <3>1
  <2>2. con'[c] = "dentro"
    BY <1>1
  <2> QED
    BY <1>4, <2>1, <2>2 DEF FilaDeFlujos
<1>6. Ev!Dentro' \subseteq Ev!Dentro \cup {c}
  <2>1. /\ Ev!Dentro = {abiertas[j] : j \in 1..n}
        /\ Ev!Dentro' = {abiertas'[i] : i \in 1..Len(abiertas')}
    BY <1>3, <1>4 DEF Ev!Dentro, Ev!ToSet
  <2> QED
    BY <1>4, <2>1
<1>7. con' \in [Clientes -> {"fuera", "espera", "esperaVieja", "pasa", "dentro"}]
  BY <1>1 DEF EvInv
<1>8. CaidaMarcada'
  <2>1. cliente # "lista" /\ ~cerrado => huboCaida
    BY <1>2 DEF EvInv, CaidaMarcada
  <2> QED
    BY <1>2, <2>1, EscucharEs DEF EvInv, CaidaMarcada
<1>9. Ev!NadieOlvidado'
  BY <1>2, <1>6, EscucharEs DEF EvInv, Ev!NadieOlvidado
<1> QED
  BY <1>2, <1>5, <1>7, <1>8, <1>9, EscucharEs DEF EvInv

\* Every step of the notices, with room for the tabs or without, keeps it.
LEMMA EvPaso == EvInv /\ [Ev!Next \/ Lleno!Next]_deEventos => EvInv'
<1> SUFFICES ASSUME EvInv, [Ev!Next \/ Lleno!Next]_deEventos PROVE EvInv'
  OBVIOUS
<1>1. CASE UNCHANGED deEventos
  <2>1. FilaDeFlujos' /\ Ev!Dentro' = Ev!Dentro
    BY <1>1, MismosFlujos DEF deEventos
  <2>2. CaidaMarcada' /\ Ev!NadieOlvidado'
    BY <1>1, <2>1 DEF EvInv, deEventos, CaidaMarcada, Ev!NadieOlvidado
  <2> QED
    BY <1>1, <2>1, <2>2 DEF EvInv, deEventos
<1>2. CASE Ev!Next
  BY <1>2, EvCambiar, EvEntregar, EvAbrirBien, EvCae, EvAsentarVieja, EvReintentar, EvConectar,
     EvSuscribir, EvCortar, EvLeer, EvCerrar, EvArrancar DEF Ev!Next
<1>3. CASE Lleno!Next
  <2>1. /\ Lleno!Cambiar => Ev!Cambiar
        /\ Lleno!Entregar => Ev!Entregar
        /\ Lleno!Arrancar => Ev!Arrancar
    BY DEF Lleno!Cambiar, Ev!Cambiar, Lleno!Entregar, Ev!Entregar, Lleno!Dentro, Ev!Dentro,
       Lleno!ToSet, Ev!ToSet, Lleno!Arrancar, Ev!Arrancar
  <2>2. Lleno!AbrirBien => Ev!AbrirBien
    BY DEF Lleno!AbrirBien, Ev!AbrirBien, Lleno!Dentro, Ev!Dentro, Lleno!ToSet, Ev!ToSet,
       Lleno!Soltar, Ev!Soltar
  <2>3. Lleno!AsentarVieja => Ev!AsentarVieja
    BY DEF Lleno!AsentarVieja, Ev!AsentarVieja, Lleno!Soltar, Ev!Soltar
  <2>4. Lleno!Reintentar => Ev!Reintentar
    BY DEF Lleno!Reintentar, Ev!Reintentar, Lleno!Escuchar, Ev!Escuchar
  <2>5. \A c \in Clientes : (Lleno!Conectar(c) => Ev!Conectar(c)) /\ (Lleno!Leer(c) => Ev!Leer(c))
    BY DEF Lleno!Conectar, Ev!Conectar, Lleno!Escuchar, Ev!Escuchar, Lleno!Leer, Ev!Leer
  <2> QED
    BY <1>3, <2>1, <2>2, <2>3, <2>4, <2>5, EvCambiar, EvEntregar, EvAbrirBien, EvCae, EvAsentarVieja,
       EvReintentar, EvConectar, EvSuscribir, EvCortar, EvLeer, EvCerrar, EvArrancar DEF Lleno!Next
<1> QED
  BY <1>1, <1>2, <1>3



-----------------------------------------------------------------------------
(* The composition                                                         *)

InvEntregas == EvInv /\ CiInv

\* A step is one of the part that runs, and leaves the others alone.
LEMMA PasoDeParte ==
    [NextEntregas]_todas =>
        /\ [Next]_vars
        /\ [Ev!Next \/ Lleno!Next]_deEventos
        /\ [Ci!Next]_deCierre
BY DEF NextEntregas, todas, vars, deEventos, deCierre

\* The notices and the end of the process keep their invariants.
LEMMA SiempreEntregas == SpecEntregas => []InvEntregas
<1>1. InitEntregas => InvEntregas
  BY EvInicio, CiInicio DEF InitEntregas, InvEntregas
<1>2. InvEntregas /\ [NextEntregas]_todas => InvEntregas'
  BY PasoDeParte, EvPaso, CiPaso DEF InvEntregas
<1> QED
  BY <1>1, <1>2, PTL DEF SpecEntregas

\* Eventos: whoever has an old state is told to read it or has something on the
\* way that will tell her, whatever falls and reopens; Cierre: a process that
\* ends well leaves no request halfway (terminar waits for the server to close
\* before the pool).
THEOREM NadieAtras == SpecEntregas => []NadieQuedaAtras
<1>1. InvEntregas => NadieQuedaAtras
  BY DEF InvEntregas, EvInv, CiInv, SoloLaSenal, NadieQuedaAtras, Ci!EsperaALasPeticiones
<1> QED
  BY <1>1, SiempreEntregas, PTL

\* The print jobs keep their count of deliveries in the composition too.
THEOREM EntregasEnConjunto == SpecEntregas => []EntregasContadas
<1>1. InitEntregas => IInv
  BY InitIInv DEF InitEntregas
<1>2. IInv /\ [NextEntregas]_todas => IInv'
  BY PasoDeParte, PasoIInv
<1>3. IInv => EntregasContadas
  BY DEF IInv
<1> QED
  BY <1>1, <1>2, <1>3, PTL DEF SpecEntregas

\* And what was printed stays printed while the rest of the server goes on.
THEOREM ImpresoEnConjunto == SpecEntregas => LoImpresoNoVuelve
<1>1. InitEntregas => IInv
  BY InitIInv DEF InitEntregas
<1>2. IInv /\ [NextEntregas]_todas => IInv' /\ [QuedaImpreso]_vars
  BY PasoDeParte, PasoIInv, PasoImpreso
<1> QED
  BY <1>1, <1>2, PTL DEF SpecEntregas, LoImpresoNoVuelve, QuedaImpreso
=============================================================================
