------------------------------- MODULE Cierre -------------------------------
(***************************************************************************)
(* How the server process ends (server.js, utils/procesoFatal.js).  Two    *)
(* handlers close what is open with the same function, cerrarTodo: the one *)
(* of the signals and the one of the errors that nobody caught; each has a *)
(* flag and a deadline of its own, and they may overlap.  The notices are  *)
(* module Eventos; here they are the stream that keeps the server open.    *)
(* Requests, streams and the database are as slow as they like.            *)
(***************************************************************************)
EXTENDS Naturals

CONSTANT Peticiones     \* requests that reach the server at the same time

Quienes == {"senal", "fatal"}

VARIABLES
    servidor,   \* "arranca", "escucha" or "dejo": it listens no more
    peticion,   \* request -> "fuera", "corre" or "consulta": it has a connection
    flujo,      \* an SSE stream: "fuera", "espera" (accepted) or "abierto"
    base,       \* the pool: "abierta", "cerrando" or "cerrada"
    cierre,     \* handler -> where its cerrarTodo is
    forzar,     \* handler -> its deadline is armed
    salida      \* "vivo", or how the process ended: "limpia" (0) or "error" (1)

vars == <<servidor, peticion, flujo, base, cierre, forzar, salida>>
clientes == <<peticion, flujo>>

EnCurso == {p \in Peticiones : peticion[p] # "fuera"}
Vive == salida = "vivo"

-----------------------------------------------------------------------------
(* The process at work                                                     *)

Escuchar ==
    /\ Vive /\ servidor = "arranca" /\ servidor' = "escucha"
    /\ UNCHANGED <<clientes, base, cierre, forzar, salida>>

Pedir(p) ==
    /\ Vive /\ servidor = "escucha" /\ peticion[p] = "fuera"
    /\ peticion' = [peticion EXCEPT ![p] = "corre"]
    /\ UNCHANGED <<servidor, flujo, base, cierre, forzar, salida>>

\* A pool that is being closed gives no connection: the request is answered with an error.
Consultar(p) ==
    /\ Vive /\ peticion[p] = "corre"
    /\ peticion' = [peticion EXCEPT ![p] = IF base = "abierta" THEN "consulta" ELSE "fuera"]
    /\ UNCHANGED <<servidor, flujo, base, cierre, forzar, salida>>

Devolver(p) ==
    /\ Vive /\ peticion[p] = "consulta" /\ peticion' = [peticion EXCEPT ![p] = "corre"]
    /\ UNCHANGED <<servidor, flujo, base, cierre, forzar, salida>>

Responder(p) ==
    /\ Vive /\ peticion[p] = "corre" /\ peticion' = [peticion EXCEPT ![p] = "fuera"]
    /\ UNCHANGED <<servidor, flujo, base, cierre, forzar, salida>>

\* eventosSSE: accepted, it subscribes when the notices are heard; its client leaves.
Flujo ==
    /\ Vive
    /\ \/ servidor = "escucha" /\ flujo = "fuera" /\ flujo' = "espera"
       \/ flujo = "espera" /\ flujo' = "abierto"
       \/ flujo # "fuera" /\ flujo' = "fuera"
    /\ UNCHANGED <<servidor, peticion, base, cierre, forzar, salida>>

-----------------------------------------------------------------------------
(* cerrarTodo                                                              *)

\* cerrarEventos ends the streams that are open before it waits for anything.
Empezar(q) ==
    /\ cierre' = [cierre EXCEPT ![q] = "eventos"]
    /\ flujo' = IF flujo = "abierto" THEN "fuera" ELSE flujo
    /\ UNCHANGED <<servidor, peticion, base, salida>>

\* pool.end(), which fails at once the second time it is called.
CerrarBase(q) ==
    /\ cierre' = [cierre EXCEPT ![q] = IF base = "abierta" THEN "base" ELSE "hecho"]
    /\ base' = IF base = "abierta" THEN "cerrando" ELSE base

\* Only who finds the server listening closes it and waits for it.
EventosCerrados(q) ==
    /\ Vive /\ cierre[q] = "eventos"
    /\ \/ /\ servidor = "escucha" /\ servidor' = "dejo"
          /\ cierre' = [cierre EXCEPT ![q] = "servidor"] /\ UNCHANGED base
       \/ servidor # "escucha" /\ CerrarBase(q) /\ UNCHANGED servidor
    /\ UNCHANGED <<clientes, forzar, salida>>

ServidorCerrado(q) ==
    /\ Vive /\ cierre[q] = "servidor" /\ EnCurso = {} /\ flujo = "fuera"
    /\ CerrarBase(q)
    /\ UNCHANGED <<servidor, clientes, forzar, salida>>

BaseCerrada(q) ==
    /\ Vive /\ cierre[q] = "base" /\ \A p \in EnCurso : peticion[p] # "consulta"
    /\ base' = "cerrada" /\ cierre' = [cierre EXCEPT ![q] = "hecho"]
    /\ UNCHANGED <<servidor, clientes, forzar, salida>>

-----------------------------------------------------------------------------
(* shutdown and fatal                                                      *)

SenalSinBandera ==
    /\ Vive /\ servidor # "arranca"
    /\ forzar' = [forzar EXCEPT !["senal"] = TRUE] /\ Empezar("senal")

\* shutdown, for the first signal; before the server listens nobody handles them.
Senal ==
    /\ Vive /\ servidor # "arranca" /\ cierre["senal"] = "fuera"
    /\ forzar' = [forzar EXCEPT !["senal"] = TRUE] /\ Empezar("senal")

FatalSinPlazo ==
    /\ Vive
    /\ \/ cierre["fatal"] = "fuera" /\ Empezar("fatal") /\ UNCHANGED forzar
       \/ /\ cierre["fatal"] # "fuera" /\ salida' = "error"
          /\ UNCHANGED <<servidor, clientes, base, cierre, forzar>>

\* fatal: the second error waits for nothing.
Fatal ==
    /\ Vive
    /\ \/ /\ cierre["fatal"] = "fuera" /\ Empezar("fatal")
          /\ forzar' = [forzar EXCEPT !["fatal"] = TRUE]
       \/ /\ cierre["fatal"] # "fuera" /\ salida' = "error"
          /\ UNCHANGED <<servidor, clientes, base, cierre, forzar>>

\* Whoever finishes first ends the process, with its own code.
Salir(q) ==
    /\ Vive /\ cierre[q] = "hecho" /\ forzar' = [forzar EXCEPT ![q] = FALSE]
    /\ salida' = IF q = "senal" THEN "limpia" ELSE "error"
    /\ UNCHANGED <<servidor, clientes, base, cierre>>

Forzar(q) ==
    /\ Vive /\ forzar[q] /\ salida' = "error"
    /\ UNCHANGED <<servidor, clientes, base, cierre, forzar>>

-----------------------------------------------------------------------------
Init ==
    /\ servidor = "arranca" /\ base = "abierta" /\ salida = "vivo"
    /\ peticion = [p \in Peticiones |-> "fuera"] /\ flujo = "fuera"
    /\ cierre = [q \in Quienes |-> "fuera"] /\ forzar = [q \in Quienes |-> FALSE]

Next ==
    \/ Escuchar \/ Flujo \/ Senal \/ Fatal
    \/ \E p \in Peticiones : Pedir(p) \/ Consultar(p) \/ Devolver(p) \/ Responder(p)
    \/ \E q \in Quienes :
         EventosCerrados(q) \/ ServidorCerrado(q) \/ BaseCerrada(q) \/ Salir(q) \/ Forzar(q)

\* Node calls back and fires its timers; requests, streams and the connection
\* that listens owe nothing.
Justicia == \A q \in Quienes : WF_vars(Salir(q)) /\ WF_vars(Forzar(q))

Spec == Init /\ [][Next]_vars /\ Justicia

-----------------------------------------------------------------------------
(* As long as no error was left uncaught, the database is closed, and the  *)
(* process ends with code 0, only once every request and stream is over,   *)
(* however many signals arrive.                                            *)
EsperaALasPeticiones ==
    cierre["fatal"] = "fuera" /\ (base # "abierta" \/ salida = "limpia")
        => EnCurso = {} /\ flujo = "fuera"

(* A process that was told to stop, or that met an error nobody caught,    *)
(* ends, even if a request, a stream or the database never does.           *)
SiempreTermina == (\E q \in Quienes : cierre[q] # "fuera") ~> ~Vive
=============================================================================
