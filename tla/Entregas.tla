------------------------------ MODULE Entregas ------------------------------
(***************************************************************************)
(* What has to reach somebody in the end: print jobs (ColaImpresion), the  *)
(* notices of the POS (Eventos), the answer to a repeated request          *)
(* (Idempotencia) and the end of a process (Cierre).  They share no row,   *)
(* so each behaviour exercises one of them, chosen at the start, and the   *)
(* others stay as they began: the reachable states are the union of theirs.*)
(***************************************************************************)
EXTENDS ColaImpresion

CONSTANTS
    Clientes, MaxPorUsuario, MaxCambios, MaxCortes, MaxCierres,         \* Eventos
    Peticiones, Cuerpo, SinFila, Nadie,                                 \* Idempotencia
    MaxCaidas                                                           \* both

\* MAX_POR_USUARIO leaves room for one stream at least.
ASSUME EventosAssumption == MaxPorUsuario \in Nat \ {0}

VARIABLES
    parte,
    dato, cliente, avisos, enCurso, vieja, huboCaida, reintento, cerrado,
    con, abiertas, porLeer, visto, fallas,                              \* Eventos
    pc, fila, efectos, respuesta, caidas,                               \* Idempotencia
    servidor, peticion, flujo, base, cierre, forzar, salida             \* Cierre

\* The tabs of one user, within the limit of streams ...
Ev == INSTANCE Eventos

\* ... and where each one pushes the others out, with one fall.
Lleno == INSTANCE Eventos WITH MaxPorUsuario <- 1, MaxCaidas <- 1

\* Requests sent again with their key, and other bodies with the same key.
Id == INSTANCE Idempotencia

\* Requests and a stream in a process that is stopped.
Ci == INSTANCE Cierre WITH Peticiones <- Clientes

deEventos == <<dato, cliente, avisos, enCurso, vieja, huboCaida, reintento, cerrado,
               con, abiertas, porLeer, visto, fallas>>
deIdempotencia == <<pc, fila, efectos, respuesta, caidas>>
deCierre == <<servidor, peticion, flujo, base, cierre, forzar, salida>>

-----------------------------------------------------------------------------
InitEntregas ==
    /\ parte \in {"cola", "eventos", "eventosLleno", "idempotencia", "cierre"}
    /\ Init /\ Ev!Init /\ Id!Init /\ Ci!Init

EnEventos == parte \in {"eventos", "eventosLleno"}

NextEntregas ==
    /\ IF parte = "cola" THEN Next ELSE UNCHANGED vars
    /\ IF parte = "eventos" THEN Ev!Next
       ELSE IF parte = "eventosLleno" THEN Lleno!Next ELSE UNCHANGED deEventos
    /\ IF parte = "idempotencia" THEN Id!Next ELSE UNCHANGED deIdempotencia
    /\ IF parte = "cierre" THEN Ci!Next ELSE UNCHANGED deCierre
    /\ UNCHANGED parte

todas == <<parte, vars, deEventos, deIdempotencia, deCierre>>

\* The fairness of each part, where that part is exercised.
Justicia ==
    /\ \A j \in Trabajos : SF_vars(parte = "cola" /\ Vencer(j))
    /\ \A g \in Agentes : WF_vars(parte = "cola" /\ Rendir(g)) /\ WF_vars(parte = "cola" /\ Tomar(g))
    /\ WF_deEventos(EnEventos /\ Ev!Entregar)
    /\ WF_deEventos(EnEventos /\ Ev!AbrirBien)
    /\ WF_deEventos(EnEventos /\ Ev!AsentarVieja)
    /\ WF_deEventos(EnEventos /\ Ev!Reintentar)
    /\ WF_deEventos(EnEventos /\ Ev!Arrancar)
    /\ \A c \in Clientes :
          /\ WF_deEventos(EnEventos /\ Ev!Conectar(c))
          /\ WF_deEventos(IF parte = "eventosLleno" THEN Lleno!Suscribir(c)
                          ELSE parte = "eventos" /\ Ev!Suscribir(c))
          /\ WF_deEventos(EnEventos /\ Ev!Leer(c))
    /\ \A p \in Peticiones : WF_deIdempotencia(parte = "idempotencia" /\ Id!Paso(p))
    /\ \A q \in Ci!Quienes :
          WF_deCierre(parte = "cierre" /\ Ci!Salir(q)) /\ WF_deCierre(parte = "cierre" /\ Ci!Forzar(q))

SpecEntregas == InitEntregas /\ [][NextEntregas]_todas /\ Justicia

-----------------------------------------------------------------------------
\* Eventos: a client with an old state has something on the way; Cierre: no
\* request is left halfway by a process that ends well.
NadieQuedaAtras == Ev!NadieOlvidado /\ Ci!EsperaALasPeticiones

\* Eventos: every client sees every commit in the end.
TodosSeEnteran == Ev!TodosSeEnteran

\* Idempotencia: every petition gets an answer, unless its server stops;
\* Cierre: a server that was told to stop does.
TodasTerminan == Id!TodasTerminan /\ Ci!SiempreTermina
=============================================================================
