------------------------------- MODULE Canjes -------------------------------
(***************************************************************************)
(* What is good for one use: the code with which a print agent or a        *)
(* device is paired (pos.impresion.repository.js, dispositivo.repository.  *)
(* js) and the link with which a user chooses a password (invitacion.      *)
(* service.js).  Redeeming one is an UPDATE that looks for its row in the  *)
(* state committed when it starts and looks again at the row it has locked;*)
(* the code may have been replaced, used, or its owner removed meanwhile.  *)
(***************************************************************************)
EXTENDS Naturals, FiniteSets

CONSTANTS
    Agentes, Dispositivos,  \* print agents and registered devices
    Canjeadores,            \* requests that redeem a code
    MaxCodigos              \* bound: codes and links that are handed out

Equipos == Agentes \cup Dispositivos

VARIABLES
    equipo,     \* [existe, activo, token, codigo, vigente]; token: it has one
    empresa,    \* the company is active
    canje,      \* request -> [paso, codigo, fila]
    emitidos,   \* codes handed out so far: they are 1 .. emitidos
    canjeados,  \* code -> times it was accepted
    enlaces,    \* links not deleted: id -> [usado, vigente]
    usuario,    \* [activo, claves]: claves counts the passwords set by links
    acepta      \* request -> [paso, enlace]

vars == <<equipo, empresa, canje, emitidos, canjeados, enlaces, usuario, acepta>>
deEnlaces == <<enlaces, usuario, acepta>>
deCodigos == <<equipo, empresa, canje, canjeados>>

Sin == [existe |-> FALSE, activo |-> FALSE, token |-> FALSE, codigo |-> 0, vigente |-> FALSE]
Libre == [paso |-> "fuera", codigo |-> 0, fila |-> CHOOSE e \in Equipos : TRUE]

-----------------------------------------------------------------------------
(* Codes                                                                   *)

\* crear: the row of a device and its first code.
CrearDispositivo(e) ==
    /\ e \in Dispositivos /\ ~equipo[e].existe
    /\ emitidos < MaxCodigos /\ emitidos' = emitidos + 1
    /\ equipo' = [equipo EXCEPT ![e] = [existe |-> TRUE, activo |-> TRUE, token |-> FALSE,
                                       codigo |-> emitidos', vigente |-> TRUE]]
    /\ UNCHANGED <<empresa, canje, canjeados, deEnlaces>>

\* crearAgente: with a token from the start, and then nuevoCodigo in a statement
\* of its own, without which the agent has its token only.
CrearAgente(e) ==
    /\ e \in Agentes /\ ~equipo[e].existe
    /\ equipo' = [equipo EXCEPT ![e] = [Sin EXCEPT !.existe = TRUE, !.activo = TRUE, !.token = TRUE]]
    /\ UNCHANGED <<empresa, canje, emitidos, canjeados, deEnlaces>>

\* For an installation or a registration that is repeated, and the second half
\* of crearAgente: the code before it is of no use any more.
NuevoCodigo(e) ==
    /\ equipo[e].existe /\ equipo[e].activo /\ emitidos < MaxCodigos
    /\ emitidos' = emitidos + 1
    /\ equipo' = [equipo EXCEPT ![e].codigo = emitidos', ![e].vigente = TRUE]
    /\ UNCHANGED <<empresa, canje, canjeados, deEnlaces>>

\* The code expires: it stays in its row and is found no more.
Vencer(e) ==
    /\ equipo[e].vigente /\ equipo' = [equipo EXCEPT ![e].vigente = FALSE]
    /\ UNCHANGED <<empresa, canje, emitidos, canjeados, deEnlaces>>

\* actualizarAgente switches an agent off and on again; it keeps its token.
ActivarAgente(e, si) ==
    /\ e \in Agentes /\ equipo[e].existe /\ equipo' = [equipo EXCEPT ![e].activo = si]
    /\ UNCHANGED <<empresa, canje, emitidos, canjeados, deEnlaces>>

EliminarAgente(e) ==
    /\ e \in Agentes /\ equipo[e].existe /\ equipo' = [equipo EXCEPT ![e] = Sin]
    /\ UNCHANGED <<empresa, canje, emitidos, canjeados, deEnlaces>>

\* A device that is revoked stays in the list and never comes back.
Revocar(e) ==
    /\ e \in Dispositivos /\ equipo[e].existe
    /\ equipo' = [equipo EXCEPT ![e] = [Sin EXCEPT !.existe = TRUE]]
    /\ UNCHANGED <<empresa, canje, emitidos, canjeados, deEnlaces>>

SuspenderEmpresa(si) ==
    empresa' = si /\ UNCHANGED <<equipo, canje, emitidos, canjeados, deEnlaces>>

\* The condition of the UPDATE of emparejar and canjearCodigo.
Sirve(e, codigo) ==
    equipo[e].codigo = codigo /\ equipo[e].vigente /\ equipo[e].activo /\ empresa

\* The statement looks for the row of a code that somebody holds ...
Buscar(c, k) ==
    /\ canje[c].paso = "fuera"
    /\ \E e \in Equipos :
         /\ Sirve(e, k) /\ canje' = [canje EXCEPT ![c] = [paso |-> "fila", codigo |-> k, fila |-> e]]
    /\ UNCHANGED <<equipo, empresa, emitidos, canjeados, deEnlaces>>

SinVolverAMirar(e, codigo) == TRUE

\* ... and checks it again once it has it, with the time it started at; the row
\* of the company, joined and not locked, is not read again.
SigueSirviendo(e, codigo) == equipo[e].codigo = codigo /\ equipo[e].activo

Canjear(c) ==
    LET e == canje[c].fila k == canje[c].codigo
    IN /\ canje[c].paso = "fila" /\ canje' = [canje EXCEPT ![c] = Libre]
       /\ \/ /\ SigueSirviendo(e, k)
             /\ equipo' = [equipo EXCEPT ![e].token = TRUE, ![e].codigo = 0, ![e].vigente = FALSE]
             /\ canjeados' = [canjeados EXCEPT ![k] = @ + 1]
          \/ ~SigueSirviendo(e, k) /\ UNCHANGED <<equipo, canjeados>>
       /\ UNCHANGED <<empresa, emitidos, deEnlaces>>

-----------------------------------------------------------------------------
(* Links                                                                   *)

\* crearInvitacion: the DELETE of those not used, which waits for one that is
\* being accepted, and in a statement of its own the new one.
Pendientes == {i \in DOMAIN enlaces : ~enlaces[i]}
Tomado(i) == \E c \in Canjeadores : acepta[c].paso = "clave" /\ acepta[c].enlace = i

BorrarPendientes(c) ==
    /\ acepta[c].paso = "fuera" /\ \A i \in Pendientes : ~Tomado(i)
    /\ enlaces' = [i \in DOMAIN enlaces \ Pendientes |-> enlaces[i]]
    /\ acepta' = [acepta EXCEPT ![c].paso = "invitar"]
    /\ UNCHANGED <<emitidos, usuario, deCodigos>>

Invitar(c) ==
    /\ acepta[c].paso = "invitar" /\ emitidos < MaxCodigos /\ emitidos' = emitidos + 1
    /\ enlaces' = [i \in DOMAIN enlaces \cup {emitidos'} |-> i # emitidos' /\ enlaces[i]]
    /\ acepta' = [acepta EXCEPT ![c].paso = "fuera"]
    /\ UNCHANGED <<usuario, deCodigos>>

\* aceptarInvitacion: BEGIN and the UPDATE that takes the link, which waits for
\* whoever has it ...
TomarEnlace(c, i) ==
    /\ acepta[c].paso = "fuera" /\ i \in Pendientes /\ ~Tomado(i)
    /\ acepta' = [acepta EXCEPT ![c] = [paso |-> "clave", enlace |-> i]]
    /\ UNCHANGED <<emitidos, enlaces, usuario, deCodigos>>

\* ... the hash of the password, and the UPDATE of the user with the COMMIT; a
\* user who is not active undoes it all.
PonerClave(c) ==
    /\ acepta[c].paso = "clave" /\ acepta' = [acepta EXCEPT ![c].paso = "fuera"]
    /\ IF usuario.activo
       THEN /\ enlaces' = [enlaces EXCEPT ![acepta[c].enlace] = TRUE]
            /\ usuario' = [usuario EXCEPT !.claves = @ + 1]
       ELSE UNCHANGED <<enlaces, usuario>>
    /\ UNCHANGED <<emitidos, deCodigos>>

\* The process ends, or the connection falls, between two statements.
Caer(c) ==
    /\ acepta[c].paso # "fuera" /\ acepta' = [acepta EXCEPT ![c].paso = "fuera"]
    /\ UNCHANGED <<emitidos, enlaces, usuario, deCodigos>>

ActivarUsuario(si) ==
    usuario' = [usuario EXCEPT !.activo = si] /\ UNCHANGED <<emitidos, enlaces, acepta, deCodigos>>

-----------------------------------------------------------------------------
Init ==
    /\ equipo = [e \in Equipos |-> Sin] /\ empresa = TRUE
    /\ canje = [c \in Canjeadores |-> Libre]
    /\ emitidos = 0 /\ canjeados = [k \in 1..MaxCodigos |-> 0]
    /\ enlaces = [i \in {} |-> FALSE]
    /\ usuario = [activo |-> TRUE, claves |-> 0]
    /\ acepta = [c \in Canjeadores |-> [paso |-> "fuera", enlace |-> 0]]

Next ==
    \/ \E e \in Equipos :
         \/ CrearAgente(e) \/ CrearDispositivo(e) \/ NuevoCodigo(e) \/ Vencer(e) \/ EliminarAgente(e) \/ Revocar(e)
         \/ \E si \in BOOLEAN : ActivarAgente(e, si)
    \/ \E si \in BOOLEAN : SuspenderEmpresa(si) \/ ActivarUsuario(si)
    \/ \E c \in Canjeadores :
         \/ \E k \in 1..emitidos : Buscar(c, k) \/ TomarEnlace(c, k)
         \/ Canjear(c) \/ BorrarPendientes(c) \/ Invitar(c) \/ PonerClave(c) \/ Caer(c)

Spec == Init /\ [][Next]_vars

-----------------------------------------------------------------------------
(* A code is accepted once at most, a device that was revoked has neither  *)
(* token nor code, whatever was on its way, and a user has as many         *)
(* passwords from links as links were used.                                *)
CanjeUnico ==
    /\ \A k \in 1..MaxCodigos : canjeados[k] <= 1
    /\ \A e \in Dispositivos : ~equipo[e].activo => ~equipo[e].token /\ equipo[e].codigo = 0
    /\ usuario.claves = Cardinality({i \in DOMAIN enlaces : enlaces[i]})
=============================================================================
