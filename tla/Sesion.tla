------------------------------- MODULE Sesion -------------------------------
(***************************************************************************)
(* Who is let in: middlewares/activeUser.js, seen from ONE server instance. *)
(* Every request re-reads the user, the companies and the device through a  *)
(* cache of TTL milliseconds that only the instance that made a change      *)
(* invalidates.  One person is modelled, with a base company, a company     *)
(* shared with her and a registered device.  Caches of two instances share  *)
(* nothing, so one is enough: a write of another instance is one whose      *)
(* invalidation never runs here.                                            *)
(*                                                                          *)
(* A tick is a fraction of the TTL.  Bounds: MaxCambios writes, MaxSesiones *)
(* tokens, MaxEspera ticks that a request may wait for its queries.         *)
(***************************************************************************)
EXTENDS Naturals, FiniteSets

CONSTANTS Peticiones,     \* requests in flight in this instance
          TTL,            \* TTL_MS, in ticks
          MaxEspera,      \* ticks a request may wait for the database
          MaxCambios,     \* bound on the administrative writes
          MaxSesiones,    \* bound on the tokens issued
          Nada            \* no cache entry

VARIABLES bd,             \* the rows: usuarios, empresas, usuario_empresas, dispositivos
          sesiones,       \* the JWTs issued so far
          cache,          \* activeUser.cache, the entry of the person
          cacheEquipos,   \* activeUser.cacheEquipos, the entry of the device
          pet,            \* the requests and what they have read
          porInvalidar,   \* entries written to whose invalidation has not run
          cambios,        \* writes so far
          vigilado,       \* the fact a run watches (chosen at the start, never changes)
          rota            \* ticks since the watched fact is false

vars == <<bd, sesiones, cache, cacheEquipos, pet, porInvalidar, cambios, vigilado, rota>>

Empresas == {"base", "otra"}

\* The facts a session rests on.  "version" is that of the sessions of token version 0.
Hechos == Empresas \cup {"activo", "acceso", "equipo", "operativo", "version"}

Cierto(h, b) ==
    CASE h \in Empresas  -> b.abierta[h]
      [] h = "activo"    -> b.activo
      [] h = "acceso"    -> b.acceso
      [] h = "equipo"    -> b.equipo /\ b.abierta["base"]
      [] h = "operativo" -> ~b.admin
      [] h = "version"   -> b.tv = 0

HechosDe(s) ==
    {"activo", s.empresa}
        \cup (IF s.empresa = "otra" THEN {"acceso"} ELSE {})
        \cup (IF s.pin THEN {"equipo", "operativo"} ELSE {})
        \cup (IF s.tv = 0 THEN {"version"} ELSE {})

Init ==
    /\ \E admin, acceso \in BOOLEAN :
         /\ acceso => admin
         /\ bd = [activo |-> TRUE, admin |-> admin, tv |-> 0, acceso |-> acceso, equipo |-> TRUE,
                  abierta |-> [e \in Empresas |-> TRUE]]
    /\ sesiones = {}
    /\ cache = Nada
    /\ cacheEquipos = Nada
    /\ pet = [p \in Peticiones |-> [paso |-> "libre"]]
    /\ porInvalidar = {}
    /\ cambios = 0
    /\ vigilado \in Hechos
    /\ rota = 0

-----------------------------------------------------------------------------
(* Issuing sessions.  A login signs what it read before bcrypt ran; the     *)
(* token equals one signed at the read, and it is added there.              *)

Emitir(empresa, tv, pin) ==
    /\ sesiones' = sesiones \cup {[empresa |-> empresa, tv |-> tv, pin |-> pin]}
    /\ Cardinality(sesiones') <= MaxSesiones

Login ==
    /\ bd.activo /\ bd.abierta["base"]
    /\ Emitir("base", bd.tv, FALSE)
    /\ UNCHANGED <<bd, cache, cacheEquipos, pet, porInvalidar, cambios, vigilado, rota>>

\* Only an operative of an active registered device enters with a PIN.
EntrarConPin ==
    /\ bd.activo /\ ~bd.admin /\ bd.equipo /\ bd.abierta["base"]
    /\ Emitir("base", bd.tv, TRUE)
    /\ UNCHANGED <<bd, cache, cacheEquipos, pet, porInvalidar, cambios, vigilado, rota>>

-----------------------------------------------------------------------------
(* The administrative writes.  The instance that makes one invalidates its  *)
(* cache AFTER the write, in a step of its own that a stop can prevent.     *)

Escribir(b, entrada) ==
    /\ cambios < MaxCambios
    /\ cambios' = cambios + 1
    /\ bd' = b
    /\ porInvalidar' = porInvalidar \cup entrada
    /\ rota' = IF Cierto(vigilado, b) THEN 0 ELSE rota
    /\ UNCHANGED <<sesiones, cache, cacheEquipos, pet, vigilado>>

\* logoutAll, changePassword, forced logout, quitarPin, the platform's password reset.
SubirVersion == Escribir([bd EXCEPT !.tv = @ + 1], {"usuario"})

\* updateUsuario on somebody who is not the owner.
CambiarActivo == Escribir([bd EXCEPT !.activo = ~@], {"usuario"})
CambiarAdmin == Escribir([bd EXCEPT !.admin = ~@], {"usuario"})

\* The platform shares an active company only with an active Owner or Admin ...
Conceder ==
    /\ bd.activo /\ bd.admin /\ bd.abierta["otra"]
    /\ Escribir([bd EXCEPT !.acceso = TRUE], {"usuario"})

\* ... and the access is withdrawn by the platform or by the company's Owner.
Retirar ==
    /\ bd.acceso
    /\ Escribir([bd EXCEPT !.acceso = FALSE], {"usuario"})

\* cambiarEstado invalidates nothing, not even here.
CambiarEstado(e) == Escribir([bd EXCEPT !.abierta[e] = ~@], {})

RevocarEquipo == Escribir([bd EXCEPT !.equipo = FALSE], {"equipo"})

Invalidar(cual) ==
    /\ cual \in porInvalidar
    /\ porInvalidar' = porInvalidar \ {cual}
    /\ cache' = IF cual = "usuario" THEN Nada ELSE cache
    /\ cacheEquipos' = IF cual = "equipo" THEN Nada ELSE cacheEquipos
    /\ UNCHANGED <<bd, sesiones, pet, cambios, vigilado, rota>>

-----------------------------------------------------------------------------
(* A request: cargar (two queries and the entry stored when the second one  *)
(* answers), the checks, and for a PIN session the device.                  *)

Fresca(entrada) == entrada # Nada /\ entrada.edad < TTL

EnEspera(p) == pet[p].paso \notin {"libre", "admitida"}

\* The checks of requireActiveUser on what cargar returned.
Vale(s, e) ==
    /\ e.activo
    /\ s.empresa = "otra" => e.acceso
    /\ e.abierta[s.empresa]
    /\ s.tv = e.tv
    /\ s.pin => s.empresa = "base" /\ ~e.admin

\* What follows the checks: refuse, let in, or look at the device.
Decidir(s, e) ==
    IF ~Vale(s, e) THEN [paso |-> "libre"]
    ELSE IF ~s.pin THEN [paso |-> "admitida", s |-> s]
    ELSE IF ~Fresca(cacheEquipos) THEN [paso |-> "equipo", s |-> s, espera |-> 0]
    ELSE IF cacheEquipos.activo THEN [paso |-> "admitida", s |-> s]
    ELSE [paso |-> "libre"]

\* Mutant: a hit also renews the entry, so that a busy cache never expires.
RecibirRenovando(p, s) ==
    /\ pet[p].paso = "libre"
    /\ pet' = [pet EXCEPT ![p] =
                 IF Fresca(cache) THEN Decidir(s, cache.e)
                 ELSE [paso |-> "fila", s |-> s, destino |-> Nada, espera |-> 0]]
    /\ cache' = IF Fresca(cache) THEN [cache EXCEPT !.edad = 0] ELSE cache
    /\ UNCHANGED <<bd, sesiones, cacheEquipos, porInvalidar, cambios, vigilado, rota>>

Recibir(p, s) ==
    /\ pet[p].paso = "libre"
    /\ pet' = [pet EXCEPT ![p] =
                 IF Fresca(cache) THEN Decidir(s, cache.e)
                 ELSE [paso |-> "fila", s |-> s, destino |-> Nada, espera |-> 0]]
    /\ UNCHANGED <<bd, sesiones, cache, cacheEquipos, porInvalidar, cambios, vigilado, rota>>

\* The first query: the user's row and her base company.
Fila == [activo |-> bd.activo, admin |-> bd.admin, tv |-> bd.tv, acceso |-> FALSE,
         abierta |-> [c \in Empresas |-> c = "base" /\ bd.abierta[c]]]

LeerFila(p) ==
    /\ pet[p].paso = "fila"
    /\ pet' = [pet EXCEPT ![p] = [paso |-> "accesos", s |-> @.s, destino |-> @.destino,
                                  espera |-> @.espera, e |-> Fila]]
    /\ UNCHANGED <<bd, sesiones, cache, cacheEquipos, porInvalidar, cambios, vigilado, rota>>

\* The shared accesses are read by a second query, later than the row.
LeerAccesos(p) ==
    /\ pet[p].paso = "accesos"
    /\ pet' = [pet EXCEPT ![p] =
                 [paso |-> "guardar", s |-> @.s, destino |-> @.destino, espera |-> @.espera,
                  e |-> [@.e EXCEPT !.acceso = bd.acceso,
                                    !.abierta["otra"] = bd.acceso /\ bd.abierta["otra"]]]]
    /\ UNCHANGED <<bd, sesiones, cache, cacheEquipos, porInvalidar, cambios, vigilado, rota>>

\* cambiarEmpresa signs a session of another company with what cargar returned.
Firmar(e, destino) ==
    IF e.activo /\ (destino = "otra" => e.acceso) /\ e.abierta[destino]
    THEN Emitir(destino, e.tv, FALSE)
    ELSE UNCHANGED sesiones

\* The answer of the second query: the entry is stored with the time of now.
Guardar(p) ==
    /\ pet[p].paso = "guardar"
    /\ LET e == pet[p].e IN
         /\ cache' = [e |-> e, edad |-> 0]
         /\ IF pet[p].destino = Nada
            THEN pet' = [pet EXCEPT ![p] = Decidir(@.s, e)] /\ UNCHANGED sesiones
            ELSE pet' = [pet EXCEPT ![p] = [paso |-> "libre"]] /\ Firmar(e, pet[p].destino)
    /\ UNCHANGED <<bd, cacheEquipos, porInvalidar, cambios, vigilado, rota>>

LeerEquipo(p) ==
    /\ pet[p].paso = "equipo"
    /\ pet' = [pet EXCEPT ![p] = [paso |-> "guardarEquipo", s |-> @.s, espera |-> @.espera,
                                  activo |-> bd.equipo /\ bd.abierta["base"]]]
    /\ UNCHANGED <<bd, sesiones, cache, cacheEquipos, porInvalidar, cambios, vigilado, rota>>

GuardarEquipo(p) ==
    /\ pet[p].paso = "guardarEquipo"
    /\ cacheEquipos' = [activo |-> pet[p].activo, edad |-> 0]
    /\ pet' = [pet EXCEPT ![p] = IF @.activo THEN [paso |-> "admitida", s |-> @.s]
                                             ELSE [paso |-> "libre"]]
    /\ UNCHANGED <<bd, sesiones, cache, porInvalidar, cambios, vigilado, rota>>

\* The handler of an admitted request changes company: it asks cargar again.
CambiarEmpresa(p, destino) ==
    /\ pet[p].paso = "admitida" /\ ~pet[p].s.pin
    /\ IF Fresca(cache)
       THEN /\ Firmar(cache.e, destino)
            /\ pet' = [pet EXCEPT ![p] = [paso |-> "libre"]]
       ELSE /\ pet' = [pet EXCEPT ![p] = [paso |-> "fila", s |-> @.s, destino |-> destino,
                                          espera |-> 0]]
            /\ UNCHANGED sesiones
    /\ UNCHANGED <<bd, cache, cacheEquipos, porInvalidar, cambios, vigilado, rota>>

\* Any other handler.
Terminar(p) ==
    /\ pet[p].paso = "admitida"
    /\ pet' = [pet EXCEPT ![p] = [paso |-> "libre"]]
    /\ UNCHANGED <<bd, sesiones, cache, cacheEquipos, porInvalidar, cambios, vigilado, rota>>

-----------------------------------------------------------------------------
(* Time and restarts.                                                       *)

Cota == TTL + 2 * MaxEspera

Envejecer(entrada) ==
    IF entrada = Nada \/ entrada.edad = TTL THEN entrada
    ELSE [entrada EXCEPT !.edad = @ + 1]

Tic ==
    /\ \A p \in Peticiones : EnEspera(p) => pet[p].espera < MaxEspera
    /\ cache' = Envejecer(cache)
    /\ cacheEquipos' = Envejecer(cacheEquipos)
    /\ pet' = [p \in Peticiones |->
                 IF EnEspera(p) THEN [pet[p] EXCEPT !.espera = @ + 1] ELSE pet[p]]
    /\ rota' = IF Cierto(vigilado, bd) THEN 0
               ELSE IF rota < Cota THEN rota + 1 ELSE rota
    /\ UNCHANGED <<bd, sesiones, porInvalidar, cambios, vigilado>>

\* A restart loses the caches, the requests and the invalidations not yet run.
Reiniciar ==
    /\ cache' = Nada /\ cacheEquipos' = Nada /\ porInvalidar' = {}
    /\ pet' = [p \in Peticiones |-> [paso |-> "libre"]]
    /\ UNCHANGED <<bd, sesiones, cambios, vigilado, rota>>

Next ==
    \/ Login
    \/ EntrarConPin
    \/ SubirVersion
    \/ CambiarActivo
    \/ CambiarAdmin
    \/ Conceder
    \/ Retirar
    \/ RevocarEquipo
    \/ \E e \in Empresas : CambiarEstado(e)
    \/ \E cual \in {"usuario", "equipo"} : Invalidar(cual)
    \/ \E p \in Peticiones :
         \/ \E s \in sesiones : Recibir(p, s)
         \/ LeerFila(p)
         \/ LeerAccesos(p)
         \/ Guardar(p)
         \/ LeerEquipo(p)
         \/ GuardarEquipo(p)
         \/ \E destino \in Empresas : CambiarEmpresa(p, destino)
         \/ Terminar(p)
    \/ Tic
    \/ Reiniciar

Spec == Init /\ [][Next]_vars

-----------------------------------------------------------------------------
(* A request is let in only if every fact its session rests on (the user is *)
(* active, the company is active, the shared access stands, the token       *)
(* version is the current one, the device is registered, a PIN session is   *)
(* not of an admin) has not been false for a whole TTL plus the waits of    *)
(* the load that filled the entry and of the request itself: whatever       *)
(* instance made the change, whatever load was in flight when it was made,  *)
(* whatever the two queries saw, and even if the writer died before it      *)
(* invalidated.                                                             *)
RevocacionAcotada ==
    [][\A p \in Peticiones :
         (pet[p].paso # "admitida" /\ pet'[p].paso = "admitida"
            /\ vigilado \in HechosDe(pet'[p].s))
           => rota < Cota]_vars
=============================================================================
