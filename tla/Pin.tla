--------------------------------- MODULE Pin ---------------------------------
(***************************************************************************)
(* Entering with a PIN from a registered device (auth/pin.service.js,       *)
(* pin.logic.js, dispositivos/dispositivo.repository.js) and the            *)
(* administration of that PIN.  Nothing here runs in a transaction: every   *)
(* query is a step, and several attempts on one person's PIN overlap with   *)
(* each other and with an administrator.                                    *)
(*                                                                          *)
(* The failures of the person are counted by their age: the rows of a       *)
(* device younger than Ventana make it wait, until the youngest is Enfria   *)
(* old; those of all the devices younger than Hora block the person.  They  *)
(* leave the windows one by one, as they age.  The coolings by device and   *)
(* by IP have larger limits over the same rows and are left out.  Bound:    *)
(* MaxPines definitions of the PIN.                                         *)
(***************************************************************************)
EXTENDS Naturals, FiniteSets, Sumas

CONSTANTS Intentos,       \* attempts in flight
          Equipos,        \* registered devices
          MaxEquipo,      \* LIMITES.usuarioDispositivo.max
          MaxDuro,        \* LIMITES.duro.max
          Enfria,         \* LIMITES.usuarioDispositivo.enfriaSeg, in ticks of the clock
          Ventana,        \* LIMITES.ventanaMin
          Hora,           \* LIMITES.duro.ventanaMin
          MaxPines

VARIABLES usuario,        \* the row: [pin, bloqueado, tv]; pin 0 is no PIN
          fallos,         \* pin_fallos: how many rows there are of each device and age
          intento,        \* attempt -> what it does and what it has read
          admin,          \* the administrator's operation under way
          definidos,      \* PINs defined so far
          sesiones,       \* sessions issued: [pin, tv]
          quitados        \* PINs whose removal has been answered

vars == <<usuario, fallos, intento, admin, definidos, sesiones, quitados>>

\* The ages that some query counts.
Edades == 0..(Hora - 1)
Casillas == Equipos \X Edades

SinFallos == [c \in Casillas |-> 0]

Libre == [paso |-> "libre"]

Init ==
    /\ usuario = [pin |-> 1, bloqueado |-> FALSE, tv |-> 0]
    /\ fallos = SinFallos
    /\ intento = [k \in Intentos |-> Libre]
    /\ admin = "libre"
    /\ definidos = 1
    /\ sesiones = {}
    /\ quitados = {}

-----------------------------------------------------------------------------
(* entrar                                                                   *)

Pasar(k, r) == intento' = [intento EXCEPT ![k] = r]

\* usuarioParaPin: one row with the hash, the block and the token version.
Empezar(k, d) ==
    /\ intento[k] = Libre
    /\ usuario.pin # 0 /\ ~usuario.bloqueado
    /\ Pasar(k, [paso |-> "espera", d |-> d, pin |-> usuario.pin, tv |-> usuario.tv])
    /\ UNCHANGED <<usuario, fallos, admin, definidos, sesiones, quitados>>

\* fallosRecientes and esperaTotalSeg: at the limit, only once it has cooled.
Recientes(d) == SumaDe(fallos, {d} \X {a \in Edades : a < Ventana})
Frio(d) == \A a \in Edades : a < Enfria => fallos[<<d, a>>] = 0
EnEspera(d) == Recientes(d) >= MaxEquipo /\ ~Frio(d)

VerEspera(k) ==
    /\ intento[k].paso = "espera"
    /\ Pasar(k, IF EnEspera(intento[k].d) THEN Libre ELSE [intento[k] EXCEPT !.paso = "comparar"])
    /\ UNCHANGED <<usuario, fallos, admin, definidos, sesiones, quitados>>

\* bcrypt against the hash that was read.
Comparar(k, acierta) ==
    /\ intento[k].paso = "comparar"
    /\ Pasar(k, [intento[k] EXCEPT !.paso = IF acierta THEN "limpiar" ELSE "registrar"])
    /\ UNCHANGED <<usuario, fallos, admin, definidos, sesiones, quitados>>

RegistrarFallo(k) ==
    /\ intento[k].paso = "registrar"
    /\ fallos' = [fallos EXCEPT ![<<intento[k].d, 0>>] = @ + 1]
    /\ Pasar(k, [intento[k] EXCEPT !.paso = "contar"])
    /\ UNCHANGED <<usuario, admin, definidos, sesiones, quitados>>

EnLaHora == SumaDe(fallos, Casillas)

\* Mutant: the block is decided before this failure counts.
ContarPorEncima(k) ==
    /\ intento[k].paso = "contar"
    /\ Pasar(k, IF EnLaHora > MaxDuro THEN [intento[k] EXCEPT !.paso = "bloquear"] ELSE Libre)
    /\ UNCHANGED <<usuario, fallos, admin, definidos, sesiones, quitados>>

Contar(k) ==
    /\ intento[k].paso = "contar"
    /\ Pasar(k, IF EnLaHora >= MaxDuro THEN [intento[k] EXCEPT !.paso = "bloquear"] ELSE Libre)
    /\ UNCHANGED <<usuario, fallos, admin, definidos, sesiones, quitados>>

Bloquear(k) ==
    /\ intento[k].paso = "bloquear"
    /\ usuario' = [usuario EXCEPT !.bloqueado = TRUE]
    /\ Pasar(k, Libre)
    /\ UNCHANGED <<fallos, admin, definidos, sesiones, quitados>>

\* A right PIN forgets the failures of that device and signs what was read.
Limpiar(k) ==
    /\ intento[k].paso = "limpiar"
    /\ fallos' = [c \in Casillas |-> IF c[1] = intento[k].d THEN 0 ELSE fallos[c]]
    /\ sesiones' = sesiones \cup {[pin |-> intento[k].pin, tv |-> intento[k].tv]}
    /\ Pasar(k, Libre)
    /\ UNCHANGED <<usuario, admin, definidos, quitados>>

-----------------------------------------------------------------------------
(* Time: every row gets older, and past the hour it counts nowhere.         *)

Tic ==
    /\ fallos' = [c \in Casillas |-> IF c[2] = 0 THEN 0 ELSE fallos[<<c[1], c[2] - 1>>]]
    /\ UNCHANGED <<usuario, intento, admin, definidos, sesiones, quitados>>

-----------------------------------------------------------------------------
(* The administrator: each operation is an UPDATE, then the DELETE of the   *)
(* failures, and a removal also raises the token version.                   *)

DefinirPin ==
    /\ admin = "libre" /\ definidos < MaxPines
    /\ definidos' = definidos + 1
    /\ usuario' = [usuario EXCEPT !.pin = definidos + 1, !.bloqueado = FALSE]
    /\ admin' = "borrar"
    /\ UNCHANGED <<fallos, intento, sesiones, quitados>>

Desbloquear ==
    /\ admin = "libre" /\ usuario.bloqueado
    /\ usuario' = [usuario EXCEPT !.bloqueado = FALSE]
    /\ admin' = "borrar"
    /\ UNCHANGED <<fallos, intento, definidos, sesiones, quitados>>

\* Mutant: the sessions are closed before the PIN is gone.
QuitarPinAlFinal ==
    /\ usuario.pin # 0
    /\ \/ admin = "libre" /\ usuario' = [usuario EXCEPT !.tv = @ + 1] /\ admin' = "quitar"
          /\ UNCHANGED quitados
       \/ admin = "quitar" /\ usuario' = [usuario EXCEPT !.pin = 0, !.bloqueado = FALSE]
          /\ admin' = "borrar" /\ quitados' = 1..definidos
    /\ UNCHANGED <<fallos, intento, definidos, sesiones>>

QuitarPin ==
    /\ admin = "libre" /\ usuario.pin # 0
    /\ usuario' = [usuario EXCEPT !.pin = 0, !.bloqueado = FALSE]
    /\ admin' = "borrarYsubir"
    /\ UNCHANGED <<fallos, intento, definidos, sesiones, quitados>>

BorrarFallos ==
    /\ admin \in {"borrar", "borrarYsubir"}
    /\ fallos' = SinFallos
    /\ admin' = IF admin = "borrar" THEN "libre" ELSE "subir"
    /\ UNCHANGED <<usuario, intento, definidos, sesiones, quitados>>

\* bumpTokenVersion; only now is quitarPin answered.
SubirVersion ==
    /\ admin = "subir"
    /\ usuario' = [usuario EXCEPT !.tv = @ + 1]
    /\ quitados' = 1..definidos
    /\ admin' = "libre"
    /\ UNCHANGED <<fallos, intento, definidos, sesiones>>

Next ==
    \/ \E k \in Intentos :
         \/ \E d \in Equipos : Empezar(k, d)
         \/ VerEspera(k)
         \/ \E acierta \in BOOLEAN : Comparar(k, acierta)
         \/ RegistrarFallo(k)
         \/ Contar(k)
         \/ Bloquear(k)
         \/ Limpiar(k)
    \/ Tic
    \/ DefinirPin
    \/ Desbloquear
    \/ QuitarPin
    \/ BorrarFallos
    \/ SubirVersion

Spec == Init /\ [][Next]_vars

-----------------------------------------------------------------------------
\* A failure of this age is of the same spell as those of now: at no tick since it
\* was written had its device cooled when the tick began.
EnRacha(d, a) ==
    \A b \in 0..(a - 1) : \E e \in (b + 1)..(b + Enfria - 1) : e \in Edades /\ fallos[<<d, e>>] > 0

\* Wrong PINs of the last hour, and those of the last 15 minutes on a device since
\* it last cooled: those written and those that an attempt is about to write.
Malos ==
    EnLaHora + Cardinality({k \in Intentos : intento[k].paso = "registrar"})
MalosEquipo(d) ==
    SumaDe(fallos, {d} \X {a \in Edades : a < Ventana /\ EnRacha(d, a)})
        + Cardinality({k \in Intentos : intento[k].paso = "registrar" /\ intento[k].d = d})

(* The wrong PINs that are compared exceed the limit that ought to stop     *)
(* them by at most the attempts that were already past the check, although  *)
(* the check, the comparison, the failure and the block are separate        *)
(* queries: MaxDuro - 1 plus one per attempt in flight in any hour, other   *)
(* than while an administrator's operation is between its UPDATE and its    *)
(* DELETE; and on a device MaxEquipo - 1 plus one per attempt in flight in  *)
(* any 15 minutes since it cooled.  (More can be tried without its cooling: *)
(* failures leave the window one by one.)                                   *)
IntentosAcotados ==
    /\ admin \notin {"borrar", "borrarYsubir"} => Malos < MaxDuro + Cardinality(Intentos)
    /\ \A d \in Equipos : MalosEquipo(d) < MaxEquipo + Cardinality(Intentos)

(* Once quitarPin has answered, no session that entered with that PIN holds *)
(* the current token version: neither one opened before nor one whose       *)
(* attempt read the hash before the removal and finished after it.          *)
PinQuitadoFuera == \A s \in sesiones : s.pin \in quitados => s.tv # usuario.tv
=============================================================================
