---------------------------- MODULE MCCuentasPos ----------------------------
(***************************************************************************)
(* Instances of CuentasPos over the same rows; each behaviour is of one of *)
(* them, chosen at the start, and the constants of the configuration hold  *)
(* them all.                                                               *)
(*   "mesas"          a counter without kitchen, two tables and the purge  *)
(*   "obra"           two accounts and a supervisor, tables that are       *)
(*                    edited or deleted meanwhile                          *)
(*   "reserva"        three accounts to take away and a reservation        *)
(*   "cocina"         three accounts that share comandas                   *)
(*   "cancelaciones"  two of them, a supervisor and the purge              *)
(*   "sala"           one account with courses, notes, discounts, and an   *)
(*                    article that has no comanda                          *)
(***************************************************************************)
EXTENDS CuentasPos, TLC

VARIABLE parte

\* An area with a screen, and what a counter serves itself.
Areas == [a \in {"sopa", "agua"} |-> IF a = "sopa" THEN "cocina" ELSE "mostrador"]
SoloMostrador == [a \in {"agua"} |-> "mostrador"]
SoloCocina == [a \in {"sopa"} |-> "cocina"]

Mostrador == INSTANCE CuentasPos WITH
    Articulos <- {"agua"}, AreaDe <- SoloMostrador, Tiempos <- {1}, Notas <- {FALSE},
    Rebajas <- {}, MaxPurga <- 1, MesasEditables <- {}, MaxCantidad <- 1, MaxFolio <- 3,
    HaySupervisor <- FALSE

Obra == INSTANCE CuentasPos WITH
    Articulos <- {"agua"}, AreaDe <- SoloMostrador, Tiempos <- {1}, Notas <- {FALSE},
    Rebajas <- {}, MaxPurga <- 0, MesasEditables <- Mesas, MaxCantidad <- 1, MaxFolio <- 2,
    HaySupervisor <- TRUE

Reservacion == INSTANCE CuentasPos WITH
    Articulos <- {"agua"}, AreaDe <- SoloMostrador, Tiempos <- {1}, Notas <- {FALSE},
    Rebajas <- {}, MaxPurga <- 0, MesasEditables <- {}, MaxCantidad <- 1, MaxFolio <- 3,
    HaySupervisor <- FALSE

Cocina == INSTANCE CuentasPos WITH
    Articulos <- {"sopa"}, AreaDe <- SoloCocina, Tiempos <- {1}, Notas <- {FALSE},
    Rebajas <- {}, MaxPurga <- 0, MesasEditables <- {}, MaxCantidad <- 2, MaxFolio <- 3,
    HaySupervisor <- FALSE

Cancelaciones == INSTANCE CuentasPos WITH
    Articulos <- {"sopa"}, AreaDe <- SoloCocina, Tiempos <- {1}, Notas <- {FALSE},
    Rebajas <- {}, MaxPurga <- 1, MesasEditables <- {}, MaxCantidad <- 2, MaxFolio <- 2,
    HaySupervisor <- TRUE

Sala == INSTANCE CuentasPos WITH MaxFolio <- 1

\* No two rows of a table differ but by their id.
Simetria == UNION {Permutations(S) : S \in {Cuentas, Renglones, Comandas, Mesas}}

-----------------------------------------------------------------------------
ConMesas == \A m \in Mesas : mesas[m] = "ACTIVA"
SinMesas == \A m \in Mesas : mesas[m] = "INACTIVA"
ConReservas == \A r \in Reservas : reservas[r] # "BORRADA"
SinReservas == \A r \in Reservas : reservas[r] = "BORRADA"

InitCuentas ==
    /\ Init
    /\ \/ parte \in {"mesas", "obra"} /\ ConMesas /\ SinReservas
       \/ parte = "reserva" /\ SinMesas /\ ConReservas
       \/ parte \in {"cocina", "cancelaciones", "sala"} /\ SinMesas /\ SinReservas

NextCuentas ==
    /\ \/ parte = "mesas" /\ Mostrador!Next
       \/ parte = "obra" /\ Obra!Next
       \/ parte = "reserva" /\ Reservacion!Next
       \/ parte = "cocina" /\ Cocina!Next
       \/ parte = "cancelaciones" /\ Cancelaciones!Next
       \/ parte = "sala" /\ Sala!Next
    /\ UNCHANGED parte

SpecCuentas == InitCuentas /\ [][NextCuentas]_<<parte, vars>>
=============================================================================
