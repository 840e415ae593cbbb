----------------------------- MODULE MCEntregas -----------------------------
(* Instance of Entregas: one job that either of two agents may print, two   *)
(* tabs of one user, and a request sent twice with its key besides another  *)
(* body with the same key.                                                  *)
EXTENDS Entregas, TLC

CONSTANTS j1, a1, a2, c1, c2

DeCualquiera == [j \in Trabajos |-> Agentes]

DosYOtro == c1 :> 1 @@ c2 :> 1 @@ j1 :> 2
=============================================================================
