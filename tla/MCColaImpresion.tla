-------------------------- MODULE MCColaImpresion --------------------------
(* Instance of ColaImpresion: one job that either of two agents may print. *)
EXTENDS ColaImpresion

CONSTANTS j1, a1, a2

DeCualquiera == [j \in Trabajos |-> Agentes]
=============================================================================
