------------------------------- MODULE Sumas -------------------------------
(***************************************************************************)
(* The SUM of a query: what f adds up to over the keys of S.  It is kept   *)
(* apart from the modules that use it so that what they need of a sum is   *)
(* proved once, in SumasProofs: the function is a parameter, never an      *)
(* operator, so that the facts about it are first-order.                   *)
(***************************************************************************)
EXTENDS Integers, FiniteSets, Functions

SumaDe(f, S) == FoldFunctionOnSet(+, 0, f, S)
=============================================================================
