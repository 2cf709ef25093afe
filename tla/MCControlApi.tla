---------------------------- MODULE MCControlApi ----------------------------
(***************************************************************************)
(* ControlApi for TLC.  Calls may be fewer than requests: a request that   *)
(* finds no id left to dial with is refused.                               *)
(***************************************************************************)
EXTENDS ControlApi, TLC

Interchangeable == Permutations(CallIds) \cup Permutations(Requests)
=============================================================================
