------------------------------ MODULE MCClient ------------------------------
(***************************************************************************)
(* Client for TLC.                                                         *)
(***************************************************************************)
EXTENDS Client, TLC

\* Changes enough to win and lose a registration and to fill a queue.
ASSUME ChangesFillAQueue == MaxChanges > StreamDepth

Alike == Permutations(Accounts)
=============================================================================
