---------------------------- MODULE MCSipWorker ----------------------------
(***************************************************************************)
(* SipWorker for TLC.  Times are small numbers of pumps; MaxTime leaves    *)
(* room for a call placed at LastStart to meet the cap.                    *)
(***************************************************************************)
EXTENDS SipWorker, TLC

ASSUME BoundsAreWide == MaxTime > LastStart + MaxCall + 1

Interchangeable == Permutations(CallIds) \cup Permutations(Accounts)
=============================================================================
