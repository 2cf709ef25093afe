--------------------------- MODULE MCMediaPlayer ---------------------------
(***************************************************************************)
(* MediaPlayer for TLC.  There is a call id for every page, so that no     *)
(* request waits for one.                                                  *)
(***************************************************************************)
EXTENDS MediaPlayer, TLC

ASSUME EnoughCallIds == Cardinality(CallIds) >= Cardinality(Pages)

Interchangeable ==
    Permutations(CallIds) \cup Permutations(Pages \ UrgentPages)
       \cup Permutations(UrgentPages) \cup Permutations(Targets)
=============================================================================
