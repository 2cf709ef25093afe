---------------------------- MODULE MCSipThread ----------------------------
(***************************************************************************)
(* SipThread for TLC.                                                      *)
(***************************************************************************)
EXTENDS SipThread, TLC

Interchangeable == Permutations(Commands)
=============================================================================
