--------------------------- MODULE MCIntegration ---------------------------
(***************************************************************************)
(* Integration for TLC.                                                    *)
(***************************************************************************)
EXTENDS Integration

\* Ids for the two targets of an old entry and one more; two flows can save.
ASSUME RoomForOneMore == MaxIds > 2 /\ MaxRequests > 1 /\ Cardinality(Flows) > 1
=============================================================================
