---------------------------- MODULE MCMediaCache ----------------------------
(***************************************************************************)
(* MediaCache for TLC.                                                     *)
(***************************************************************************)
EXTENDS MediaCache, TLC

CONSTANT Long  \* a source whose clip alone is over the budget

ClipBytes == [k \in Sources |-> IF k = Long THEN Budget + 1 ELSE 1]

\* A cache that holds everything would never evict.
ASSUME CacheIsTight == Budget < Cardinality(Files) /\ Long \in Urls

Alternating == Permutations(Requests)
=============================================================================
