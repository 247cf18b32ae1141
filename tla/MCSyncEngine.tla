---------------------------- MODULE MCSyncEngine ----------------------------
(* SyncEngine on small instances, for TLC.                                 *)
EXTENDS SyncEngine

(* Every job has the same kind and key.                                    *)
OneKey == [id \in Ids |-> CHOOSE k \in Keys : TRUE]

Symmetry == Permutations(Ids) \cup Permutations(Workers)
=============================================================================
