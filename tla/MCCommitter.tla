----------------------------- MODULE MCCommitter -----------------------------
(* Committer on small instances, for TLC: two items of one repository, one *)
(* of them written twice.                                                  *)
EXTENDS Committer, TLC

CONSTANTS e1, e2, e3, a, b, repo

TwoItems == (e1 :> a) @@ (e2 :> a) @@ (e3 :> b)
KeysOf   == [e \in Edits |-> TwoItems[e]]
OneRepo  == [k \in Keys |-> repo]
=============================================================================
