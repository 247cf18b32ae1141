----------------------------- MODULE MCRenumber -----------------------------
(* A companion server and gintrack doctor over one backlog that is empty, or *)
(* holds an item, a number claimed twice, or two numbers claimed twice.      *)
EXTENDS Renumber

Seed(n, t, i, dated, by) ==
    [n |-> n, title |-> t, item |-> i, rev |-> i, dated |-> dated,
     broken |-> FALSE, maker |-> by, writer |-> by]

CONSTANT server

One == {Seed(1, 1, 1, TRUE, server)}
Twice == One \cup {Seed(1, 2, 2, FALSE, "git")}
\* One number is set aside.
MCBlocks == {<<1, 1>>}

MCSeeds ==
    {{}, One, Twice,
     Twice \cup {Seed(2, 1, 4, TRUE, "git"), Seed(2, 2, 3, TRUE, server)}}

MCArrivals == {<<2, 2, TRUE, FALSE>>, <<2, 1, TRUE, FALSE>>, <<2, 1, FALSE, TRUE>>}
\* One death or failing rollback, or one pull; git comes to the smaller backlogs,
\* where two new numbers are enough, and when one of the two processes is busy the
\* other one is not.
Larger == \E a \in acked : a[1] = 4

Faults ==
    /\ pulls + failures <= 1
    /\ pulls = 1 => ~Larger /\ (pc[server] = "idle" \/ pc[Doctor] = "idle")
    /\ Larger \/ reserved[server] < 4

\* One number claimed twice by dated items, for OldLinksResolve.
MCDatedSeeds == {{Seed(1, 1, 1, TRUE, server), Seed(1, 2, 2, TRUE, "git")}}
=============================================================================
