----------------------------- MODULE OrderedLog -----------------------------
(***************************************************************************)
(* What the engine promises the observer behind Options.OnJob: changes are *)
(* made in some order, and the observer hears exactly those changes, one   *)
(* at a time and in that order, however late.  Announcer implements this.  *)
(***************************************************************************)
EXTENDS Naturals, Sequences

CONSTANT Changes    \* what one step may append, a set of sequences

VARIABLES made,     \* every change, in the order it was made
          heard     \* every change the observer was told, in that order

Init == made = <<>> /\ heard = <<>>

(* A change is made; a step that changes nothing appends nothing.          *)
Make == /\ \E c \in Changes : made' = made \o c
        /\ UNCHANGED heard

(* The observer hears the oldest change it has not heard yet.              *)
Hear == /\ Len(heard) < Len(made)
        /\ heard' = Append(heard, made[Len(heard) + 1])
        /\ UNCHANGED made

Next == Make \/ Hear

Spec == Init /\ [][Next]_<<made, heard>>
=============================================================================
