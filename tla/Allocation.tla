----------------------------- MODULE Allocation -----------------------------
(***************************************************************************)
(* The arithmetic of internal/core/allocator.go: which number the next     *)
(* item of a type gets.  Everything here is a function of what the caller  *)
(* has read: the numbers on disk, the hint of project.yaml and the blocks  *)
(* of numbers that are set aside.  A block is a pair <<from, to>>.         *)
(*                                                                         *)
(* Nobody calls SetUser, so an allocator has no user, owns no range, and   *)
(* counts the ranges of every user among the blocks: nextInRanges is never *)
(* reached.                                                                *)
(***************************************************************************)
EXTENDS Integers, FiniteSets

\* maxInt: the largest of a set of numbers, 0 when there is none.
MaxInt(S) == CHOOSE m \in S \cup {0} : \A v \in S \cup {0} : v <= m

InBlock(n, b) == b[1] <= n /\ n <= b[2]

(***************************************************************************)
(* nextNumber without a block of one's own: one more than the largest of   *)
(* the numbers taken, the hint and the end of every block.  The loop that  *)
(* follows it in the code ("belt and braces") finds no block to jump over: *)
(* every block ends below the number it starts from.                       *)
(***************************************************************************)
NextNumber(taken, hint, blocks) ==
    MaxInt(taken \cup {hint} \cup {b[2] : b \in blocks}) + 1
=============================================================================
