------------------------------ MODULE ListSpec ------------------------------
(***************************************************************************)
(* What the LRU list and the global dirty list promise the cache: a        *)
(* sequence of distinct nodes, newest first, that lives until its owner    *)
(* gives it up.                                                            *)
(***************************************************************************)
EXTENDS Sequences, SequencesExt

CONSTANT Node

VARIABLES list, open

vars == <<list, open>>

Without(s, n) == SelectSeq(s, LAMBDA m : m # n)

Init == list = <<>> /\ open = TRUE

PushFront(n) == n \notin ToSet(list) /\ list' = <<n>> \o list

MoveToFront(n) == n \in ToSet(list) /\ list' = <<n>> \o Without(list, n)

Delete(n) == n \in ToSet(list) /\ list' = Without(list, n)

DropLast == list # <<>> /\ list' = Front(list)

GiveUp == list' = <<>> /\ open' = FALSE

Use == DropLast \/ \E n \in Node : PushFront(n) \/ MoveToFront(n) \/ Delete(n)

Next == open /\ (GiveUp \/ (Use /\ UNCHANGED open))

Spec == Init /\ [][Next]_vars
=============================================================================
