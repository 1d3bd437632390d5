------------------------------ MODULE SyncOrder ------------------------------
(***************************************************************************)
(* BlockCache with the order in which the blocks of a mount were first     *)
(* written, a history that shows in which order the unmount brings them to *)
(* the disk: it says what a kill in the middle of it can leave behind.     *)
(* InodeTable rests on it.                                                  *)
(***************************************************************************)
EXTENDS BlockCache

VARIABLES
  order,    \* the blocks written in this mount, by their first write
  fsynced   \* cache_fsync was called in this mount, which cleans blocks between

Dirty(b) == Resident(b) /\ cache[pci[b]].dirty

\* The history one step on; a mount begins with an empty one.
Recorded == IF phase' \in {"down", "dead"} THEN <<>>
            ELSE order \o SetToSeq({b \in Block : Dirty(b)' /\ ~Dirty(b)} \ ToSet(order))

OrderInit == Init /\ order = <<>> /\ fsynced = FALSE

OrderNext == /\ Next
             /\ order' = Recorded
             /\ fsynced' = (phase' = "fsync" \/ (fsynced /\ phase' \notin {"down", "dead"}))

OrderSpec == OrderInit /\ [][OrderNext]_<<vars, order, fsynced>>

\* The unmount cleans the blocks in the order of their first writes, however
\* often and in whatever order they were written again: a kill in its middle
\* leaves on disk a prefix of that order (cache.c:86-115, 152-182).
SyncsInOrder ==
  phase \in {"up", "sync"} /\ ~fsynced =>
    \A i, j \in 1 .. Len(order) : i < j /\ Dirty(order[i]) => Dirty(order[j])
=============================================================================
