---------------------------- MODULE DurableBlocks ----------------------------
(***************************************************************************)
(* What the block cache promises the file system above it: blocks that can *)
(* be read and changed while mounted, and a disk that has every written    *)
(* block once the unmount is over.  Between a write and the unmount any    *)
(* block may reach the disk at any time; a death loses what has not.       *)
(***************************************************************************)
CONSTANTS Block, Content

VARIABLES phase,   \* "up", "closing" (unmounting), "down" or "dead"
          disk,    \* the blocks of the image
          view,    \* the blocks as the file system sees them
          owed     \* blocks written and not yet on disk

vars == <<phase, disk, view, owed>>

Init == /\ phase = "up"
        /\ disk \in [Block -> Content]
        /\ view = disk
        /\ owed = {}

\* A change made in the block's memory without telling the cache.
Poke(b, c) == /\ phase = "up"
              /\ view' = [view EXCEPT ![b] = c]
              /\ UNCHANGED <<phase, disk, owed>>

Write(b, c) == /\ phase = "up"
               /\ view' = [view EXCEPT ![b] = c]
               /\ owed' = owed \cup {b}
               /\ UNCHANGED <<phase, disk>>

Flushed(b) == [disk EXCEPT ![b] = view[b]]

Flush(b) == /\ phase \in {"up", "closing"}
            /\ disk' = Flushed(b)
            /\ owed' = owed \ {b}
            /\ UNCHANGED <<phase, view>>

Close == phase = "up" /\ phase' = "closing" /\ UNCHANGED <<disk, view, owed>>

Closed == /\ phase = "closing" /\ owed = {}
          /\ phase' = "down"
          /\ view' = disk
          /\ UNCHANGED <<disk, owed>>

Die == /\ phase \in {"up", "closing"}
       /\ disk' \in {disk} \cup {Flushed(b) : b \in Block}
       /\ phase' = "dead"
       /\ view' = disk'
       /\ owed' = {}

Remount == /\ phase \in {"down", "dead"}
           /\ phase' = "up"
           /\ UNCHANGED <<disk, view, owed>>

Next == \/ \E b \in Block : Flush(b) \/ \E c \in Content : Poke(b, c) \/ Write(b, c)
        \/ Close \/ Closed \/ Die \/ Remount

Spec == Init /\ [][Next]_vars
=============================================================================
