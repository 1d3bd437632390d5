----------------------------- MODULE MCSyncOrder -----------------------------
\* Three blocks and two slots, so that the cache runs full, and three nodes of
\* the dirty list, so that one slot can have several.  Two instances in one:
\* either one inode writes pages with a data header and without, or two inodes
\* write data pages, so that one block can be on two dirty lists.
EXTENDS SyncOrder

CONSTANTS i1

VARIABLE inums  \* the inodes of this instance

Contents == IF inums = Inum THEN DataContent ELSE Content

\* Only these inodes and contents are there.
Within == /\ \A b \in Block : disk[b] \in Contents
          /\ \A s \in Slot : cache[s] # NoEntry => /\ cache[s].inum \in inums
                                                   /\ cache[s].data \in Contents
          /\ \A i \in Inum \ inums : dl[i] = NULL

MCInit == OrderInit /\ inums \in {{i1}, Inum} /\ Within
MCNext == OrderNext /\ UNCHANGED inums /\ Within'

\* With the fairness of Spec.
MCSpec == /\ MCInit /\ [][MCNext]_<<vars, order, fsynced, inums>>
          /\ WF_vars(FsyncStep \/ FsyncEnd) /\ WF_vars(SyncStep \/ SyncEnd)
=============================================================================
