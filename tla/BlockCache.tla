------------------------------ MODULE BlockCache ------------------------------
(***************************************************************************)
(* The block cache of one mount: cache.c with the lists it is made of      *)
(* (lru.c, gdl.c, dl.c, fl.c, pci.c), from alloc_cache to the unmount, over *)
(* the memory-mapped disk image.  FUSE runs single-threaded, so each call  *)
(* is one action, except the two loops that write blocks to disk, which a  *)
(* kill can cut between blocks.  A block number or an inode number is a    *)
(* member of a set; a page is a member of Content, of which the pages whose *)
(* header says BLOCK_TYPE_DATA are told apart.                             *)
(***************************************************************************)
EXTENDS Ring, Integers, Sequences, SequencesExt

CONSTANTS Block, Inum, Content, DataContent, CacheSize,
          MaxGdl   \* bound on the nodes of the global dirty list

ASSUME BlockCacheConstants ==
  /\ CacheSize \in Nat /\ CacheSize >= 2   \* alloc_cache: 16384 or more
  /\ DataContent \subseteq Content
  /\ NULL \notin Block \cup Inum \cup Content
  /\ NULL \notin [list : Seq(Block), wild : BOOLEAN]
  /\ MaxGdl \in Nat
  /\ Node = 0 .. CacheSize - 1

\* The indices of the entry array; also the names of the LRU nodes.
Slot == Node

VARIABLES
  phase,   \* "up", "fsync" and "sync" (inside those calls), "down", "dead"
  fault,   \* why the process died: "none", "lru" or "dl"
  disk,    \* the image
  cache,   \* the cache entries
  pci,     \* block number -> slot
  free,    \* the free list of slots, head first
  lru,     \* the LRU ring; the node of slot s is named s
  gdl,     \* the global dirty list: the slots of its nodes, head first
  dl,      \* inode number -> its dirty list, NULL without one
  job      \* the inode number cache_fsync works on

mem == <<cache, pci, free, lru, gdl, dl, job>>
vars == <<phase, fault, disk, mem>>

NoEntry == [dirty |-> FALSE, block |-> NULL, inum |-> NULL, data |-> NULL,
            gpos |-> FALSE]

\* alloc_cache pushes slots 0, 1, ... on the free list.
AllFree == [i \in 1 .. CacheSize |-> CacheSize - i]

\* The memory of a process that has just called alloc_cache.
Init == /\ phase = "up" /\ fault = "none"
        /\ disk \in [Block -> Content]
        /\ cache = [s \in Slot |-> NoEntry]
        /\ pci = [b \in Block |-> NULL]
        /\ free = AllFree
        /\ lru = EmptyRing
        /\ gdl = <<>>
        /\ dl = [i \in Inum |-> NULL]
        /\ job = NULL

\* The process is gone and its memory with it.
Forget == /\ cache' = [s \in Slot |-> NoEntry]
          /\ pci' = [b \in Block |-> NULL]
          /\ free' = AllFree
          /\ lru' = EmptyRing
          /\ gdl' = <<>>
          /\ dl' = [i \in Inum |-> NULL]
          /\ job' = NULL

Die(why) == phase' = "dead" /\ fault' = why /\ Forget

Resident(b) == pci[b] # NULL

\* The disk after the page of slot s is written back.
WrittenBack(s) == [disk EXCEPT ![cache[s].block] = cache[s].data]

-----------------------------------------------------------------------------
(***************************************************************************)
(* The per-inode dirty lists (dl.c).  dl_push leaves the next link of the  *)
(* first node of a list uninitialised: "wild" says that it is not NULL by  *)
(* luck.  A walk that passes the last node of a wild list faults.  A wild  *)
(* list whose nodes are all removed stays, with garbage for a head.        *)
(***************************************************************************)
WalkFaults(i, b) == dl[i] # NULL /\ dl[i].wild /\ b \notin ToSet(dl[i].list)

\* A slip: dl_insert replaces the list.
Inserted_Replaces(i, b) ==
  IF dl[i] = NULL
  THEN {[dl EXCEPT ![i] = [list |-> <<b>>, wild |-> w]] : w \in BOOLEAN}
  ELSE IF b \in ToSet(dl[i].list) THEN {dl}
       ELSE {[dl EXCEPT ![i].list = <<b>>]}

Inserted(i, b) ==
  IF dl[i] = NULL
  THEN {[dl EXCEPT ![i] = [list |-> <<b>>, wild |-> w]] : w \in BOOLEAN}
  ELSE IF b \in ToSet(dl[i].list) THEN {dl}
       ELSE {[dl EXCEPT ![i].list = <<b>> \o @]}

Removed(i, b) ==
  IF dl[i] = NULL \/ b \notin ToSet(dl[i].list) THEN dl
  ELSE LET rest == RemoveFirst(dl[i].list, b)
       IN IF rest = <<>> /\ ~dl[i].wild THEN [dl EXCEPT ![i] = NULL]
                                       ELSE [dl EXCEPT ![i].list = rest]

-----------------------------------------------------------------------------
\* get_block on a resident block: its LRU node moves to the front.
Hit(b) == /\ phase = "up" /\ Resident(b)
          /\ lru.size > 1
          /\ LET r == Unlink(lru, pci[b]) IN ~PushFaults(r) /\ lru' = Push(r, pci[b])
          /\ UNCHANGED <<phase, fault, disk, cache, pci, free, gdl, dl, job>>

\* Slips: the slot stays on the free list; the block is not put in the index.
Install_SlotKept(b, e) == LET s == Head(free) IN
                          /\ UNCHANGED free
                          /\ cache' = [cache EXCEPT ![s] = e]
                          /\ lru' = Push(lru, s)
                          /\ pci' = [pci EXCEPT ![b] = s]

Install_NotIndexed(b, e) == LET s == Head(free) IN
                            /\ free' = Tail(free)
                            /\ cache' = [cache EXCEPT ![s] = e]
                            /\ lru' = Push(lru, s)
                            /\ UNCHANGED pci

\* The free slot a miss takes, with entry e for block b.
Install(b, e) == LET s == Head(free) IN
                 /\ free' = Tail(free)
                 /\ cache' = [cache EXCEPT ![s] = e]
                 /\ ~PushFaults(lru)
                 /\ lru' = Push(lru, s)
                 /\ pci' = [pci EXCEPT ![b] = s]

\* get_block of inode i on a block that is not resident, with a free slot.
Miss(i, b) == /\ phase = "up" /\ ~Resident(b) /\ free # <<>>
              /\ Install(b, [dirty |-> FALSE, block |-> b, inum |-> i,
                             data |-> disk[b], gpos |-> FALSE])
              /\ UNCHANGED <<phase, fault, disk, gdl, dl, job>>

\* The slot the eviction takes.
Victim == lru.prev[lru.head]

\* get_block without a free slot.  The dirty victim reaches the disk; the
\* pop has cleared the head's prev link and the push at the end faults on it.
\* There is no other outcome: the pop leaves such a list of any sound one
\* with two nodes or more.
Evict(b) == /\ phase = "up" /\ ~Resident(b) /\ free = <<>>
            /\ disk' = IF cache[Victim].dirty THEN WrittenBack(Victim) ELSE disk
            /\ PushFaults(PopAtTailLink(lru))
            /\ Die("lru")

\* A slip: only data blocks are put on the global dirty list.
WriteHit_DataOnly(i, b, c) ==
  /\ phase = "up" /\ Resident(b) /\ Len(gdl) < MaxGdl
  /\ c \in DataContent => ~WalkFaults(i, b)
  /\ dl' \in IF c \in DataContent THEN Inserted(i, b) ELSE {dl}
  /\ cache' = [cache EXCEPT ![pci[b]].dirty = TRUE, ![pci[b]].data = c,
                            ![pci[b]].gpos = TRUE]
  /\ gdl' = IF c \in DataContent THEN <<pci[b]>> \o gdl ELSE gdl
  /\ UNCHANGED <<phase, fault, disk, pci, free, lru, job>>

\* A slip: the node goes to the end cache_sync takes first.
WriteHit_AtTail(i, b, c) ==
  /\ phase = "up" /\ Resident(b) /\ Len(gdl) < MaxGdl
  /\ c \in DataContent => ~WalkFaults(i, b)
  /\ dl' \in IF c \in DataContent THEN Inserted(i, b) ELSE {dl}
  /\ cache' = [cache EXCEPT ![pci[b]].dirty = TRUE, ![pci[b]].data = c,
                            ![pci[b]].gpos = TRUE]
  /\ gdl' = Append(gdl, pci[b])
  /\ UNCHANGED <<phase, fault, disk, pci, free, lru, job>>

\* write_block on a resident block, for inode i.  The callers' buffer may be
\* the page itself, changed in place before the call.
WriteHit(i, b, c) ==
  /\ phase = "up" /\ Resident(b) /\ Len(gdl) < MaxGdl
  /\ c \in DataContent => ~WalkFaults(i, b)
  /\ dl' \in IF c \in DataContent THEN Inserted(i, b) ELSE {dl}
  /\ cache' = [cache EXCEPT ![pci[b]].dirty = TRUE, ![pci[b]].data = c,
                            ![pci[b]].gpos = TRUE]
  /\ gdl' = <<pci[b]>> \o gdl
  /\ UNCHANGED <<phase, fault, disk, pci, free, lru, job>>

\* write_block on a block that is not resident: it is loaded first.
WriteMiss(i, b, c) ==
  /\ phase = "up" /\ ~Resident(b) /\ free # <<>> /\ Len(gdl) < MaxGdl
  /\ c \in DataContent => ~WalkFaults(i, b)
  /\ dl' \in IF c \in DataContent THEN Inserted(i, b) ELSE {dl}
  /\ Install(b, [dirty |-> TRUE, block |-> b, inum |-> i, data |-> c,
                 gpos |-> TRUE])
  /\ gdl' = <<Head(free)>> \o gdl
  /\ UNCHANGED <<phase, fault, disk, job>>

\* write_block of a data block whose list is walked past its wild end.
WriteFaults(i, b) == /\ phase = "up" /\ (Resident(b) \/ free # <<>>)
                     /\ WalkFaults(i, b)
                     /\ Die("dl")
                     /\ UNCHANGED disk

\* A caller changes the page get_block returned, with no write_block.
Poke(b, c) == /\ phase = "up" /\ Resident(b)
              /\ cache' = [cache EXCEPT ![pci[b]].data = c]
              /\ UNCHANGED <<phase, fault, disk, pci, free, lru, gdl, dl, job>>

-----------------------------------------------------------------------------
\* cache_fsync(i): part of the cache's interface that fuse.c does not call.
StartFsync(i) == /\ phase = "up" /\ dl[i] # NULL
                 /\ phase' = "fsync" /\ job' = i
                 /\ UNCHANGED <<fault, disk, cache, pci, free, lru, gdl, dl>>

FsyncStep ==
  /\ phase = "fsync" /\ dl[job].list # <<>>
  /\ LET s == pci[Head(dl[job].list)] IN
       /\ disk' = WrittenBack(s)
       /\ cache' = [cache EXCEPT ![s].dirty = FALSE, ![s].gpos = FALSE]
       /\ gdl' = IF cache[s].gpos THEN RemoveFirst(gdl, s) ELSE gdl
  /\ dl' = [dl EXCEPT ![job].list = Tail(@)]
  /\ UNCHANGED <<phase, fault, pci, free, lru, job>>

\* A slip: the deleted list's content is left in its place.
FsyncEnd_Dangling == /\ phase = "fsync" /\ dl[job].list = <<>>
                     /\ dl' = [dl EXCEPT ![job] = @.list]
                     /\ phase' = "up" /\ job' = NULL
                     /\ UNCHANGED <<fault, disk, cache, pci, free, lru, gdl>>

\* dl_delete, and the return.
FsyncEnd == /\ phase = "fsync" /\ dl[job].list = <<>>
            /\ dl' = [dl EXCEPT ![job] = NULL]
            /\ phase' = "up" /\ job' = NULL
            /\ UNCHANGED <<fault, disk, cache, pci, free, lru, gdl>>

\* nbtrfs_destroy: cache_sync writes back from the tail of the list, then
\* free_cache gives the memory up.
StartSync == /\ phase = "up"
             /\ phase' = "sync"
             /\ UNCHANGED <<fault, disk, mem>>

\* A slip: the node that was written back is not popped.
SyncStep_NotPopped ==
  /\ phase = "sync" /\ gdl # <<>>
  /\ LET s == Last(gdl) IN
       /\ disk' = WrittenBack(s)
       /\ cache' = [cache EXCEPT ![s].dirty = FALSE, ![s].gpos = FALSE]
  /\ UNCHANGED <<phase, fault, pci, free, lru, gdl, dl, job>>

SyncStep ==
  /\ phase = "sync" /\ gdl # <<>>
  /\ LET s == Last(gdl)
         data == cache[s].data \in DataContent
     IN /\ disk' = WrittenBack(s)
        /\ IF data /\ WalkFaults(cache[s].inum, cache[s].block)
           THEN Die("dl")
           ELSE /\ cache' = [cache EXCEPT ![s].dirty = FALSE, ![s].gpos = FALSE]
                /\ gdl' = Front(gdl)
                /\ dl' = IF data THEN Removed(cache[s].inum, cache[s].block)
                         ELSE dl
                /\ UNCHANGED <<phase, fault, pci, free, lru, job>>

\* A slip: the loop stops one node early.
SyncEnd_OneEarly == /\ phase = "sync" /\ Len(gdl) <= 1
                    /\ phase' = "down" /\ Forget
                    /\ UNCHANGED <<fault, disk>>

SyncEnd == /\ phase = "sync" /\ gdl = <<>>
           /\ phase' = "down" /\ Forget
           /\ UNCHANGED <<fault, disk>>

\* The process is killed between two steps.
Kill == /\ phase \in {"up", "fsync", "sync"}
        /\ Die("none")
        /\ UNCHANGED disk

\* The image is mounted again.
Remount == /\ phase \in {"down", "dead"}
           /\ phase' = "up" /\ fault' = "none"
           /\ UNCHANGED <<disk, mem>>

Next ==
  \/ \E b \in Block :
       \/ Hit(b) \/ Evict(b)
       \/ \E c \in Content : Poke(b, c)
       \/ \E i \in Inum : \/ Miss(i, b) \/ WriteFaults(i, b)
                          \/ \E c \in Content : WriteHit(i, b, c) \/ WriteMiss(i, b, c)
  \/ \E i \in Inum : StartFsync(i)
  \/ FsyncStep \/ FsyncEnd \/ StartSync \/ SyncStep \/ SyncEnd \/ Kill \/ Remount

\* The thread inside cache_fsync or cache_sync runs on until the call returns.
Spec == Init /\ [][Next]_vars /\ WF_vars(FsyncStep \/ FsyncEnd)
                              /\ WF_vars(SyncStep \/ SyncEnd)

-----------------------------------------------------------------------------
\* Type invariant; no index, list or entry is left with a dangling value when
\* a call returns (types.h:29-54).
TypeOK == /\ phase \in {"up", "fsync", "sync", "down", "dead"}
          /\ fault \in {"none", "lru", "dl"}
          /\ disk \in [Block -> Content]
          /\ cache \in [Slot -> [dirty : BOOLEAN, block : Block \cup {NULL},
                                 inum : Inum \cup {NULL},
                                 data : Content \cup {NULL}, gpos : BOOLEAN]]
          /\ pci \in [Block -> Slot \cup {NULL}]
          /\ free \in Seq(Slot)
          /\ lru \in RingType
          /\ gdl \in Seq(Slot)
          /\ dl \in [Inum -> {NULL} \cup [list : Seq(Block), wild : BOOLEAN]]
          /\ job \in Inum \cup {NULL}

\* Every slot is either on the free list, once, or on the LRU ring and then
\* the one slot its block is looked up to (cache.c:45-70 keep four structures
\* in step: entry, index, free list and LRU list).
SlotAccounting ==
  /\ RingOK(lru)
  /\ IsInjective(free)
  /\ ToSet(free) = Slot \ lru.live
  /\ \A s \in lru.live : cache[s].block \in Block /\ pci[cache[s].block] = s
  /\ \A b \in Block : Resident(b) => /\ pci[b] \in lru.live
                                     /\ cache[pci[b]].block = b

\* No dirty page is out of cache_sync's reach: its slot is on the global dirty
\* list, whatever write_block, cache_fsync and cache_sync did to the list, and
\* the list names no free slot (cache.c:112, 143, 162, 176).
DirtyQueued == /\ \A s \in Slot : cache[s].dirty => s \in ToSet(gdl)
               /\ \A s \in Slot : cache[s].gpos <=> cache[s].dirty
               /\ ToSet(gdl) \subseteq lru.live

\* Every block on a per-inode dirty list is resident: cache_fsync uses the
\* result of pci_lookup as an index without testing it (cache.c:131-134).
ListedResident == \A i \in Inum : dl[i] # NULL =>
                    \A b \in ToSet(dl[i].list) : Resident(b)

\* A block leaves an inode's dirty list only in a step that leaves the block
\* clean, and while the process lives, so that an fsync that is still to come
\* misses none (dl.c:84-183, cache.c:124-147).
ListKeepsDirty ==
  [][phase' \in {"up", "fsync", "sync"} =>
       \A i \in Inum, b \in Block :
         dl[i] # NULL /\ b \in ToSet(dl[i].list)
           => \/ dl'[i] # NULL /\ b \in ToSet(dl'[i].list)
              \/ ~cache'[pci[b]].dirty]_vars

View == [b \in Block |-> IF Resident(b) THEN cache[pci[b]].data ELSE disk[b]]

Owed == {cache[s].block : s \in {t \in Slot : cache[t].dirty}}

Stage == CASE phase = "fsync" -> "up"
           [] phase = "sync"  -> "closing"
           [] OTHER           -> phase

\* The cache implements the store: what is read is what was last put there,
\* nothing but a block's own content reaches the disk, and a completed unmount
\* leaves no written block behind (get_block to cache_sync, cache.c:16-182).
Store == INSTANCE DurableBlocks WITH phase <- Stage, view <- View, owed <- Owed

IsDurable == Store!Spec

\* The write-back loops end: a node or a list element goes in every turn
\* (cache.c:128, 156).
CallsReturn == /\ phase = "sync" ~> phase # "sync"
               /\ phase = "fsync" ~> phase # "fsync"
=============================================================================
