------------------------------ MODULE InodeTable ------------------------------
(***************************************************************************)
(* The inodes of an image (inode.c): a bit per inode number in the inode    *)
(* bitmap, a slot per inode in the blocks of the inode table, both changed  *)
(* in the cache and brought to the disk by the unmount.  There are more     *)
(* bits than slots.  The cache is the one BlockCache describes: a change    *)
(* that was not announced by write_block may be lost, the unmount writes    *)
(* the announced blocks in the order of their first announcement            *)
(* (SyncOrder), and a kill can come after any of them.                      *)
(***************************************************************************)
EXTENDS Integers, Sequences, SequencesExt

CONSTANTS Total,     \* blocks of the image
          Usable,    \* bits used of one bitmap block, USABLE_BLOCK_SIZE
          PerBlock,  \* USABLE_BLOCK_SIZE / sizeof(Inode)
          MaxRefs    \* bound on the references to one inode

CeilDiv(a, b) == IF a % b # 0 THEN (a \div b) + 1 ELSE a \div b

BitmapStart == 1 + CeilDiv(Total, Usable)
BitmapSize == CeilDiv(Total, 4 * Usable)
TableStart == BitmapStart + BitmapSize
TableSize == (Total \div 4) \div PerBlock

\* Every number with a bit lies on a block of the image: true of the images
\* of the makefiles (2 MB) and of all larger ones.
ASSUME InodeConstants ==
  /\ Total \in Nat \ {0} /\ Usable \in Nat \ {0} /\ PerBlock \in Nat \ {0}
  /\ MaxRefs \in Nat \ {0}
  /\ TableSize > 0
  /\ TableStart + (BitmapSize * Usable) \div PerBlock < Total

BitmapBlocks == BitmapStart .. TableStart - 1
TableBlocks == TableStart .. TableStart + TableSize - 1

Number == 0 .. BitmapSize * Usable - 1   \* the numbers that have a bit

\* The bitmap block and the bit of a number, as inode_allocate counts them.
BitmapBlock(n) == BitmapStart + n \div Usable
BitOf(n) == n - (BitmapBlock(n) - BitmapStart) * Usable

\* The bit as inode_free counts it: the first bitmap block is not block 1.
FreeBit(n) == n - (BitmapBlock(n) - 1) * Usable

\* Where a number's slot lies, if that block belongs to the table.
TableBlock(n) == TableStart + n \div PerBlock
HasSlot(n) == TableBlock(n) \in TableBlocks
Slots == {n \in Number : HasSlot(n)}

VARIABLES
  bm,     \* bm[b][i]: bit i of bitmap block b, in the cache
  slot,   \* the table, in the cache: references, and whether size or block
          \*   pointers are set
  disk,   \* both of them on disk
  queue,  \* the blocks announced to the cache since the mount, oldest first
  torn    \* a kill has left some announced blocks on disk and others not

vars == <<bm, slot, disk, queue, torn>>

Inode == [refs : 0 .. MaxRefs, data : BOOLEAN]
Blank == [refs |-> 0, data |-> FALSE]

Taken(n) == bm[BitmapBlock(n)][BitOf(n)]
InUse == {n \in Slots : slot[n].refs > 0}

\* write_block of block b, for the order of the write-back.
Announced(q, b) == IF b \in ToSet(q) THEN q ELSE Append(q, b)

-----------------------------------------------------------------------------
\* disk_format has allocated number 0 for the root directory.
Init == /\ bm = [b \in BitmapBlocks |-> [i \in 0 .. Usable - 1 |->
                   b = BitmapStart /\ i = 0]]
        /\ slot = [n \in Slots |-> IF n = 0 THEN [Blank EXCEPT !.refs = 1] ELSE Blank]
        /\ disk = [bm |-> bm, slot |-> slot]
        /\ queue = <<>>
        /\ torn = FALSE

\* A slip: the search starts at the second bit of every block.
FirstClear_SkipsZero(n) ==
  /\ n \in Number /\ ~Taken(n) /\ BitOf(n) # 0
  /\ \A m \in 0 .. n - 1 : BitOf(m) # 0 => Taken(m)

\* The number inode_allocate settles on: the first one with a clear bit.
FirstClear(n) == n \in Number /\ ~Taken(n) /\ \A m \in 0 .. n - 1 : Taken(m)

\* Its bit is set in place, before anything can fail.
Marked(n) == [bm EXCEPT ![BitmapBlock(n)][BitOf(n)] = TRUE]

\* The slot is read, and all but the size and the blocks is set.
Given(n) == [slot EXCEPT ![n].refs = 1]

\* A slip: the bitmap block is not announced.
inode_allocate_NotAnnounced(n) ==
  /\ FirstClear(n) /\ HasSlot(n)
  /\ bm' = Marked(n)
  /\ slot' = Given(n)
  /\ queue' = Announced(queue, TableBlock(n))
  /\ UNCHANGED <<disk, torn>>

\* A slip: what inode_read returns is not looked at.
inode_allocate_NotRead(n) ==
  /\ FirstClear(n)
  /\ bm' = Marked(n)
  /\ slot' = Given(n)
  /\ queue' = Announced(Announced(queue, TableBlock(n)), BitmapBlock(n))
  /\ UNCHANGED <<disk, torn>>

inode_allocate(n) ==
  /\ FirstClear(n) /\ HasSlot(n)
  /\ bm' = Marked(n)
  /\ slot' = Given(n)
  /\ queue' = Announced(Announced(queue, TableBlock(n)), BitmapBlock(n))
  /\ UNCHANGED <<disk, torn>>

\* A number past the table: inode_read finds no inode block and the call
\* returns -1 with the bit set and not announced.
AllocateFails(n) == /\ FirstClear(n) /\ ~HasSlot(n)
                    /\ bm' = Marked(n)
                    /\ UNCHANGED <<slot, disk, queue, torn>>

\* What a caller has made of inode n when it writes it back: a file's size or
\* block pointers are set, or, in nbtrfs_link, there is one more reference (to
\* any but the root directory, which cannot be linked or renamed).  No call
\* takes one away.
Updated(n) == {[slot[n] EXCEPT !.data = TRUE]}
              \cup IF n = 0 THEN {} ELSE {[slot[n] EXCEPT !.refs = @ + 1]}

\* A slip: the table block is not announced.
inode_write_NotAnnounced(n, node) ==
  /\ n \in InUse /\ node \in Updated(n) \cap Inode
  /\ slot' = [slot EXCEPT ![n] = node]
  /\ UNCHANGED <<bm, disk, queue, torn>>

inode_write(n, node) ==
  /\ n \in InUse /\ node \in Updated(n) \cap Inode
  /\ slot' = [slot EXCEPT ![n] = node]
  /\ queue' = Announced(queue, TableBlock(n))
  /\ UNCHANGED <<bm, disk, torn>>

Erased(n) == [slot EXCEPT ![n] = Blank]

\* The callers free an inode when a name of it goes and its count is 1.  The
\* bit inode_free clears lies before the bitmap's page, whose own bits stay as
\* they are; what is changed there instead is not part of the model.
inode_free(n) ==
  /\ n \in InUse \ {0} /\ slot[n].refs = 1
  /\ bm' = IF FreeBit(n) \in 0 .. Usable - 1
           THEN [bm EXCEPT ![BitmapBlock(n)][FreeBit(n)] = FALSE]
           ELSE bm
  /\ slot' = Erased(n)
  /\ queue' = Announced(Announced(queue, TableBlock(n)), BitmapBlock(n))
  /\ UNCHANGED <<disk, torn>>

-----------------------------------------------------------------------------
\* The disk once the blocks of B have been written back.
Flushed(B) ==
  [bm |-> [b \in BitmapBlocks |-> IF b \in B THEN bm[b] ELSE disk.bm[b]],
   slot |-> [n \in Slots |-> IF TableBlock(n) \in B THEN slot[n] ELSE disk.slot[n]]]

\* The process ends with the blocks of B on disk; the next mount reads them.
Restart(B) == /\ disk' = Flushed(B)
              /\ bm' = disk'.bm /\ slot' = disk'.slot
              /\ queue' = <<>>

\* cache_sync and a new mount.
Unmount == Restart(ToSet(queue)) /\ UNCHANGED torn

\* The process dies after k blocks of the write-back, before it (k = 0), or
\* in an eviction, which writes one block back first.  A bound: a part of a
\* write-back is lost once.
Kill == \E B \in {ToSet(SubSeq(queue, 1, k)) : k \in 0 .. Len(queue)}
                  \cup {{b} : b \in ToSet(queue)} :
          /\ torn => B \in {{}, ToSet(queue)}
          /\ Restart(B)
          /\ torn' = (torn \/ B \notin {{}, ToSet(queue)})

Next == \/ \E n \in Number : \/ inode_allocate(n) \/ AllocateFails(n)
                             \/ \E node \in Inode : inode_write(n, node)
                             \/ inode_free(n)
        \/ Unmount \/ Kill

Spec == Init /\ [][Next]_vars

-----------------------------------------------------------------------------
BitmapType == [BitmapBlocks -> [0 .. Usable - 1 -> BOOLEAN]]
TableType == [Slots -> Inode]

\* Type invariant; no block is announced that is not of the bitmap or the
\* table, although there are bits past the table (inode.c:79-88).
TypeOK == /\ bm \in BitmapType
          /\ slot \in TableType
          /\ disk \in [bm : BitmapType, slot : TableType]
          /\ queue \in Seq(BitmapBlocks \cup TableBlocks)
          /\ torn \in BOOLEAN

\* A number that inode_allocate can hand out names an unused, zeroed slot: no
\* inode is in two hands, and no file begins with the size or the blocks of
\* another, whatever was allocated, freed, unmounted, or killed without a
\* part of the write-back (inode.c:72-98, 115-141).
FreshIsZero == ~torn => \A n \in Slots : ~Taken(n) => slot[n] = Blank

\* inode.c:122 says of the bit that inode_free puts to 0: "Mark block as free".
\* An inode that has been erased can be handed out again.
FreedIsFree == ~torn => \A n \in Slots : slot[n] = Blank => ~Taken(n)

\* inode_allocate fails only when every number that has a slot is spent, even
\* though it also spends numbers that have none (inode.c:72-88).
FailsOnlyWhenSpent ==
  [][(\E n \in Number : AllocateFails(n)) => \A n \in Slots : Taken(n)]_vars

\* A clean unmount loses nothing of the table and no number that has a slot:
\* every change of either was announced (inode.c:53, 98, 135-137).
UnmountKeeps ==
  [][Unmount => slot' = slot /\ \A n \in Slots : Taken(n)' = Taken(n)]_vars
=============================================================================
