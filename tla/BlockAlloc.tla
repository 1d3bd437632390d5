----------------------------- MODULE BlockAlloc -----------------------------
(***************************************************************************)
(* The pages of an image: alloc_page and free_page (disk.c) over the bit   *)
(* operations of bitmap.c, the superblock's count of free blocks, and      *)
(* mkfs's disk_format, which lays the image out by allocating its own      *)
(* pages.  Every call runs to completion alone; disk_format is a sequence  *)
(* of steps because each of its allocations is a call of alloc_page.       *)
(***************************************************************************)
EXTENDS Integers, FiniteSets

CONSTANTS Total,          \* blocks of the image
          Usable,         \* bits used of one bitmap block, USABLE_BLOCK_SIZE
          InodesPerBlock, \* USABLE_BLOCK_SIZE / sizeof(Inode)
          Word            \* 2^64, where the free-block count wraps

ASSUME BlockAllocConstants ==
  /\ Total \in Nat \ {0} /\ Usable \in Nat \ {0}
  /\ InodesPerBlock \in Nat \ {0} /\ Word \in Nat \ {0}
  /\ Total < Word

Page == 0 .. Total - 1

CeilDiv(a, b) == IF a % b # 0 THEN (a \div b) + 1 ELSE a \div b

BlockBitmapSpace == CeilDiv(Total, Usable)
InodeBitmapSize == CeilDiv(Total, 4 * Usable)
InodeTableSize == (Total \div 4) \div InodesPerBlock

\* Superblock, block bitmap, inode bitmap and inode table: the pages below
\* this number belong to the layout.
Reserved == 1 + BlockBitmapSpace + InodeBitmapSize + InodeTableSize

\* The bitmap block and the bit of a page.
BitmapBlock(p) == 1 + p \div Usable
BitOf(p) == p - (BitmapBlock(p) - 1) * Usable

VARIABLES
  bm,      \* bm[k][i]: bit i of block k, a bitmap block
  nfree,   \* the superblock's free_blocks, on disk
  local,   \* free_blocks in disk_format's copy of the superblock
  stage,   \* "blank", "reserve", "seal", "ready" or "failed"
  todo,    \* pages disk_format still has to reserve
  owned,   \* pages handed out since the format: the tree root, nodes, files
  fresh    \* no bit was set when the last format began

vars == <<bm, nfree, local, stage, todo, owned, fresh>>

Used(p) == bm[BitmapBlock(p)][BitOf(p)]
InUse == {p \in Page : Used(p)}

bitmap_put(p, v) == [bm EXCEPT ![BitmapBlock(p)][BitOf(p)] = v]

\* A slip: the search starts at the second bit of every bitmap block.
FirstFree_SkipsZero(p) == /\ p \in Page /\ ~Used(p) /\ BitOf(p) # 0
                          /\ \A q \in 0 .. p - 1 : BitOf(q) # 0 => Used(q)

\* The page alloc_page finds: the first whose bit is clear.
FirstFree(p) == p \in Page /\ ~Used(p) /\ \A q \in 0 .. p - 1 : Used(q)
Full == \A p \in Page : Used(p)

\* A slip: a count of unbounded width.
Decrement_Wide(n) == n - 1

\* --sb.free_blocks on the copy read at the top of the call.
Decrement(n) == (n - 1) % Word

-----------------------------------------------------------------------------
\* An image of zeros.
Init == /\ bm = [k \in 1 .. BlockBitmapSpace |-> [i \in 0 .. Usable - 1 |-> FALSE]]
        /\ nfree = 0 /\ local = 0
        /\ stage = "blank" /\ todo = 0
        /\ owned = {} /\ fresh = TRUE

Take(p) == /\ FirstFree(p)
           /\ bm' = bitmap_put(p, TRUE)
           /\ nfree' = Decrement(nfree)

\* superblock_initialize and the copy disk_format reads back.  The bitmaps of
\* an image that was in use are not cleared.
StartFormat == /\ stage \in {"blank", "ready", "failed"}
               /\ stage' = "reserve"
               /\ nfree' = Total /\ local' = Total
               /\ todo' = Reserved
               /\ owned' = {}
               /\ fresh' = (InUse = {})
               /\ UNCHANGED bm

\* One alloc_page of the loop that reserves the layout's pages.
Reserve == /\ stage = "reserve" /\ todo > 0
           /\ \E p \in Page : Take(p)
           /\ todo' = todo - 1
           /\ UNCHANGED <<local, stage, owned, fresh>>

\* A later one finds no page ("return -1"); the first one's result is not
\* looked at.
ReserveFails == /\ stage = "reserve" /\ todo > 0 /\ Full
                /\ IF todo = Reserved THEN todo' = todo - 1 /\ UNCHANGED stage
                                      ELSE stage' = "failed" /\ UNCHANGED todo
                /\ UNCHANGED <<bm, nfree, local, owned, fresh>>

\* btree_node_create for the root of the tree.
MakeRoot == /\ stage = "reserve" /\ todo = 0
            /\ \E p \in Page : Take(p) /\ owned' = {p}
            /\ stage' = "seal"
            /\ UNCHANGED <<local, todo, fresh>>

\* It returns NULL on a full image and disk_format dereferences it.
RootFails == /\ stage = "reserve" /\ todo = 0 /\ Full
             /\ stage' = "failed"
             /\ UNCHANGED <<bm, nfree, local, todo, owned, fresh>>

\* superblock_write of the copy made before the allocations.
Seal == /\ stage = "seal"
        /\ nfree' = local
        /\ stage' = "ready"
        /\ UNCHANGED <<bm, local, todo, owned, fresh>>

\* On a full image alloc_page changes nothing and returns 0.
alloc_page(p) == /\ stage = "ready"
                 /\ Take(p)
                 /\ owned' = owned \cup {p}
                 /\ UNCHANGED <<local, stage, todo, fresh>>

\* A slip: the bit stays set.
free_page_BitKept(p) == /\ stage = "ready" /\ p \in owned
                        /\ nfree' = Decrement(nfree)
                        /\ owned' = owned \ {p}
                        /\ UNCHANGED <<bm, local, stage, todo, fresh>>

free_page(p) == /\ stage = "ready" /\ p \in owned
                /\ bm' = bitmap_put(p, FALSE)
                /\ nfree' = Decrement(nfree)
                /\ owned' = owned \ {p}
                /\ UNCHANGED <<local, stage, todo, fresh>>

Next == \/ StartFormat \/ Reserve \/ ReserveFails \/ MakeRoot \/ RootFails \/ Seal
        \/ \E p \in Page : alloc_page(p) \/ free_page(p)

Spec == Init /\ [][Next]_vars

-----------------------------------------------------------------------------
\* Type invariant; the counts of free blocks stay in their word, by wrapping
\* (disk.c:90, 123).
TypeOK == /\ bm \in [1 .. BlockBitmapSpace -> [0 .. Usable - 1 -> BOOLEAN]]
          /\ nfree \in 0 .. Word - 1 /\ local \in 0 .. Word - 1
          /\ stage \in {"blank", "reserve", "seal", "ready", "failed"}
          /\ todo \in 0 .. Reserved
          /\ owned \subseteq Page
          /\ fresh \in BOOLEAN

\* On a formatted image no page is in two hands: the layout's own pages and
\* every page handed out keep their bits, whatever was allocated, freed or
\* formatted before, so alloc_page can return none of them (disk.c:77-98,
\* 188-192).
PagesHeld == stage = "ready" => /\ 0 .. Reserved - 1 \subseteq InUse
                                /\ owned \subseteq InUse
                                /\ owned \cap 0 .. Reserved - 1 = {}

\* On an image that was blank when it was formatted no page is lost either:
\* a set bit belongs to the layout or to a page handed out (disk.c:117).
NoPageLost == stage = "ready" /\ fresh
                => InUse = 0 .. Reserved - 1 \cup owned
=============================================================================
