------------------------------- MODULE FileData -------------------------------
(***************************************************************************)
(* The contents of regular files: nbtrfs_read and nbtrfs_write (fuse.c)     *)
(* over the block pointers of an inode (inode_get_block, inode_set_block).  *)
(* A write allocates the pages it needs; the pages of the B-tree leaves     *)
(* come from the same allocator and go back to it when a name is removed.   *)
(* The blocks lie in the cache until the unmount brings those that were     *)
(* announced by write_block to the disk (DurableBlocks).  A kill before     *)
(* that loses the mount's work: it goes back to the state the mount began   *)
(* with, one the model has been in, so it is no action here.                *)
(*                                                                         *)
(* A page is a row of words.  In a data page a word is a cell of the file,  *)
(* in an indirect block it is the number of a page.                         *)
(***************************************************************************)
EXTENDS Integers, Sequences, FiniteSets, FiniteSetsExt

CONSTANTS File,
          Page,      \* pages alloc_page can return: not 0
          Usable,    \* words of a page, USABLE_BLOCK_SIZE
          Direct,    \* direct block pointers of an inode, 12
          MaxIndex,  \* the last page index inode_get_block knows, 511
          Value,     \* what is written, with the cell added: not 0, and no page number
          MaxWrite,  \* bound on the cells of one write
          MaxCell    \* bound on the offset of a cell

ASSUME FileDataConstants ==
  /\ Page \subseteq Nat \ {0} /\ Value \subseteq Nat \ {0}
  /\ Page \cap {v + c : v \in Value, c \in 0 .. MaxCell} = {}
  /\ Usable \in Nat \ {0} /\ Direct \in Nat \ {0}
  /\ MaxIndex \in Nat /\ MaxIndex >= Direct /\ MaxIndex - Direct < Usable
  /\ MaxWrite \in Nat \ {0} /\ MaxCell \in Nat

Word == 0 .. Usable - 1
Cell == 0 .. MaxCell

\* What a B-tree leaf has in its words beside its own number: hash, flags.
Junk == -1

\* Following such a word, or a cell of a file, as if it were a page number
\* ends the process or reads and writes what happens to lie there: the model
\* does not go on.
Wild(p) == p \notin Page \cup {0}

VARIABLES
  node,     \* the inodes: size and block pointers
  used,     \* the pages in use, as the block bitmap has it
  page,     \* the pages in the cache: type and words
  leaves,   \* the pages that are leaves of an index
  dirty,    \* the pages announced since the mount
  saved,    \* the pages as an unmount now would leave them on disk
  past,     \* some write has reached beyond the direct blocks
  stale,    \* the files whose indirect block began with a leaf's content
  written   \* file -> cell -> what write last reported written there

vars == <<node, used, page, leaves, dirty, saved, past, stale, written>>

Zeros == [type |-> "data", word |-> [w \in Word |-> 0]]

\* btree_node_create and btree_node_write: the leaf's own number comes first.
Leaf(p) == [type |-> "node", word |-> [w \in Word |-> IF w = 0 THEN p ELSE Junk]]

\* alloc_page returns the lowest free page.
Free(u) == Page \ u

Init == /\ node = [f \in File |-> [size |-> 0, direct |-> [i \in 0 .. Direct - 1 |-> 0],
                                   indirect |-> 0]]
        /\ used = {} /\ leaves = {}
        /\ page = [p \in Page |-> Zeros] /\ saved = page
        /\ dirty = {} /\ past = FALSE /\ stale = {}
        /\ written = [f \in File |-> [c \in Cell |-> 0]]

-----------------------------------------------------------------------------
\* inode_get_block: the page with index i of an inode, 0 if there is none, and
\* whether the call succeeds.  A missing direct block is a failure, a missing
\* entry of the indirect block is not.
inode_get_block(nd, pg, i) ==
  CASE i < Direct -> [ok |-> nd.direct[i] # 0, block |-> nd.direct[i]]
    [] /\ i \in Direct .. MaxIndex /\ nd.indirect # 0
       /\ pg[nd.indirect].type = "data" ->
         [ok |-> TRUE, block |-> pg[nd.indirect].word[i - Direct]]
    [] OTHER -> [ok |-> FALSE, block |-> 0]

\* A slip: the direct blocks are one fewer.
inode_set_block_OneFewer(st, i, p) ==
  IF i < Direct - 1 THEN [st EXCEPT !.node.direct[i] = p] ELSE st

\* inode_set_block.  An indirect block is allocated with its first entry, is
\* not cleared, and is not announced; later entries are not stored.
inode_set_block(st, i, p) ==
  CASE i < Direct -> [st EXCEPT !.node.direct[i] = p]
    [] i \in Direct .. MaxIndex /\ st.node.indirect = 0 /\ Free(st.used) # {} ->
         LET q == Min(Free(st.used)) IN
         [st EXCEPT !.node.indirect = q, !.used = @ \cup {q},
                    !.page[q] = [type |-> "data", word |-> [@.word EXCEPT ![i - Direct] = p]]]
    [] OTHER -> st

\* A slip: the page is not cleared.
NewPage_NotCleared(st, i) ==
  LET p == Min(Free(st.used)) IN
  inode_set_block([st EXCEPT !.used = @ \cup {p}, !.page[p].type = "data",
                             !.target = p], i, p)

\* A slip: the page is not marked.
NewPage_NotMarked(st, i) ==
  LET p == Min(Free(st.used)) IN
  inode_set_block([st EXCEPT !.page[p] = Zeros, !.target = p], i, p)

\* A page for index i, cleared.
NewPage(st, i) ==
  LET p == Min(Free(st.used)) IN
  inode_set_block([st EXCEPT !.used = @ \cup {p}, !.page[p] = Zeros,
                             !.target = p], i, p)

\* write_block: what is announced reaches the disk as the unmount finds it.
Announced == saved' = [p \in Page |-> IF p \in dirty' THEN page'[p] ELSE saved[p]]

\* The cells from lo on, up to hi, that lie on page i.
OnPage(i, lo, hi) == {c \in lo .. hi : c \div Usable = i}

\* A slip: every page is written from its start.
Filled_FromStart(st, i, cs, v) ==
  [st EXCEPT !.page[st.target].word =
               [w \in Word |-> IF w < Cardinality(cs) THEN v + Min(cs) + w ELSE @[w]]]

\* What one write puts in its cells differs from cell to cell.
Filled(st, i, cs, v) ==
  [st EXCEPT !.page[st.target].word =
               [w \in Word |-> LET c == i * Usable + w IN IF c \in cs THEN v + c ELSE @[w]]]

\* One turn of nbtrfs_write's loop, for page index i.  Without a page the loop
\* is left for good.
WriteTurn(st, i, lo, hi, v) ==
  LET got == inode_get_block(st.node, st.page, i).block
      cs == OnPage(i, lo, hi)
      to == IF got # 0 THEN [st EXCEPT !.target = got] ELSE NewPage(st, i)
  IN CASE ~st.going \/ Wild(got) -> [st EXCEPT !.going = FALSE, !.wild = @ \/ Wild(got)]
       [] st.going /\ got = 0 /\ Free(st.used) = {} -> [st EXCEPT !.going = FALSE]
       [] OTHER -> [Filled(to, i, cs, v) EXCEPT !.done = @ \cup cs,
                                             !.dirty = @ \cup {to.target}]

\* Where the loop of nbtrfs_write begins for file f.
WriteStart(f) == [node |-> node[f], used |-> used, page |-> page, dirty |-> dirty,
                  target |-> 0, done |-> {}, going |-> TRUE, wild |-> FALSE]

\* The pages the cells lo .. hi lie on, less one.
LastTurn(lo, hi) == (hi \div Usable) - (lo \div Usable)

\* The loop of nbtrfs_write for file f and the cells lo .. hi.
WriteLoop(f, lo, hi, v) ==
  LET after[k \in 0 .. LastTurn(lo, hi) + 1] ==
        IF k = 0 THEN WriteStart(f)
        ELSE WriteTurn(after[k - 1], (lo \div Usable) + k - 1, lo, hi, v)
  IN after[LastTurn(lo, hi) + 1]

Sized(nd, hi) == IF hi >= nd.size THEN [nd EXCEPT !.size = hi + 1] ELSE nd

\* nbtrfs_write.  If the loop is left early the size stays as it was.  A write
\* through a wild word ends the process.
nbtrfs_write(f, lo, hi, v) ==
  LET st == WriteLoop(f, lo, hi, v)
  IN /\ ~st.wild
     /\ node' = [node EXCEPT ![f] = IF st.going THEN Sized(st.node, hi) ELSE st.node]
     /\ used' = st.used /\ page' = st.page /\ dirty' = st.dirty
     /\ past' = (past \/ hi \div Usable >= Direct)
     /\ stale' = IF st.node.indirect # node[f].indirect /\ page[st.node.indirect] # Zeros
                 THEN stale \cup {f} ELSE stale
     /\ written' = [written EXCEPT ![f] = [c \in Cell |-> IF c \in st.done THEN v + c
                                                          ELSE @[c]]]
     /\ Announced
     /\ UNCHANGED leaves

\* A name is inserted in a directory: a leaf, announced.
NewLeaf == /\ Free(used) # {}
           /\ LET p == Min(Free(used)) IN
                /\ used' = used \cup {p} /\ leaves' = leaves \cup {p}
                /\ page' = [page EXCEPT ![p] = Leaf(p)]
                /\ dirty' = dirty \cup {p}
           /\ Announced
           /\ UNCHANGED <<node, past, stale, written>>

\* A slip: the page goes back to the allocator and stays a leaf.
FreeLeaf_StaysLeaf(p) == /\ p \in leaves
                         /\ used' = used \ {p}
                         /\ UNCHANGED <<node, page, leaves, dirty, saved, past, stale, written>>

\* A name is removed: btree_delete frees the leaf's page as it is.
FreeLeaf(p) == /\ p \in leaves
               /\ used' = used \ {p} /\ leaves' = leaves \ {p}
               /\ UNCHANGED <<node, page, dirty, saved, past, stale, written>>

\* nbtrfs_destroy and the next mount.  Inodes and bitmap are always announced.
Remount == /\ page' = saved /\ dirty' = {}
           /\ UNCHANGED <<node, used, leaves, saved, past, stale, written>>

Next == \/ \E f \in File, lo \in Cell, n \in 1 .. MaxWrite, v \in Value :
             lo + n - 1 \in Cell /\ nbtrfs_write(f, lo, lo + n - 1, v)
        \/ NewLeaf \/ \E p \in leaves : FreeLeaf(p)
        \/ Remount

Spec == Init /\ [][Next]_vars

-----------------------------------------------------------------------------
NothingRead == [rv |-> 0, data |-> <<>>, going |-> TRUE]

\* One turn of nbtrfs_read's loop: a failing inode_get_block fails the call, a
\* missing page ends it.
ReadTurn(out, i, f, lo, hi) ==
  LET got == inode_get_block(node[f], page, i)
      cs == OnPage(i, lo, hi)
  IN CASE ~out.going -> out
       [] out.going /\ (~got.ok \/ Wild(got.block)) ->
            [out EXCEPT !.going = FALSE, !.rv = -1]
       [] out.going /\ got.ok /\ got.block = 0 -> [out EXCEPT !.going = FALSE]
       [] OTHER -> [out EXCEPT !.rv = @ + Cardinality(cs),
                      !.data = @ \o [k \in 1 .. Cardinality(cs) |->
                                       page[got.block].word[(Min(cs) + k - 1) % Usable]]]

\* The loop of nbtrfs_read for the cells lo .. hi of file f.
ReadLoop(f, lo, hi) ==
  LET after[k \in 0 .. LastTurn(lo, hi) + 1] ==
        IF k = 0 THEN NothingRead
        ELSE ReadTurn(after[k - 1], (lo \div Usable) + k - 1, f, lo, hi)
  IN after[LastTurn(lo, hi) + 1]

\* A slip: the last cell of the file counts as beyond it.
nbtrfs_read_OneShort(f, lo, n) ==
  LET hi == Min({lo + n, node[f].size - 1}) - 1
  IN IF lo > hi THEN NothingRead ELSE ReadLoop(f, lo, hi)

\* nbtrfs_read of n cells from lo: the count or -1, and the cells.
nbtrfs_read(f, lo, n) ==
  LET hi == Min({lo + n, node[f].size}) - 1
  IN IF lo > hi THEN NothingRead ELSE ReadLoop(f, lo, hi)

\* The pages file f reaches.
Reached(f) == Page \cap {inode_get_block(node[f], page, i).block : i \in 0 .. MaxIndex}
Owned(f) == Reached(f) \cup ({node[f].indirect} \ {0})

Content == {0} \cup {v + c : v \in Value, c \in Cell}
PageType == [type : {"data", "node"}, word : [Word -> {Junk} \cup Content \cup Page]]
NodeType == [size : 0 .. MaxCell + 1, direct : [0 .. Direct - 1 -> {0} \cup Page],
             indirect : {0} \cup Page]

\* Type invariant.
TypeOK == /\ node \in [File -> NodeType]
          /\ page \in [Page -> PageType] /\ saved \in [Page -> PageType]
          /\ leaves \subseteq used /\ used \subseteq Page /\ dirty \subseteq Page
          /\ written \in [File -> [Cell -> Content]]
          /\ past \in BOOLEAN /\ stale \subseteq File

\* A read that succeeds never lies: what it returns is what was last written
\* there, zero where nothing was, through page boundaries, sparse and short
\* writes, recycled pages and unmounts (fuse.c:293-330, 363-408).
ReadNeverLies ==
  \A f \in File \ stale, lo \in Cell, n \in 1 .. MaxWrite :
    LET r == nbtrfs_read(f, lo, n) IN
    r.rv > 0 => \A k \in 1 .. r.rv : r.data[k] = written[f][lo + k - 1]

\* A file without holes that fits the direct blocks is read back in full, also
\* after an unmount (fuse.c:261-339, inode.c:148-155).
DirectReadsBack ==
  \A f \in File, lo \in Cell, n \in 1 .. MaxWrite :
    (/\ lo + n <= node[f].size /\ node[f].size <= Direct * Usable
     /\ \A c \in 0 .. node[f].size - 1 : written[f][c] # 0)
      => nbtrfs_read(f, lo, n).rv = n

\* No page has two owners: a page a file reaches, as data or as its indirect
\* block, is in use and is no other file's, no other index's of the same file
\* and no leaf of an index (inode.c:148-200, fuse.c:373-385).
PagesApart ==
  /\ \A f \in File : /\ Owned(f) \subseteq used \ leaves
                     /\ \A g \in File \ {f} : Owned(f) \cap Owned(g) = {}
                     /\ f \notin stale => node[f].indirect \notin Reached(f)
  /\ \A f \in File, i, j \in 0 .. MaxIndex :
       LET p == inode_get_block(node[f], page, i).block IN
       i # j /\ p \in Page => p # inode_get_block(node[f], page, j).block

\* As long as no write has gone beyond the direct blocks no page is lost, not
\* even by writes cut short by a full disk (fuse.c:373-385).
NoPageLeaks == ~past => used = leaves \cup UNION {Owned(f) : f \in File}
=============================================================================
