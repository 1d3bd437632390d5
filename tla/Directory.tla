------------------------------ MODULE Directory ------------------------------
(***************************************************************************)
(* Names: the directories of an image, in the two forms directory.c keeps  *)
(* them in, and the file-system calls of fuse.c that change them.  The      *)
(* blocks of a directory's inode hold its entries and are what readdir     *)
(* lists; a B-tree per directory maps the hash of a name to an inode, or to *)
(* the tree of a directory, and is what item_search descends.  Link counts *)
(* decide when a removal frees the inode.                                   *)
(*                                                                         *)
(* From the other modules: inode numbers are handed out in order and never *)
(* again (InodeTable), a tree of at most MAX_KEYS names finds exactly what  *)
(* was inserted, the newest of two leaves of one name first, and deletes   *)
(* the one it finds (BTree).  Hashes of different names differ, and no name *)
(* is another one's tail, which is what a second block that is read two     *)
(* bytes off shows of its names.  Kernel and libfuse look names up before   *)
(* they call (the guards).                                                  *)
(***************************************************************************)
EXTENDS Integers, Sequences, SequencesExt, FiniteSets, FiniteSetsExt

CONSTANTS Name,
          Path,        \* the paths in use: not empty, closed under Front
          LastInode,   \* the last inode number
          PerBlock,    \* entries of a directory block: 15
          StaleCount,  \* what a page may hold where entry_count comes to lie
          MaxRefs      \* bound on the references of an inode

ASSUME DirectoryConstants ==
  /\ \A p \in Path : /\ p \in Seq(Name) /\ p # <<>>
                     /\ Len(p) > 1 => Front(p) \in Path
  /\ <<>> \notin Name
  /\ LastInode \in Nat /\ PerBlock \in Nat \ {0} /\ MaxRefs \in Nat \ {0}
  /\ StaleCount \subseteq Nat /\ StaleCount # {}

VARIABLES
  inode,    \* inode number -> kind, reference count and, of a directory, the
            \*   entries in its blocks and the entry_count of the first
  tree,     \* the B-trees: inode number in the root, leaves of each name
  given,    \* the last inode number handed out
  overlap,  \* what this build's snprintf does with its own target as argument
  did       \* the kinds of calls made that give a file another name

vars == <<inode, tree, given, overlap, did>>

Blank == [kind |-> "none", refs |-> 0, slot |-> <<>>, count |-> 0]
Unused == [name |-> <<>>, inum |-> 0, active |-> FALSE]
NewTree(i) == [inum |-> i, leaf |-> [n \in Name |-> <<>>]]

Fs == [inode |-> inode, tree |-> tree]

Init == /\ inode = [i \in 0 .. LastInode |->
                      IF i = 0 THEN [Blank EXCEPT !.kind = "dir", !.refs = 1] ELSE Blank]
        /\ tree = <<NewTree(0)>>
        /\ given = 0
        /\ overlap \in BOOLEAN
        /\ did = {}

-----------------------------------------------------------------------------
\* A path is the sequence of its components.
parent_path(p) == Front(p)
get_name(p) == Last(p)

NotFound == [inum |-> 0, tree |-> 0]

\* One component: the tree of a directory, or the inode of a file.
Descend(fs, at, n) ==
  LET leaves == IF at.tree = 0 THEN <<>> ELSE fs.tree[at.tree].leaf[n]
      val == Head(leaves).val
  IN CASE leaves = <<>> -> NotFound
       [] leaves # <<>> /\ Head(leaves).kind = "dir" ->
            [inum |-> fs.tree[val].inum, tree |-> val]
       [] OTHER -> [inum |-> val, tree |-> 0]

\* On the leaf of a file btree_search finds that leaf again by the file's name.
OnFile(at) == at.tree = 0 /\ at # NotFound

\* item_search.  The path walked so far is put together by an snprintf whose
\* target is one of its arguments: where that loses the first components, no
\* path of two or more compares equal.
item_search(fs, p) ==
  LET at[k \in 0 .. Len(p)] ==
        IF k = 0 THEN [inum |-> 0, tree |-> 1]
        ELSE IF k > 1 /\ OnFile(at[k - 1]) /\ p[k] = p[k - 1] THEN at[k - 1]
        ELSE Descend(fs, at[k - 1], p[k])
  IN IF Len(p) > 1 /\ ~overlap THEN NotFound ELSE at[Len(p)]

\* nbtrfs_getattr's mode, and what the kernel finds by nbtrfs_access and
\* nbtrfs_getattr: it asks only for names in a directory.
Mode(p) == inode[item_search(Fs, p).inum].kind
Found(p) == /\ item_search(Fs, p) # NotFound
            /\ p # <<>> => Mode(parent_path(p)) = "dir"

\* What the kernel has looked up before it calls.
IsDir(p) == Found(p) /\ Mode(p) = "dir"
IsFile(p) == Found(p) /\ Mode(p) = "file"

-----------------------------------------------------------------------------
\* Where directory_add_entry puts an entry: the first slot that is inactive, or
\* has as many active ones before it as the directory has entries; else the
\* first slot of a new block.
Spot(dir) ==
  LET s == dir.slot
      before(j) == Cardinality({k \in 1 .. j - 1 : s[k].active})
  IN Min({j \in 1 .. Len(s) : ~s[j].active \/ before(j) = dir.count} \cup {Len(s) + 1})

\* The directory with room at its spot.  A new first block is not cleared.
Grown(dir, stale) ==
  IF Spot(dir) <= Len(dir.slot) THEN dir
  ELSE [dir EXCEPT !.slot = @ \o [k \in 1 .. PerBlock |-> Unused],
                   !.count = IF dir.slot = <<>> THEN stale ELSE @]

\* A slip: the new root begins as a copy of the tree before it.
Indexed_NotCleared(tr, d, n, target, kind) ==
  LET root == [tr[Len(tr)] EXCEPT !.inum = target]
      new == IF kind = "dir" THEN Append(tr, root) ELSE tr
      val == IF kind = "dir" THEN Len(new) ELSE target
  IN [new EXCEPT ![d.tree].leaf[n] = <<[kind |-> kind, val |-> val]>> \o @]

\* The index of directory d with name n: a directory gets a tree of its own,
\* always a new one.
Indexed(tr, d, n, target, kind) ==
  LET new == IF kind = "dir" THEN Append(tr, NewTree(target)) ELSE tr
      val == IF kind = "dir" THEN Len(new) ELSE target
  IN [new EXCEPT ![d.tree].leaf[n] = <<[kind |-> kind, val |-> val]>> \o @]

\* A slip: the index is left alone.
directory_add_entry_NotIndexed(fs, p, target, kind, stale) ==
  LET d == item_search(fs, parent_path(p))
      dir == fs.inode[d.inum]
      entry == [name |-> get_name(p), inum |-> target, active |-> TRUE]
  IN [fs EXCEPT !.inode[d.inum] = [Grown(dir, stale) EXCEPT !.slot[Spot(dir)] = entry,
                                                            !.count = @ + 1]]

\* directory_add_entry of the name of p in the directory p lies in.
directory_add_entry(fs, p, target, kind, stale) ==
  LET d == item_search(fs, parent_path(p))
      dir == fs.inode[d.inum]
      entry == [name |-> get_name(p), inum |-> target, active |-> TRUE]
  IN [inode |-> [fs.inode EXCEPT ![d.inum] =
                   [Grown(dir, stale) EXCEPT !.slot[Spot(dir)] = entry, !.count = @ + 1]],
      tree |-> Indexed(fs.tree, d, get_name(p), target, kind)]

\* btree_delete: the newest leaf of a name goes.
WithoutNewest(leaves) == IF leaves = <<>> THEN leaves ELSE Tail(leaves)

\* A slip: the leaf of the name stays.
Dropped_LeafStays(fs, d, j) ==
  LET e == fs.inode[d.inum].slot[j]
      off == [fs.inode EXCEPT ![d.inum].slot[j].active = FALSE]
  IN IF fs.inode[e.inum].refs = 1
     THEN [inode |-> [off EXCEPT ![e.inum] = Blank], tree |-> fs.tree]
     ELSE [inode |-> off, tree |-> fs.tree]

\* A slip: the freed inode keeps its mode.
Dropped_KeepsMode(fs, d, j) ==
  LET e == fs.inode[d.inum].slot[j]
      off == [fs.inode EXCEPT ![d.inum].slot[j].active = FALSE]
  IN IF fs.inode[e.inum].refs = 1
     THEN [inode |-> [off EXCEPT ![e.inum].refs = 0],
           tree |-> [fs.tree EXCEPT ![d.tree].leaf[e.name] = WithoutNewest(@)]]
     ELSE [inode |-> off, tree |-> fs.tree]

\* Entry j of directory d goes: it is marked, and if its inode has no other
\* reference the inode and the newest leaf of the name go too.
Dropped(fs, d, j) ==
  LET e == fs.inode[d.inum].slot[j]
      off == [fs.inode EXCEPT ![d.inum].slot[j].active = FALSE]
  IN IF fs.inode[e.inum].refs = 1
     THEN [inode |-> [off EXCEPT ![e.inum] = Blank],
           tree |-> [fs.tree EXCEPT ![d.tree].leaf[e.name] = WithoutNewest(@)]]
     ELSE [inode |-> off, tree |-> fs.tree]

\* The first slot with name n in block b, active or not; 0 if there is none.
InBlock(dir, n, b) ==
  LET at == {j \in 1 .. Len(dir.slot) : (j - 1) \div PerBlock = b /\ dir.slot[j].name = n}
  IN IF at = {} THEN 0 ELSE Min(at)

\* directory_remove_entry.  The break leaves the inner loop only, so the second
\* block is searched too, unless the slots passed in the first are none (it is
\* then read as a first block, two bytes off) or as many as the count.  The
\* count is stored back as it was.
directory_remove_entry(fs, p) ==
  LET d == item_search(fs, parent_path(p))
      dir == fs.inode[d.inum]
      here == InBlock(dir, get_name(p), 0)
      next == InBlock(dir, get_name(p), 1)
      passed == IF here = 0 THEN PerBlock ELSE here - 1
      one == IF here = 0 THEN fs ELSE Dropped(fs, d, here)
  IN CASE dir.slot = <<>> \/ dir.count = 0 -> fs
       [] dir.count # 0 /\ next # 0 /\ passed \notin {0, dir.count} -> Dropped(one, d, next)
       [] OTHER -> one

-----------------------------------------------------------------------------
SetFs(fs) == inode' = fs.inode /\ tree' = fs.tree

\* The model follows directories of up to two blocks.
HasRoom(p) == LET dir == inode[item_search(Fs, parent_path(p)).inum]
              IN Spot(dir) <= 2 * PerBlock

\* inode_allocate in nbtrfs_mknod.  Without a number the call fails and changes
\* nothing.
Allocated(k) == [Fs EXCEPT !.inode[given + 1] = [Blank EXCEPT !.kind = k, !.refs = 1]]

\* The kernel calls mknod, create and mkdir for a name that is not found, in a
\* directory that is.
MayMake(p) == ~Found(p) /\ IsDir(parent_path(p)) /\ given < LastInode

\* nbtrfs_mknod, nbtrfs_create, nbtrfs_mkdir.
mknod(p, k) ==
  /\ MayMake(p) /\ HasRoom(p)
  /\ \E stale \in StaleCount :
       SetFs(directory_add_entry(Allocated(k), p, given + 1, k, stale))
  /\ given' = given + 1
  /\ UNCHANGED <<overlap, did>>

\* The entry needs a block and there is no page: the inode stays allocated.
mknodFails(p, k) ==
  /\ MayMake(p)
  /\ LET dir == inode[item_search(Fs, parent_path(p)).inum] IN Spot(dir) > Len(dir.slot)
  /\ SetFs(Allocated(k))
  /\ given' = given + 1
  /\ UNCHANGED <<overlap, did>>

\* nbtrfs_unlink and nbtrfs_rmdir: a directory need not be empty.
unlink(p) == /\ Found(p) /\ Mode(p) # "none"
             /\ SetFs(directory_remove_entry(Fs, p))
             /\ UNCHANGED <<given, overlap, did>>

\* A slip: the new name is not counted.
Linked_NotCounted(from, to, stale) ==
  LET i == item_search(Fs, from).inum
  IN directory_add_entry(Fs, to, i, inode[i].kind, stale)

\* nbtrfs_link: the entry first, then the count.
Linked(from, to, stale) ==
  LET i == item_search(Fs, from).inum
  IN [directory_add_entry(Fs, to, i, inode[i].kind, stale) EXCEPT !.inode[i].refs = @ + 1]

MayLink(from, to) == /\ IsDir(parent_path(to)) /\ HasRoom(to)
                     /\ inode[item_search(Fs, from).inum].refs < MaxRefs
                     /\ UNCHANGED <<given, overlap>>

link(from, to) == /\ IsFile(from) /\ ~Found(to) /\ MayLink(from, to)
                  /\ \E stale \in StaleCount : SetFs(Linked(from, to, stale))
                  /\ did' = did \cup {"link"}

\* nbtrfs_rename: a link, which gives a directory a new tree, and an unlink.
\* The kernel lets it replace a name of the same kind, and not move a directory
\* into itself or onto a directory it is in.
rename(from, to) ==
  /\ IsFile(from) \/ IsDir(from)
  /\ Found(to) => Mode(to) = Mode(from)
  /\ ~IsPrefix(from, to) /\ ~IsPrefix(to, from)
  /\ MayLink(from, to)
  /\ \E stale \in StaleCount : SetFs(directory_remove_entry(Linked(from, to, stale), from))
  /\ did' = did \cup {"link"} \cup (IF Found(to) THEN {"replace"} ELSE {})
                              \cup (IF IsDir(from) THEN {"move"} ELSE {})

Next == \E p \in Path :
          \/ \E k \in {"dir", "file"} : mknod(p, k) \/ mknodFails(p, k)
          \/ unlink(p)
          \/ \E q \in Path : link(p, q) \/ rename(p, q)

Spec == Init /\ [][Next]_vars

-----------------------------------------------------------------------------
\* A slip: the last entry counts as one too many.
Listed_OneShort(p) ==
  LET dir == inode[item_search(Fs, p).inum]
      active(j) == {k \in 1 .. j : dir.slot[k].active}
  IN IF dir.slot = <<>> \/ active(PerBlock) = {} THEN {}
     ELSE {j \in active(Len(dir.slot)) : Cardinality(active(j)) < dir.count}

\* directory_list: the active entries, as many as the count allows.  If the
\* first block has none the second is read as if it were the first, two bytes
\* off, and shows none either.
Listed(p) ==
  LET dir == inode[item_search(Fs, p).inum]
      active(j) == {k \in 1 .. j : dir.slot[k].active}
  IN IF dir.slot = <<>> \/ active(PerBlock) = {} THEN {}
     ELSE {j \in active(Len(dir.slot)) : Cardinality(active(j)) <= dir.count}

Entry(p, j) == inode[item_search(Fs, p).inum].slot[j]
Directories == {p \in Path \cup {<<>>} : IsDir(p)}

SlotType == [name : Name \cup {<<>>}, inum : 0 .. LastInode, active : BOOLEAN]

\* Type invariant; an inode in use has a reference and only a directory has
\* entries.
TypeOK == /\ \A i \in 0 .. LastInode :
               /\ inode[i].kind \in {"none", "dir", "file"}
               /\ inode[i].refs \in 0 .. MaxRefs
               /\ inode[i].slot \in Seq(SlotType) /\ inode[i].count \in Nat
               /\ (inode[i].kind = "none") = (inode[i].refs = 0)
               /\ inode[i].kind # "dir" => inode[i].slot = <<>>
          /\ given \in 0 .. LastInode /\ overlap \in BOOLEAN
          /\ did \subseteq {"link", "replace", "move"}

\* Until a call gives a file a second name, what lookup finds is a tree of
\* names that each call changes in one place, through reused slots, second
\* blocks, failed calls and directories removed with their contents, and on
\* either kind of build (directory.c:10-164, hash.c:249-305, fuse.c:116-207).
Promise == INSTANCE NameSpace WITH
             names <- IF did # {} THEN <<>>
                      ELSE [p \in {q \in Path : Found(q)} |-> Mode(p)],
             open <- did = {}

IsANameSpace == Promise!Spec

\* An inode is not freed while an entry names it, by whatever name it was made
\* and whichever goes first: its count covers its entries (fuse.c:184-189,
\* directory.c:138-146).
EntriesAreLive ==
  LET entries == {e \in (0 .. LastInode) \X (1 .. 2 * PerBlock) :
                    e[2] <= Len(inode[e[1]].slot) /\ inode[e[1]].slot[e[2]].active}
      named(e) == inode[e[1]].slot[e[2]].inum
  IN /\ \A e \in entries : inode[named(e)].kind # "none"
     /\ \A i \in 1 .. LastInode :
          Cardinality({e \in entries : named(e) = i}) <= inode[i].refs

\* As long as no rename has replaced a name or moved a directory, no name
\* leads to an inode that was freed (directory.c:141-146).
FoundIsLive ==
  did \cap {"replace", "move"} = {} => \A p \in Path : Found(p) => Mode(p) # "none"

\* Under the same condition what readdir lists is found, as the inode its entry
\* names and once each, so that its assertion holds; a build whose snprintf
\* loses the path lists only the root that way (fuse.c:97-105).
ListedIsFound ==
  did \cap {"replace", "move"} = {} =>
    \A p \in Directories : overlap \/ p = <<>> =>
      \A j \in Listed(p) :
        /\ item_search(Fs, Append(p, Entry(p, j).name)).inum = Entry(p, j).inum
        /\ \A k \in Listed(p) : Entry(p, j).name = Entry(p, k).name => j = k

\* While no file has had a second name readdir lists every name that is found,
\* unless the directory's first block has lost all its entries and a later one
\* has not (directory.c:165-216).
FoundIsListed ==
  did = {} =>
    \A p \in Directories :
      LET dir == inode[item_search(Fs, p).inum] IN
      (\E j \in 1 .. Len(dir.slot) : j <= PerBlock /\ dir.slot[j].active) =>
        \A q \in Path : Front(q) = p /\ Found(q) =>
          \E j \in Listed(p) : Entry(p, j).name = Last(q)

\* fuse.c:68, readdir "lists the contents of a directory": a name that is found
\* there is listed.
ListsContents ==
  \A p \in Directories : \A q \in Path :
    Front(q) = p /\ Found(q) => \E j \in Listed(p) : Entry(p, j).name = Last(q)

\* fuse.c:103, "assert(rv == 0)": what readdir lists is found.
ReaddirReturns ==
  \A p \in Directories : \A j \in Listed(p) : Found(Append(p, Entry(p, j).name))
=============================================================================
