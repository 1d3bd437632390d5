-------------------------------- MODULE BTree --------------------------------
(***************************************************************************)
(* The index of one directory (btr.c): a B-tree from the hash of a name to *)
(* a value, in disk pages.  The root is created empty and every leaf page  *)
(* holds one key.  An internal node is modelled word by word, as struct    *)
(* BTreeNode lays it out (keys, children, parent), because the code runs   *)
(* one element over the end of both arrays when the node is full.          *)
(*                                                                         *)
(* Until that happens the root has no parent and its children are leaves   *)
(* (SingleLevel), and once it has, the next call follows a hash as if it   *)
(* were a page (FollowsKey).  So the code for inner nodes                  *)
(* (btree_split_child, btree_borrow_left and _right, btree_merge_children, *)
(* btree_promote_root, the descent of btree_insertion_search) is never     *)
(* reached and is left out.                                                *)
(***************************************************************************)
EXTENDS Integers, FiniteSets

CONSTANTS Key,        \* name hashes: not 0, and no page number
          Page,       \* pages alloc_page can return: not 0
          MaxKeys,    \* MAX_KEYS
          MaxEntries  \* bound on the entries of the directory

ASSUME BTreeConstants ==
  /\ Key \subseteq Nat \ {0} /\ Page \subseteq Nat \ {0} /\ Key \cap Page = {}
  /\ IsFiniteSet(Key)
  /\ MaxKeys \in Nat /\ MaxKeys >= 4 /\ MaxKeys % 2 = 0
  /\ MaxEntries \in Nat

MinKeys == MaxKeys \div 2

\* Word offsets in a node.  Element MaxKeys of keys is element 0 of children,
\* element MaxKeys + 1 of children is the parent.
KeyAt(i) == i
ChildAt(j) == MaxKeys + j
ParentAt == ChildAt(MaxKeys + 1)
Offset == 0 .. ParentAt

Root == 0   \* the name of the root's block here

VARIABLES
  num,      \* num_keys of the root
  word,     \* the words of the root
  leaf,     \* page -> the leaf [key, parent] last written to it
  used,     \* the pages in use, as the block bitmap has it
  inner,    \* those of them that are inner nodes made by a split
  phase,    \* "run" or "dead"
  entries   \* how many times the directory holds each key

vars == <<num, word, leaf, used, inner, phase, entries>>

FreePages == Page \ used

\* alloc_page returns the lowest free page.
Lowest(S) == CHOOSE p \in S : \A q \in S : p <= q

Child(j) == word[ChildAt(j)]

\* A child pointer that is neither null nor a page: FollowsKey says what comes
\* of it.
Corrupt == \E j \in 0 .. MaxKeys : Child(j) \notin Page \cup {0}

\* The first child that is a leaf with key k, as btree_search looks for it.
Matches(k) == {j \in 0 .. num : Child(j) # 0 /\ leaf[Child(j)].key = k}
Found(k) == Matches(k) # {}
btree_search(k) == Child(Lowest(Matches(k)))

Entries == LET n[S \in SUBSET Key] ==
                 IF S = {} THEN 0
                 ELSE LET k == CHOOSE k \in S : TRUE IN entries[k] + n[S \ {k}]
           IN n[Key]

\* btree_node_create(..., false, ...) for a new directory.
Init == /\ num = 0
        /\ word = [o \in Offset |-> 0]
        /\ leaf = [p \in Page |-> [key |-> 0, parent |-> 0]]
        /\ used = {} /\ inner = {}
        /\ phase = "run"
        /\ entries = [k \in Key |-> 0]

Die == phase' = "dead" /\ UNCHANGED <<num, word, leaf, used, inner, entries>>

\* btree_search, btree_find_depth and btree_find_maximum all begin with the
\* first child.  When a key stands there, disk_get_block makes an address of
\* it outside the image, and reading it ends the process: in the insertion
\* that put it there, when its btree_update_parent_keys starts at that child,
\* or in the next search, insertion or deletion.  (That the address is by
\* chance one the process has mapped is left out.)
FollowsKey == phase = "run" /\ Child(0) \notin Page \cup {0} /\ Die

-----------------------------------------------------------------------------
\* A slip: the position of the last child that is less, not the next one.
child_pos_Before(k) ==
  LET less == {j \in 0 .. num : Child(j) # 0 /\ leaf[Child(j)].key < k}
  IN IF less = {} THEN 0 ELSE CHOOSE j \in less : \A i \in less : i <= j

\* Where btree_insert_nonfull puts key k: after the last child that is less.
child_pos(k) ==
  LET after == {j \in 1 .. num + 1 : Child(j - 1) # 0 /\ leaf[Child(j - 1)].key < k}
      last == IF after = {} THEN 0 ELSE CHOOSE j \in after : \A i \in after : i <= j
  IN IF last > num THEN num ELSE last

\* A slip: the loop over the keys starts one further.
btree_insert_nonfull_OneFurther(k, p) ==
  LET pos == child_pos(k)
      moved == [o \in Offset |->
                 IF o \in ChildAt(pos + 1) .. ChildAt(num + 1)
                 THEN word[o - 1] ELSE word[o]]
      keys == [o \in Offset |->
                 IF o \in KeyAt(pos + 1) .. KeyAt(num + 1) THEN moved[o - 1]
                 ELSE moved[o]]
  IN [keys EXCEPT ![ChildAt(pos)] = p]

\* Its effect on the words of the root: children and keys from the position
\* on move up by one, the children first.
btree_insert_nonfull(k, p) ==
  LET pos == child_pos(k)
      moved == [o \in Offset |->
                 IF o \in ChildAt(pos + 1) .. ChildAt(num + 1)
                 THEN word[o - 1] ELSE word[o]]
      keys == [o \in Offset |->
                 IF o \in KeyAt(pos + 1) .. KeyAt(num) THEN moved[o - 1]
                 ELSE moved[o]]
  IN [keys EXCEPT ![ChildAt(pos)] = p]

\* btree_update_parent_keys on the root with words w and n keys: each key is
\* the largest key under its child.
btree_update_parent_keys(w, n, lf) ==
  [o \in Offset |-> IF o < n /\ w[ChildAt(o)] # 0 THEN lf[w[ChildAt(o)]].key
                    ELSE w[o]]

Added(k) == entries' = [entries EXCEPT ![k] = @ + 1]

MayInsert(k) == phase = "run" /\ ~Corrupt /\ Entries < MaxEntries

\* A slip: the key lands in the parent's field.
WithLeaf_Swapped(k) ==
  [leaf EXCEPT ![Lowest(FreePages)] = [key |-> k, parent |-> k]]

\* btree_node_create(..., true, ...): the leaf's page.
NewLeaf == Lowest(FreePages)
WithLeaf(k) == [leaf EXCEPT ![NewLeaf] = [key |-> k, parent |-> Root]]

\* btree_insert uses the NULL that btree_node_create returns without a page.
InsertFaults(k) == MayInsert(k) /\ FreePages = {} /\ Die

\* The root has room.
InsertNonfull(k) ==
  /\ MayInsert(k) /\ FreePages # {}
  /\ num # MaxKeys
  /\ leaf' = WithLeaf(k) /\ used' = used \cup {NewLeaf}
  /\ num' = num + 1
  /\ word' = btree_update_parent_keys(btree_insert_nonfull(k, NewLeaf),
                                      num + 1, leaf')
  /\ Added(k)
  /\ UNCHANGED <<inner, phase>>

\* The root is full and the key belongs at its end: the child goes into the
\* last slot of a copy of the root that is never written.
InsertAtEnd(k) ==
  /\ MayInsert(k) /\ FreePages # {}
  /\ num = MaxKeys
  /\ word[KeyAt(MaxKeys - 1)] < k /\ Child(MaxKeys) = 0
  /\ leaf' = WithLeaf(k) /\ used' = used \cup {NewLeaf}
  /\ word' = btree_update_parent_keys(word, num, leaf')
  /\ Added(k)
  /\ UNCHANGED <<num, inner, phase>>

\* The root is full and the key belongs before its end.  btree_split_root
\* makes two nodes and hands them the children, but the root it splits is the
\* same unwritten copy; the insertion goes into the full root read again and
\* runs over the arrays.  If that has put a key in the place of the first
\* child, btree_update_parent_keys follows it (FollowsKey) and writes nothing;
\* if not, its own last round puts one there.
InsertSplit(k) ==
  /\ MayInsert(k) /\ Cardinality(FreePages) >= 3
  /\ num = MaxKeys
  /\ ~(word[KeyAt(MaxKeys - 1)] < k /\ Child(MaxKeys) = 0)
  /\ LET p == NewLeaf
         a == Lowest(FreePages \ {p})
         b == Lowest(FreePages \ {p, a})
         side(q) == IF \E j \in 0 .. MinKeys : Child(j) = q THEN a ELSE b
         linked == {Child(j) : j \in 0 .. MaxKeys} \ {0}
         over == btree_insert_nonfull(k, p)
     IN /\ leaf' = [q \in Page |->
                      IF q \in linked THEN [leaf[q] EXCEPT !.parent = side(q)]
                      ELSE WithLeaf(k)[q]]
        /\ used' = used \cup {p, a, b} /\ inner' = inner \cup {a, b}
        /\ num' = num + 1
        /\ word' = IF over[ChildAt(0)] \in Page
                   THEN btree_update_parent_keys(over, num + 1, leaf')
                   ELSE over
  /\ Added(k)
  /\ UNCHANGED phase

\* btree_split_root's own btree_node_create returns NULL.
SplitFaults(k) == /\ MayInsert(k) /\ Cardinality(FreePages) \in 1 .. 2
                  /\ num = MaxKeys
                  /\ ~(word[KeyAt(MaxKeys - 1)] < k /\ Child(MaxKeys) = 0)
                  /\ Die

-----------------------------------------------------------------------------
\* btree_remove_key: the first key that is not less (or is unset) goes, with
\* its child; both arrays are read one past their end when the root is full.
key_pos(k) == Lowest({i \in 0 .. MaxKeys : \/ i = MaxKeys
                                           \/ word[KeyAt(i)] >= k
                                           \/ word[KeyAt(i)] = 0})

Removed(k) ==
  LET i == key_pos(k)
      keys == [o \in Offset |-> IF o \in KeyAt(i) .. KeyAt(num - 1)
                                THEN word[o + 1] ELSE word[o]]
      children == [o \in Offset |-> IF o \in ChildAt(i) .. ChildAt(num)
                                    THEN keys[o + 1] ELSE keys[o]]
  IN [children EXCEPT ![KeyAt(num - 1)] = 0, ![ChildAt(num)] = 0]

\* Slips: the page is not freed; the root is not written back.
Delete_PageKept(k) == /\ phase = "run" /\ ~Corrupt /\ Found(k)
                      /\ word' = Removed(k)
                      /\ num' = num - 1
                      /\ entries' = [entries EXCEPT ![k] = @ - 1]
                      /\ UNCHANGED <<leaf, used, inner, phase>>

Delete_NotWritten(k) == /\ phase = "run" /\ ~Corrupt /\ Found(k)
                        /\ used' = used \ {btree_search(k)}
                        /\ entries' = [entries EXCEPT ![k] = @ - 1]
                        /\ UNCHANGED <<num, word, leaf, inner, phase>>

\* btree_delete of a key that is there, and btree_node_free of its page.
Delete(k) == /\ phase = "run" /\ ~Corrupt /\ Found(k)
             /\ word' = Removed(k)
             /\ num' = num - 1
             /\ used' = used \ {btree_search(k)}
             /\ entries' = [entries EXCEPT ![k] = @ - 1]
             /\ UNCHANGED <<leaf, inner, phase>>

Next == \E k \in Key : \/ InsertFaults(k) \/ InsertNonfull(k)
                       \/ InsertAtEnd(k) \/ InsertSplit(k) \/ SplitFaults(k)
                       \/ Delete(k) \/ FollowsKey

Spec == Init /\ [][Next]_vars

-----------------------------------------------------------------------------
\* Type invariant; num_keys passes MAX_KEYS by at most one, and a leaf's key
\* and parent are never confused (btr.c:309, 403-406).
TypeOK == /\ num \in 0 .. MaxKeys + 1
          /\ word \in [Offset -> Nat]
          /\ leaf \in [Page -> [key : Key \cup {0}, parent : Page \cup {Root}]]
          /\ inner \subseteq used /\ used \subseteq Page
          /\ phase \in {"run", "dead"}
          /\ entries \in [Key -> 0 .. MaxEntries]

\* num_keys passes MAX_KEYS exactly when an insertion before the end of a full
\* root has run over the arrays and a key stands in the place of a child
\* (InsertSplit): what the properties say holds until then.
Alive == phase = "run" /\ num <= MaxKeys

\* The tree has one level until an insertion before the end of a full root has
\* run over the arrays: the root has no parent and every slot of its children
\* is empty or has a leaf in use, each once.  No other sequence of insertions
\* and deletions, at the end of a full root included, puts a key in the place
\* of a child or leaves one in a page btree_delete has freed (btr.c:293-309,
\* 414-440, 583).
SingleLevel ==
  Alive => /\ word[ParentAt] = 0
           /\ \A j \in 0 .. MaxKeys : Child(j) # 0 =>
                /\ Child(j) \in used \ inner
                /\ \A i \in 0 .. MaxKeys : Child(i) = Child(j) => i = j

\* The root's keys are the keys of its children, in order, and nothing is left
\* behind them, until the arrays are run over; btree_remove_key finds a child
\* through them (btr.c:382, 521).
KeysMatch ==
  Alive => /\ \A i \in 0 .. num - 1 : /\ Child(i) # 0
                                      /\ word[KeyAt(i)] = leaf[Child(i)].key
                                      /\ i > 0 => word[KeyAt(i - 1)] <= word[KeyAt(i)]
           /\ \A i \in num .. MaxKeys - 1 : word[KeyAt(i)] = 0
           /\ \A j \in num .. MaxKeys : Child(j) = 0

\* A deleted name is never found again, and no name is found that was not
\* inserted, not even after entries were lost at the end of a full root
\* (btr.c:115-149, 576-587).
NoPhantom == Alive => \A k \in Key : Found(k) => entries[k] > 0

\* A directory of at most MAX_KEYS entries finds exactly its entries, whatever
\* the order of insertions and deletions, with duplicates of a hash, and only
\* their pages are in use (btr.c:269-316, 400-447, 516-587).
ExactIndex ==
  Alive => \A k \in Key :
             /\ entries[k] = Cardinality({j \in 0 .. num - 1 : leaf[Child(j)].key = k})
             /\ entries[k] = Cardinality({p \in used \ inner : leaf[p].key = k})

\* btr.h:85: btree_insert returns "0 on success": what it was given is found.
InsertedIsFound == Alive => \A k \in Key : entries[k] > 0 => Found(k)
=============================================================================
