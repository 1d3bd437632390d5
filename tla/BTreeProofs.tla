----------------------------- MODULE BTreeProofs -----------------------------
(*************************************************************************)
(* The index of a directory, for every MAX_KEYS, every set of hashes and *)
(* of pages: it is one level of leaves whose keys the root has, whatever *)
(* is inserted and deleted, until an insertion before the end of a full  *)
(* root puts a key in the place of a child; and while the directory has  *)
(* not held more than MAX_KEYS entries the index finds exactly these.    *)
(*                                                                       *)
(* The proof goes over the children of the root as a sorted row of       *)
(* leaves: NonfullWords, SplitWords and RemovedWords say what the word-  *)
(* by-word loops of btr.c do to that row, and everything else is about   *)
(* the row.                                                              *)
(*************************************************************************)
EXTENDS MCBTree, WellFoundedInduction, FiniteSetTheorems, TLAPS

KeyOf(j) == leaf[Child(j)].key

Types == /\ num \in 0 .. MaxKeys
         /\ word \in [Offset -> Nat]
         /\ leaf \in [Page -> [key : Key \cup {0}, parent : Page \cup {Root}]]
         /\ used \subseteq Page /\ IsFiniteSet(used) /\ inner = {}
         /\ entries \in [Key -> Nat]

\* The children of the root: a row of leaves in use, each once, by key.
Row == /\ word[ParentAt] = 0
       /\ \A j \in 0 .. num - 1 : Child(j) \in used /\ KeyOf(j) \in Key
       /\ \A j \in num .. MaxKeys : Child(j) = 0
       /\ \A i, j \in 0 .. num - 1 : i < j => Child(i) # Child(j) /\ KeyOf(i) <= KeyOf(j)

\* The keys of the root are those of its children.
Keys == /\ \A i \in 0 .. num - 1 : word[KeyAt(i)] = KeyOf(i)
        /\ \A i \in num .. MaxKeys - 1 : word[KeyAt(i)] = 0

\* The directory holds a key as many times as there are leaves of it.
Counted == /\ \A p \in used : leaf[p].key \in Key
           /\ \A k \in Key : entries[k] = Cardinality({p \in used : leaf[p].key = k})

TreeInv == Types /\ Row /\ Keys /\ Counted

\* No leaf in use is lost to the row.
Cover == \A p \in used : \E j \in 0 .. num - 1 : Child(j) = p
-----------------------------------------------------------------------------
LEMMA LeastNumber ==
  ASSUME NEW S \in SUBSET Nat, S # {}
  PROVE  \E n \in S : \A m \in S : n <= m
<1> DEFINE R == {ss \in Nat \X Nat : ss[1] < ss[2]}
<1>1. IsWellFoundedOn(R, Nat)
  BY NatLessThanWellFounded, Zenon DEF OpToRel
<1>2. \A x, y \in Nat : <<x, y>> \in R <=> x < y
  OBVIOUS
<1> HIDE DEF R
<1>3. PICK n \in S : \A m \in S : <<m, n>> \notin R
  BY <1>1, WFMin
<1>4. ASSUME NEW m \in S PROVE n <= m
  <2>1. m \in Nat /\ n \in Nat /\ ~(m < n)
    BY <1>2, <1>3
  <2> QED
    BY <2>1
<1> QED
  BY <1>4

\* What alloc_page returns is the lowest of the free pages.
LEMMA LowestIsLeast ==
  ASSUME NEW S \in SUBSET Nat, S # {}
  PROVE  Lowest(S) \in S /\ \A q \in S : Lowest(S) <= q
<1>1. \E n \in S : \A m \in S : n <= m
  BY LeastNumber
<1> QED
  BY <1>1 DEF Lowest

\* A set of numbers with an upper bound has a largest one.
LEMMA LargestExists ==
  ASSUME NEW S, NEW b \in Nat, S \subseteq 0 .. b, S # {}
  PROVE  \E j \in S : \A i \in S : i <= j
<1> DEFINE T == {n \in Nat : \E i \in S : n = b - i}
<1>1. T \in SUBSET Nat /\ T # {}
  <2>1. PICK i : i \in S
    OBVIOUS
  <2>2. b - i \in T
    BY <2>1
  <2> QED
    BY <2>2
<1>2. PICK n \in T : \A m \in T : n <= m
  BY <1>1, LeastNumber
<1>3. PICK j \in S : n = b - j
  BY <1>2
<1>4. ASSUME NEW i \in S PROVE i <= j
  <2>1. b - i \in T
    OBVIOUS
  <2> QED
    BY <1>2, <1>3, <2>1
<1> QED
  BY <1>4

\* A new leaf's page was not in use.
LEMMA NewLeafIsFree ==
  ASSUME FreePages # {}
  PROVE  NewLeaf \in Page \ used /\ NewLeaf \in Nat \ {0}
<1>1. FreePages \in SUBSET Nat
  BY BTreeConstants DEF FreePages
<1> QED
  BY <1>1, LowestIsLeast, BTreeConstants DEF NewLeaf, FreePages

\* btree_insert_nonfull puts a key behind all that are less and before all
\* that are not.
LEMMA ChildPos ==
  ASSUME Types, Row, NEW k \in Key
  PROVE  /\ child_pos(k) \in 0 .. num
         /\ \A j \in 0 .. num - 1 : j < child_pos(k) => KeyOf(j) < k
         /\ \A j \in 0 .. num - 1 : child_pos(k) <= j => k <= KeyOf(j)
<1> DEFINE after == {j \in 1 .. num + 1 : Child(j - 1) # 0 /\ leaf[Child(j - 1)].key < k}
<1>0. num \in Nat /\ MaxKeys \in Nat /\ k \in Nat
  BY BTreeConstants DEF Types
<1>a. \A j \in 0 .. num - 1 : Child(j) # 0 /\ KeyOf(j) \in Nat
  <2>1. Key \subseteq Nat /\ 0 \notin used
    BY BTreeConstants DEF Types
  <2> QED
    BY <2>1 DEF Row
<1>1. after \subseteq 1 .. num + 1
  BY <1>0
<1>2. num + 1 \notin after
  <2>1. Child(num) = 0
    BY <1>0 DEF Types, Row
  <2> QED
    BY <1>0, <2>1
<1>3. ASSUME NEW j \in 0 .. num - 1
      PROVE  j + 1 \in after <=> KeyOf(j) < k
  <2>1. (j + 1) - 1 = j /\ j + 1 \in 1 .. num + 1
    BY <1>0
  <2> QED
    BY <1>a, <2>1 DEF KeyOf
<1> DEFINE last == CHOOSE j \in after : \A i \in after : i <= j
           pos == IF after = {} THEN 0 ELSE last
<1>4. child_pos(k) = IF pos > num THEN num ELSE pos
  BY DEF child_pos
<1>5. after # {} => last \in after /\ \A i \in after : i <= last
  <2>1. after \subseteq 0 .. num + 1 /\ num + 1 \in Nat
    BY <1>0, <1>1
  <2> QED
    BY <2>1, LargestExists
<1> HIDE DEF last, after
<1>6. pos \in 0 .. num /\ (pos # 0 => pos \in after) /\ \A i \in after : i <= pos
  <2>1. CASE after = {}
    BY <1>0, <2>1
  <2>2. CASE after # {}
    <3>1. last \in 1 .. num + 1 /\ last # num + 1
      BY <1>1, <1>2, <1>5, <2>2
    <3> QED
      BY <1>0, <1>5, <2>2, <3>1
  <2> QED
    BY <2>1, <2>2
<1> HIDE DEF pos
<1>7. child_pos(k) = pos
  BY <1>0, <1>4, <1>6
<1>8. ASSUME NEW j \in 0 .. num - 1, j < pos PROVE KeyOf(j) < k
  <2> DEFINE i == pos - 1
  <2>1. i \in 0 .. num - 1 /\ i + 1 = pos /\ j <= i
    BY <1>0, <1>6, <1>8
  <2>2. KeyOf(i) < k
    BY <1>3, <1>6, <1>8, <2>1
  <2>3. KeyOf(j) <= KeyOf(i)
    <3> HIDE DEF i
    <3>1. CASE j < i
      BY <2>1, <3>1 DEF Row
    <3>2. CASE j = i
      BY <1>a, <3>2
    <3> QED
      BY <1>0, <2>1, <3>1, <3>2
  <2> HIDE DEF i
  <2> QED
    BY <1>0, <1>a, <2>1, <2>2, <2>3
<1>9. ASSUME NEW j \in 0 .. num - 1, pos <= j PROVE k <= KeyOf(j)
  <2>1. j + 1 \notin after
    BY <1>0, <1>6, <1>9
  <2>2. ~(KeyOf(j) < k)
    BY <1>3, <2>1
  <2> QED
    BY <1>0, <1>a, <2>2
<1> QED
  BY <1>6, <1>7, <1>8, <1>9
-----------------------------------------------------------------------------
\* What the loops of btree_insert_nonfull do to the root's words: the children
\* from the position on move up by one and the new leaf takes its place.
LEMMA NonfullWords ==
  ASSUME Types, Row, Keys, num < MaxKeys, NEW k \in Key, NEW p \in Page
  PROVE  LET w == btree_insert_nonfull(k, p)
             pos == child_pos(k)
         IN  /\ w \in [Offset -> Nat] /\ w[ParentAt] = 0
             /\ \A j \in 0 .. pos - 1 : w[ChildAt(j)] = Child(j)
             /\ w[ChildAt(pos)] = p
             /\ \A j \in pos + 1 .. num : w[ChildAt(j)] = Child(j - 1)
             /\ \A j \in num + 1 .. MaxKeys : w[ChildAt(j)] = 0
             /\ \A i \in num + 1 .. MaxKeys - 1 : w[KeyAt(i)] = 0
<1> DEFINE pos == child_pos(k)
           moved == [o \in Offset |->
                      IF o \in ChildAt(pos + 1) .. ChildAt(num + 1)
                      THEN word[o - 1] ELSE word[o]]
           keys == [o \in Offset |->
                      IF o \in KeyAt(pos + 1) .. KeyAt(num) THEN moved[o - 1]
                      ELSE moved[o]]
           w == [keys EXCEPT ![ChildAt(pos)] = p]
<1>1. btree_insert_nonfull(k, p) = w
  BY DEF btree_insert_nonfull
<1>2. /\ num \in Nat /\ MaxKeys \in Nat /\ pos \in 0 .. num /\ p \in Nat
      /\ word \in [Offset -> Nat] /\ Offset = 0 .. 2 * MaxKeys + 1
      /\ ParentAt = 2 * MaxKeys + 1
  BY ChildPos, BTreeConstants DEF Types, Offset, ParentAt, ChildAt
<1>3. /\ \A j \in num .. MaxKeys : Child(j) = 0
      /\ word[ParentAt] = 0
      /\ \A i \in num .. MaxKeys - 1 : word[KeyAt(i)] = 0
  BY DEF Row, Keys
<1> HIDE DEF pos
<1>4. moved \in [Offset -> Nat]
  <2>1. ASSUME NEW o \in Offset, o \in ChildAt(pos + 1) .. ChildAt(num + 1)
        PROVE  o - 1 \in Offset
    BY <1>2, <2>1 DEF ChildAt
  <2> QED
    BY <1>2, <2>1
<1>5. /\ \A o \in Offset : o <= MaxKeys + pos => moved[o] = word[o]
      /\ \A j \in pos + 1 .. num + 1 : moved[ChildAt(j)] = word[ChildAt(j) - 1]
      /\ \A o \in Offset : o > MaxKeys + num + 1 => moved[o] = word[o]
  BY <1>2 DEF ChildAt
<1> HIDE DEF moved
<1>6. keys \in [Offset -> Nat]
  <2>1. ASSUME NEW o \in Offset, o \in KeyAt(pos + 1) .. KeyAt(num)
        PROVE  o - 1 \in Offset
    BY <1>2, <2>1 DEF KeyAt
  <2> QED
    BY <1>2, <1>4, <2>1
<1>7. \A o \in Offset : o > num => keys[o] = moved[o]
  BY <1>2 DEF KeyAt
<1> HIDE DEF keys
<1>8. w \in [Offset -> Nat] /\ w[ChildAt(pos)] = p
      /\ \A o \in Offset : o # ChildAt(pos) => w[o] = keys[o]
  BY <1>2, <1>6 DEF ChildAt
<1> HIDE DEF w
<1>9. w[ParentAt] = 0
  BY <1>2, <1>3, <1>5, <1>7, <1>8 DEF ChildAt
<1>10. ASSUME NEW j \in 0 .. pos - 1 PROVE w[ChildAt(j)] = Child(j)
  <2>1. ChildAt(j) \in Offset /\ ChildAt(j) > num /\ ChildAt(j) # ChildAt(pos)
        /\ ChildAt(j) <= MaxKeys + pos
    BY <1>2 DEF ChildAt
  <2> QED
    BY <1>5, <1>7, <1>8, <2>1 DEF Child
<1>11. ASSUME NEW j \in pos + 1 .. num + 1 PROVE w[ChildAt(j)] = Child(j - 1)
  <2>1. ChildAt(j) \in Offset /\ ChildAt(j) > num /\ ChildAt(j) # ChildAt(pos)
        /\ ChildAt(j) - 1 = ChildAt(j - 1)
    BY <1>2 DEF ChildAt
  <2> QED
    BY <1>5, <1>7, <1>8, <2>1 DEF Child
<1>12. ASSUME NEW j \in num + 1 .. MaxKeys PROVE w[ChildAt(j)] = 0
  <2>1. CASE j = num + 1
    <3>1. num + 1 \in pos + 1 .. num + 1 /\ (num + 1) - 1 = num /\ num \in num .. MaxKeys
      BY <1>2
    <3> QED
      BY <1>3, <1>11, <2>1, <3>1
  <2>2. CASE j > num + 1
    <3>1. ChildAt(j) \in Offset /\ ChildAt(j) > MaxKeys + num + 1
          /\ ChildAt(j) > num /\ ChildAt(j) # ChildAt(pos)
      BY <1>2, <2>2 DEF ChildAt
    <3>2. Child(j) = 0
      BY <1>2, <1>3
    <3> QED
      BY <1>5, <1>7, <1>8, <3>1, <3>2 DEF Child
  <2> QED
    BY <1>2, <2>1, <2>2
<1>13. ASSUME NEW i \in num + 1 .. MaxKeys - 1 PROVE w[KeyAt(i)] = 0
  <2>1. i \in Offset /\ i > num /\ i <= MaxKeys + pos /\ i # ChildAt(pos)
    BY <1>2 DEF ChildAt
  <2>2. word[i] = 0
    BY <1>2, <1>3 DEF KeyAt
  <2> QED
    BY <1>5, <1>7, <1>8, <2>1, <2>2 DEF KeyAt
<1>14. \A j \in pos + 1 .. num : w[ChildAt(j)] = Child(j - 1)
  BY <1>2, <1>11
<1> QED
  BY <1>1, <1>8, <1>9, <1>10, <1>12, <1>13, <1>14 DEF pos
-----------------------------------------------------------------------------
\* btree_remove_key finds by the root's keys the child that btree_search found
\* by the children's.
LEMMA SearchedIsRemoved ==
  ASSUME Types, Row, Keys, NEW k \in Key, Found(k)
  PROVE  /\ key_pos(k) \in 0 .. num - 1
         /\ KeyOf(key_pos(k)) = k
         /\ btree_search(k) = Child(key_pos(k))
<1> DEFINE at == {i \in 0 .. MaxKeys : \/ i = MaxKeys
                                       \/ word[KeyAt(i)] >= k
                                       \/ word[KeyAt(i)] = 0}
           m == Lowest(Matches(k))
           n == Lowest(at)
<1>1. num \in Nat /\ MaxKeys \in Nat /\ num <= MaxKeys /\ k \in Nat \ {0}
  BY BTreeConstants DEF Types
<1>2. \A j \in 0 .. num - 1 : KeyOf(j) \in Nat \ {0} /\ word[KeyAt(j)] = KeyOf(j)
  BY BTreeConstants DEF Row, Keys
<1>3. Matches(k) \in SUBSET Nat /\ Matches(k) # {}
  BY <1>1 DEF Matches, Found
<1>4. m \in Matches(k) /\ \A j \in Matches(k) : m <= j
  BY <1>3, LowestIsLeast
<1> HIDE DEF m
<1>5. m \in 0 .. num - 1 /\ KeyOf(m) = k
  <2>1. Child(num) = 0
    BY <1>1 DEF Row
  <2> QED
    BY <1>1, <1>4, <2>1 DEF Matches, KeyOf
<1>6. m \in at
  BY <1>1, <1>2, <1>5
<1>7. at \in SUBSET Nat
  BY <1>1
<1>8. n \in at /\ \A i \in at : n <= i
  BY <1>6, <1>7, LowestIsLeast
<1> HIDE DEF n
<1>9. ~(n < m)
  <2> SUFFICES ASSUME n < m PROVE FALSE
    OBVIOUS
  <2>1. n \in 0 .. num - 1
    BY <1>1, <1>5, <1>8
  <2>2. KeyOf(n) <= KeyOf(m)
    BY <1>5, <2>1 DEF Row
  <2>3. word[KeyAt(n)] >= k /\ KeyOf(n) = word[KeyAt(n)]
    BY <1>1, <1>2, <1>5, <1>8, <2>1
  <2>4. KeyOf(n) = k
    BY <1>1, <1>2, <1>5, <2>1, <2>2, <2>3
  <2>5. Child(n) # 0
    BY <2>1, BTreeConstants DEF Row, Types
  <2>6. n \in Matches(k)
    BY <1>1, <2>1, <2>4, <2>5 DEF Matches, KeyOf
  <2> QED
    BY <1>1, <1>4, <1>5, <2>1, <2>6
<1>10. n = m
  BY <1>1, <1>5, <1>6, <1>8, <1>9
<1>11. key_pos(k) = n /\ btree_search(k) = Child(m)
  BY DEF key_pos, btree_search, n, m
<1> QED
  BY <1>5, <1>10, <1>11

\* What the loops of btree_remove_key do to the root's words: the key and the
\* child at the position go and those behind them move down by one.
LEMMA RemovedWords ==
  ASSUME Types, Row, Keys, NEW k \in Key, key_pos(k) \in 0 .. num - 1
  PROVE  LET w == Removed(k)
             pos == key_pos(k)
         IN  /\ w \in [Offset -> Nat] /\ w[ParentAt] = 0
             /\ \A j \in 0 .. pos - 1 : w[ChildAt(j)] = Child(j)
             /\ \A j \in pos .. num - 1 : w[ChildAt(j)] = Child(j + 1)
             /\ \A j \in num .. MaxKeys : w[ChildAt(j)] = 0
             /\ \A i \in 0 .. pos - 1 : w[KeyAt(i)] = word[KeyAt(i)]
             /\ \A i \in pos .. num - 2 : w[KeyAt(i)] = word[KeyAt(i + 1)]
             /\ \A i \in num - 1 .. MaxKeys - 1 : w[KeyAt(i)] = 0
<1> DEFINE pos == key_pos(k)
           keys == [o \in Offset |-> IF o \in KeyAt(pos) .. KeyAt(num - 1)
                                     THEN word[o + 1] ELSE word[o]]
           children == [o \in Offset |-> IF o \in ChildAt(pos) .. ChildAt(num)
                                         THEN keys[o + 1] ELSE keys[o]]
           w == [children EXCEPT ![KeyAt(num - 1)] = 0, ![ChildAt(num)] = 0]
<1>1. Removed(k) = w
  BY DEF Removed
<1>2. /\ num \in Nat /\ MaxKeys \in Nat /\ pos \in 0 .. num - 1 /\ num <= MaxKeys
      /\ word \in [Offset -> Nat] /\ Offset = 0 .. 2 * MaxKeys + 1
      /\ ParentAt = 2 * MaxKeys + 1
  BY BTreeConstants DEF Types, Offset, ParentAt, ChildAt
<1>3. /\ \A j \in num .. MaxKeys : Child(j) = 0
      /\ word[ParentAt] = 0
      /\ \A i \in num .. MaxKeys - 1 : word[KeyAt(i)] = 0
  BY DEF Row, Keys
<1> HIDE DEF pos
<1>4. keys \in [Offset -> Nat]
  <2>1. ASSUME NEW o \in Offset, o \in KeyAt(pos) .. KeyAt(num - 1)
        PROVE  o + 1 \in Offset
    BY <1>2, <2>1 DEF KeyAt
  <2> QED
    BY <1>2, <2>1
<1>5. /\ \A o \in Offset : o >= num => keys[o] = word[o]
      /\ \A o \in 0 .. pos - 1 : keys[o] = word[o]
      /\ \A i \in pos .. num - 1 : keys[i] = word[i + 1]
  BY <1>2 DEF KeyAt
<1> HIDE DEF keys
<1>6. children \in [Offset -> Nat]
  <2>1. ASSUME NEW o \in Offset, o \in ChildAt(pos) .. ChildAt(num)
        PROVE  o + 1 \in Offset
    BY <1>2, <2>1 DEF ChildAt
  <2> QED
    BY <1>2, <1>4, <2>1
<1>7. /\ \A o \in Offset : o < ChildAt(pos) => children[o] = keys[o]
      /\ \A o \in Offset : o > ChildAt(num) => children[o] = keys[o]
      /\ \A j \in pos .. num : children[ChildAt(j)] = keys[ChildAt(j) + 1]
  BY <1>2 DEF ChildAt
<1> HIDE DEF children
<1>8. /\ w \in [Offset -> Nat] /\ w[KeyAt(num - 1)] = 0 /\ w[ChildAt(num)] = 0
      /\ \A o \in Offset : o \notin {KeyAt(num - 1), ChildAt(num)} => w[o] = children[o]
  BY <1>2, <1>6 DEF ChildAt, KeyAt
<1> HIDE DEF w
<1>9. w[ParentAt] = 0
  <2>1. /\ ParentAt \in Offset /\ ParentAt >= num /\ ParentAt > ChildAt(num)
        /\ ParentAt \notin {KeyAt(num - 1), ChildAt(num)}
    BY <1>2 DEF ChildAt, KeyAt
  <2> QED
    BY <1>3, <1>5, <1>7, <1>8, <2>1
<1>10. ASSUME NEW j \in 0 .. pos - 1 PROVE w[ChildAt(j)] = Child(j)
  <2>1. /\ ChildAt(j) \in Offset /\ ChildAt(j) >= num /\ ChildAt(j) < ChildAt(pos)
        /\ ChildAt(j) \notin {KeyAt(num - 1), ChildAt(num)}
    BY <1>2 DEF ChildAt, KeyAt
  <2> QED
    BY <1>5, <1>7, <1>8, <2>1 DEF Child
<1>11. ASSUME NEW j \in pos .. num - 1 PROVE w[ChildAt(j)] = Child(j + 1)
  <2>1. /\ ChildAt(j) \in Offset /\ ChildAt(j) # KeyAt(num - 1) /\ ChildAt(j) # ChildAt(num)
        /\ ChildAt(j) + 1 = ChildAt(j + 1) /\ ChildAt(j + 1) \in Offset
        /\ ChildAt(j + 1) >= num
    BY <1>2 DEF ChildAt, KeyAt
  <2>2. j \in pos .. num
    BY <1>2
  <2> QED
    BY <1>5, <1>7, <1>8, <2>1, <2>2 DEF Child
<1>12. ASSUME NEW j \in num .. MaxKeys PROVE w[ChildAt(j)] = 0
  <2>1. CASE j = num
    BY <1>8, <2>1
  <2>2. CASE j > num
    <3>1. ChildAt(j) \in Offset /\ ChildAt(j) > ChildAt(num) /\ ChildAt(j) >= num
          /\ ChildAt(j) # KeyAt(num - 1) /\ ChildAt(j) # ChildAt(num)
      BY <1>2, <2>2 DEF ChildAt, KeyAt
    <3>2. Child(j) = 0
      BY <1>3
    <3> QED
      BY <1>5, <1>7, <1>8, <3>1, <3>2 DEF Child
  <2> QED
    BY <1>2, <2>1, <2>2
<1>13. ASSUME NEW i \in 0 .. MaxKeys - 1, i # num - 1 PROVE w[KeyAt(i)] = keys[i]
  <2>1. i \in Offset /\ i < ChildAt(pos) /\ i # KeyAt(num - 1) /\ i # ChildAt(num)
    BY <1>2, <1>13 DEF ChildAt, KeyAt
  <2> QED
    BY <1>7, <1>8, <2>1 DEF KeyAt
<1>14. ASSUME NEW i \in 0 .. pos - 1 PROVE w[KeyAt(i)] = word[KeyAt(i)]
  <2>1. i \in Offset /\ i \in 0 .. MaxKeys - 1 /\ i # num - 1
    BY <1>2
  <2> QED
    BY <1>5, <1>13, <2>1 DEF KeyAt
<1>15. ASSUME NEW i \in pos .. num - 2 PROVE w[KeyAt(i)] = word[KeyAt(i + 1)]
  <2>1. i \in pos .. num - 1 /\ i \in 0 .. MaxKeys - 1 /\ i # num - 1
    BY <1>2
  <2> QED
    BY <1>5, <1>13, <2>1 DEF KeyAt
<1>16. ASSUME NEW i \in num - 1 .. MaxKeys - 1 PROVE w[KeyAt(i)] = 0
  <2>1. CASE i = num - 1
    BY <1>8, <2>1
  <2>2. CASE i # num - 1
    <3>1. i \in Offset /\ i >= num /\ i \in 0 .. MaxKeys - 1 /\ i \in num .. MaxKeys - 1
      BY <1>2, <2>2
    <3> QED
      BY <1>3, <1>5, <1>13, <2>2, <3>1 DEF KeyAt
  <2> QED
    BY <2>1, <2>2
<1> QED
  BY <1>1, <1>8, <1>9, <1>10, <1>11, <1>12, <1>14, <1>15, <1>16 DEF pos
-----------------------------------------------------------------------------
\* An insertion with room puts the leaf in its place in the row.
LEMMA InsertRow ==
  ASSUME TreeInv, NEW k \in Key, InsertNonfull(k)
  PROVE  (Types /\ Row /\ Keys)' /\ (Cover => Cover')
<1>0. PICK p, pos, v : p = NewLeaf /\ pos = child_pos(k) /\ v = btree_insert_nonfull(k, p)
  OBVIOUS
<1>1. Types /\ Row /\ Keys /\ num < MaxKeys /\ FreePages # {}
  BY BTreeConstants DEF TreeInv, Types, InsertNonfull
<1>2. /\ num \in Nat /\ MaxKeys \in Nat /\ p \in Page \ used /\ p # 0
      /\ used \subseteq Page /\ 0 \notin Page /\ Page \subseteq Nat
      /\ Key \subseteq Nat /\ k \in Nat
  BY <1>0, <1>1, NewLeafIsFree, BTreeConstants DEF Types
<1>3. /\ leaf' = [leaf EXCEPT ![p] = [key |-> k, parent |-> Root]]
      /\ used' = used \cup {p} /\ num' = num + 1 /\ inner' = inner
      /\ word' = btree_update_parent_keys(v, num + 1, leaf')
      /\ entries' = [entries EXCEPT ![k] = @ + 1]
  BY <1>0 DEF InsertNonfull, WithLeaf, Added
<1>4. /\ v \in [Offset -> Nat] /\ v[ParentAt] = 0
      /\ \A j \in 0 .. pos - 1 : v[ChildAt(j)] = Child(j)
      /\ v[ChildAt(pos)] = p
      /\ \A j \in pos + 1 .. num : v[ChildAt(j)] = Child(j - 1)
      /\ \A j \in num + 1 .. MaxKeys : v[ChildAt(j)] = 0
      /\ \A i \in num + 1 .. MaxKeys - 1 : v[KeyAt(i)] = 0
  BY <1>0, <1>1, <1>2, NonfullWords
<1>5. /\ pos \in 0 .. num
      /\ \A j \in 0 .. num - 1 : j < pos => KeyOf(j) < k
      /\ \A j \in 0 .. num - 1 : pos <= j => k <= KeyOf(j)
  BY <1>0, <1>1, ChildPos
<1>6. leaf' \in [Page -> [key : Key \cup {0}, parent : Page \cup {Root}]]
      /\ leaf'[p].key = k /\ \A q \in used : leaf'[q] = leaf[q]
  BY <1>1, <1>2, <1>3 DEF Types
<1>7. \A j \in 0 .. num - 1 : Child(j) \in used /\ KeyOf(j) \in Key
  BY <1>1 DEF Row
<1>8. ASSUME NEW j \in 0 .. num
      PROVE  v[ChildAt(j)] \in used \cup {p} /\ leaf'[v[ChildAt(j)]].key \in Key
  <2>1. CASE j < pos
    <3>1. j \in 0 .. pos - 1 /\ j \in 0 .. num - 1
      BY <1>2, <1>5, <2>1
    <3> QED
      BY <1>4, <1>6, <1>7, <3>1 DEF KeyOf
  <2>2. CASE j = pos
    BY <1>4, <1>6, <2>2
  <2>3. CASE j > pos
    <3>1. j \in pos + 1 .. num /\ j - 1 \in 0 .. num - 1
      BY <1>2, <1>5, <2>3
    <3> QED
      BY <1>4, <1>6, <1>7, <3>1 DEF KeyOf
  <2> QED
    BY <1>2, <1>5, <2>1, <2>2, <2>3
<1>9. word' = [o \in Offset |-> IF o < num + 1 /\ v[ChildAt(o)] # 0
                                 THEN leaf'[v[ChildAt(o)]].key ELSE v[o]]
  BY <1>3 DEF btree_update_parent_keys
<1>10. Offset = 0 .. 2 * MaxKeys + 1 /\ ParentAt = 2 * MaxKeys + 1
  BY <1>2 DEF Offset, ParentAt, ChildAt
<1>11. word' \in [Offset -> Nat]
  <2>1. ASSUME NEW o \in Offset, o < num + 1 PROVE leaf'[v[ChildAt(o)]].key \in Nat
    <3>1. o \in 0 .. num
      BY <1>2, <1>10, <2>1
    <3> QED
      BY <1>2, <1>8, <3>1
  <2> QED
    BY <1>4, <1>9, <2>1
<1>12. \A o \in Offset : o > num => word'[o] = v[o]
  BY <1>2, <1>9, <1>10
<1>13. \A j \in 0 .. MaxKeys : word'[ChildAt(j)] = v[ChildAt(j)]
  BY <1>1, <1>2, <1>10, <1>12 DEF ChildAt
<1>14. ASSUME NEW j \in 0 .. num
       PROVE  /\ Child(j)' = v[ChildAt(j)] /\ Child(j)' \in used \cup {p}
              /\ KeyOf(j)' \in Key /\ word'[KeyAt(j)] = KeyOf(j)'
  <2>1. j \in 0 .. MaxKeys /\ j \in Offset /\ j < num + 1
    BY <1>1, <1>2, <1>10
  <2>2. Child(j)' = v[ChildAt(j)]
    BY <1>13, <2>1 DEF Child, ChildAt
  <2>3. v[ChildAt(j)] # 0
    BY <1>2, <1>8
  <2>4. word'[j] = leaf'[v[ChildAt(j)]].key
    BY <1>9, <2>1, <2>3
  <2> QED
    BY <1>8, <2>2, <2>4 DEF KeyOf, KeyAt
<1>15. ASSUME NEW j \in 0 .. num - 1, j < pos
       PROVE  Child(j)' = Child(j) /\ KeyOf(j)' = KeyOf(j)
  <2>1. j \in 0 .. pos - 1 /\ j \in 0 .. num
    BY <1>2, <1>5, <1>15
  <2>2. Child(j)' = Child(j)
    BY <1>4, <1>14, <2>1
  <2> QED
    BY <1>6, <1>7, <2>2 DEF KeyOf
<1>16. Child(pos)' = p /\ KeyOf(pos)' = k
  BY <1>4, <1>5, <1>6, <1>14 DEF KeyOf
<1>17. ASSUME NEW j \in 0 .. num - 1, pos <= j
       PROVE  Child(j + 1)' = Child(j) /\ KeyOf(j + 1)' = KeyOf(j)
  <2>1. j + 1 \in 0 .. num /\ j + 1 \in pos + 1 .. num /\ (j + 1) - 1 = j
    BY <1>2, <1>5, <1>17
  <2>2. Child(j + 1)' = Child(j)
    BY <1>4, <1>14, <2>1
  <2> QED
    BY <1>6, <1>7, <2>2 DEF KeyOf
<1>a. num' = num + 1 /\ 0 .. num' - 1 = 0 .. num
  BY <1>2, <1>3
<1>18. Types'
  <2>1. num' \in 0 .. MaxKeys
    BY <1>1, <1>2, <1>a
  <2>2. used' \subseteq Page /\ IsFiniteSet(used') /\ inner' = {}
    BY <1>1, <1>2, <1>3, FS_AddElement DEF Types
  <2>3. entries' \in [Key -> Nat]
    BY <1>1, <1>3 DEF Types
  <2> QED
    BY <1>6, <1>11, <2>1, <2>2, <2>3 DEF Types
<1>19. Keys'
  <2>1. \A i \in 0 .. num' - 1 : word'[KeyAt(i)] = KeyOf(i)'
    BY <1>14, <1>a
  <2>2. ASSUME NEW i \in num + 1 .. MaxKeys - 1 PROVE word'[KeyAt(i)] = 0
    <3>1. i \in Offset /\ i > num
      BY <1>2, <1>10
    <3> QED
      BY <1>4, <1>12, <3>1 DEF KeyAt
  <2> QED
    BY <1>a, <2>1, <2>2 DEF Keys, KeyAt
<1>20. word'[ParentAt] = 0
  BY <1>1, <1>2, <1>4, <1>10, <1>12
<1>21. ASSUME NEW j \in num + 1 .. MaxKeys PROVE Child(j)' = 0
  <2>1. j \in 0 .. MaxKeys
    BY <1>2
  <2> QED
    BY <1>4, <1>13, <2>1 DEF Child, ChildAt
<1>22. ASSUME Cover, NEW q \in used \cup {p}
       PROVE  \E j \in 0 .. num : Child(j)' = q
  <2>1. CASE q = p
    BY <1>5, <1>16, <2>1
  <2>2. CASE q \in used
    <3>1. PICK j \in 0 .. num - 1 : Child(j) = q
      BY <1>22, <2>2 DEF Cover
    <3>2. j \in 0 .. num /\ j + 1 \in 0 .. num
      BY <1>2
    <3> QED
      BY <1>2, <1>5, <1>15, <1>17, <3>1, <3>2
  <2> QED
    BY <2>1, <2>2
<1>23. ASSUME NEW i \in 0 .. num, NEW j \in 0 .. num, i < j
       PROVE  Child(i)' # Child(j)' /\ KeyOf(i)' <= KeyOf(j)'
  <2>0. \A a, b \in 0 .. num - 1 : a < b => Child(a) # Child(b) /\ KeyOf(a) <= KeyOf(b)
    BY <1>1 DEF Row
  <2>1. CASE j < pos
    <3>1. i \in 0 .. num - 1 /\ j \in 0 .. num - 1 /\ i < pos
      BY <1>2, <1>5, <1>23, <2>1
    <3> QED
      BY <1>15, <1>23, <2>0, <2>1, <3>1
  <2>2. CASE j = pos
    <3>1. i \in 0 .. num - 1 /\ i < pos
      BY <1>2, <1>5, <1>23, <2>2
    <3>2. KeyOf(i) < k /\ KeyOf(i) \in Nat
      BY <1>2, <1>5, <1>7, <3>1
    <3> QED
      BY <1>2, <1>7, <1>15, <1>16, <2>2, <3>1, <3>2
  <2>3. CASE j > pos
    <3>1. PICK b \in 0 .. num - 1 : j = b + 1 /\ pos <= b
      <4>1. j - 1 \in 0 .. num - 1 /\ j = (j - 1) + 1 /\ pos <= j - 1
        BY <1>2, <1>5, <2>3
      <4> QED
        BY <4>1
    <3>2. Child(j)' = Child(b) /\ KeyOf(j)' = KeyOf(b)
      BY <1>17, <3>1
    <3>3. CASE i < pos
      <4>1. i \in 0 .. num - 1 /\ i < b
        BY <1>2, <1>5, <3>1, <3>3
      <4> QED
        BY <1>15, <2>0, <3>2, <3>3, <4>1
    <3>4. CASE i = pos
      BY <1>2, <1>5, <1>7, <1>16, <3>1, <3>2, <3>4
    <3>5. CASE i > pos
      <4>1. PICK a \in 0 .. num - 1 : i = a + 1 /\ pos <= a
        <5>1. i - 1 \in 0 .. num - 1 /\ i = (i - 1) + 1 /\ pos <= i - 1
          BY <1>2, <1>5, <3>5
        <5> QED
          BY <5>1
      <4>2. Child(i)' = Child(a) /\ KeyOf(i)' = KeyOf(a)
        BY <1>17, <4>1
      <4>3. a < b
        BY <1>2, <1>23, <3>1, <4>1
      <4> QED
        BY <2>0, <3>2, <4>2, <4>3
    <3> QED
      BY <1>2, <1>5, <3>3, <3>4, <3>5
  <2> QED
    BY <1>2, <1>5, <2>1, <2>2, <2>3
<1>24. Row'
  <2>1. \A j \in 0 .. num' - 1 : Child(j)' \in used' /\ KeyOf(j)' \in Key
    BY <1>3, <1>14, <1>a
  <2>3. \A i, j \in 0 .. num' - 1 : i < j => Child(i)' # Child(j)' /\ KeyOf(i)' <= KeyOf(j)'
    BY <1>23, <1>a
  <2> QED
    BY <1>20, <1>21, <1>a, <2>1, <2>3 DEF Row, ParentAt, ChildAt
<1>25. Cover => Cover'
  BY <1>3, <1>22, <1>a DEF Cover
<1> QED
  BY <1>18, <1>19, <1>24, <1>25

\* A deletion takes the leaf that the search has found out of the row.
LEMMA DeleteRow ==
  ASSUME TreeInv, NEW k \in Key, Delete(k)
  PROVE  /\ (Types /\ Row /\ Keys)' /\ (Cover => Cover')
         /\ btree_search(k) \in used /\ leaf[btree_search(k)].key = k
         /\ entries[k] > 0
<1>0. PICK pos, v, p : pos = key_pos(k) /\ v = Removed(k) /\ p = btree_search(k)
  OBVIOUS
<1>1. Types /\ Row /\ Keys /\ Counted /\ Found(k)
  BY DEF TreeInv, Delete
<1>2. pos \in 0 .. num - 1 /\ KeyOf(pos) = k /\ p = Child(pos)
  BY <1>0, <1>1, SearchedIsRemoved
<1>3. /\ num \in Nat /\ MaxKeys \in Nat /\ num <= MaxKeys /\ num >= 1
      /\ used \subseteq Page /\ 0 \notin Page /\ Key \subseteq Nat
  BY <1>1, <1>2, BTreeConstants DEF Types
<1>4. /\ word' = v /\ num' = num - 1 /\ used' = used \ {p} /\ inner' = inner
      /\ leaf' = leaf /\ entries' = [entries EXCEPT ![k] = @ - 1]
  BY <1>0 DEF Delete
<1>5. /\ v \in [Offset -> Nat] /\ v[ParentAt] = 0
      /\ \A j \in 0 .. pos - 1 : v[ChildAt(j)] = Child(j)
      /\ \A j \in pos .. num - 1 : v[ChildAt(j)] = Child(j + 1)
      /\ \A j \in num .. MaxKeys : v[ChildAt(j)] = 0
      /\ \A i \in 0 .. pos - 1 : v[KeyAt(i)] = word[KeyAt(i)]
      /\ \A i \in pos .. num - 2 : v[KeyAt(i)] = word[KeyAt(i + 1)]
      /\ \A i \in num - 1 .. MaxKeys - 1 : v[KeyAt(i)] = 0
  BY <1>0, <1>1, <1>2, RemovedWords
<1>6. /\ \A j \in 0 .. num - 1 : Child(j) \in used /\ KeyOf(j) \in Key
      /\ \A j \in num .. MaxKeys : Child(j) = 0
      /\ \A i, j \in 0 .. num - 1 : i < j => Child(i) # Child(j) /\ KeyOf(i) <= KeyOf(j)
  BY <1>1 DEF Row
<1>7. p \in used /\ leaf[p].key = k
  BY <1>2, <1>6 DEF KeyOf
<1>8. num' = num - 1 /\ 0 .. num' - 1 = 0 .. num - 2
  BY <1>3, <1>4
<1>9. ASSUME NEW j \in 0 .. num - 2, j < pos
      PROVE  /\ j \in 0 .. num - 1
             /\ Child(j)' = Child(j) /\ KeyOf(j)' = KeyOf(j)
             /\ word'[KeyAt(j)] = word[KeyAt(j)]
  <2>1. j \in 0 .. pos - 1 /\ j \in 0 .. num - 1
    BY <1>2, <1>3, <1>9
  <2>2. Child(j)' = Child(j)
    BY <1>4, <1>5, <2>1 DEF Child, ChildAt
  <2> QED
    BY <1>4, <1>5, <2>1, <2>2 DEF KeyOf
<1>10. ASSUME NEW j \in 0 .. num - 2, pos <= j
       PROVE  /\ j + 1 \in 0 .. num - 1
              /\ Child(j)' = Child(j + 1) /\ KeyOf(j)' = KeyOf(j + 1)
              /\ word'[KeyAt(j)] = word[KeyAt(j + 1)]
  <2>1. j \in pos .. num - 1 /\ j \in pos .. num - 2 /\ j + 1 \in 0 .. num - 1
    BY <1>2, <1>3, <1>10
  <2>2. Child(j)' = Child(j + 1)
    BY <1>4, <1>5, <2>1 DEF Child, ChildAt
  <2> QED
    BY <1>4, <1>5, <2>1, <2>2 DEF KeyOf
\* Where a child comes from: the row without its place pos.
<1>11. ASSUME NEW j \in 0 .. num - 2
       PROVE  \E a \in 0 .. num - 1 :
                /\ a # pos /\ a = IF j < pos THEN j ELSE j + 1
                /\ Child(j)' = Child(a) /\ KeyOf(j)' = KeyOf(a)
                /\ word'[KeyAt(j)] = word[KeyAt(a)]
  <2>1. CASE j < pos
    BY <1>2, <1>3, <1>9, <2>1
  <2>2. CASE ~(j < pos)
    <3>1. pos <= j /\ j + 1 # pos
      BY <1>2, <1>3, <2>2
    <3> QED
      BY <1>10, <2>2, <3>1
  <2> QED
    BY <2>1, <2>2
<1>12. \A a \in 0 .. num - 1 : a # pos => Child(a) # p
  <2>1. ASSUME NEW a \in 0 .. num - 1, a # pos PROVE a < pos \/ pos < a
    BY <1>2, <1>3, <2>1
  <2> QED
    BY <1>2, <1>6, <2>1
<1>13. entries[k] > 0
  <2> DEFINE S == {q \in used : leaf[q].key = k}
  <2>1. IsFiniteSet(S) /\ S # {}
    BY <1>1, <1>7, FS_Subset DEF Types
  <2>2. Cardinality(S) \in Nat /\ Cardinality(S) # 0
    BY <2>1, FS_CardinalityType, FS_EmptySet
  <2>3. entries[k] = Cardinality(S)
    BY <1>1 DEF Counted
  <2> QED
    BY <2>2, <2>3
<1>14. Types'
  <2>1. num' \in 0 .. MaxKeys
    BY <1>3, <1>8
  <2>2. used' \subseteq Page /\ IsFiniteSet(used') /\ inner' = {}
    BY <1>1, <1>3, <1>4, FS_RemoveElement DEF Types
  <2>3. entries' \in [Key -> Nat]
    <3>1. entries[k] > 0 /\ entries \in [Key -> Nat]
      BY <1>1, <1>13 DEF Types
    <3> QED
      BY <1>4, <3>1
  <2>4. leaf' \in [Page -> [key : Key \cup {0}, parent : Page \cup {Root}]]
    BY <1>1, <1>4 DEF Types
  <2>5. word' \in [Offset -> Nat]
    BY <1>4, <1>5
  <2> QED
    BY <2>1, <2>2, <2>3, <2>4, <2>5 DEF Types
<1>15. Keys'
  <2>1. ASSUME NEW i \in 0 .. num - 2 PROVE word'[KeyAt(i)] = KeyOf(i)'
    <3>1. PICK a \in 0 .. num - 1 : /\ KeyOf(i)' = KeyOf(a)
                                   /\ word'[KeyAt(i)] = word[KeyAt(a)]
      BY <1>11
    <3> QED
      BY <1>1, <3>1 DEF Keys
  <2>2. \A i \in num - 1 .. MaxKeys - 1 : word'[KeyAt(i)] = 0
    BY <1>4, <1>5
  <2> QED
    BY <1>8, <2>1, <2>2 DEF Keys, KeyAt
<1>16. word'[ParentAt] = 0
  BY <1>4, <1>5
<1>17. ASSUME NEW j \in num - 1 .. MaxKeys PROVE Child(j)' = 0
  <2>1. Child(j)' = v[ChildAt(j)]
    BY <1>4 DEF Child, ChildAt
  <2>2. CASE j = num - 1
    <3>1. j \in pos .. num - 1 /\ j + 1 = num /\ num \in num .. MaxKeys
      BY <1>2, <1>3, <2>2
    <3> QED
      BY <1>5, <1>6, <2>1, <3>1
  <2>3. CASE j # num - 1
    <3>1. j \in num .. MaxKeys
      BY <1>3, <2>3
    <3> QED
      BY <1>5, <2>1, <3>1
  <2> QED
    BY <2>2, <2>3
<1>18. ASSUME Cover, NEW q \in used \ {p} PROVE \E j \in 0 .. num - 2 : Child(j)' = q
  <2>1. PICK a \in 0 .. num - 1 : Child(a) = q
    BY <1>18 DEF Cover
  <2>2. a # pos
    BY <1>2, <2>1
  <2>3. CASE a < pos
    <3>1. a \in 0 .. num - 2
      BY <1>2, <1>3, <2>3
    <3> QED
      BY <1>9, <2>1, <2>3, <3>1
  <2>4. CASE pos < a
    <3>1. a - 1 \in 0 .. num - 2 /\ pos <= a - 1 /\ (a - 1) + 1 = a
      BY <1>2, <1>3, <2>4
    <3> QED
      BY <1>10, <2>1, <3>1
  <2> QED
    BY <1>2, <1>3, <2>2, <2>3, <2>4
<1>19. ASSUME NEW i \in 0 .. num - 2, NEW j \in 0 .. num - 2, i < j
       PROVE  Child(i)' # Child(j)' /\ KeyOf(i)' <= KeyOf(j)'
  <2>1. PICK a \in 0 .. num - 1 : /\ a = IF i < pos THEN i ELSE i + 1
                                 /\ Child(i)' = Child(a) /\ KeyOf(i)' = KeyOf(a)
    BY <1>11
  <2>2. PICK b \in 0 .. num - 1 : /\ b = IF j < pos THEN j ELSE j + 1
                                 /\ Child(j)' = Child(b) /\ KeyOf(j)' = KeyOf(b)
    BY <1>11
  <2>3. a < b
    BY <1>2, <1>3, <1>19, <2>1, <2>2
  <2> QED
    BY <1>6, <2>1, <2>2, <2>3
<1>20. Row'
  <2>1. ASSUME NEW j \in 0 .. num - 2 PROVE Child(j)' \in used' /\ KeyOf(j)' \in Key
    <3>1. PICK a \in 0 .. num - 1 : a # pos /\ Child(j)' = Child(a) /\ KeyOf(j)' = KeyOf(a)
      BY <1>11
    <3> QED
      BY <1>4, <1>6, <1>12, <3>1
  <2> QED
    BY <1>8, <1>16, <1>17, <1>19, <2>1 DEF Row, ParentAt, ChildAt
<1>21. Cover => Cover'
  BY <1>4, <1>8, <1>18 DEF Cover
<1> QED
  BY <1>0, <1>7, <1>13, <1>14, <1>15, <1>20, <1>21
-----------------------------------------------------------------------------
\* The new leaf is counted, in the row or not.
LEMMA InsertCounts ==
  ASSUME TreeInv, NEW k \in Key, FreePages # {},
         leaf' = WithLeaf(k), used' = used \cup {NewLeaf}, Added(k)
  PROVE  Counted'
<1> DEFINE of(h) == {p \in used : leaf[p].key = h}
<1>0. PICK p : p = NewLeaf
  OBVIOUS
<1>1. /\ p \in Page \ used /\ used \subseteq Page /\ IsFiniteSet(used)
      /\ leaf \in [Page -> [key : Key \cup {0}, parent : Page \cup {Root}]]
      /\ entries \in [Key -> Nat]
      /\ \A q \in used : leaf[q].key \in Key
      /\ \A h \in Key : entries[h] = Cardinality(of(h))
  BY <1>0, NewLeafIsFree DEF TreeInv, Types, Counted
<1>2. /\ leaf' = [leaf EXCEPT ![p] = [key |-> k, parent |-> Root]]
      /\ used' = used \cup {p}
      /\ entries' = [entries EXCEPT ![k] = @ + 1]
  BY <1>0 DEF WithLeaf, Added
<1>3. ASSUME NEW h \in Key
      PROVE  entries'[h] = Cardinality({q \in used' : leaf'[q].key = h})
  <2> DEFINE now == {q \in used' : leaf'[q].key = h}
  <2>1. leaf'[p].key = k /\ \A q \in used : leaf'[q] = leaf[q]
    BY <1>1, <1>2
  <2>2. IsFiniteSet(of(h)) /\ p \notin of(h)
    BY <1>1, FS_Subset
  <2>3. CASE h = k
    <3>1. now = of(h) \cup {p}
      BY <1>2, <2>1, <2>3
    <3>2. Cardinality(now) = Cardinality(of(h)) + 1
      BY <2>2, <3>1, FS_AddElement
    <3> QED
      BY <1>1, <1>2, <2>3, <3>2
  <2>4. CASE h # k
    <3>1. now = of(h)
      BY <1>2, <2>1, <2>4
    <3> QED
      BY <1>1, <1>2, <2>4, <3>1
  <2> QED
    BY <2>3, <2>4
<1>4. \A q \in used' : leaf'[q].key \in Key
  BY <1>1, <1>2
<1> QED
  BY <1>3, <1>4 DEF Counted

LEMMA DeleteCounts ==
  ASSUME TreeInv, NEW k \in Key, Delete(k)
  PROVE  Counted'
<1> DEFINE of(h) == {p \in used : leaf[p].key = h}
<1>0. PICK p : p = btree_search(k)
  OBVIOUS
<1>1. /\ p \in used /\ leaf[p].key = k /\ IsFiniteSet(used)
      /\ entries \in [Key -> Nat]
      /\ \A q \in used : leaf[q].key \in Key
      /\ \A h \in Key : entries[h] = Cardinality(of(h))
  BY <1>0, DeleteRow DEF TreeInv, Types, Counted
<1>2. /\ leaf' = leaf /\ used' = used \ {p}
      /\ entries' = [entries EXCEPT ![k] = @ - 1]
  BY <1>0 DEF Delete
<1>3. ASSUME NEW h \in Key
      PROVE  entries'[h] = Cardinality({q \in used' : leaf'[q].key = h})
  <2> DEFINE now == {q \in used' : leaf'[q].key = h}
  <2>1. now = of(h) \ {p}
    BY <1>2
  <2>2. IsFiniteSet(of(h))
    BY <1>1, FS_Subset
  <2>3. Cardinality(now) = IF p \in of(h) THEN Cardinality(of(h)) - 1
                           ELSE Cardinality(of(h))
    BY <2>1, <2>2, FS_RemoveElement
  <2>4. CASE h = k
    BY <1>1, <1>2, <2>3, <2>4
  <2>5. CASE h # k
    BY <1>1, <1>2, <2>3, <2>5
  <2> QED
    BY <2>4, <2>5
<1>4. \A q \in used' : leaf'[q].key \in Key
  BY <1>1, <1>2
<1> QED
  BY <1>3, <1>4 DEF Counted
-----------------------------------------------------------------------------
LEMMA TreeInvInit == Init => TreeInv
<1> SUFFICES ASSUME Init PROVE TreeInv
  OBVIOUS
<1>1. /\ num = 0 /\ used = {} /\ inner = {} /\ MaxKeys \in Nat
      /\ word = [o \in Offset |-> 0] /\ entries = [k \in Key |-> 0]
      /\ leaf = [p \in Page |-> [key |-> 0, parent |-> 0]]
  BY BTreeConstants DEF Init
<1>2. Types
  BY <1>1, FS_EmptySet DEF Types, Root
<1>3. Offset = 0 .. 2 * MaxKeys + 1 /\ ParentAt = 2 * MaxKeys + 1
  BY <1>1 DEF Offset, ParentAt, ChildAt
<1>4. \A o \in Offset : word[o] = 0
  BY <1>1
<1>5. Row
  <2>1. ASSUME NEW j \in 0 .. MaxKeys PROVE Child(j) = 0
    <3>1. ChildAt(j) \in Offset
      BY <1>1, <1>3 DEF ChildAt
    <3> QED
      BY <1>4, <3>1 DEF Child
  <2>2. word[ParentAt] = 0
    BY <1>1, <1>3, <1>4
  <2> QED
    BY <1>1, <2>1, <2>2 DEF Row
<1>6. Keys
  BY <1>1, <1>3, <1>4 DEF Keys, KeyAt
<1>7. Counted
  BY <1>1, FS_EmptySet DEF Counted
<1> QED
  BY <1>2, <1>5, <1>6, <1>7 DEF TreeInv

\* Nothing of the tree depends on whether the process is alive.
LEMMA TreeInvSame ==
  ASSUME TreeInv, UNCHANGED <<num, word, leaf, used, inner, entries>>
  PROVE  TreeInv'
BY DEF TreeInv, Types, Row, Keys, Counted, KeyOf, Child

-----------------------------------------------------------------------------
(*************************************************************************)
(* Entries adds up over the hashes what the directory holds of each,     *)
(* which is the number of leaves in use.                                 *)
(*************************************************************************)

\* The leaves in use whose key is in S.
Leaves(S) == {p \in used : leaf[p].key \in S}

IsTally(n) == n = [S \in SUBSET Key |->
                     IF S = {} THEN 0
                     ELSE LET k == CHOOSE k \in S : TRUE IN entries[k] + n[S \ {k}]]

LEMMA LeavesOfOneMore ==
  ASSUME Types, Counted, NEW S \in SUBSET Key, NEW k \in S
  PROVE  /\ IsFiniteSet(Leaves(S)) /\ Cardinality(Leaves(S)) \in Nat
         /\ Cardinality(Leaves(S)) = entries[k] + Cardinality(Leaves(S \ {k}))
<1> DEFINE of == {p \in used : leaf[p].key = k}
           rest == Leaves(S \ {k})
<1>1. Leaves(S) = of \cup rest /\ of \cap rest = {}
  BY DEF Leaves
<1>2. IsFiniteSet(of) /\ IsFiniteSet(rest) /\ IsFiniteSet(Leaves(S))
  BY FS_Subset DEF Types, Leaves
<1>3. entries[k] = Cardinality(of)
  BY DEF Counted
<1> HIDE DEF of, rest
<1>4. /\ Cardinality(of) \in Nat /\ Cardinality(rest) \in Nat
      /\ Cardinality(Leaves(S)) \in Nat
  BY <1>2, FS_CardinalityType
<1>5. Cardinality(of \cup rest) = Cardinality(of) + Cardinality(rest)
                                    - Cardinality(of \cap rest)
  BY <1>2, FS_Union
<1>6. Cardinality(of \cap rest) = 0
  BY <1>1, FS_EmptySet
<1> QED
  BY <1>1, <1>2, <1>3, <1>4, <1>5, <1>6 DEF rest

\* The sum exists: it counts the leaves.
LEMMA TallyExists ==
  ASSUME Types, Counted
  PROVE  IsTally([S \in SUBSET Key |-> Cardinality(Leaves(S))])
<1> DEFINE f == [S \in SUBSET Key |-> Cardinality(Leaves(S))]
<1>1. ASSUME NEW S \in SUBSET Key
      PROVE  f[S] = IF S = {} THEN 0
                    ELSE LET k == CHOOSE k \in S : TRUE IN entries[k] + f[S \ {k}]
  <2>1. CASE S = {}
    <3>1. Leaves(S) = {}
      BY <2>1 DEF Leaves
    <3> QED
      BY <2>1, <3>1, FS_EmptySet
  <2>2. CASE S # {}
    <3> DEFINE k == CHOOSE k \in S : TRUE
    <3>1. k \in S
      BY <2>2
    <3> HIDE DEF k
    <3>2. Cardinality(Leaves(S)) = entries[k] + Cardinality(Leaves(S \ {k}))
      BY <3>1, LeavesOfOneMore
    <3>3. f[S] = entries[k] + f[S \ {k}]
      BY <3>2
    <3> QED
      BY <2>2, <3>3 DEF k
  <2> QED
    BY <2>1, <2>2
<1>2. f = [S \in SUBSET Key |-> f[S]]
  OBVIOUS
<1> HIDE DEF f
<1>3. f = [S \in SUBSET Key |->
             IF S = {} THEN 0
             ELSE LET k == CHOOSE k \in S : TRUE IN entries[k] + f[S \ {k}]]
  BY <1>1, <1>2
<1> QED
  BY <1>3 DEF IsTally, f

\* And there is no other.
LEMMA TallyIsUnique ==
  ASSUME Types, Counted, NEW n, IsTally(n), NEW S \in SUBSET Key
  PROVE  n[S] = Cardinality(Leaves(S))
<1> DEFINE Wrong == {m \in Nat : \E T \in SUBSET Key : /\ Cardinality(T) = m
                                                       /\ n[T] # Cardinality(Leaves(T))}
<1> SUFFICES ASSUME n[S] # Cardinality(Leaves(S)) PROVE FALSE
  OBVIOUS
<1>0. \A T \in SUBSET Key : IsFiniteSet(T) /\ Cardinality(T) \in Nat
  BY BTreeConstants, FS_Subset, FS_CardinalityType
<1>1. Wrong \in SUBSET Nat /\ Wrong # {}
  BY <1>0
<1>2. PICK m \in Wrong : \A x \in Wrong : m <= x
  BY <1>1, LeastNumber
<1>3. PICK T \in SUBSET Key : Cardinality(T) = m /\ n[T] # Cardinality(Leaves(T))
  BY <1>2
<1>4. n[T] = IF T = {} THEN 0
             ELSE LET k == CHOOSE k \in T : TRUE IN entries[k] + n[T \ {k}]
  BY DEF IsTally
<1>5. CASE T = {}
  <2>1. Leaves(T) = {}
    BY <1>5 DEF Leaves
  <2> QED
    BY <1>3, <1>4, <1>5, <2>1, FS_EmptySet
<1>6. CASE T # {}
  <2> DEFINE k == CHOOSE k \in T : TRUE
  <2>1. k \in T /\ n[T] = entries[k] + n[T \ {k}]
    BY <1>4, <1>6
  <2> HIDE DEF k
  <2>2. Cardinality(T \ {k}) = m - 1 /\ m \in Nat /\ T \ {k} \in SUBSET Key
    BY <1>0, <1>3, <2>1, FS_RemoveElement
  <2>3. Cardinality(T \ {k}) \in Nat
    BY <1>0, <2>2
  <2>4. n[T \ {k}] = Cardinality(Leaves(T \ {k}))
    <3> SUFFICES ASSUME n[T \ {k}] # Cardinality(Leaves(T \ {k})) PROVE FALSE
      OBVIOUS
    <3>1. m - 1 \in Wrong
      BY <2>2, <2>3
    <3>2. m <= m - 1
      BY <1>2, <3>1
    <3> QED
      BY <2>2, <3>2
  <2>5. Cardinality(Leaves(T)) = entries[k] + Cardinality(Leaves(T \ {k}))
    BY <2>1, LeavesOfOneMore
  <2> QED
    BY <1>3, <2>1, <2>4, <2>5
<1> QED
  BY <1>5, <1>6

LEMMA EntriesAreLeaves ==
  ASSUME Types, Counted
  PROVE  /\ Entries = Cardinality(used) /\ Entries \in Nat
         /\ \A k \in Key : entries[k] <= Entries
<1>1. Entries = (CHOOSE n : IsTally(n))[Key]
  BY DEF Entries, IsTally
<1>2. IsTally(CHOOSE n : IsTally(n))
  BY TallyExists
<1>3. Entries = Cardinality(Leaves(Key))
  BY <1>1, <1>2, TallyIsUnique
<1>4. Leaves(Key) = used
  BY DEF Leaves, Counted
<1>5. IsFiniteSet(used) /\ Cardinality(used) \in Nat
  BY FS_CardinalityType DEF Types
<1>6. ASSUME NEW k \in Key PROVE entries[k] <= Cardinality(used)
  <2> DEFINE of == {p \in used : leaf[p].key = k}
  <2>1. entries[k] = Cardinality(of) /\ of \subseteq used
    BY DEF Counted
  <2> HIDE DEF of
  <2> QED
    BY <1>5, <2>1, FS_Subset
<1> QED
  BY <1>3, <1>4, <1>5, <1>6
-----------------------------------------------------------------------------
\* A leaf that goes to the end of a full root is lost to the row and changes
\* nothing in it.
LEMMA AtEndKeepsTree ==
  ASSUME TreeInv, NEW k \in Key, InsertAtEnd(k)
  PROVE  TreeInv'
<1>0. PICK p : p = NewLeaf
  OBVIOUS
<1>1. /\ p \in Page \ used /\ used \subseteq Page /\ IsFiniteSet(used) /\ inner = {}
      /\ leaf \in [Page -> [key : Key \cup {0}, parent : Page \cup {Root}]]
      /\ word \in [Offset -> Nat] /\ entries \in [Key -> Nat] /\ 0 \notin Page
      /\ num \in Nat /\ MaxKeys \in Nat /\ num <= MaxKeys
  BY <1>0, NewLeafIsFree, BTreeConstants DEF TreeInv, Types, InsertAtEnd
<1>2. /\ leaf' = [leaf EXCEPT ![p] = [key |-> k, parent |-> Root]]
      /\ used' = used \cup {p} /\ entries' = [entries EXCEPT ![k] = @ + 1]
      /\ num' = num /\ inner' = inner
      /\ word' = btree_update_parent_keys(word, num, leaf')
  BY <1>0 DEF InsertAtEnd, WithLeaf, Added
<1>3. /\ leaf' \in [Page -> [key : Key \cup {0}, parent : Page \cup {Root}]]
      /\ \A q \in used : leaf'[q] = leaf[q]
  <2>1. [key |-> k, parent |-> Root] \in [key : Key \cup {0}, parent : Page \cup {Root}]
    OBVIOUS
  <2> QED
    BY <1>1, <1>2, <2>1
<1>4. \A j \in 0 .. num - 1 : Child(j) \in used /\ word[KeyAt(j)] = KeyOf(j)
  BY DEF TreeInv, Row, Keys
<1>5. word' = word
  <2>1. word' = [o \in Offset |-> IF o < num /\ word[ChildAt(o)] # 0
                                 THEN leaf'[word[ChildAt(o)]].key ELSE word[o]]
    BY <1>2 DEF btree_update_parent_keys
  <2>2. ASSUME NEW o \in Offset, o < num PROVE leaf'[word[ChildAt(o)]].key = word[o]
    <3>1. o \in 0 .. num - 1
      BY <1>1, <2>2 DEF Offset, ParentAt, ChildAt
    <3> QED
      BY <1>3, <1>4, <3>1 DEF KeyOf, Child, KeyAt
  <2> QED
    BY <1>1, <2>1, <2>2
<1>6. Types'
  <2>1. used' \subseteq Page /\ IsFiniteSet(used') /\ inner' = {}
    BY <1>1, <1>2, FS_AddElement
  <2>2. entries' \in [Key -> Nat]
    BY <1>1, <1>2
  <2>3. num' \in 0 .. MaxKeys
    BY <1>1, <1>2
  <2>4. word' \in [Offset -> Nat]
    BY ONLY <1>1, <1>5
  <2> QED
    BY <1>3, <2>1, <2>2, <2>3, <2>4 DEF Types, Offset, ParentAt, ChildAt
<1>7. Keys' /\ Row'
  <2>1. \A j : Child(j)' = Child(j)
    BY <1>5 DEF Child, ChildAt
  <2>2. \A j \in 0 .. num - 1 : KeyOf(j)' = KeyOf(j)
    BY <1>3, <1>4, <2>1 DEF KeyOf
  <2>3. Keys'
    BY <1>2, <1>5, <2>2 DEF TreeInv, Keys, KeyAt
  <2>4. Row'
    BY <1>2, <1>5, <2>1, <2>2 DEF TreeInv, Row, ParentAt, ChildAt
  <2> QED
    BY <2>3, <2>4
<1>8. Counted'
  BY InsertCounts DEF InsertAtEnd
<1> QED
  BY <1>6, <1>7, <1>8 DEF TreeInv

LEMMA KeyAtFirstChild ==
  ASSUME word'[ChildAt(0)] \in Key, MaxKeys \in Nat
  PROVE  Corrupt'
<1>1. Child(0)' = word'[ChildAt(0)]
  BY DEF Child, ChildAt
<1>2. 0 \in 0 .. MaxKeys
  OBVIOUS
<1>3. word'[ChildAt(0)] \notin Page \cup {0}
  BY BTreeConstants
<1> QED
  BY <1>1, <1>2, <1>3 DEF Corrupt

\* What the loops of btree_insert_nonfull do to the words of a full root: the
\* last key runs into the place of the first child, unless the new leaf takes
\* that place.
LEMMA SplitWords ==
  ASSUME TreeInv, NEW k \in Key, num = MaxKeys, NEW p \in Page,
         ~(word[KeyAt(MaxKeys - 1)] < k /\ Child(MaxKeys) = 0)
  PROVE  LET v == btree_insert_nonfull(k, p)
             pos == child_pos(k)
         IN  /\ v \in [Offset -> Nat]
             /\ pos # 0 => v[ChildAt(0)] = word[KeyAt(MaxKeys - 1)]
             /\ pos = 0 => /\ v[ChildAt(0)] = p
                           /\ \A o \in 1 .. MaxKeys : v[ChildAt(o)] = Child(o - 1)
<1>0. PICK pos, v : pos = child_pos(k) /\ v = btree_insert_nonfull(k, p)
  OBVIOUS
<1>1. /\ MaxKeys \in Nat /\ MaxKeys >= 4 /\ k \in Nat /\ Types /\ Row /\ Keys
      /\ Key \subseteq Nat \ {0} /\ p \in Nat
      /\ word \in [Offset -> Nat] /\ Offset = 0 .. 2 * MaxKeys + 1
  BY BTreeConstants DEF TreeInv, Types, Offset, ParentAt, ChildAt
<1>2. MaxKeys - 1 \in 0 .. MaxKeys - 1
  BY <1>1
<1>3. /\ Child(MaxKeys) = 0
      /\ word[KeyAt(MaxKeys - 1)] = KeyOf(MaxKeys - 1)
      /\ KeyOf(MaxKeys - 1) \in Key
  BY <1>1, <1>2 DEF Row, Keys
\* The key is not greater than the root's last, so its place is before it.
<1>4. pos \in 0 .. MaxKeys - 1
  <2>1. ~(KeyOf(MaxKeys - 1) < k)
    BY <1>3
  <2>2. /\ pos \in 0 .. num
        /\ \A j \in 0 .. num - 1 : j < pos => KeyOf(j) < k
    BY <1>0, <1>1, ChildPos
  <2> QED
    BY <1>1, <1>2, <2>1, <2>2
<1> DEFINE moved == [o \in Offset |->
                      IF o \in ChildAt(pos + 1) .. ChildAt(num + 1)
                      THEN word[o - 1] ELSE word[o]]
           keys == [o \in Offset |->
                      IF o \in KeyAt(pos + 1) .. KeyAt(num) THEN moved[o - 1]
                      ELSE moved[o]]
<1>5. v = [keys EXCEPT ![ChildAt(pos)] = p]
  BY <1>0 DEF btree_insert_nonfull
<1>6. moved \in [Offset -> Nat]
  <2>1. ASSUME NEW o \in Offset, o \in ChildAt(pos + 1) .. ChildAt(num + 1)
        PROVE  o - 1 \in Offset
    BY <1>1, <1>4, <2>1 DEF ChildAt
  <2> QED
    BY <1>1, <2>1
<1>7. /\ moved[MaxKeys - 1] = word[MaxKeys - 1]
      /\ pos = 0 => \A o \in 1 .. MaxKeys : moved[ChildAt(o)] = Child(o - 1)
  <2>1. moved[MaxKeys - 1] = word[MaxKeys - 1]
    BY <1>1, <1>4 DEF ChildAt
  <2>2. ASSUME pos = 0, NEW o \in 1 .. MaxKeys PROVE moved[ChildAt(o)] = Child(o - 1)
    <3>1. /\ ChildAt(o) \in ChildAt(pos + 1) .. ChildAt(num + 1)
          /\ ChildAt(o) \in Offset /\ ChildAt(o) - 1 = ChildAt(o - 1)
      BY <1>1, <2>2 DEF ChildAt
    <3> QED
      BY <3>1 DEF Child
  <2> QED
    BY <2>1, <2>2
<1> HIDE DEF moved
<1>8. keys \in [Offset -> Nat]
  <2>1. ASSUME NEW o \in Offset, o \in KeyAt(pos + 1) .. KeyAt(num)
        PROVE  o - 1 \in Offset
    BY <1>1, <1>4, <2>1 DEF KeyAt
  <2> QED
    BY <1>1, <1>6, <2>1
\* The loop over the keys runs into the children.
<1>9. /\ keys[MaxKeys] = word[MaxKeys - 1]
      /\ \A o \in 1 .. MaxKeys : keys[ChildAt(o)] = moved[ChildAt(o)]
  <2>1. keys[MaxKeys] = word[MaxKeys - 1]
    BY <1>1, <1>4, <1>7 DEF KeyAt
  <2>2. ASSUME NEW o \in 1 .. MaxKeys PROVE keys[ChildAt(o)] = moved[ChildAt(o)]
    <3>1. ChildAt(o) \in Offset /\ ~(ChildAt(o) \in KeyAt(pos + 1) .. KeyAt(num))
      BY <1>1 DEF ChildAt, KeyAt
    <3> QED
      BY <3>1
  <2> QED
    BY <2>1, <2>2
<1> HIDE DEF keys
<1>10. ChildAt(pos) \in Offset
  BY <1>1, <1>4 DEF ChildAt
<1>11. /\ v \in [Offset -> Nat] /\ v[ChildAt(pos)] = p
       /\ \A o \in Offset : o # ChildAt(pos) => v[o] = keys[o]
  BY <1>1, <1>5, <1>8, <1>10
<1>12. ASSUME pos # 0 PROVE v[ChildAt(0)] = word[KeyAt(MaxKeys - 1)]
  <2>1. ChildAt(0) = MaxKeys /\ MaxKeys \in Offset /\ MaxKeys # ChildAt(pos)
    BY <1>1, <1>4, <1>12 DEF ChildAt
  <2> QED
    BY <1>9, <1>11, <2>1 DEF KeyAt
<1>13. ASSUME pos = 0, NEW o \in 1 .. MaxKeys PROVE v[ChildAt(o)] = Child(o - 1)
  <2>1. ChildAt(o) \in Offset /\ ChildAt(o) # ChildAt(pos)
    BY <1>1, <1>13 DEF ChildAt
  <2> QED
    BY <1>7, <1>9, <1>11, <1>13, <2>1
<1> QED
  BY <1>0, <1>11, <1>12, <1>13

\* The keys of the leaves stay what they are when a split hands them to new
\* parents.
LEMMA SplitLeaves ==
  ASSUME TreeInv, NEW k \in Key, InsertSplit(k)
  PROVE  /\ leaf' \in [Page -> [key : Key \cup {0}, parent : Page \cup {Root}]]
         /\ used' \subseteq Page /\ inner' \subseteq used'
         /\ \A q \in used : leaf'[q].key = leaf[q].key
<1> DEFINE p == NewLeaf
           a == Lowest(FreePages \ {p})
           b == Lowest(FreePages \ {p, a})
           side(q) == IF \E i \in 0 .. MinKeys : Child(i) = q THEN a ELSE b
           linked == {Child(j) : j \in 0 .. MaxKeys} \ {0}
<1>1. /\ leaf' = [q \in Page |->
                    IF q \in linked THEN [leaf[q] EXCEPT !.parent = side(q)]
                    ELSE WithLeaf(k)[q]]
      /\ used' = used \cup {p, a, b} /\ inner' = inner \cup {a, b}
      /\ Cardinality(FreePages) >= 3
  BY DEF InsertSplit
<1>2. /\ used \subseteq Page /\ inner = {} /\ Page \subseteq Nat
      /\ leaf \in [Page -> [key : Key \cup {0}, parent : Page \cup {Root}]]
  BY BTreeConstants DEF TreeInv, Types
\* There are the three pages that are taken.
<1>3. FreePages # {} /\ FreePages \ {p} # {} /\ FreePages \ {p, a} # {}
  <2>1. Cardinality({}) = 0 /\ IsFiniteSet({})
    BY FS_EmptySet
  <2>2. \A x : Cardinality({x}) = 1
    BY FS_Singleton
  <2>3. ASSUME NEW x, NEW y PROVE Cardinality({x, y}) \in {1, 2}
    <3>1. {x, y} = {x} \cup {y} /\ IsFiniteSet({x})
      BY FS_Singleton
    <3>2. Cardinality({x} \cup {y}) = IF y \in {x} THEN Cardinality({x})
                                     ELSE Cardinality({x}) + 1
      BY <3>1, FS_AddElement
    <3>3. Cardinality({x}) = 1
      BY <2>2
    <3> QED
      BY ONLY <3>1, <3>2, <3>3
  <2>0. Cardinality(FreePages) >= 3
    BY <1>1
  <2> HIDE DEF p, a
  <2>4. FreePages # {}
    BY ONLY <2>0, <2>1
  <2>5. FreePages \ {p} # {}
    <3> SUFFICES ASSUME FreePages \ {p} = {} PROVE FALSE
      OBVIOUS
    <3>1. FreePages = {p}
      BY <2>4
    <3>2. Cardinality(FreePages) = 1
      BY <2>2, <3>1
    <3> QED
      BY ONLY <2>0, <3>2
  <2>6. FreePages \ {p, a} # {}
    <3> SUFFICES ASSUME FreePages \ {p, a} = {} PROVE FALSE
      OBVIOUS
    <3>1. FreePages = {p, a} \/ FreePages = {p} \/ FreePages = {a}
      BY <2>4
    <3>2. Cardinality(FreePages) \in {1, 2}
      BY <2>2, <2>3, <3>1
    <3> QED
      BY ONLY <2>0, <3>2
  <2> QED
    BY <2>4, <2>5, <2>6
<1>4. p \in Page \ used /\ a \in Page /\ b \in Page
  <2>1. p \in Page \ used
    BY <1>3, NewLeafIsFree
  <2>2. /\ FreePages \ {p} \in SUBSET Nat /\ FreePages \ {p, a} \in SUBSET Nat
        /\ FreePages \subseteq Page
    BY <1>2 DEF FreePages
  <2> HIDE DEF p
  <2>3. a \in FreePages \ {p}
    BY <1>3, <2>2, LowestIsLeast
  <2> HIDE DEF a
  <2>4. b \in FreePages \ {p, a}
    BY <1>3, <2>2, LowestIsLeast
  <2> QED
    BY <2>1, <2>2, <2>3, <2>4
<1>5. WithLeaf(k) = [leaf EXCEPT ![p] = [key |-> k, parent |-> Root]]
  BY DEF WithLeaf
<1>6. \A q \in Page : side(q) \in Page
  BY <1>4
<1> HIDE DEF p, a, b, side, linked
<1>7. ASSUME NEW q \in Page
      PROVE  /\ leaf'[q] \in [key : Key \cup {0}, parent : Page \cup {Root}]
             /\ q \in used => leaf'[q].key = leaf[q].key
  <2>0. leaf[q] \in [key : Key \cup {0}, parent : Page \cup {Root}]
    BY <1>2
  <2>1. CASE q \in linked
    BY <1>1, <1>6, <2>0, <2>1
  <2>2. CASE q \notin linked /\ q = p
    <3>1. leaf'[q] = [key |-> k, parent |-> Root]
      BY <1>1, <1>2, <1>5, <2>2
    <3> QED
      BY <1>4, <2>2, <3>1
  <2>3. CASE q \notin linked /\ q # p
    <3>1. leaf'[q] = leaf[q]
      BY <1>1, <1>2, <1>5, <2>3
    <3> QED
      BY <2>0, <3>1
  <2> QED
    BY <2>1, <2>2, <2>3
<1>8. leaf' = [q \in Page |-> leaf'[q]]
  BY <1>1
<1> QED
  BY <1>1, <1>2, <1>4, <1>7, <1>8

\* An insertion before the end of a full root leaves a key where the root's
\* first child should be: either the last key has run into that place and
\* stays, or the new leaf is there and btree_update_parent_keys, which goes one
\* element too far, puts its last child's key over it.
LEMMA SplitCorrupts ==
  ASSUME TreeInv, NEW k \in Key, InsertSplit(k)
  PROVE  Corrupt' /\ word' \in [Offset -> Nat] /\ num' \in 0 .. MaxKeys + 1
<1>0. PICK p, pos, v : p = NewLeaf /\ pos = child_pos(k) /\ v = btree_insert_nonfull(k, p)
  OBVIOUS
<1>1. /\ num = MaxKeys /\ num' = num + 1 /\ MaxKeys \in Nat /\ MaxKeys >= 4
      /\ ~(word[KeyAt(MaxKeys - 1)] < k /\ Child(MaxKeys) = 0)
      /\ word' = IF v[ChildAt(0)] \in Page
                 THEN btree_update_parent_keys(v, num + 1, leaf') ELSE v
  BY <1>0, BTreeConstants DEF InsertSplit
<1>2. p \in Page /\ p \in Nat \ {0}
  <2>1. Cardinality(FreePages) >= 3
    BY DEF InsertSplit
  <2>2. FreePages # {}
    BY <2>1, FS_EmptySet
  <2> QED
    BY <1>0, <2>2, NewLeafIsFree
<1>3. /\ \A j \in 0 .. MaxKeys - 1 : /\ Child(j) \in used /\ KeyOf(j) \in Key
                                     /\ word[KeyAt(j)] = KeyOf(j)
      /\ Offset = 0 .. 2 * MaxKeys + 1 /\ 0 \notin used
      /\ Key \subseteq Nat \ {0} /\ Key \cap Page = {}
  BY <1>1, BTreeConstants DEF TreeInv, Types, Row, Keys, Offset, ParentAt, ChildAt
<1>4. /\ v \in [Offset -> Nat]
      /\ pos # 0 => v[ChildAt(0)] = word[KeyAt(MaxKeys - 1)]
      /\ pos = 0 => /\ v[ChildAt(0)] = p
                    /\ \A o \in 1 .. MaxKeys : v[ChildAt(o)] = Child(o - 1)
  BY <1>0, <1>1, <1>2, SplitWords
<1>5. MaxKeys - 1 \in 0 .. MaxKeys - 1 /\ ChildAt(0) = MaxKeys
  BY <1>1 DEF ChildAt
<1>6. num' \in 0 .. MaxKeys + 1
  BY <1>1
<1>7. CASE pos # 0
  <2>1. v[ChildAt(0)] \in Key
    BY <1>3, <1>4, <1>5, <1>7
  <2>2. word' = v
    BY <1>1, <1>3, <2>1
  <2> QED
    BY <1>1, <1>4, <1>6, <2>1, <2>2, KeyAtFirstChild
<1>8. CASE pos = 0
  <2>1. word' = [o \in Offset |-> IF o < num + 1 /\ v[ChildAt(o)] # 0
                                  THEN leaf'[v[ChildAt(o)]].key ELSE v[o]]
    BY <1>1, <1>2, <1>4, <1>8 DEF btree_update_parent_keys
  \* The children that btree_update_parent_keys goes through.
  <2>2. ASSUME NEW o \in 0 .. MaxKeys PROVE v[ChildAt(o)] \in Page
    <3>1. CASE o = 0
      BY <1>2, <1>4, <1>8, <3>1
    <3>2. CASE o # 0
      <4>1. o \in 1 .. MaxKeys /\ o - 1 \in 0 .. MaxKeys - 1
        BY <1>1, <3>2
      <4> QED
        BY <1>3, <1>4, <1>8, <4>1 DEF TreeInv, Types
    <3> QED
      BY <3>1, <3>2
  <2>3. word' \in [Offset -> Nat]
    <3>1. ASSUME NEW o \in Offset, o < num + 1 PROVE leaf'[v[ChildAt(o)]].key \in Nat
      <4>1. v[ChildAt(o)] \in Page
        BY <1>1, <1>3, <2>2, <3>1
      <4>2. leaf'[v[ChildAt(o)]].key \in Key \cup {0}
        BY <4>1, SplitLeaves
      <4>3. Key \cup {0} \subseteq Nat
        BY <1>3
      <4> QED
        BY ONLY <4>2, <4>3
    <3> QED
      BY <1>4, <2>1, <3>1
  <2>4. v[ChildAt(MaxKeys)] = Child(MaxKeys - 1) /\ MaxKeys \in Offset /\ MaxKeys < num + 1
    BY <1>1, <1>3, <1>4, <1>8
  <2>5. Child(MaxKeys - 1) \in used /\ KeyOf(MaxKeys - 1) \in Key
    BY <1>3, <1>5
  <2>6. word'[MaxKeys] = leaf'[Child(MaxKeys - 1)].key
    BY <1>3, <2>1, <2>4, <2>5
  <2>7. word'[ChildAt(0)] \in Key
    BY <1>5, <2>5, <2>6, SplitLeaves DEF KeyOf
  <2> QED
    BY <1>1, <1>6, <2>3, <2>7, KeyAtFirstChild
<1> QED
  BY <1>7, <1>8
-----------------------------------------------------------------------------
\* The tree, or an overrun root: the two are told apart by num_keys, and in an
\* overrun root a key stands in the place of a child.
IndexInv == TypeOK /\ (TreeInv \/ (Corrupt /\ num > MaxKeys))

LEMMA TypesAreOK ==
  ASSUME Types', phase' \in {"run", "dead"}, entries' \in [Key -> 0 .. MaxEntries]
  PROVE  TypeOK'
<1>1. MaxKeys \in Nat
  BY BTreeConstants
<1>2. num' \in 0 .. MaxKeys + 1
  BY <1>1 DEF Types
<1> QED
  BY <1>2 DEF Types, TypeOK

\* There is room for one more of any key while MAX_ENTRIES is not reached.
LEMMA AddedIsBounded ==
  ASSUME IndexInv, NEW k \in Key, MayInsert(k), Added(k)
  PROVE  entries' \in [Key -> 0 .. MaxEntries]
<1>1. Entries < MaxEntries /\ entries \in [Key -> 0 .. MaxEntries] /\ MaxEntries \in Nat
  BY BTreeConstants DEF IndexInv, TypeOK, MayInsert
<1>2. Entries \in Nat /\ entries[k] <= Entries
  BY EntriesAreLeaves DEF IndexInv, TreeInv, MayInsert
<1>3. entries[k] \in Nat /\ entries[k] + 1 \in 0 .. MaxEntries
  BY <1>1, <1>2
<1>4. entries' = [entries EXCEPT ![k] = entries[k] + 1]
  BY DEF Added
<1> QED
  BY <1>1, <1>3, <1>4

\* Each insertion and each deletion, and what it leaves.
LEMMA NonfullKeepsIndex ==
  ASSUME IndexInv, NEW k \in Key, InsertNonfull(k)
  PROVE  IndexInv' /\ TreeInv'
<1>1. TreeInv /\ MayInsert(k) /\ Added(k) /\ phase' = phase
  BY DEF IndexInv, InsertNonfull, MayInsert
<1>2. TreeInv'
  BY <1>1, InsertRow, InsertCounts DEF TreeInv, InsertNonfull
<1>3. phase' \in {"run", "dead"} /\ Types'
  BY <1>1, <1>2 DEF IndexInv, TypeOK, TreeInv
<1> QED
  BY <1>1, <1>2, <1>3, AddedIsBounded, TypesAreOK DEF IndexInv

LEMMA AtEndKeepsIndex ==
  ASSUME IndexInv, NEW k \in Key, InsertAtEnd(k)
  PROVE  IndexInv' /\ TreeInv'
<1>1. TreeInv /\ MayInsert(k) /\ Added(k) /\ phase' = phase
  BY DEF IndexInv, InsertAtEnd, MayInsert
<1>2. TreeInv'
  BY <1>1, AtEndKeepsTree
<1>3. phase' \in {"run", "dead"} /\ Types'
  BY <1>1, <1>2 DEF IndexInv, TypeOK, TreeInv
<1> QED
  BY <1>1, <1>2, <1>3, AddedIsBounded, TypesAreOK DEF IndexInv

LEMMA SplitKeepsIndex ==
  ASSUME IndexInv, NEW k \in Key, InsertSplit(k)
  PROVE  IndexInv' /\ num' > MaxKeys
<1>1. TreeInv /\ MayInsert(k) /\ Added(k) /\ phase' = phase
  BY DEF IndexInv, InsertSplit, MayInsert
<1>2. Corrupt' /\ word' \in [Offset -> Nat] /\ num' \in 0 .. MaxKeys + 1
  BY <1>1, SplitCorrupts
<1>3. TypeOK'
  BY <1>1, <1>2, SplitLeaves, AddedIsBounded DEF TypeOK, IndexInv, Offset, ParentAt, ChildAt
<1>4. num' > MaxKeys
  BY BTreeConstants DEF InsertSplit
<1> QED
  BY <1>2, <1>3, <1>4 DEF IndexInv

LEMMA DeleteKeepsIndex ==
  ASSUME IndexInv, NEW k \in Key, Delete(k)
  PROVE  IndexInv' /\ TreeInv'
<1>1. TreeInv /\ phase' = phase
  BY DEF IndexInv, Delete
<1>2. TreeInv'
  BY <1>1, DeleteRow, DeleteCounts DEF TreeInv
<1>3. entries[k] > 0 /\ entries' = [entries EXCEPT ![k] = entries[k] - 1]
  BY <1>1, DeleteRow DEF Delete
<1>4. entries' \in [Key -> 0 .. MaxEntries]
  <2>1. entries \in [Key -> 0 .. MaxEntries] /\ MaxEntries \in Nat
    BY BTreeConstants DEF IndexInv, TypeOK
  <2>2. entries[k] - 1 \in 0 .. MaxEntries
    BY <1>3, <2>1
  <2> QED
    BY <1>3, <2>1, <2>2
<1>5. phase' \in {"run", "dead"} /\ Types'
  BY <1>1, <1>2 DEF IndexInv, TypeOK, TreeInv
<1> QED
  BY <1>2, <1>4, <1>5, TypesAreOK DEF IndexInv

\* Nothing of the tree depends on whether the process is alive.
LEMMA SameKeepsIndex ==
  ASSUME IndexInv, UNCHANGED <<num, word, leaf, used, inner, entries>>,
         phase' \in {"run", "dead"}
  PROVE  IndexInv' /\ (TreeInv => TreeInv') /\ (Corrupt => Corrupt')
<1>1. TypeOK'
  BY DEF IndexInv, TypeOK, Offset, ParentAt, ChildAt
<1>2. TreeInv => TreeInv'
  BY TreeInvSame
<1>3. Corrupt => Corrupt'
  BY DEF Corrupt, Child, ChildAt
<1> QED
  BY <1>1, <1>2, <1>3 DEF IndexInv

LEMMA IndexNext ==
  ASSUME IndexInv, [Next]_vars
  PROVE  IndexInv'
<1>1. CASE UNCHANGED vars
  BY <1>1, SameKeepsIndex DEF vars, IndexInv, TypeOK
<1>2. CASE Next
  <2>1. PICK k \in Key : \/ InsertFaults(k) \/ InsertNonfull(k)
                         \/ InsertAtEnd(k) \/ InsertSplit(k) \/ SplitFaults(k)
                         \/ Delete(k) \/ FollowsKey
    BY <1>2 DEF Next, FollowsKey
  <2>2. CASE InsertFaults(k) \/ SplitFaults(k)
    BY <2>2, SameKeepsIndex DEF InsertFaults, SplitFaults, Die
  <2>3. CASE InsertNonfull(k)
    BY <2>3, NonfullKeepsIndex
  <2>4. CASE InsertAtEnd(k)
    BY <2>4, AtEndKeepsIndex
  <2>5. CASE InsertSplit(k)
    BY <2>5, SplitKeepsIndex
  <2>6. CASE Delete(k)
    BY <2>6, DeleteKeepsIndex
  <2>7. CASE FollowsKey
    BY <2>7, SameKeepsIndex DEF FollowsKey, Die
  <2> QED
    BY <2>1, <2>2, <2>3, <2>4, <2>5, <2>6, <2>7
<1> QED
  BY <1>1, <1>2

LEMMA IndexInit == Init => IndexInv
<1> SUFFICES ASSUME Init PROVE IndexInv
  OBVIOUS
<1>1. TreeInv
  BY TreeInvInit
<1>2. entries \in [Key -> 0 .. MaxEntries] /\ phase \in {"run", "dead"}
  BY BTreeConstants DEF Init
<1>3. num \in 0 .. MaxKeys + 1
  BY BTreeConstants DEF Init
<1> QED
  BY <1>1, <1>2, <1>3 DEF IndexInv, TypeOK, TreeInv, Types

\* Between the calls the children of the root are the sorted row of leaves in
\* use, with the keys that the root has for them, until an insertion before
\* the end of a full root destroys the row (btr.c:269-316, 400-447, 516-587).
THEOREM IndexIsATree == Spec => []IndexInv
<1>1. Init => IndexInv
  BY IndexInit
<1>2. IndexInv /\ [Next]_vars => IndexInv'
  BY IndexNext
<1> QED
  BY <1>1, <1>2, PTL DEF Spec

\* The variables keep their types: num_keys passes MAX_KEYS by at most one
\* (btr.c:309, 403-406).
THEOREM IndexTypeOK == Spec => []TypeOK
<1>1. IndexInv => TypeOK
  BY DEF IndexInv
<1> QED
  BY <1>1, IndexIsATree, PTL
-----------------------------------------------------------------------------
\* Before the arrays are run over there is the tree.
LEMMA NotOverrunIsATree ==
  ASSUME IndexInv, num <= MaxKeys
  PROVE  TreeInv
<1>1. num \in Int /\ MaxKeys \in Int /\ num <= MaxKeys
  BY BTreeConstants DEF IndexInv, TypeOK
<1>2. ~(num > MaxKeys)
  BY <1>1
<1> QED
  BY <1>2 DEF IndexInv

\* The facts about the row in the form the properties use.
LEMMA RowFacts ==
  ASSUME TreeInv
  PROVE  /\ num \in Nat /\ MaxKeys \in Nat /\ num <= MaxKeys /\ Child(num) = 0
         /\ \A j \in 0 .. num - 1 : Child(j) \in used /\ Child(j) # 0
         /\ \A i, j \in 0 .. num - 1 : Child(i) = Child(j) => i = j
<1>1. num \in Nat /\ MaxKeys \in Nat /\ num <= MaxKeys /\ 0 \notin used
  BY BTreeConstants DEF TreeInv, Types
<1>2. \A i, j \in 0 .. num - 1 : i < j => Child(i) # Child(j)
  BY DEF TreeInv, Row
<1>3. ASSUME NEW i \in 0 .. num - 1, NEW j \in 0 .. num - 1, i # j
      PROVE  Child(i) # Child(j)
  <2>1. i < j \/ j < i
    BY <1>1, <1>3
  <2> QED
    BY <1>2, <2>1
<1>4. Child(num) = 0 /\ \A j \in 0 .. num - 1 : Child(j) \in used
  BY <1>1 DEF TreeInv, Row
<1> QED
  BY <1>1, <1>3, <1>4

\* Until num_keys passes MAX_KEYS, which only an insertion before the end of a
\* full root makes it do, every slot of the root's children is empty or has a
\* leaf in use, each once: the tree stays one level deep, no key stands in the
\* place of a child, and nothing dangles into a page btree_delete has freed
\* (btr.c:293-309, 414-440, 583).
THEOREM IndexSingleLevel == Spec => []SingleLevel
<1>1. IndexInv => SingleLevel
  <2> SUFFICES ASSUME TreeInv, NEW j \in 0 .. MaxKeys, Child(j) # 0
               PROVE  /\ word[ParentAt] = 0
                      /\ Child(j) \in used \ inner
                      /\ \A i \in 0 .. MaxKeys : Child(i) = Child(j) => i = j
    <3>1. TreeInv => word[ParentAt] = 0
      BY DEF TreeInv, Row
    <3>2. IndexInv /\ Alive => TreeInv
      BY NotOverrunIsATree DEF Alive
    <3> QED
      BY <3>1, <3>2 DEF SingleLevel
  <2>1. ASSUME NEW i \in 0 .. MaxKeys, Child(i) # 0 PROVE i \in 0 .. num - 1
    <3>1. \A m \in num .. MaxKeys : Child(m) = 0
      BY DEF TreeInv, Row
    <3> QED
      BY <2>1, <3>1, RowFacts
  <2>2. word[ParentAt] = 0 /\ inner = {}
    BY DEF TreeInv, Row, Types
  <2> QED
    BY <2>1, <2>2, RowFacts
<1> QED
  BY <1>1, IndexIsATree, PTL

\* Until the root is overrun no name is found that the directory does not
\* hold: what is deleted stays deleted, also after entries were lost at the
\* end of a full root (btr.c:115-149, 576-587).
THEOREM IndexNoPhantom == Spec => []NoPhantom
<1>1. IndexInv => NoPhantom
  <2> SUFFICES ASSUME TreeInv, NEW k \in Key, Found(k) PROVE entries[k] > 0
    <3>1. IndexInv /\ Alive => TreeInv
      BY NotOverrunIsATree DEF Alive
    <3> QED
      BY <3>1 DEF NoPhantom
  <2> DEFINE S == {p \in used : leaf[p].key = k}
  <2>1. PICK j \in 0 .. num : Child(j) # 0 /\ leaf[Child(j)].key = k
    BY DEF Found, Matches
  <2>2. j \in 0 .. num - 1
    BY <2>1, RowFacts
  <2>3. Child(j) \in S
    BY <2>1, <2>2, RowFacts
  <2>4. IsFiniteSet(S) /\ S # {}
    BY <2>3, FS_Subset DEF TreeInv, Types
  <2>5. Cardinality(S) \in Nat /\ Cardinality(S) # 0
    BY <2>4, FS_CardinalityType, FS_EmptySet
  <2>6. entries[k] = Cardinality(S)
    BY DEF TreeInv, Counted
  <2> QED
    BY <2>5, <2>6
<1> QED
  BY <1>1, IndexIsATree, PTL

\* Until the root is overrun the keys by which btree_remove_key finds a child
\* are those of its children, in order (btr.c:382, 521).
THEOREM IndexKeysMatch == Spec => []KeysMatch
<1>1. IndexInv => KeysMatch
  <2> SUFFICES ASSUME TreeInv
               PROVE  /\ \A i \in 0 .. num - 1 :
                           /\ Child(i) # 0
                           /\ word[KeyAt(i)] = leaf[Child(i)].key
                           /\ i > 0 => word[KeyAt(i - 1)] <= word[KeyAt(i)]
                      /\ \A i \in num .. MaxKeys - 1 : word[KeyAt(i)] = 0
                      /\ \A j \in num .. MaxKeys : Child(j) = 0
    <3>1. IndexInv /\ Alive => TreeInv
      BY NotOverrunIsATree DEF Alive
    <3> QED
      BY <3>1 DEF KeysMatch
  <2>1. \A i \in 0 .. num - 1 : word[KeyAt(i)] = KeyOf(i)
    BY DEF TreeInv, Keys
  <2>2. ASSUME NEW i \in 0 .. num - 1, i > 0
        PROVE  word[KeyAt(i - 1)] <= word[KeyAt(i)]
    <3>1. i - 1 \in 0 .. num - 1 /\ i - 1 < i
      BY <2>2, RowFacts
    <3>2. KeyOf(i - 1) <= KeyOf(i)
      BY <3>1 DEF TreeInv, Row
    <3> QED
      BY <2>1, <3>1, <3>2
  <2>3. /\ \A i \in num .. MaxKeys - 1 : word[KeyAt(i)] = 0
        /\ \A j \in num .. MaxKeys : Child(j) = 0
    BY DEF TreeInv, Row, Keys
  <2> QED
    BY <2>1, <2>2, <2>3, RowFacts DEF KeyOf
<1> QED
  BY <1>1, IndexIsATree, PTL

-----------------------------------------------------------------------------
\* An index that has lost no leaf finds exactly the entries it was given and
\* holds exactly their pages.
LEMMA CoveredIsExact ==
  ASSUME TreeInv, Cover
  PROVE  ExactIndex /\ Cardinality(used) = num
<1>1. ASSUME NEW k \in Key
      PROVE  LET J == {j \in 0 .. num - 1 : leaf[Child(j)].key = k}
                 P == {p \in used \ inner : leaf[p].key = k}
             IN  entries[k] = Cardinality(J) /\ entries[k] = Cardinality(P)
  <2> DEFINE J == {j \in 0 .. num - 1 : leaf[Child(j)].key = k}
             P == {p \in used \ inner : leaf[p].key = k}
             f == [j \in J |-> Child(j)]
  <2>1. P = {p \in used : leaf[p].key = k} /\ entries[k] = Cardinality(P)
    <3>1. inner = {}
      BY DEF TreeInv, Types
    <3>2. entries[k] = Cardinality({p \in used : leaf[p].key = k})
      BY DEF TreeInv, Counted
    <3> QED
      BY <3>1, <3>2
  <2>2. f \in [J -> P]
    BY <2>1, RowFacts
  <2>3. \A i, j \in J : f[i] = f[j] => i = j
    BY RowFacts
  <2>4. ASSUME NEW p \in P PROVE \E j \in J : f[j] = p
    <3>1. PICK j \in 0 .. num - 1 : Child(j) = p
      BY <2>1 DEF Cover
    <3> QED
      BY <3>1
  <2>5. IsFiniteSet(J)
    <3>1. IsFiniteSet(0 .. num - 1)
      BY RowFacts, FS_Interval
    <3> QED
      BY <3>1, FS_Subset
  <2> HIDE DEF f, J, P
  <2>6. f \in Bijection(J, P)
    BY <2>2, <2>3, <2>4 DEF Bijection, Injection, Surjection, IsInjective
  <2>7. Cardinality(P) = Cardinality(J)
    BY <2>5, <2>6, FS_Bijection DEF ExistsBijection
  <2> QED
    BY <2>1, <2>7 DEF J, P
<1>2. Cardinality(used) = num
  <2> DEFINE I == 0 .. num - 1
             f == [j \in I |-> Child(j)]
  <2>1. f \in [I -> used] /\ \A i, j \in I : f[i] = f[j] => i = j
    BY RowFacts
  <2>2. \A p \in used : \E j \in I : f[j] = p
    BY DEF Cover
  <2>3. IsFiniteSet(I) /\ Cardinality(I) = num
    <3>1. num \in Nat /\ num - 1 \in Int
      BY RowFacts
    <3>2. /\ IsFiniteSet(0 .. num - 1)
          /\ Cardinality(0 .. num - 1) = IF 0 > num - 1 THEN 0 ELSE (num - 1) - 0 + 1
      BY <3>1, FS_Interval
    <3>3. CASE num = 0
      BY <3>2, <3>3
    <3>4. CASE num # 0
      <4>1. (num - 1) - 0 + 1 = num /\ ~(0 > num - 1)
        BY <3>1, <3>4
      <4> QED
        BY <3>2, <4>1
    <3> QED
      BY <3>3, <3>4
  <2> HIDE DEF f, I
  <2>4. f \in Bijection(I, used)
    BY <2>1, <2>2 DEF Bijection, Injection, Surjection, IsInjective
  <2> QED
    BY <2>3, <2>4, FS_Bijection DEF ExistsBijection
<1>3. ExactIndex
  BY <1>1 DEF ExactIndex
<1> QED
  BY <1>2, <1>3

LEMMA EntriesAreLeavesNext ==
  (Types /\ Counted => Entries \in Nat /\ Entries = Cardinality(used))'
<1>1. Types /\ Counted => Entries \in Nat /\ Entries = Cardinality(used)
  BY EntriesAreLeaves
<1> QED
  BY <1>1, PTL

\* A directory that has never held more than MAX_KEYS entries has lost none:
\* only an insertion into a full root loses a leaf, and that is one too many.
SmallInv == num <= MaxKeys => /\ peak \in Nat /\ Entries <= peak
                              /\ peak <= MaxKeys => Cover

LEMMA SmallNext ==
  ASSUME IndexInv, SmallInv, [MCNext]_<<vars, peak>>
  PROVE  SmallInv'
<1> SUFFICES ASSUME num' <= MaxKeys
             PROVE  /\ peak' \in Nat /\ Entries' <= peak'
                    /\ peak' <= MaxKeys => Cover'
  BY DEF SmallInv
<1>1. CASE UNCHANGED <<num, word, leaf, used, inner, entries>> /\ (peak' = peak \/ MCNext)
  <2>1. num <= MaxKeys /\ TreeInv /\ Entries' = Entries /\ (Cover => Cover')
    <3>1. num <= MaxKeys /\ TreeInv
      BY <1>1, NotOverrunIsATree
    <3>2. Entries' = Entries
      BY <1>1 DEF Entries
    <3>3. Cover => Cover'
      BY <1>1 DEF Cover, Child, ChildAt
    <3> QED
      BY <3>1, <3>2, <3>3
  <2>2. peak' = peak
    BY <1>1, <2>1, EntriesAreLeaves DEF SmallInv, MCNext, TreeInv
  <2> QED
    BY <2>1, <2>2 DEF SmallInv
<1>2. ASSUME MCNext, NEW k \in Key, InsertNonfull(k) \/ InsertAtEnd(k) \/ Delete(k)
      PROVE  /\ peak' \in Nat /\ Entries' <= peak'
             /\ peak' <= MaxKeys => Cover'
  <2>1. num <= MaxKeys /\ TreeInv /\ TreeInv'
    <3>1. ~Corrupt
      BY <1>2 DEF InsertNonfull, InsertAtEnd, Delete, MayInsert
    <3>2. TreeInv /\ TreeInv'
      BY <1>2, <3>1, NonfullKeepsIndex, AtEndKeepsIndex, DeleteKeepsIndex DEF IndexInv
    <3> QED
      BY <3>2, RowFacts
  <2>2. Entries \in Nat /\ Entries = Cardinality(used)
    BY <2>1, EntriesAreLeaves DEF TreeInv
  <2>3. Entries' \in Nat /\ Entries' = Cardinality(used')
    BY <2>1, EntriesAreLeavesNext DEF TreeInv
  <2>4. /\ peak \in Nat /\ Entries <= peak
        /\ peak <= MaxKeys => Cover
    BY <2>1 DEF SmallInv
  <2>5. peak' \in Nat /\ Entries' <= peak' /\ peak <= peak'
    <3>1. peak' = IF Entries' > peak THEN Entries' ELSE peak
      BY <1>2 DEF MCNext
    <3> QED
      BY <2>3, <2>4, <3>1
  <2>6. MaxKeys \in Nat
    BY BTreeConstants
  <2>7. ASSUME peak' <= MaxKeys PROVE Cover'
    <3>1. Cover
      BY <2>4, <2>5, <2>6, <2>7
    <3>2. CASE InsertNonfull(k)
      BY <2>1, <3>1, <3>2, InsertRow
    <3>3. CASE Delete(k)
      BY <2>1, <3>1, <3>3, DeleteRow
    \* The root is full, so this is one entry too many.
    <3>4. CASE InsertAtEnd(k)
      <4>1. Cardinality(used) = MaxKeys
        BY <2>1, <3>1, <3>4, CoveredIsExact DEF InsertAtEnd
      <4>2. Cardinality(used') = MaxKeys + 1
        <5>1. used' = used \cup {NewLeaf} /\ NewLeaf \notin used
          BY <3>4, NewLeafIsFree DEF InsertAtEnd
        <5>2. IsFiniteSet(used)
          BY <2>1 DEF TreeInv, Types
        <5> QED
          BY <4>1, <5>1, <5>2, FS_AddElement
      <4> QED
        BY <2>3, <2>5, <2>6, <2>7, <4>2
    <3> QED
      BY <1>2, <3>2, <3>3, <3>4
  <2> QED
    BY <2>5, <2>7
<1>3. CASE MCNext
  <2>1. PICK k \in Key : \/ InsertFaults(k) \/ InsertNonfull(k)
                         \/ InsertAtEnd(k) \/ InsertSplit(k) \/ SplitFaults(k)
                         \/ Delete(k) \/ FollowsKey
    BY <1>3 DEF MCNext, Next, FollowsKey
  <2>2. CASE InsertFaults(k) \/ SplitFaults(k) \/ FollowsKey
    BY <1>1, <1>3, <2>2 DEF InsertFaults, SplitFaults, FollowsKey, Die
  <2>3. CASE InsertSplit(k)
    <3>1. num' \in Int /\ MaxKeys \in Int /\ num' > MaxKeys
      BY <2>3, SplitKeepsIndex, BTreeConstants DEF IndexInv, TypeOK
    <3> QED
      BY <3>1
  <2>4. CASE InsertNonfull(k) \/ InsertAtEnd(k) \/ Delete(k)
    BY <1>2, <1>3, <2>4
  <2> QED
    BY <2>1, <2>2, <2>3, <2>4
<1>4. CASE UNCHANGED <<vars, peak>>
  BY <1>1, <1>4 DEF vars
<1> QED
  BY <1>3, <1>4

\* A directory that has never had more than MAX_KEYS entries finds exactly its
\* entries and holds exactly their pages, with duplicates of a hash
\* (btr.c:269-316, 400-447, 516-587).
THEOREM IndexSmallIsExact == MCSpec => []SmallIsExact
<1>1. MCInit => IndexInv /\ SmallInv
  <2> SUFFICES ASSUME MCInit PROVE IndexInv /\ SmallInv
    OBVIOUS
  <2>1. IndexInv /\ TreeInv
    BY IndexInit, TreeInvInit DEF MCInit
  <2>2. used = {} /\ peak = 0
    BY DEF MCInit, Init
  <2>3. Entries = 0
    BY <2>1, <2>2, EntriesAreLeaves, FS_EmptySet DEF TreeInv
  <2> QED
    BY <2>1, <2>2, <2>3 DEF SmallInv, Cover
<1>2. IndexInv /\ SmallInv /\ [MCNext]_<<vars, peak>> => (IndexInv /\ SmallInv)'
  <2>1. [MCNext]_<<vars, peak>> => [Next]_vars
    BY DEF MCNext
  <2> QED
    BY <2>1, IndexNext, SmallNext
<1>3. IndexInv /\ SmallInv => SmallIsExact
  <2> SUFFICES ASSUME IndexInv, SmallInv, peak <= MaxKeys, Alive PROVE ExactIndex
    BY DEF SmallIsExact, ExactIndex
  <2> QED
    BY NotOverrunIsATree, CoveredIsExact DEF SmallInv, Alive
<1> QED
  BY <1>1, <1>2, <1>3, PTL DEF MCSpec
=============================================================================
