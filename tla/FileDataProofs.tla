---------------------------- MODULE FileDataProofs ----------------------------
(***************************************************************************)
(* The contents of files, for every size of page, number of block pointers, *)
(* set of pages and length of a write.  The block pointers of an inode and  *)
(* the number of its indirect block are places; the invariant says which    *)
(* page may lie at two places, what the cells of a page hold, and what the  *)
(* disk has of an indirect block.  The loops of nbtrfs_write and           *)
(* nbtrfs_read are recursive functions: a lemma shows that the function     *)
(* exists, and the least turn at which something fails gives the induction. *)
(***************************************************************************)
EXTENDS FileData, WellFoundedInduction, FiniteSetTheorems, SequenceTheorems, TLAPS

\* The places of an inode: its page indexes and, last, its indirect block.
Place == 0 .. MaxIndex + 1
Ind == MaxIndex + 1

\* The page number at a place.
At(nd, pg, i) == IF i = Ind THEN nd.indirect ELSE inode_get_block(nd, pg, i).block

\* A page lies at one place, but for the indirect block that began as a leaf,
\* and is then in use and no leaf.
Apart(nds, u, lv, pg, stl) ==
  \A f \in File, i \in Place : At(nds[f], pg, i) \in Page =>
    /\ At(nds[f], pg, i) \in u \ lv
    /\ \A g \in File, j \in Place : At(nds[g], pg, j) = At(nds[f], pg, i) =>
         f = g /\ (i = j \/ (f \in stl /\ Ind \in {i, j}))

\* A page no file uses is as a leaf left it, or was never used.
Spare(u, lv, pg) == /\ \A p \in Page \ u : pg[p] \in {Zeros, Leaf(p)}
                    /\ \A p \in lv : pg[p] = Leaf(p)

PageNumbers(x) == x.type = "data" /\ \A w \in Word : x.word[w] \in {0} \cup Page

\* The indirect blocks that did not begin as leaves hold page numbers.
Numbers(nds, pg, stl) ==
  \A f \in File \ stl : nds[f].indirect # 0 => PageNumbers(pg[nds[f].indirect])

\* What the disk has: all that is announced, and of an indirect block what it
\* was before.
OnDisk(nds, pg, dt, sv) ==
  /\ \A p \in dt : sv[p] = pg[p]
  /\ \A p \in Page : (\A f \in File : nds[f].indirect # p) => sv[p] = pg[p]
  /\ \A f \in File : LET q == nds[f].indirect IN
       q # 0 => sv[q] = pg[q] \/ sv[q] = Zeros \/ sv[q].type = "node"

\* No file that began with a clean indirect block has an uncleared copy on disk.
CleanOnDisk(nds, pg, sv, stl) ==
  \A f \in File \ stl : LET q == nds[f].indirect IN
    q # 0 => sv[q] = pg[q] \/ sv[q] = Zeros

\* The cells of a page are what was written.
Cells(nds, pg, stl, wr) ==
  \A f \in File \ stl, i \in 0 .. MaxIndex : At(nds[f], pg, i) \in Page =>
    \A w \in Word : i * Usable + w \in Cell =>
      pg[At(nds[f], pg, i)].word[w] = wr[f][i * Usable + w]

\* What was written below the indirect block has a page.
Covered(nds, wr) ==
  \A f \in File, i \in 0 .. Direct - 1, w \in Word :
    i * Usable + w \in Cell /\ wr[f][i * Usable + w] # 0 => nds[f].direct[i] # 0

\* A file that has lost a page for want of an indirect block found the disk
\* full: the pages that are free since have been leaves.
Spent(nds, u, pg, wr) ==
  \A f \in File, i \in Direct .. MaxIndex, w \in Word :
    nds[f].indirect = 0 /\ i * Usable + w \in Cell /\ wr[f][i * Usable + w] # 0 =>
      \A p \in Page \ u : pg[p] # Zeros

\* Every page in use is a leaf or lies at a place.
NoneLost(nds, u, lv, pg) ==
  /\ \A f \in File : nds[f].indirect = 0
  /\ \A p \in u \ lv : \E f \in File, i \in Place : At(nds[f], pg, i) = p

FileInv == /\ TypeOK
           /\ Apart(node, used, leaves, page, stale)
           /\ Spare(used, leaves, page)
           /\ Numbers(node, page, stale)
           /\ OnDisk(node, page, dirty, saved)
           /\ CleanOnDisk(node, page, saved, stale)
           /\ Cells(node, page, stale, written)
           /\ Covered(node, written)
           /\ Spent(node, used, page, written)
           /\ (~past => NoneLost(node, used, leaves, page))
-----------------------------------------------------------------------------
LEMMA Division ==
  ASSUME NEW a \in Nat, NEW b \in Nat \ {0}
  PROVE  /\ a \div b \in Nat /\ a % b \in 0 .. b - 1
         /\ a = b * (a \div b) + (a % b)
OBVIOUS

\* A cell lies on one page, at one word of it.
LEMMA QuotientIsUnique ==
  ASSUME NEW i \in Nat, NEW b \in Nat \ {0}, NEW w \in 0 .. b - 1
  PROVE  (i * b + w) \div b = i /\ (i * b + w) % b = w
<1> DEFINE c == i * b + w
           q == c \div b
           r == c % b
<1>1. i * b \in Nat /\ c \in Nat
  OBVIOUS
<1>2. q \in Nat /\ r \in 0 .. b - 1 /\ c = b * q + r
  BY <1>1, Division
<1> HIDE DEF q, r
<1>3. ~(q < i)
  <2> SUFFICES ASSUME q < i PROVE FALSE
    OBVIOUS
  <2>1. PICK d \in Nat : i = q + 1 + d
    <3>1. i - q - 1 \in Nat /\ i = q + 1 + (i - q - 1)
      BY <1>2
    <3> QED
      BY <3>1
  <2>2. i * b = b * q + b + d * b /\ d * b \in Nat
    BY <1>2, <2>1
  <2> QED
    BY <1>1, <1>2, <2>2
<1>4. ~(i < q)
  <2> SUFFICES ASSUME i < q PROVE FALSE
    OBVIOUS
  <2>1. PICK d \in Nat : q = i + 1 + d
    <3>1. q - i - 1 \in Nat /\ q = i + 1 + (q - i - 1)
      BY <1>2
    <3> QED
      BY <3>1
  <2>2. b * q = i * b + b + d * b /\ d * b \in Nat
    BY <1>2, <2>1
  <2> QED
    BY <1>1, <1>2, <2>2
<1>5. q = i
  BY <1>2, <1>3, <1>4
<1> QED
  BY <1>1, <1>2, <1>5 DEF q, r

LEMMA CellAt ==
  ASSUME NEW i \in Nat, NEW w \in Word
  PROVE  /\ i * Usable + w \in Nat /\ (i * Usable + w) \div Usable = i
         /\ (i * Usable + w) % Usable = w
<1>1. Usable \in Nat \ {0} /\ w \in 0 .. Usable - 1
  BY FileDataConstants DEF Word
<1>2. i * Usable \in Nat
  BY <1>1
<1> QED
  BY <1>1, <1>2, QuotientIsUnique

LEMMA CellIsAt ==
  ASSUME NEW c \in Nat
  PROVE  /\ c \div Usable \in Nat /\ c % Usable \in Word
         /\ c = (c \div Usable) * Usable + (c % Usable)
<1>1. Usable \in Nat \ {0}
  BY FileDataConstants
<1>2. /\ c \div Usable \in Nat /\ c % Usable \in 0 .. Usable - 1
      /\ c = Usable * (c \div Usable) + (c % Usable)
  BY <1>1, Division
<1>3. Usable * (c \div Usable) = (c \div Usable) * Usable
  BY <1>1, <1>2
<1> QED
  BY <1>2, <1>3 DEF Word

LEMMA QuotientGrows ==
  ASSUME NEW a \in Nat, NEW b \in Nat, a <= b
  PROVE  a \div Usable \in Nat /\ b \div Usable \in Nat /\ a \div Usable <= b \div Usable
<1> DEFINE q == a \div Usable
           r == b \div Usable
           w == a % Usable
           z == b % Usable
<1>1. Usable \in Nat \ {0}
  BY FileDataConstants
<1>2. /\ q \in Nat /\ r \in Nat /\ w \in 0 .. Usable - 1 /\ z \in 0 .. Usable - 1
      /\ a = q * Usable + w /\ b = r * Usable + z
  BY CellIsAt DEF Word
<1> HIDE DEF q, r, w, z
<1> SUFFICES ASSUME r < q PROVE FALSE
  BY <1>2 DEF q, r
<1>3. PICK d \in Nat : q = r + 1 + d
  <2>1. q - r - 1 \in Nat /\ q = r + 1 + (q - r - 1)
    BY <1>2
  <2> QED
    BY <2>1
<1>4. q * Usable = r * Usable + Usable + d * Usable /\ d * Usable \in Nat
      /\ r * Usable \in Nat
  BY <1>1, <1>2, <1>3
<1> QED
  BY <1>1, <1>2, <1>4

\* A set of numbers has a least one.
LEMMA LeastNumber ==
  ASSUME NEW S \in SUBSET Nat, S # {}
  PROVE  \E n \in S : \A m \in S : n <= m
<1> DEFINE R == {ss \in Nat \X Nat : ss[1] < ss[2]}
<1>1. IsWellFoundedOn(R, Nat)
  BY NatLessThanWellFounded, Zenon DEF OpToRel
<1>2. \A x, y \in Nat : <<x, y>> \in R <=> x < y
  OBVIOUS
<1> HIDE DEF R
<1>3. PICK n \in S : \A m \in S : <<m, n>> \notin R
  BY <1>1, WFMin
<1>4. ASSUME NEW m \in S PROVE n <= m
  <2>1. m \in Nat /\ n \in Nat /\ ~(m < n)
    BY <1>2, <1>3
  <2> QED
    BY <2>1
<1> QED
  BY <1>4

\* What alloc_page returns is a free page.
LEMMA LowestFree ==
  ASSUME NEW u, Free(u) # {}
  PROVE  Min(Free(u)) \in Page \ u /\ Min(Free(u)) \in Nat \ {0}
<1>1. Free(u) \in SUBSET Nat
  BY FileDataConstants DEF Free
<1>2. PICK n \in Free(u) : \A m \in Free(u) : n <= m
  BY <1>1, LeastNumber
<1> QED
  BY <1>2, FileDataConstants DEF Min, Free
-----------------------------------------------------------------------------
LoopType == [node : NodeType, used : SUBSET Page, page : [Page -> PageType],
             dirty : SUBSET Page, target : {0} \cup Page, done : SUBSET Cell,
             going : BOOLEAN, wild : BOOLEAN]

\* A page of which the words that lie on page index i get what is written.
Fill(x, i, cs, v) ==
  [type |-> x.type,
   word |-> [w \in Word |-> IF i * Usable + w \in cs THEN v + (i * Usable + w) ELSE x.word[w]]]

\* An indirect block with its first entry.
Entered(x, i, p) == [type |-> "data", word |-> [x.word EXCEPT ![i - Direct] = p]]

LEMMA PageTypes ==
  /\ Zeros \in PageType /\ \A p \in Page : Leaf(p) \in PageType
  /\ \A x \in PageType, p \in Page, i \in Direct .. MaxIndex :
       /\ Entered(x, i, p) \in PageType /\ i - Direct \in Word
       /\ Entered(x, i, p).type = "data"
       /\ \A w \in Word : Entered(x, i, p).word[w] = IF w = i - Direct THEN p ELSE x.word[w]
  /\ \A x \in PageType, i \in Nat, v \in Value, cs \in SUBSET Cell :
       Fill(x, i, cs, v) \in PageType
<1>1. Zeros \in PageType
  BY DEF Zeros, PageType, Content
<1>2. \A p \in Page : Leaf(p) \in PageType
  BY DEF Leaf, PageType
<1>3. ASSUME NEW x \in PageType, NEW p \in Page, NEW i \in Direct .. MaxIndex
      PROVE  /\ Entered(x, i, p) \in PageType /\ i - Direct \in Word
             /\ Entered(x, i, p).type = "data"
             /\ \A w \in Word :
                  Entered(x, i, p).word[w] = IF w = i - Direct THEN p ELSE x.word[w]
  <2>1. i - Direct \in Word
    BY FileDataConstants DEF Word
  <2>2. x.word \in [Word -> {Junk} \cup Content \cup Page]
    BY DEF PageType
  <2>3. [x.word EXCEPT ![i - Direct] = p] \in [Word -> {Junk} \cup Content \cup Page]
    BY <2>1, <2>2
  <2> QED
    BY <2>1, <2>2, <2>3 DEF Entered, PageType
<1>4. ASSUME NEW x \in PageType, NEW i \in Nat, NEW v \in Value, NEW cs \in SUBSET Cell
      PROVE  Fill(x, i, cs, v) \in PageType
  <2>1. x.type \in {"data", "node"} /\ x.word \in [Word -> {Junk} \cup Content \cup Page]
    BY DEF PageType
  <2>2. ASSUME NEW w \in Word, i * Usable + w \in cs
        PROVE  v + (i * Usable + w) \in Content
    BY <2>2 DEF Content
  <2>3. [w \in Word |-> IF i * Usable + w \in cs THEN v + (i * Usable + w) ELSE x.word[w]]
          \in [Word -> {Junk} \cup Content \cup Page]
    BY <2>1, <2>2
  <2> QED
    BY <2>1, <2>3 DEF Fill, PageType
<1> QED
  BY <1>1, <1>2, <1>3, <1>4

\* What a call of inode_get_block returns is a word of an inode or a page.
LEMMA BlockType ==
  ASSUME NEW nd \in NodeType, NEW pg \in [Page -> PageType], NEW i \in Nat
  PROVE  /\ inode_get_block(nd, pg, i).block \in {Junk} \cup Content \cup Page
         /\ i < Direct => inode_get_block(nd, pg, i).block = nd.direct[i]
                          /\ nd.direct[i] \in {0} \cup Page
         /\ i > MaxIndex => inode_get_block(nd, pg, i).block = 0
         /\ (i \in Direct .. MaxIndex /\ nd.indirect # 0 /\ pg[nd.indirect].type = "data")
              => /\ inode_get_block(nd, pg, i) =
                      [ok |-> TRUE, block |-> pg[nd.indirect].word[i - Direct]]
                 /\ i - Direct \in Word
         /\ (i >= Direct /\ (nd.indirect = 0 \/ pg[nd.indirect].type # "data"))
              => inode_get_block(nd, pg, i).block = 0
<1>1. Direct \in Nat /\ MaxIndex \in Nat /\ MaxIndex >= Direct /\ MaxIndex - Direct < Usable
      /\ Usable \in Nat
  BY FileDataConstants
<1>2. nd.indirect \in {0} \cup Page /\ nd.direct \in [0 .. Direct - 1 -> {0} \cup Page]
  BY DEF NodeType
<1>3. 0 \in Content
  BY DEF Content
<1>4. CASE i < Direct
  <2>1. i \in 0 .. Direct - 1 /\ ~(i > MaxIndex) /\ ~(i >= Direct)
    BY <1>1, <1>4
  <2>2. inode_get_block(nd, pg, i).block = nd.direct[i]
    BY <1>1, <1>4, <2>1 DEF inode_get_block
  <2> QED
    BY <1>1, <1>2, <1>3, <2>1, <2>2
<1>5. CASE i \in Direct .. MaxIndex /\ nd.indirect # 0 /\ pg[nd.indirect].type = "data"
  <2>1. i - Direct \in Word /\ ~(i < Direct) /\ ~(i > MaxIndex)
    BY <1>1, <1>5 DEF Word
  <2>2. inode_get_block(nd, pg, i) = [ok |-> TRUE, block |-> pg[nd.indirect].word[i - Direct]]
    BY <1>5, <2>1 DEF inode_get_block
  <2>3. pg[nd.indirect] \in PageType
    BY <1>2, <1>5
  <2>4. pg[nd.indirect].word[i - Direct] \in {Junk} \cup Content \cup Page
    BY <2>1, <2>3 DEF PageType
  <2> QED
    BY <1>5, <2>1, <2>2, <2>4
<1>6. CASE ~(i < Direct) /\ ~(i \in Direct .. MaxIndex /\ nd.indirect # 0
                              /\ pg[nd.indirect].type = "data")
  <2>1. inode_get_block(nd, pg, i).block = 0
    BY <1>6 DEF inode_get_block
  <2> QED
    BY <1>1, <1>3, <1>6, <2>1
<1> QED
  BY <1>4, <1>5, <1>6
-----------------------------------------------------------------------------
(***************************************************************************)
(* One turn of nbtrfs_write's loop has one of five outcomes.               *)
(***************************************************************************)
Stops(st, r) == /\ r.node = st.node /\ r.used = st.used /\ r.page = st.page
                /\ r.dirty = st.dirty /\ r.done = st.done

Overwrites(st, r, i, cs, v) ==
  LET p == inode_get_block(st.node, st.page, i).block IN
  /\ p \in Page /\ r.dirty = st.dirty \cup {p} /\ r.done = st.done \cup cs
  /\ r.page[p] = Fill(st.page[p], i, cs, v)
  /\ \A x \in Page \ {p} : r.page[x] = st.page[x]
  /\ r.node = st.node /\ r.used = st.used

\* A page that is not in use is marked, cleared and written.
Allocates(st, r, i, cs, v, p) ==
  /\ inode_get_block(st.node, st.page, i).block = 0 /\ p \in Page \ st.used
  /\ r.dirty = st.dirty \cup {p} /\ r.done = st.done \cup cs
  /\ r.page[p] = Fill(Zeros, i, cs, v)

InDirect(st, r, i, p) ==
  /\ i < Direct /\ r.used = st.used \cup {p}
  /\ r.node.size = st.node.size /\ r.node.indirect = st.node.indirect
  /\ r.node.direct[i] = p
  /\ \A j \in (0 .. Direct - 1) \ {i} : r.node.direct[j] = st.node.direct[j]
  /\ \A x \in Page \ {p} : r.page[x] = st.page[x]

InIndirect(st, r, i, p, q) ==
  /\ i \in Direct .. MaxIndex /\ st.node.indirect = 0
  /\ q \in Page \ (st.used \cup {p}) /\ r.used = st.used \cup {p, q}
  /\ r.node.size = st.node.size /\ r.node.indirect = q
  /\ r.node.direct = st.node.direct
  /\ r.page[q] = Entered(st.page[q], i, p)
  /\ \A x \in Page \ {p, q} : r.page[x] = st.page[x]

Lost(st, r, i, p) ==
  /\ i >= Direct /\ r.used = st.used \cup {p} /\ r.node = st.node
  /\ i <= MaxIndex /\ st.node.indirect = 0 => Page \subseteq r.used
  /\ \A x \in Page \ {p} : r.page[x] = st.page[x]

TurnOutcome(st, r, i, cs, v) ==
  \/ Stops(st, r)
  \/ Overwrites(st, r, i, cs, v)
  \/ \E p \in Page : /\ Allocates(st, r, i, cs, v, p)
                     /\ \/ InDirect(st, r, i, p)
                        \/ \E q \in Page : InIndirect(st, r, i, p, q)
                        \/ Lost(st, r, i, p)

LEMMA TurnStops ==
  ASSUME NEW st \in LoopType, NEW w \in BOOLEAN, NEW r,
         r = [st EXCEPT !.going = FALSE, !.wild = @ \/ w]
  PROVE  r \in LoopType /\ Stops(st, r)
<1>1. r \in LoopType
  BY DEF LoopType
<1>2. Stops(st, r)
  BY DEF LoopType, Stops
<1> QED
  BY <1>1, <1>2

\* A turn that has its page.
Turned(st, i, cs, v, dt, dn) == [Filled(st, i, cs, v) EXCEPT !.done = dn, !.dirty = dt]

Put(st, r, i, cs, v, dt, dn) ==
  /\ r.node = st.node /\ r.used = st.used /\ r.dirty = dt /\ r.done = dn
  /\ r.page[st.target] = Fill(st.page[st.target], i, cs, v)
  /\ \A x \in Page \ {st.target} : r.page[x] = st.page[x]

\* Filled, on a state of the loop whose target is page p.
LEMMA FilledFacts ==
  ASSUME NEW st \in LoopType, st.target \in Page, NEW i \in Nat, NEW cs \in SUBSET Cell,
         NEW v \in Value, NEW dt \in SUBSET Page, NEW dn \in SUBSET Cell, NEW r,
         r = Turned(st, i, cs, v, dt, dn)
  PROVE  r \in LoopType /\ Put(st, r, i, cs, v, dt, dn)
<1> DEFINE p == st.target
           x == st.page[p]
           row == [w \in Word |-> LET c == i * Usable + w IN
                                  IF c \in cs THEN v + c ELSE x.word[w]]
<1>1. st.page \in [Page -> PageType] /\ p \in Page /\ x \in PageType
  BY DEF LoopType
<1>2. Fill(x, i, cs, v) = [x EXCEPT !.word = row]
  BY <1>1 DEF Fill, PageType
<1>3. Filled(st, i, cs, v) = [st EXCEPT !.page = [st.page EXCEPT ![p] = [x EXCEPT !.word = row]]]
  BY <1>1 DEF Filled, LoopType, PageType
<1>4. Filled(st, i, cs, v) = [st EXCEPT !.page = [st.page EXCEPT ![p] = Fill(x, i, cs, v)]]
  BY <1>2, <1>3
<1>5. Fill(x, i, cs, v) \in PageType
  BY <1>1, PageTypes
<1>6. [st.page EXCEPT ![p] = Fill(x, i, cs, v)] \in [Page -> PageType]
  BY <1>1, <1>5
<1> HIDE DEF row, x
<1>7. r = [st EXCEPT !.page = [st.page EXCEPT ![p] = Fill(x, i, cs, v)],
                     !.done = dn, !.dirty = dt]
  BY <1>4 DEF Turned
<1>8. r \in LoopType /\ r.node = st.node /\ r.used = st.used /\ r.dirty = dt /\ r.done = dn
      /\ r.page = [st.page EXCEPT ![p] = Fill(x, i, cs, v)]
  BY <1>6, <1>7 DEF LoopType
<1> QED
  BY <1>1, <1>8 DEF x, Put

\* inode_set_block stores the number of a direct block, or begins an indirect
\* block with it, or loses it.
Stored(st, r, i, p) ==
  \/ /\ i < Direct /\ r.used = st.used /\ r.page = st.page
     /\ r.node.size = st.node.size /\ r.node.indirect = st.node.indirect
     /\ r.node.direct[i] = p
     /\ \A j \in (0 .. Direct - 1) \ {i} : r.node.direct[j] = st.node.direct[j]
  \/ /\ i \in Direct .. MaxIndex /\ st.node.indirect = 0
     /\ \E q \in Page \ st.used :
          /\ r.used = st.used \cup {q}
          /\ r.node.size = st.node.size /\ r.node.indirect = q
          /\ r.node.direct = st.node.direct
          /\ r.page[q] = Entered(st.page[q], i, p)
          /\ \A x \in Page \ {q} : r.page[x] = st.page[x]
  \/ /\ i >= Direct /\ r = st
     /\ i <= MaxIndex /\ st.node.indirect = 0 => Page \subseteq st.used

LEMMA SetBlockFacts ==
  ASSUME NEW st \in LoopType, NEW i \in Nat, NEW p \in Page
  PROVE  LET r == inode_set_block(st, i, p) IN
         /\ r \in LoopType /\ r.dirty = st.dirty /\ r.done = st.done /\ r.target = st.target
         /\ Stored(st, r, i, p)
<1> DEFINE r == inode_set_block(st, i, p)
<1>1. /\ Direct \in Nat /\ MaxIndex \in Nat /\ st.node \in NodeType
      /\ st.page \in [Page -> PageType] /\ st.used \subseteq Page
  BY FileDataConstants DEF LoopType
<1>2. CASE i < Direct
  <2> DEFINE nd == [st.node EXCEPT !.direct[i] = p]
  <2>1. i \in 0 .. Direct - 1 /\ ~(i \in Direct .. MaxIndex)
    BY <1>1, <1>2
  <2>2. r = [st EXCEPT !.node.direct[i] = p]
    BY <1>1, <1>2, <2>1 DEF inode_set_block
  <2>3. r = [st EXCEPT !.node = nd]
    BY <1>1, <2>2 DEF LoopType
  <2>4. /\ nd \in NodeType /\ nd.size = st.node.size /\ nd.indirect = st.node.indirect
        /\ nd.direct[i] = p
        /\ \A j \in (0 .. Direct - 1) \ {i} : nd.direct[j] = st.node.direct[j]
    BY <1>1, <2>1 DEF NodeType
  <2> HIDE DEF nd, r
  <2>5. /\ r \in LoopType /\ r.node = nd /\ r.used = st.used /\ r.page = st.page
        /\ r.dirty = st.dirty /\ r.done = st.done /\ r.target = st.target
    BY <2>3, <2>4 DEF LoopType
  <2> QED
    BY <1>2, <2>4, <2>5 DEF r, Stored
<1>3. CASE i \in Direct .. MaxIndex /\ st.node.indirect = 0 /\ Free(st.used) # {}
  <2> DEFINE q == Min(Free(st.used))
             nd == [st.node EXCEPT !.indirect = q]
             pg == [st.page EXCEPT ![q] = Entered(st.page[q], i, p)]
  <2>1. q \in Page \ st.used /\ ~(i < Direct)
    BY <1>1, <1>3, LowestFree
  <2>2. r = [st EXCEPT !.node.indirect = q, !.used = @ \cup {q},
                       !.page[q] = [type |-> "data", word |-> [@.word EXCEPT ![i - Direct] = p]]]
    BY <1>3, <2>1 DEF inode_set_block
  <2> HIDE DEF q
  <2>3. st.page[q] \in PageType
    BY <1>1, <2>1
  <2>4. r = [st EXCEPT !.node = nd, !.used = st.used \cup {q}, !.page = pg]
    BY <1>1, <2>1, <2>2 DEF LoopType, Entered
  <2>5. Entered(st.page[q], i, p) \in PageType
    BY <1>3, <2>3, PageTypes
  <2>6. /\ pg \in [Page -> PageType] /\ pg[q] = Entered(st.page[q], i, p)
        /\ \A x \in Page \ {q} : pg[x] = st.page[x]
    BY <1>1, <2>1, <2>5
  <2>7. /\ nd \in NodeType /\ nd.size = st.node.size /\ nd.indirect = q
        /\ nd.direct = st.node.direct
    BY <1>1, <2>1 DEF NodeType
  <2> HIDE DEF nd, pg, r
  <2>8. /\ r \in LoopType /\ r.node = nd /\ r.used = st.used \cup {q} /\ r.page = pg
        /\ r.dirty = st.dirty /\ r.done = st.done /\ r.target = st.target
    BY <1>1, <2>1, <2>4, <2>6, <2>7 DEF LoopType
  <2> QED
    BY <1>3, <2>1, <2>6, <2>7, <2>8 DEF r, Stored
<1>4. CASE ~(i < Direct) /\ ~(i \in Direct .. MaxIndex /\ st.node.indirect = 0
                              /\ Free(st.used) # {})
  <2>1. r = st
    BY <1>4 DEF inode_set_block
  <2>2. i <= MaxIndex /\ st.node.indirect = 0 => Page \subseteq st.used
    BY <1>1, <1>4 DEF Free
  <2> QED
    BY <1>1, <1>4, <2>1, <2>2 DEF Stored
<1> QED
  BY <1>2, <1>3, <1>4

\* Page p, cleared, is the target, and the inode has it or has lost it.
Supplied(st, r, i, p) ==
  /\ p \in Page \ st.used
  /\ r \in LoopType /\ r.dirty = st.dirty /\ r.done = st.done
  /\ r.target = p /\ r.page[p] = Zeros
  /\ \/ InDirect(st, r, i, p)
     \/ \E q \in Page : InIndirect(st, r, i, p, q)
     \/ Lost(st, r, i, p)

LEMMA NewPageFacts ==
  ASSUME NEW st \in LoopType, NEW i \in Nat, Free(st.used) # {}
  PROVE  Supplied(st, NewPage(st, i), i, Min(Free(st.used)))
<1> DEFINE p == Min(Free(st.used))
           r == NewPage(st, i)
           pg == [st.page EXCEPT ![p] = Zeros]
           base == [st EXCEPT !.used = @ \cup {p}, !.page[p] = Zeros, !.target = p]
<1>1. p \in Page \ st.used
  BY LowestFree
<1>2. r = inode_set_block(base, i, p)
  BY DEF NewPage
<1> HIDE DEF p
<1>3. st.page \in [Page -> PageType] /\ st.used \subseteq Page
  BY DEF LoopType
<1>4. base = [st EXCEPT !.used = st.used \cup {p}, !.page = pg, !.target = p]
  BY <1>1, <1>3 DEF LoopType
<1>5. /\ pg \in [Page -> PageType] /\ pg[p] = Zeros
      /\ \A x \in Page \ {p} : pg[x] = st.page[x]
  BY <1>1, <1>3, PageTypes
<1> HIDE DEF pg, base
<1>6. /\ base \in LoopType /\ base.used = st.used \cup {p} /\ base.page = pg
      /\ base.target = p /\ base.node = st.node
      /\ base.dirty = st.dirty /\ base.done = st.done
  BY <1>1, <1>3, <1>4, <1>5 DEF LoopType
<1> HIDE DEF r
<1>a. p \in Page /\ i \in Nat
  BY <1>1
<1>7. r \in LoopType /\ r.dirty = st.dirty /\ r.done = st.done /\ r.target = p
  <2>1. r \in LoopType /\ r.dirty = base.dirty /\ r.done = base.done /\ r.target = base.target
    BY ONLY <1>a, <1>2, <1>6, SetBlockFacts
  <2> QED
    BY <1>6, <2>1
<1>8. Stored(base, r, i, p)
  BY ONLY <1>a, <1>2, <1>6, SetBlockFacts
<1>9. CASE /\ i < Direct /\ r.used = base.used /\ r.page = base.page
           /\ r.node.size = base.node.size /\ r.node.indirect = base.node.indirect
           /\ r.node.direct[i] = p
           /\ \A j \in (0 .. Direct - 1) \ {i} : r.node.direct[j] = base.node.direct[j]
  <2>1. InDirect(st, r, i, p) /\ r.page[p] = Zeros
    BY <1>5, <1>6, <1>9 DEF InDirect
  <2> QED
    BY <1>1, <1>7, <2>1 DEF p, r, Supplied
<1>10. ASSUME i \in Direct .. MaxIndex, base.node.indirect = 0,
              NEW q \in Page \ base.used,
              r.used = base.used \cup {q}, r.node.size = base.node.size,
              r.node.indirect = q, r.node.direct = base.node.direct,
              r.page[q] = Entered(base.page[q], i, p),
              \A x \in Page \ {q} : r.page[x] = base.page[x]
       PROVE  InIndirect(st, r, i, p, q) /\ r.page[p] = Zeros
  <2>1. q # p /\ base.page[q] = st.page[q] /\ r.used = st.used \cup {p, q}
    BY <1>5, <1>6, <1>10
  <2>2. \A x \in Page \ {p, q} : r.page[x] = st.page[x]
    BY <1>5, <1>6, <1>10
  <2>3. r.page[p] = Zeros
    BY <1>1, <1>5, <1>6, <1>10, <2>1
  <2> QED
    BY <1>6, <1>10, <2>1, <2>2, <2>3 DEF InIndirect
<1>11. CASE /\ i >= Direct /\ r = base
            /\ i <= MaxIndex /\ base.node.indirect = 0 => Page \subseteq base.used
  <2>1. Lost(st, r, i, p) /\ r.page[p] = Zeros
    BY <1>5, <1>6, <1>11 DEF Lost
  <2> QED
    BY <1>1, <1>7, <2>1 DEF p, r, Supplied
<1> QED
  BY <1>1, <1>7, <1>8, <1>9, <1>10, <1>11 DEF p, r, Stored, Supplied

LEMMA TurnFacts ==
  ASSUME NEW st \in LoopType, NEW i \in Nat, NEW lo \in Cell, NEW hi \in Cell, NEW v \in Value
  PROVE  LET r == WriteTurn(st, i, lo, hi, v) IN
         r \in LoopType /\ TurnOutcome(st, r, i, OnPage(i, lo, hi), v)
<1> DEFINE r == WriteTurn(st, i, lo, hi, v)
           got == inode_get_block(st.node, st.page, i).block
           cs == OnPage(i, lo, hi)
           to == IF got # 0 THEN [st EXCEPT !.target = got] ELSE NewPage(st, i)
<1>1. /\ st.node \in NodeType /\ st.page \in [Page -> PageType] /\ st.used \subseteq Page
      /\ st.dirty \subseteq Page /\ st.done \subseteq Cell
  BY DEF LoopType
<1>2. cs \subseteq Cell
  BY FileDataConstants DEF OnPage, Cell
<1>3. r = CASE ~st.going \/ Wild(got) -> [st EXCEPT !.going = FALSE, !.wild = @ \/ Wild(got)]
            [] st.going /\ got = 0 /\ Free(st.used) = {} -> [st EXCEPT !.going = FALSE]
            [] OTHER -> [Filled(to, i, cs, v) EXCEPT !.done = @ \cup cs,
                                                     !.dirty = @ \cup {to.target}]
  BY DEF WriteTurn
<1> HIDE DEF cs, got
<1>4. CASE ~st.going \/ Wild(got)
  <2>1. ~(st.going /\ got = 0 /\ Free(st.used) = {})
    BY <1>4 DEF Wild
  <2>2. r = [st EXCEPT !.going = FALSE, !.wild = @ \/ Wild(got)]
    BY <1>3, <1>4, <2>1
  <2>3. Wild(got) \in BOOLEAN
    BY DEF Wild
  <2> QED
    BY <2>2, <2>3, TurnStops DEF TurnOutcome
<1>5. CASE ~(~st.going \/ Wild(got)) /\ got = 0 /\ Free(st.used) = {}
  <2>1. r = [st EXCEPT !.going = FALSE]
    BY <1>3, <1>5
  <2>2. r = [st EXCEPT !.going = FALSE, !.wild = @ \/ FALSE]
    BY <2>1 DEF LoopType
  <2> QED
    BY <2>2, TurnStops DEF TurnOutcome
<1>6. CASE ~(~st.going \/ Wild(got)) /\ ~(got = 0 /\ Free(st.used) = {})
  <2> DEFINE dt == to.dirty \cup {to.target}
             dn == to.done \cup cs
  <2>1. got \in {0} \cup Page
    BY <1>6 DEF Wild
  <2>2. r = [Filled(to, i, cs, v) EXCEPT !.done = @ \cup cs, !.dirty = @ \cup {to.target}]
    BY <1>3, <1>6
  <2>3. ASSUME to \in LoopType, to.target \in Page
        PROVE  /\ r \in LoopType /\ r.node = to.node /\ r.used = to.used
               /\ r.dirty = to.dirty \cup {to.target} /\ r.done = to.done \cup cs
               /\ r.page[to.target] = Fill(to.page[to.target], i, cs, v)
               /\ \A x \in Page \ {to.target} : r.page[x] = to.page[x]
    <3> HIDE DEF to, r
    <3>1. dt \in SUBSET Page /\ dn \in SUBSET Cell
      BY <1>2, <2>3 DEF LoopType
    <3>2. Filled(to, i, cs, v).done = to.done /\ Filled(to, i, cs, v).dirty = to.dirty
      BY <2>3 DEF Filled, LoopType
    <3>3. r = Turned(to, i, cs, v, dt, dn)
      BY <2>2, <3>2 DEF Turned
    <3> HIDE DEF dt, dn
    <3>4. i \in Nat /\ v \in Value
      OBVIOUS
    <3>5. r \in LoopType /\ Put(to, r, i, cs, v, dt, dn)
      BY ONLY <1>2, <2>3, <3>1, <3>3, <3>4, FilledFacts
    <3> QED
      BY <3>5 DEF dt, dn, Put
  <2>4. CASE got # 0
    <3>1. got \in Page /\ to = [st EXCEPT !.target = got]
      BY <2>1, <2>4
    <3>2. /\ to \in LoopType /\ to.target = got /\ to.node = st.node /\ to.used = st.used
          /\ to.page = st.page /\ to.dirty = st.dirty /\ to.done = st.done
      BY <3>1 DEF LoopType
    <3> HIDE DEF to, r
    <3>3. r \in LoopType /\ Overwrites(st, r, i, cs, v)
      BY <2>3, <3>1, <3>2 DEF Overwrites, got
    <3> QED
      BY <3>3 DEF TurnOutcome, cs, r
  <2>5. CASE got = 0
    <3> DEFINE p == Min(Free(st.used))
    <3>1. to = NewPage(st, i) /\ Free(st.used) # {}
      BY <1>6, <2>5
    <3>2. Supplied(st, to, i, p)
      BY <3>1, NewPageFacts
    <3> HIDE DEF to, r, p
    <3>3. r \in LoopType /\ Allocates(st, r, i, cs, v, p)
      BY <2>3, <2>5, <3>2 DEF Allocates, Supplied, got
    <3>4. r.node = to.node /\ r.used = to.used /\ \A x \in Page \ {p} : r.page[x] = to.page[x]
      BY <2>3, <3>2 DEF Supplied
    <3>5. InDirect(st, to, i, p) => InDirect(st, r, i, p)
      BY <3>4 DEF InDirect
    <3>6. ASSUME NEW q \in Page, InIndirect(st, to, i, p, q) PROVE InIndirect(st, r, i, p, q)
      BY <3>4, <3>6 DEF InIndirect
    <3>7. Lost(st, to, i, p) => Lost(st, r, i, p)
      BY <3>4 DEF Lost
    <3> QED
      BY <3>2, <3>3, <3>5, <3>6, <3>7 DEF Supplied, TurnOutcome, cs, r
  <2> QED
    BY <2>4, <2>5
<1> QED
  BY <1>4, <1>5, <1>6
-----------------------------------------------------------------------------
(***************************************************************************)
(* The places.                                                             *)
(***************************************************************************)
LEMMA AtFacts ==
  ASSUME NEW nd \in NodeType, NEW pg \in [Page -> PageType], NEW i \in Place
  PROVE  /\ i = Ind => At(nd, pg, i) = nd.indirect
         /\ i # Ind => At(nd, pg, i) = inode_get_block(nd, pg, i).block
                       /\ i \in 0 .. MaxIndex
         /\ i < Direct => At(nd, pg, i) = nd.direct[i] /\ i # Ind
         /\ (i \in Direct .. MaxIndex /\ nd.indirect # 0 /\ pg[nd.indirect].type = "data")
              => At(nd, pg, i) = pg[nd.indirect].word[i - Direct] /\ i - Direct \in Word
         /\ (i \in Direct .. MaxIndex /\ (nd.indirect = 0 \/ pg[nd.indirect].type # "data"))
              => At(nd, pg, i) = 0
         /\ i \in Nat /\ (i = Ind \/ i < Direct \/ i \in Direct .. MaxIndex)
<1>1. Direct \in Nat /\ MaxIndex \in Nat /\ MaxIndex >= Direct
  BY FileDataConstants
<1>2. i \in Nat /\ (i = Ind \/ i \in 0 .. MaxIndex) /\ ~(Ind \in 0 .. MaxIndex)
  BY <1>1 DEF Place, Ind
<1>3. i = Ind => At(nd, pg, i) = nd.indirect
  BY DEF At
<1>4. i # Ind => At(nd, pg, i) = inode_get_block(nd, pg, i).block
  BY DEF At
<1>5. CASE i = Ind
  BY <1>1, <1>3, <1>5 DEF Ind
<1>6. CASE i # Ind
  <2>1. /\ i < Direct => inode_get_block(nd, pg, i).block = nd.direct[i]
        /\ (i \in Direct .. MaxIndex /\ nd.indirect # 0 /\ pg[nd.indirect].type = "data")
             => /\ inode_get_block(nd, pg, i) =
                     [ok |-> TRUE, block |-> pg[nd.indirect].word[i - Direct]]
                /\ i - Direct \in Word
        /\ (i >= Direct /\ (nd.indirect = 0 \/ pg[nd.indirect].type # "data"))
             => inode_get_block(nd, pg, i).block = 0
    BY <1>2, BlockType
  <2> QED
    BY <1>1, <1>2, <1>4, <1>6, <2>1
<1> QED
  BY <1>5, <1>6

LEMMA AtChange ==
  ASSUME NEW nd \in NodeType, NEW nd2 \in NodeType, nd2.indirect = nd.indirect,
         NEW pg \in [Page -> PageType], NEW pg2 \in [Page -> PageType],
         nd.indirect # 0 => pg2[nd.indirect] = pg[nd.indirect],
         NEW i \in Place, i < Direct => nd2.direct[i] = nd.direct[i]
  PROVE  At(nd2, pg2, i) = At(nd, pg, i)
<1>1. CASE i = Ind
  BY <1>1 DEF At
<1>2. CASE i < Direct
  BY <1>2, AtFacts
<1>3. CASE i \in Direct .. MaxIndex /\ nd.indirect # 0 /\ pg[nd.indirect].type = "data"
  BY <1>3, AtFacts
<1>4. CASE i \in Direct .. MaxIndex /\ ~(nd.indirect # 0 /\ pg[nd.indirect].type = "data")
  BY <1>4, AtFacts
<1> QED
  BY <1>1, <1>2, <1>3, <1>4, AtFacts

LEMMA AtFrame ==
  ASSUME NEW nd \in NodeType, NEW pg \in [Page -> PageType], NEW pg2 \in [Page -> PageType],
         NEW i \in Place, nd.indirect # 0 => pg2[nd.indirect] = pg[nd.indirect]
  PROVE  At(nd, pg2, i) = At(nd, pg, i)
<1>1. CASE i = Ind
  BY <1>1 DEF At
<1>2. CASE i < Direct
  BY <1>2, AtFacts
<1>3. CASE i \in Direct .. MaxIndex /\ nd.indirect # 0 /\ pg[nd.indirect].type = "data"
  BY <1>3, AtFacts
<1>4. CASE i \in Direct .. MaxIndex /\ ~(nd.indirect # 0 /\ pg[nd.indirect].type = "data")
  BY <1>4, AtFacts
<1> QED
  BY <1>1, <1>2, <1>3, <1>4, AtFacts

\* Where no place gets a page it did not have, pages stay apart.
LEMMA FewerStayApart ==
  ASSUME NEW nds, NEW u, NEW lv, NEW pg, NEW stl, Apart(nds, u, lv, pg, stl),
         NEW nds2, NEW u2, NEW lv2, NEW pg2, NEW stl2,
         u \ lv \subseteq u2 \ lv2, stl \subseteq stl2,
         \A f \in File, i \in Place :
           At(nds2[f], pg2, i) \in Page => At(nds2[f], pg2, i) = At(nds[f], pg, i)
  PROVE  Apart(nds2, u2, lv2, pg2, stl2)
<1> SUFFICES ASSUME NEW f \in File, NEW i \in Place, At(nds2[f], pg2, i) \in Page
             PROVE  /\ At(nds2[f], pg2, i) \in u2 \ lv2
                    /\ \A g \in File, j \in Place :
                         At(nds2[g], pg2, j) = At(nds2[f], pg2, i) =>
                           f = g /\ (i = j \/ (f \in stl2 /\ Ind \in {i, j}))
  BY DEF Apart
<1>1. At(nds2[f], pg2, i) = At(nds[f], pg, i)
  OBVIOUS
<1>2. At(nds2[f], pg2, i) \in u \ lv
  BY <1>1 DEF Apart
<1>3. ASSUME NEW g \in File, NEW j \in Place, At(nds2[g], pg2, j) = At(nds2[f], pg2, i)
      PROVE  f = g /\ (i = j \/ (f \in stl2 /\ Ind \in {i, j}))
  <2>1. At(nds[g], pg, j) = At(nds[f], pg, i)
    BY <1>1, <1>3
  <2>2. f = g /\ (i = j \/ (f \in stl /\ Ind \in {i, j}))
    BY <1>1, <2>1 DEF Apart
  <2> QED
    BY <2>2
<1> QED
  BY <1>2, <1>3

\* A page at a place of f that lies at another place too is the indirect block
\* of f, which began as a leaf.
LEMMA IndirectIsApart ==
  ASSUME NEW nds \in [File -> NodeType], NEW u, NEW lv, NEW pg \in [Page -> PageType], NEW stl,
         Apart(nds, u, lv, pg, stl), NEW f \in File, NEW i \in Place, i # Ind,
         At(nds[f], pg, i) \in Page, NEW g \in File, nds[g].indirect = At(nds[f], pg, i)
  PROVE  g = f /\ f \in stl
<1>1. Ind \in Place
  BY FileDataConstants DEF Ind, Place
<1>2. At(nds[g], pg, Ind) = At(nds[f], pg, i)
  BY DEF At
<1> QED
  BY <1>1, <1>2 DEF Apart
-----------------------------------------------------------------------------
(***************************************************************************)
(* The state of the program as a turn of nbtrfs_write's loop leaves it.    *)
(***************************************************************************)
Nodes(f, st) == [node EXCEPT ![f] = st.node]

StaleNow(f, st) ==
  IF st.node.indirect # node[f].indirect /\ page[st.node.indirect] # Zeros
  THEN stale \cup {f} ELSE stale

WrittenNow(f, st, v) ==
  [written EXCEPT ![f] = [c \in Cell |-> IF c \in st.done THEN v + c ELSE written[f][c]]]

\* What the loop has changed so far.
Grown(f, st) ==
  /\ used \subseteq st.used /\ dirty \subseteq st.dirty
  /\ node[f].indirect # 0 => st.node.indirect = node[f].indirect
  /\ node[f].indirect = 0 /\ st.node.indirect # 0 => st.node.indirect \notin used
  /\ \A p \in Page : st.page[p] # page[p] =>
       p \in st.used /\ (p \in st.dirty \/ (node[f].indirect = 0 /\ p = st.node.indirect))

LoopInv(f, st, v, low) ==
  /\ st \in LoopType
  /\ Grown(f, st)
  /\ Apart(Nodes(f, st), st.used, leaves, st.page, StaleNow(f, st))
  /\ Spare(st.used, leaves, st.page)
  /\ Numbers(Nodes(f, st), st.page, StaleNow(f, st))
  /\ Cells(Nodes(f, st), st.page, StaleNow(f, st), WrittenNow(f, st, v))
  /\ Covered(Nodes(f, st), WrittenNow(f, st, v))
  /\ Spent(Nodes(f, st), st.used, st.page, WrittenNow(f, st, v))
  /\ (low => NoneLost(Nodes(f, st), st.used, leaves, st.page))

LEMMA NodesFacts ==
  ASSUME TypeOK, NEW f \in File, NEW st \in LoopType
  PROVE  /\ Nodes(f, st) \in [File -> NodeType] /\ Nodes(f, st)[f] = st.node
         /\ \A g \in File \ {f} : Nodes(f, st)[g] = node[g]
  BY DEF TypeOK, LoopType, Nodes

LEMMA WrittenFacts ==
  ASSUME TypeOK, NEW f \in File, NEW st \in LoopType, NEW v \in Value
  PROVE  /\ WrittenNow(f, st, v) \in [File -> [Cell -> Content]]
         /\ \A c \in Cell : WrittenNow(f, st, v)[f][c]
                              = IF c \in st.done THEN v + c ELSE written[f][c]
         /\ \A g \in File \ {f} : WrittenNow(f, st, v)[g] = written[g]
<1> DEFINE row == [c \in Cell |-> IF c \in st.done THEN v + c ELSE written[f][c]]
<1>1. written \in [File -> [Cell -> Content]]
  BY DEF TypeOK
<1>2. \A c \in Cell : v + c \in Content
  BY DEF Content
<1>3. row \in [Cell -> Content]
  BY <1>1, <1>2
<1> QED
  BY <1>1, <1>3 DEF WrittenNow

LEMMA ValuesAreNoPages ==
  ASSUME NEW v \in Value, NEW c \in Cell
  PROVE  v + c \notin Page \cup {0} /\ v + c \in Nat
  BY FileDataConstants DEF Cell

LEMMA OnPageFacts ==
  ASSUME NEW i \in Nat, NEW lo \in Cell, NEW hi \in Cell
  PROVE  /\ OnPage(i, lo, hi) \subseteq Cell
         /\ \A j \in Nat, w \in Word : j * Usable + w \in OnPage(i, lo, hi) => j = i
<1>1. OnPage(i, lo, hi) \subseteq Cell
  BY FileDataConstants DEF OnPage, Cell
<1>2. ASSUME NEW j \in Nat, NEW w \in Word, j * Usable + w \in OnPage(i, lo, hi)
      PROVE  j = i
  BY <1>2, CellAt DEF OnPage
<1> QED
  BY <1>1, <1>2

\* A turn that changes the pages of no other page index keeps what was written
\* there.
LEMMA CellsKept ==
  ASSUME TypeOK, NEW f \in File, NEW v \in Value, NEW i \in Nat, NEW lo \in Cell, NEW hi \in Cell,
         NEW st \in LoopType, NEW r \in LoopType, r.done = st.done \cup OnPage(i, lo, hi),
         NEW g \in File, NEW c \in Cell
  PROVE  WrittenNow(f, r, v)[g][c] = IF g = f /\ c \in OnPage(i, lo, hi) THEN v + c
                                     ELSE WrittenNow(f, st, v)[g][c]
  BY WrittenFacts

LEMMA FillFacts ==
  ASSUME NEW x \in PageType, NEW i \in Nat, NEW v \in Value, NEW cs \in SUBSET Cell
  PROVE  /\ Fill(x, i, cs, v).type = x.type
         /\ \A w \in Word : Fill(x, i, cs, v).word[w] =
              IF i * Usable + w \in cs THEN v + (i * Usable + w) ELSE x.word[w]
  BY DEF Fill, PageType

LEMMA LeavesAreUsed ==
  ASSUME TypeOK, NEW f \in File, NEW st \in LoopType, Grown(f, st)
  PROVE  leaves \subseteq st.used /\ st.used \subseteq Page
  BY DEF TypeOK, LoopType, Grown

LEMMA StopKeeps ==
  ASSUME TypeOK, NEW f \in File, NEW v \in Value, NEW low \in BOOLEAN,
         NEW st, LoopInv(f, st, v, low), NEW r \in LoopType, Stops(st, r)
  PROVE  LoopInv(f, r, v, low)
<1>1. /\ Nodes(f, r) = Nodes(f, st) /\ StaleNow(f, r) = StaleNow(f, st)
      /\ WrittenNow(f, r, v) = WrittenNow(f, st, v)
  BY DEF Nodes, StaleNow, WrittenNow, Stops
<1>2. Grown(f, st) => Grown(f, r)
  BY DEF Grown, Stops
<1> QED
  BY <1>1, <1>2 DEF LoopInv, Stops

LEMMA OverwriteKeeps ==
  ASSUME TypeOK, NEW f \in File, NEW v \in Value, NEW low \in BOOLEAN,
         NEW i \in Nat, NEW lo \in Cell, NEW hi \in Cell,
         NEW st, LoopInv(f, st, v, low),
         NEW r \in LoopType, Overwrites(st, r, i, OnPage(i, lo, hi), v)
  PROVE  LoopInv(f, r, v, low)
<1> DEFINE nds == Nodes(f, st)
           pg == st.page
           pg2 == r.page
           stl == StaleNow(f, st)
           p == inode_get_block(st.node, pg, i).block
           cs == OnPage(i, lo, hi)
<1>1. /\ st \in LoopType /\ Nodes(f, r) = nds /\ StaleNow(f, r) = stl /\ r.used = st.used
      /\ pg \in [Page -> PageType] /\ pg2 \in [Page -> PageType]
      /\ st.node \in NodeType /\ r.done = st.done \cup cs /\ r.node = st.node
  BY DEF LoopInv, Nodes, StaleNow, Overwrites, LoopType
<1>2. /\ p \in Page /\ pg2[p] = Fill(pg[p], i, cs, v) /\ r.dirty = st.dirty \cup {p}
      /\ \A x \in Page \ {p} : pg2[x] = pg[x]
  BY DEF Overwrites
<1>3. /\ nds \in [File -> NodeType] /\ nds[f] = st.node
      /\ Apart(nds, st.used, leaves, pg, stl)
  BY <1>1, NodesFacts DEF LoopInv
<1>4. i \in 0 .. MaxIndex /\ i \in Place /\ i # Ind /\ p = At(nds[f], pg, i)
  <2>1. ~(i > MaxIndex)
    BY <1>1, <1>2, BlockType, FileDataConstants
  <2>2. i \in 0 .. MaxIndex /\ i \in Place /\ i # Ind
    BY <2>1, FileDataConstants DEF Place, Ind
  <2> QED
    BY <1>3, <2>2 DEF At
<1>5. p \in st.used \ leaves
  BY <1>2, <1>3, <1>4 DEF Apart
<1>6. \A g \in File : nds[g].indirect = p => g = f /\ f \in stl
  BY <1>1, <1>2, <1>3, <1>4, IndirectIsApart
<1>7. cs \subseteq Cell /\ \A j \in Nat, w \in Word : j * Usable + w \in cs => j = i
  BY OnPageFacts
<1>8. /\ pg[p] \in PageType /\ pg2[p].type = pg[p].type
      /\ \A w \in Word : pg2[p].word[w] =
           IF i * Usable + w \in cs THEN v + (i * Usable + w) ELSE pg[p].word[w]
  BY <1>1, <1>2, <1>7, FillFacts
<1> HIDE DEF cs, p
<1>9. ASSUME NEW g \in File, NEW j \in Place
      PROVE  /\ (nds[g].indirect # p \/ nds[g].indirect = 0) => At(nds[g], pg2, j) = At(nds[g], pg, j)
             /\ At(nds[g], pg2, j) \in Page => At(nds[g], pg2, j) = At(nds[g], pg, j)
  <2>1. nds[g] \in NodeType /\ nds[g].indirect \in {0} \cup Page
    BY <1>3 DEF NodeType
  <2>2. CASE nds[g].indirect # p \/ nds[g].indirect = 0
    BY <1>1, <1>2, <2>1, <2>2, AtFrame
  <2>3. CASE nds[g].indirect = p /\ p # 0
    <3>1. CASE j \in Direct .. MaxIndex /\ pg[p].type = "data"
      <4> DEFINE w == j - Direct
      <4>1. /\ At(nds[g], pg, j) = pg[p].word[w] /\ w \in Word
            /\ At(nds[g], pg2, j) = pg2[p].word[w]
        BY <1>1, <1>8, <2>1, <2>3, <3>1, AtFacts
      <4>2. CASE i * Usable + w \in cs
        <5>1. pg2[p].word[w] \notin Page
          BY <1>7, <1>8, <4>1, <4>2, ValuesAreNoPages
        <5> QED
          BY <2>3, <4>1, <5>1
      <4>3. CASE i * Usable + w \notin cs
        BY <1>8, <2>3, <4>1, <4>3
      <4> QED
        BY <4>2, <4>3
    <3>2. CASE j = Ind \/ j < Direct \/ (j \in Direct .. MaxIndex /\ pg[p].type # "data")
      BY <1>1, <1>8, <2>1, <2>3, <3>2, AtFacts
    <3> QED
      BY <3>1, <3>2, <2>1, <1>1, AtFacts
  <2> QED
    BY <2>1, <2>2, <2>3
<1>10. Apart(nds, st.used, leaves, pg2, stl)
  BY <1>3, <1>9, FewerStayApart
<1>11. Spare(st.used, leaves, pg2)
  BY <1>1, <1>2, <1>5, LeavesAreUsed DEF Spare, LoopInv
<1>12. Numbers(nds, pg2, stl)
  <2> SUFFICES ASSUME NEW g \in File \ stl, nds[g].indirect # 0
               PROVE  PageNumbers(pg2[nds[g].indirect])
    BY DEF Numbers
  <2>1. nds[g].indirect # p /\ nds[g].indirect \in Page
    BY <1>3, <1>6 DEF NodeType
  <2> QED
    BY <1>2, <2>1 DEF Numbers, LoopInv
<1>13. Cells(nds, pg2, stl, WrittenNow(f, r, v))
  <2> SUFFICES ASSUME NEW g \in File \ stl, NEW j \in 0 .. MaxIndex, NEW w \in Word,
                      At(nds[g], pg2, j) \in Page, j * Usable + w \in Cell
               PROVE  pg2[At(nds[g], pg2, j)].word[w]
                        = WrittenNow(f, r, v)[g][j * Usable + w]
    BY DEF Cells
  <2> DEFINE x == At(nds[g], pg, j)
             c == j * Usable + w
  <2>1. j \in Place /\ j # Ind /\ j \in Nat
    BY FileDataConstants DEF Place, Ind
  <2>2. At(nds[g], pg2, j) = x /\ x \in Page
    BY <1>9, <2>1
  <2>3. pg[x].word[w] = WrittenNow(f, st, v)[g][c]
    BY <2>2 DEF Cells, LoopInv
  <2>4. WrittenNow(f, r, v)[g][c] = IF g = f /\ c \in cs THEN v + c
                                    ELSE WrittenNow(f, st, v)[g][c]
    BY <1>1, <2>1, CellsKept DEF cs
  <2> HIDE DEF x, c
  <2>5. CASE x = p
    <3>1. g = f /\ j = i
      BY <1>2, <1>3, <1>4, <2>1, <2>2, <2>5 DEF Apart, x
    <3> QED
      BY <1>8, <2>2, <2>3, <2>4, <2>5, <3>1 DEF c
  <2>6. CASE x # p
    <3>1. ~(g = f /\ c \in cs)
      BY <1>4, <1>7, <2>1, <2>6 DEF x, c
    <3> QED
      BY <1>2, <2>2, <2>3, <2>4, <2>6, <3>1 DEF c
  <2> QED
    BY <2>5, <2>6 DEF c
<1>14. Covered(nds, WrittenNow(f, r, v))
  <2> SUFFICES ASSUME NEW g \in File, NEW j \in 0 .. Direct - 1, NEW w \in Word,
                      j * Usable + w \in Cell,
                      WrittenNow(f, r, v)[g][j * Usable + w] # 0
               PROVE  nds[g].direct[j] # 0
    BY DEF Covered
  <2>1. j \in Nat /\ j \in Place /\ j < Direct
    BY FileDataConstants DEF Place
  <2>2. CASE g = f /\ j * Usable + w \in cs
    <3>1. j = i /\ At(nds[f], pg, j) = nds[f].direct[j]
      BY <1>1, <1>3, <1>7, <2>1, <2>2, AtFacts
    <3> QED
      BY <1>2, <1>4, <2>2, <3>1, FileDataConstants
  <2>3. CASE ~(g = f /\ j * Usable + w \in cs)
    <3> DEFINE c == j * Usable + w
    <3>a. c \in Cell
      OBVIOUS
    <3> HIDE DEF c
    <3>1. WrittenNow(f, r, v)[g][c] = IF g = f /\ c \in cs THEN v + c
                                      ELSE WrittenNow(f, st, v)[g][c]
      BY <1>1, <3>a, CellsKept DEF cs
    <3>2. WrittenNow(f, st, v)[g][j * Usable + w] # 0
      BY <2>3, <3>1 DEF c
    <3> QED
      BY <3>2 DEF Covered, LoopInv
  <2> QED
    BY <2>2, <2>3
<1>15. low => NoneLost(nds, st.used, leaves, pg2)
  <2> SUFFICES ASSUME low PROVE NoneLost(nds, st.used, leaves, pg2)
    OBVIOUS
  <2>1. NoneLost(nds, st.used, leaves, pg)
    BY DEF LoopInv
  <2>2. \A g \in File, j \in Place : At(nds[g], pg2, j) = At(nds[g], pg, j)
    BY <1>9, <2>1 DEF NoneLost
  <2> QED
    BY <2>1, <2>2 DEF NoneLost
<1>16. Grown(f, r)
  BY <1>1, <1>2, <1>5 DEF Grown, LoopInv
<1>17. Spent(nds, st.used, pg2, WrittenNow(f, r, v))
  <2> SUFFICES ASSUME NEW g \in File, NEW j \in Direct .. MaxIndex, NEW w \in Word,
                      nds[g].indirect = 0, j * Usable + w \in Cell,
                      WrittenNow(f, r, v)[g][j * Usable + w] # 0,
                      NEW x \in Page \ st.used
               PROVE  pg2[x] # Zeros
    BY DEF Spent
  <2> DEFINE c == j * Usable + w
  <2>1. j \in Nat /\ j \in Place
    BY FileDataConstants DEF Place
  <2>2. ~(g = f /\ c \in cs)
    <3> SUFFICES ASSUME g = f, c \in cs PROVE FALSE
      OBVIOUS
    <3>1. j = i /\ At(nds[f], pg, j) = 0
      BY <1>1, <1>3, <1>7, <2>1, AtFacts
    <3> QED
      BY <1>2, <1>4, <3>1, FileDataConstants
  <2> HIDE DEF c
  <2>3. WrittenNow(f, r, v)[g][c] = IF g = f /\ c \in cs THEN v + c
                                    ELSE WrittenNow(f, st, v)[g][c]
    BY <1>1, CellsKept DEF cs, c
  <2>4. pg[x] # Zeros
    BY <2>2, <2>3 DEF Spent, LoopInv, c
  <2> QED
    BY <1>2, <1>5, <2>4
<1> QED
  BY <1>1, <1>10, <1>11, <1>12, <1>13, <1>14, <1>15, <1>16, <1>17 DEF LoopInv

\* A page that was not in use stays apart from the others at the place it gets,
\* and so does the page of an indirect block that lists itself, if at all, first.
LEMMA NewStayApart ==
  ASSUME NEW nds, NEW u, NEW pg, NEW stl, Apart(nds, u, leaves, pg, stl), leaves \subseteq u,
         NEW nds2, NEW u2, NEW pg2, NEW stl2, u \subseteq u2, stl \subseteq stl2,
         NEW f \in File, NEW i \in Place, i # Ind,
         NEW p \in u2 \ u, NEW q, q \notin u, p # q,
         \A g \in File, j \in Place : At(nds2[g], pg2, j) \in Page =>
           \/ At(nds2[g], pg2, j) = At(nds[g], pg, j)
           \/ g = f /\ j = i /\ At(nds2[g], pg2, j) = p
           \/ /\ g = f /\ (j = Ind \/ (j = Direct /\ f \in stl2))
              /\ At(nds2[g], pg2, j) = q /\ q \in u2
  PROVE  Apart(nds2, u2, leaves, pg2, stl2)
<1> SUFFICES ASSUME NEW g \in File, NEW j \in Place, At(nds2[g], pg2, j) \in Page
             PROVE  /\ At(nds2[g], pg2, j) \in u2 \ leaves
                    /\ \A h \in File, k \in Place :
                         At(nds2[h], pg2, k) = At(nds2[g], pg2, j) =>
                           g = h /\ (j = k \/ (g \in stl2 /\ Ind \in {j, k}))
  BY DEF Apart
<1> DEFINE x == At(nds2[g], pg2, j)
<1>1. Direct # Ind /\ p \notin leaves /\ q \notin leaves
  BY FileDataConstants DEF Ind
<1>2. ASSUME NEW h \in File, NEW k \in Place, At(nds2[h], pg2, k) = x
      PROVE  \/ x = At(nds[h], pg, k) /\ x \in u \ leaves
             \/ h = f /\ k = i /\ x = p
             \/ h = f /\ (k = Ind \/ (k = Direct /\ f \in stl2)) /\ x = q /\ q \in u2
  BY <1>2 DEF Apart
<1> HIDE DEF x
<1>3. x \in u2 \ leaves
  BY <1>1, <1>2 DEF x
<1>4. ASSUME NEW h \in File, NEW k \in Place, At(nds2[h], pg2, k) = x
      PROVE  g = h /\ (j = k \/ (g \in stl2 /\ Ind \in {j, k}))
  <2>1. /\ \/ x = At(nds[g], pg, j) /\ x \in u \ leaves
           \/ g = f /\ j = i /\ x = p
           \/ g = f /\ (j = Ind \/ (j = Direct /\ f \in stl2)) /\ x = q
        /\ \/ x = At(nds[h], pg, k) /\ x \in u \ leaves
           \/ h = f /\ k = i /\ x = p
           \/ h = f /\ (k = Ind \/ (k = Direct /\ f \in stl2)) /\ x = q
    BY <1>2, <1>4 DEF x
  <2>2. CASE x \in u
    <3>1. x = At(nds[g], pg, j) /\ At(nds[h], pg, k) = At(nds[g], pg, j)
          /\ At(nds[g], pg, j) \in Page
      BY <2>1, <2>2 DEF x
    <3>2. g = h /\ (j = k \/ (g \in stl /\ Ind \in {j, k}))
      BY <3>1 DEF Apart
    <3> QED
      BY <3>2
  <2>3. CASE x \notin u
    BY <1>1, <2>1, <2>3
  <2> QED
    BY <2>2, <2>3
<1> QED
  BY <1>3, <1>4 DEF x

\* A turn that allocates keeps what the pages hold.
LEMMA AllocatedCells ==
  ASSUME TypeOK, NEW f \in File, NEW v \in Value, NEW low \in BOOLEAN,
         NEW i \in Nat, NEW lo \in Cell, NEW hi \in Cell,
         NEW st, LoopInv(f, st, v, low),
         NEW r \in LoopType, NEW p, Allocates(st, r, i, OnPage(i, lo, hi), v, p),
         StaleNow(f, st) \subseteq StaleNow(f, r),
         \A x \in st.used : x = st.node.indirect \/ r.page[x] = st.page[x],
         st.node.indirect # 0 => r.page[st.node.indirect] = st.page[st.node.indirect],
         \A g \in File \ StaleNow(f, r), j \in 0 .. MaxIndex :
           At(Nodes(f, r)[g], r.page, j) \in Page =>
             \/ At(Nodes(f, r)[g], r.page, j) = At(Nodes(f, st)[g], st.page, j)
             \/ g = f /\ j = i /\ At(Nodes(f, r)[g], r.page, j) = p,
         f \notin StaleNow(f, r) /\ i <= MaxIndex /\ At(Nodes(f, r)[f], r.page, i) = p =>
           \A w \in Word : i * Usable + w \in Cell =>
             WrittenNow(f, st, v)[f][i * Usable + w] = 0
  PROVE  Cells(Nodes(f, r), r.page, StaleNow(f, r), WrittenNow(f, r, v))
<1> DEFINE nds == Nodes(f, st)
           cs == OnPage(i, lo, hi)
<1>1. /\ st \in LoopType /\ st.node \in NodeType /\ st.page \in [Page -> PageType]
      /\ p \in Page \ st.used /\ r.page[p] = Fill(Zeros, i, cs, v) /\ r.done = st.done \cup cs
      /\ inode_get_block(st.node, st.page, i).block = 0
      /\ nds \in [File -> NodeType] /\ nds[f] = st.node
      /\ Apart(nds, st.used, leaves, st.page, StaleNow(f, st))
      /\ Cells(nds, st.page, StaleNow(f, st), WrittenNow(f, st, v))
  BY NodesFacts DEF LoopInv, LoopType, Allocates
<1>2. cs \subseteq Cell /\ \A j \in Nat, w \in Word : j * Usable + w \in cs => j = i
  BY OnPageFacts
<1>3. \A w \in Word : r.page[p].word[w] =
        IF i * Usable + w \in cs THEN v + (i * Usable + w) ELSE 0
  <2>1. \A w \in Word : Zeros.word[w] = 0
    BY DEF Zeros
  <2> QED
    BY <1>1, <1>2, <2>1, FillFacts, PageTypes
<1> HIDE DEF nds, cs
<1> SUFFICES ASSUME NEW g \in File \ StaleNow(f, r), NEW j \in 0 .. MaxIndex, NEW w \in Word,
                    At(Nodes(f, r)[g], r.page, j) \in Page, j * Usable + w \in Cell
             PROVE  r.page[At(Nodes(f, r)[g], r.page, j)].word[w]
                      = WrittenNow(f, r, v)[g][j * Usable + w]
  BY DEF Cells
<1> DEFINE x == At(Nodes(f, r)[g], r.page, j)
           c == j * Usable + w
<1>4. j \in Nat /\ j \in Place /\ j # Ind
  BY FileDataConstants DEF Place, Ind
<1>5. WrittenNow(f, r, v)[g][c] = IF g = f /\ c \in cs THEN v + c
                                  ELSE WrittenNow(f, st, v)[g][c]
  BY <1>1, CellsKept DEF cs
<1>6. CASE g = f /\ j = i /\ x = p
  <2>1. WrittenNow(f, st, v)[f][c] = 0
    BY <1>6
  <2> QED
    BY <1>3, <1>5, <1>6, <2>1
<1>7. CASE x = At(nds[g], st.page, j)
  <2>1. x \in Page /\ x \in st.used
    BY <1>1, <1>4, <1>7 DEF Apart
  <2>2. st.page[x].word[w] = WrittenNow(f, st, v)[g][c]
    BY <1>1, <1>7, <2>1 DEF Cells
  <2>3. r.page[x] = st.page[x]
    BY <1>1, <2>1, FileDataConstants
  <2>4. ~(g = f /\ c \in cs)
    <3> SUFFICES ASSUME g = f, c \in cs PROVE FALSE
      OBVIOUS
    <3>1. j = i /\ x = 0
      BY <1>1, <1>2, <1>4, <1>7 DEF At
    <3> QED
      BY <2>1, <3>1, FileDataConstants
  <2> QED
    BY <1>5, <2>2, <2>3, <2>4
<1> QED
  BY <1>6, <1>7 DEF nds

\* What every allocating turn starts from.
LEMMA AllocationFacts ==
  ASSUME TypeOK, NEW f \in File, NEW v \in Value, NEW low \in BOOLEAN,
         NEW i \in Nat, NEW lo \in Cell, NEW hi \in Cell,
         NEW st, LoopInv(f, st, v, low),
         NEW r \in LoopType, NEW p, Allocates(st, r, i, OnPage(i, lo, hi), v, p)
  PROVE  /\ st \in LoopType /\ st.node \in NodeType /\ r.node \in NodeType
         /\ st.page \in [Page -> PageType] /\ r.page \in [Page -> PageType]
         /\ leaves \subseteq st.used /\ st.used \subseteq Page
         /\ p \in Page \ st.used /\ p # 0 /\ 0 \notin Page
         /\ r.dirty = st.dirty \cup {p} /\ r.done = st.done \cup OnPage(i, lo, hi)
         /\ inode_get_block(st.node, st.page, i).block = 0
         /\ \A g \in File : Nodes(f, st)[g] \in NodeType /\ Nodes(f, r)[g] \in NodeType
                            /\ (g # f => Nodes(f, r)[g] = Nodes(f, st)[g])
         /\ Nodes(f, st)[f] = st.node /\ Nodes(f, r)[f] = r.node
         /\ \A g \in File : Nodes(f, st)[g].indirect # 0 =>
                              Nodes(f, st)[g].indirect \in st.used
         /\ i <= MaxIndex => /\ i \in Place /\ i # Ind
                             /\ At(st.node, st.page, i) = 0
<1>1. /\ st \in LoopType /\ st.node \in NodeType /\ r.node \in NodeType
      /\ st.page \in [Page -> PageType] /\ r.page \in [Page -> PageType]
      /\ st.used \subseteq Page
      /\ Apart(Nodes(f, st), st.used, leaves, st.page, StaleNow(f, st))
      /\ leaves \subseteq st.used
  BY LeavesAreUsed DEF LoopInv, LoopType
<1>2. /\ p \in Page \ st.used /\ p # 0 /\ 0 \notin Page
      /\ r.dirty = st.dirty \cup {p} /\ r.done = st.done \cup OnPage(i, lo, hi)
      /\ inode_get_block(st.node, st.page, i).block = 0
  BY FileDataConstants DEF Allocates
<1>3. /\ Nodes(f, st) \in [File -> NodeType] /\ Nodes(f, r) \in [File -> NodeType]
      /\ Nodes(f, st)[f] = st.node /\ Nodes(f, r)[f] = r.node
      /\ \A g \in File \ {f} : Nodes(f, r)[g] = Nodes(f, st)[g]
  BY <1>1, NodesFacts
<1>4. ASSUME NEW g \in File, Nodes(f, st)[g].indirect # 0
      PROVE  Nodes(f, st)[g].indirect \in st.used
  <2>1. Ind \in Place /\ Nodes(f, st)[g].indirect \in Page
    BY <1>3, <1>4, FileDataConstants DEF NodeType, Ind, Place
  <2>2. At(Nodes(f, st)[g], st.page, Ind) = Nodes(f, st)[g].indirect
    BY DEF At
  <2> QED
    BY <1>1, <2>1, <2>2 DEF Apart
<1>5. i <= MaxIndex => i \in Place /\ i # Ind /\ At(st.node, st.page, i) = 0
  BY <1>2, FileDataConstants DEF Place, Ind, At
<1> QED
  BY <1>1, <1>2, <1>3, <1>4, <1>5

LEMMA InDirectKeeps ==
  ASSUME TypeOK, NEW f \in File, NEW v \in Value, NEW low \in BOOLEAN,
         NEW i \in Nat, NEW lo \in Cell, NEW hi \in Cell,
         NEW st, LoopInv(f, st, v, low),
         NEW r \in LoopType, NEW p, Allocates(st, r, i, OnPage(i, lo, hi), v, p),
         InDirect(st, r, i, p)
  PROVE  LoopInv(f, r, v, low)
<1> DEFINE nds == Nodes(f, st)
           nds2 == Nodes(f, r)
           pg == st.page
           pg2 == r.page
           stl == StaleNow(f, st)
           cs == OnPage(i, lo, hi)
<1>1. /\ st \in LoopType /\ st.node \in NodeType /\ r.node \in NodeType
      /\ pg \in [Page -> PageType] /\ pg2 \in [Page -> PageType]
      /\ leaves \subseteq st.used /\ st.used \subseteq Page
      /\ p \in Page \ st.used /\ p # 0 /\ 0 \notin Page
      /\ r.dirty = st.dirty \cup {p} /\ r.done = st.done \cup cs
      /\ inode_get_block(st.node, pg, i).block = 0
      /\ \A g \in File : nds[g] \in NodeType /\ nds2[g] \in NodeType
                         /\ (g # f => nds2[g] = nds[g])
      /\ nds[f] = st.node /\ nds2[f] = r.node
      /\ \A g \in File : nds[g].indirect # 0 => nds[g].indirect \in st.used
      /\ i <= MaxIndex => i \in Place /\ i # Ind /\ At(st.node, pg, i) = 0
  BY AllocationFacts
<1>2. /\ i < Direct /\ r.used = st.used \cup {p}
      /\ r.node.indirect = st.node.indirect /\ r.node.direct[i] = p
      /\ \A j \in (0 .. Direct - 1) \ {i} : r.node.direct[j] = st.node.direct[j]
      /\ \A x \in Page \ {p} : pg2[x] = pg[x]
  BY DEF InDirect
<1>3. i \in Place /\ i # Ind /\ At(st.node, pg, i) = 0 /\ i \in 0 .. MaxIndex
      /\ i \in 0 .. Direct - 1 /\ st.node.direct[i] = 0
  <2>1. i <= MaxIndex /\ i \in 0 .. MaxIndex /\ i \in 0 .. Direct - 1
    BY <1>2, FileDataConstants
  <2> QED
    BY <1>1, <1>2, <2>1, AtFacts
<1>4. StaleNow(f, r) = stl
  BY <1>2 DEF StaleNow
<1>5. \A j \in Nat, w \in Word : j * Usable + w \in cs => j = i
  BY OnPageFacts
<1>6. /\ Apart(nds, st.used, leaves, pg, stl) /\ Spare(st.used, leaves, pg)
      /\ Numbers(nds, pg, stl) /\ Covered(nds, WrittenNow(f, st, v))
      /\ Spent(nds, st.used, pg, WrittenNow(f, st, v)) /\ Grown(f, st)
      /\ (low => NoneLost(nds, st.used, leaves, pg))
  BY DEF LoopInv
<1>7. ASSUME NEW g \in File, NEW j \in Nat, NEW w \in Word, j * Usable + w \in Cell
      PROVE  WrittenNow(f, r, v)[g][j * Usable + w]
               = IF g = f /\ j * Usable + w \in cs THEN v + (j * Usable + w)
                 ELSE WrittenNow(f, st, v)[g][j * Usable + w]
  <2> DEFINE c == j * Usable + w
  <2>1. c \in Cell
    BY <1>7
  <2> HIDE DEF c
  <2>2. WrittenNow(f, r, v)[g][c] = IF g = f /\ c \in cs THEN v + c
                                    ELSE WrittenNow(f, st, v)[g][c]
    BY <1>1, <2>1, CellsKept
  <2> QED
    BY <2>2 DEF c
<1> HIDE DEF cs
<1>8. \A g \in File : nds2[g].indirect = nds[g].indirect
                      /\ (nds[g].indirect # 0 => pg2[nds[g].indirect] = pg[nds[g].indirect])
  BY <1>1, <1>2
<1>9. ASSUME NEW g \in File, NEW j \in Place
      PROVE  At(nds2[g], pg2, j) = IF g = f /\ j = i THEN p ELSE At(nds[g], pg, j)
  <2>1. CASE g = f /\ j = i
    BY <1>1, <1>2, <2>1, AtFacts
  <2>2. CASE ~(g = f /\ j = i)
    <3>1. j < Direct => nds2[g].direct[j] = nds[g].direct[j]
      BY <1>1, <1>2, <2>2, FileDataConstants DEF Place
    <3> QED
      BY <1>1, <1>8, <2>2, <3>1, AtChange
  <2> QED
    BY <2>1, <2>2
<1>10. Apart(nds2, r.used, leaves, pg2, stl)
  <2>1. 0 \notin st.used /\ p \in r.used \ st.used /\ st.used \subseteq r.used
    BY <1>1, <1>2
  <2>2. \A g \in File, j \in Place : At(nds2[g], pg2, j) \in Page =>
          At(nds2[g], pg2, j) = At(nds[g], pg, j)
            \/ (g = f /\ j = i /\ At(nds2[g], pg2, j) = p)
    BY <1>9
  <2> HIDE DEF nds, nds2, pg, pg2, stl
  <2> QED
    BY <1>1, <1>3, <1>6, <2>1, <2>2, NewStayApart
<1>11. Spare(r.used, leaves, pg2)
  BY <1>1, <1>2, <1>6 DEF Spare
<1>12. Numbers(nds2, pg2, stl)
  BY <1>6, <1>8 DEF Numbers
<1>13. Cells(nds2, pg2, stl, WrittenNow(f, r, v))
  <2>1. \A x \in st.used : x = st.node.indirect \/ pg2[x] = pg[x]
    BY <1>1, <1>2
  <2>2. st.node.indirect # 0 => pg2[st.node.indirect] = pg[st.node.indirect]
    BY <1>1, <1>8
  <2>3. \A g \in File \ StaleNow(f, r), j \in 0 .. MaxIndex : At(nds2[g], pg2, j) \in Page =>
          \/ At(nds2[g], pg2, j) = At(nds[g], pg, j)
          \/ g = f /\ j = i /\ At(nds2[g], pg2, j) = p
    BY <1>9, FileDataConstants DEF Place
  <2>4. ASSUME NEW w \in Word, i * Usable + w \in Cell
        PROVE  WrittenNow(f, st, v)[f][i * Usable + w] = 0
    BY <1>1, <1>3, <1>6, <2>4 DEF Covered
  <2> QED
    BY <1>4, <2>1, <2>2, <2>3, <2>4, AllocatedCells
<1>14. Covered(nds2, WrittenNow(f, r, v))
  <2> SUFFICES ASSUME NEW g \in File, NEW j \in 0 .. Direct - 1, NEW w \in Word,
                      j * Usable + w \in Cell,
                      WrittenNow(f, r, v)[g][j * Usable + w] # 0
               PROVE  nds2[g].direct[j] # 0
    BY DEF Covered
  <2>1. CASE g = f /\ j = i
    BY <1>1, <1>2, <2>1
  <2>2. CASE ~(g = f /\ j = i)
    <3>1. j \in Nat
      OBVIOUS
    <3>2. WrittenNow(f, st, v)[g][j * Usable + w] # 0
      BY <1>5, <1>7, <2>2, <3>1
    <3>3. nds[g].direct[j] # 0
      BY <1>6, <3>2 DEF Covered
    <3> QED
      BY <1>1, <1>2, <2>2, <3>3
  <2> QED
    BY <2>1, <2>2
<1>15. Spent(nds2, r.used, pg2, WrittenNow(f, r, v))
  <2> SUFFICES ASSUME NEW g \in File, NEW j \in Direct .. MaxIndex, NEW w \in Word,
                      nds2[g].indirect = 0, j * Usable + w \in Cell,
                      WrittenNow(f, r, v)[g][j * Usable + w] # 0,
                      NEW x \in Page \ r.used
               PROVE  pg2[x] # Zeros
    BY DEF Spent
  <2>1. j \in Nat /\ j # i
    BY <1>2, FileDataConstants
  <2>2. WrittenNow(f, st, v)[g][j * Usable + w] # 0
    BY <1>5, <1>7, <2>1
  <2>3. x \in Page \ st.used /\ pg2[x] = pg[x] /\ nds[g].indirect = 0
    BY <1>2, <1>8
  <2> QED
    BY <1>6, <2>2, <2>3 DEF Spent
<1>16. Grown(f, r)
  BY <1>1, <1>2, <1>6 DEF Grown
<1>17. low => NoneLost(nds2, r.used, leaves, pg2)
  <2> SUFFICES ASSUME low PROVE NoneLost(nds2, r.used, leaves, pg2)
    OBVIOUS
  <2>1. \A g \in File : nds2[g].indirect = 0
    BY <1>6, <1>8 DEF NoneLost
  <2>2. ASSUME NEW x \in r.used \ leaves PROVE \E g \in File, j \in Place : At(nds2[g], pg2, j) = x
    <3>1. CASE x = p
      BY <1>3, <1>9, <3>1
    <3>2. CASE x # p
      <4>1. x \in st.used \ leaves /\ x # 0
        BY <1>1, <1>2, <3>2
      <4>2. PICK g \in File, j \in Place : At(nds[g], pg, j) = x
        BY <1>6, <4>1 DEF NoneLost
      <4>3. ~(g = f /\ j = i)
        BY <1>1, <1>3, <4>1, <4>2
      <4> QED
        BY <1>9, <4>2, <4>3
    <3> QED
      BY <3>1, <3>2
  <2> QED
    BY <2>1, <2>2 DEF NoneLost
<1> HIDE DEF nds, nds2, pg, pg2, stl
<1> QED
  BY <1>4, <1>10, <1>11, <1>12, <1>13, <1>14, <1>15, <1>16, <1>17
     DEF LoopInv, nds, nds2, pg, pg2, stl

LEMMA LostKeeps ==
  ASSUME TypeOK, NEW f \in File, NEW v \in Value, NEW low \in BOOLEAN,
         NEW i \in Nat, NEW lo \in Cell, NEW hi \in Cell,
         NEW st, LoopInv(f, st, v, low),
         NEW r \in LoopType, NEW p, Allocates(st, r, i, OnPage(i, lo, hi), v, p),
         Lost(st, r, i, p), low => i < Direct
  PROVE  LoopInv(f, r, v, low)
<1> DEFINE nds == Nodes(f, st)
           nds2 == Nodes(f, r)
           pg == st.page
           pg2 == r.page
           stl == StaleNow(f, st)
           cs == OnPage(i, lo, hi)
<1>1. /\ st \in LoopType /\ st.node \in NodeType /\ r.node \in NodeType
      /\ pg \in [Page -> PageType] /\ pg2 \in [Page -> PageType]
      /\ leaves \subseteq st.used /\ st.used \subseteq Page
      /\ p \in Page \ st.used /\ p # 0 /\ 0 \notin Page
      /\ r.dirty = st.dirty \cup {p} /\ r.done = st.done \cup cs
      /\ inode_get_block(st.node, pg, i).block = 0
      /\ \A g \in File : nds[g] \in NodeType /\ nds2[g] \in NodeType
                         /\ (g # f => nds2[g] = nds[g])
      /\ nds[f] = st.node /\ nds2[f] = r.node
      /\ \A g \in File : nds[g].indirect # 0 => nds[g].indirect \in st.used
      /\ i <= MaxIndex => i \in Place /\ i # Ind /\ At(st.node, pg, i) = 0
  BY AllocationFacts
<1>2. /\ i >= Direct /\ r.used = st.used \cup {p} /\ r.node = st.node
      /\ i <= MaxIndex /\ st.node.indirect = 0 => Page \subseteq r.used
      /\ \A x \in Page \ {p} : pg2[x] = pg[x]
  BY DEF Lost
<1>3. ~low
  BY <1>2, FileDataConstants
<1>4. StaleNow(f, r) = stl
  BY <1>2 DEF StaleNow
<1>5. \A j \in Nat, w \in Word : j * Usable + w \in cs => j = i
  BY OnPageFacts
<1>6. /\ Apart(nds, st.used, leaves, pg, stl) /\ Spare(st.used, leaves, pg)
      /\ Numbers(nds, pg, stl) /\ Covered(nds, WrittenNow(f, st, v))
      /\ Spent(nds, st.used, pg, WrittenNow(f, st, v)) /\ Grown(f, st)
      /\ (low => NoneLost(nds, st.used, leaves, pg))
  BY DEF LoopInv
<1>7. ASSUME NEW g \in File, NEW j \in Nat, NEW w \in Word, j * Usable + w \in Cell
      PROVE  WrittenNow(f, r, v)[g][j * Usable + w]
               = IF g = f /\ j * Usable + w \in cs THEN v + (j * Usable + w)
                 ELSE WrittenNow(f, st, v)[g][j * Usable + w]
  <2> DEFINE c == j * Usable + w
  <2>1. c \in Cell
    BY <1>7
  <2> HIDE DEF c
  <2>2. WrittenNow(f, r, v)[g][c] = IF g = f /\ c \in cs THEN v + c
                                    ELSE WrittenNow(f, st, v)[g][c]
    BY <1>1, <2>1, CellsKept
  <2> QED
    BY <2>2 DEF c
<1> HIDE DEF cs
<1>8. \A g \in File : nds2[g].indirect = nds[g].indirect
                      /\ (nds[g].indirect # 0 => pg2[nds[g].indirect] = pg[nds[g].indirect])
  BY <1>1, <1>2
<1>9. ASSUME NEW g \in File, NEW j \in Place
      PROVE  At(nds2[g], pg2, j) = At(nds[g], pg, j)
  <2>1. nds2[g] = nds[g]
    BY <1>1, <1>2
  <2> QED
    BY <1>1, <1>8, <2>1, AtFrame
<1>10. Apart(nds2, r.used, leaves, pg2, stl)
  <2>1. st.used \ leaves \subseteq r.used \ leaves
    BY <1>2
  <2> HIDE DEF nds, nds2, pg, pg2, stl
  <2> QED
    BY <1>6, <1>9, <2>1, FewerStayApart
<1>11. Spare(r.used, leaves, pg2)
  BY <1>1, <1>2, <1>6 DEF Spare
<1>12. Numbers(nds2, pg2, stl)
  BY <1>6, <1>8 DEF Numbers
<1>13. Cells(nds2, pg2, stl, WrittenNow(f, r, v))
  <2>1. \A x \in st.used : x = st.node.indirect \/ pg2[x] = pg[x]
    BY <1>1, <1>2
  <2>2. st.node.indirect # 0 => pg2[st.node.indirect] = pg[st.node.indirect]
    BY <1>1, <1>8
  <2>3. \A g \in File, j \in 0 .. MaxIndex : At(nds2[g], pg2, j) = At(nds[g], pg, j)
    BY <1>9, FileDataConstants DEF Place
  <2>4. i <= MaxIndex => At(nds2[f], pg2, i) # p
    BY <1>1, <1>9
  <2> QED
    BY <1>4, <2>1, <2>2, <2>3, <2>4, AllocatedCells
<1>14. Covered(nds2, WrittenNow(f, r, v))
  <2> SUFFICES ASSUME NEW g \in File, NEW j \in 0 .. Direct - 1, NEW w \in Word,
                      j * Usable + w \in Cell,
                      WrittenNow(f, r, v)[g][j * Usable + w] # 0
               PROVE  nds2[g].direct[j] # 0
    BY DEF Covered
  <2>1. j \in Nat /\ j # i
    BY <1>2, FileDataConstants
  <2>2. WrittenNow(f, st, v)[g][j * Usable + w] # 0
    BY <1>5, <1>7, <2>1
  <2>3. nds[g].direct[j] # 0
    BY <1>6, <2>2 DEF Covered
  <2> QED
    BY <1>1, <1>2, <2>3
<1>15. Spent(nds2, r.used, pg2, WrittenNow(f, r, v))
  <2> SUFFICES ASSUME NEW g \in File, NEW j \in Direct .. MaxIndex, NEW w \in Word,
                      nds2[g].indirect = 0, j * Usable + w \in Cell,
                      WrittenNow(f, r, v)[g][j * Usable + w] # 0,
                      NEW x \in Page \ r.used
               PROVE  pg2[x] # Zeros
    BY DEF Spent
  <2>1. j \in Nat /\ x \in Page \ st.used /\ pg2[x] = pg[x] /\ nds[g].indirect = 0
    BY <1>2, <1>8, FileDataConstants
  <2>2. ~(g = f /\ j * Usable + w \in cs)
    BY <1>1, <1>2, <1>5, <2>1
  <2>3. WrittenNow(f, st, v)[g][j * Usable + w] # 0
    BY <1>7, <2>1, <2>2
  <2> QED
    BY <1>6, <2>1, <2>3 DEF Spent
<1>16. Grown(f, r)
  BY <1>1, <1>2, <1>6 DEF Grown
<1> HIDE DEF nds, nds2, pg, pg2, stl
<1> QED
  BY <1>4, <1>10, <1>11, <1>12, <1>13, <1>14, <1>15, <1>16, <1>3
     DEF LoopInv, nds, nds2, pg, pg2, stl

LEMMA InIndirectKeeps ==
  ASSUME TypeOK, NEW f \in File, NEW v \in Value, NEW low \in BOOLEAN,
         NEW i \in Nat, NEW lo \in Cell, NEW hi \in Cell,
         NEW st, LoopInv(f, st, v, low),
         NEW r \in LoopType, NEW p, Allocates(st, r, i, OnPage(i, lo, hi), v, p),
         NEW q \in Page, InIndirect(st, r, i, p, q), low => i < Direct
  PROVE  LoopInv(f, r, v, low)
<1> DEFINE nds == Nodes(f, st)
           nds2 == Nodes(f, r)
           pg == st.page
           pg2 == r.page
           stl == StaleNow(f, st)
           stl2 == StaleNow(f, r)
           cs == OnPage(i, lo, hi)
<1>1. /\ st \in LoopType /\ st.node \in NodeType /\ r.node \in NodeType
      /\ pg \in [Page -> PageType] /\ pg2 \in [Page -> PageType]
      /\ leaves \subseteq st.used /\ st.used \subseteq Page
      /\ p \in Page \ st.used /\ p # 0 /\ 0 \notin Page
      /\ r.dirty = st.dirty \cup {p} /\ r.done = st.done \cup cs
      /\ inode_get_block(st.node, pg, i).block = 0
      /\ \A g \in File : nds[g] \in NodeType /\ nds2[g] \in NodeType
                         /\ (g # f => nds2[g] = nds[g])
      /\ nds[f] = st.node /\ nds2[f] = r.node
      /\ \A g \in File : nds[g].indirect # 0 => nds[g].indirect \in st.used
      /\ i <= MaxIndex => i \in Place /\ i # Ind /\ At(st.node, pg, i) = 0
  BY AllocationFacts
<1>2. /\ i \in Direct .. MaxIndex /\ st.node.indirect = 0
      /\ q \in Page \ (st.used \cup {p}) /\ r.used = st.used \cup {p, q}
      /\ r.node.indirect = q /\ r.node.direct = st.node.direct
      /\ pg2[q] = Entered(pg[q], i, p)
      /\ \A x \in Page \ {p, q} : pg2[x] = pg[x]
  BY DEF InIndirect
<1>3. ~low /\ i <= MaxIndex /\ i \in Place /\ i # Ind /\ At(st.node, pg, i) = 0
  BY <1>1, <1>2, FileDataConstants
<1>5. \A j \in Nat, w \in Word : j * Usable + w \in cs => j = i
  BY OnPageFacts
<1>6. /\ Apart(nds, st.used, leaves, pg, stl) /\ Spare(st.used, leaves, pg)
      /\ Numbers(nds, pg, stl) /\ Covered(nds, WrittenNow(f, st, v))
      /\ Spent(nds, st.used, pg, WrittenNow(f, st, v)) /\ Grown(f, st)
  BY DEF LoopInv
<1>7. ASSUME NEW g \in File, NEW j \in Nat, NEW w \in Word, j * Usable + w \in Cell
      PROVE  WrittenNow(f, r, v)[g][j * Usable + w]
               = IF g = f /\ j * Usable + w \in cs THEN v + (j * Usable + w)
                 ELSE WrittenNow(f, st, v)[g][j * Usable + w]
  <2> DEFINE c == j * Usable + w
  <2>1. c \in Cell
    BY <1>7
  <2> HIDE DEF c
  <2>2. WrittenNow(f, r, v)[g][c] = IF g = f /\ c \in cs THEN v + c
                                    ELSE WrittenNow(f, st, v)[g][c]
    BY <1>1, <2>1, CellsKept
  <2> QED
    BY <2>2 DEF c
<1> HIDE DEF cs
<1>4. /\ node[f].indirect = 0 /\ stl = stale /\ pg[q] = page[q] /\ pg[q] \in {Zeros, Leaf(q)}
      /\ q # 0 /\ q \notin used
  BY <1>1, <1>2, <1>6 DEF Grown, StaleNow, Spare
<1>18. stl2 = IF pg[q] # Zeros THEN stl \cup {f} ELSE stl
  BY <1>2, <1>4 DEF StaleNow
<1>8. /\ pg2[q].type = "data" /\ i - Direct \in Word
      /\ \A w \in Word : pg2[q].word[w] = IF w = i - Direct THEN p ELSE pg[q].word[w]
  BY <1>1, <1>2, PageTypes
<1>19. \A w \in Word : pg[q].word[w] = IF pg[q] = Zeros THEN 0 ELSE IF w = 0 THEN q ELSE Junk
  BY <1>4 DEF Zeros, Leaf
<1>20. Junk \notin Page
  BY FileDataConstants DEF Junk
<1> HIDE DEF nds, nds2, pg, pg2, stl, stl2
<1>9. ASSUME NEW g \in File, NEW j \in Place
      PROVE  At(nds2[g], pg2, j) \in Page =>
               \/ At(nds2[g], pg2, j) = At(nds[g], pg, j)
               \/ g = f /\ j = i /\ At(nds2[g], pg2, j) = p
               \/ /\ g = f /\ (j = Ind \/ (j = Direct /\ f \in stl2))
                  /\ At(nds2[g], pg2, j) = q /\ q \in r.used
  <2>1. CASE g # f
    <3>1. nds2[g] = nds[g] /\ (nds[g].indirect # 0 => pg2[nds[g].indirect] = pg[nds[g].indirect])
      BY <1>1, <1>2, <2>1
    <3> QED
      BY <1>1, <3>1, AtFrame
  <2>2. CASE g = f /\ j = Ind
    BY <1>1, <1>2, <2>2 DEF At
  <2>3. CASE g = f /\ j < Direct
    BY <1>1, <1>2, <2>3, AtFacts
  <2>4. CASE g = f /\ j \in Direct .. MaxIndex
    <3>1. At(nds2[f], pg2, j) = pg2[q].word[j - Direct] /\ j - Direct \in Word
      BY <1>1, <1>2, <1>4, <1>8, <2>4, AtFacts
    <3>2. CASE j = i
      BY <1>8, <2>4, <3>1, <3>2
    <3>3. CASE j # i
      <4>1. At(nds2[f], pg2, j) = pg[q].word[j - Direct]
        BY <1>2, <1>8, <2>4, <3>1, <3>3, FileDataConstants
      <4>2. At(nds2[f], pg2, j) \in Page =>
              j - Direct = 0 /\ pg[q] # Zeros /\ At(nds2[f], pg2, j) = q
        BY <1>1, <1>19, <1>20, <3>1, <4>1
      <4>3. j - Direct = 0 => j = Direct
        BY <2>4, FileDataConstants
      <4> QED
        BY <1>2, <1>18, <2>4, <4>2, <4>3
    <3> QED
      BY <3>2, <3>3
  <2> QED
    BY <1>1, <2>1, <2>2, <2>3, <2>4, AtFacts
<1>10. Apart(nds2, r.used, leaves, pg2, stl2)
  <2>1. /\ q \notin st.used /\ p # q /\ p \in r.used \ st.used /\ st.used \subseteq r.used
        /\ stl \subseteq stl2 /\ leaves \subseteq st.used
        /\ Apart(nds, st.used, leaves, pg, stl) /\ f \in File /\ i \in Place /\ i # Ind
    BY <1>1, <1>2, <1>3, <1>6, <1>18
  <2>2. \A g \in File, j \in Place : At(nds2[g], pg2, j) \in Page =>
          \/ At(nds2[g], pg2, j) = At(nds[g], pg, j)
          \/ g = f /\ j = i /\ At(nds2[g], pg2, j) = p
          \/ /\ g = f /\ (j = Ind \/ (j = Direct /\ f \in stl2))
             /\ At(nds2[g], pg2, j) = q /\ q \in r.used
    BY <1>9
  <2> QED
    BY ONLY <2>1, <2>2, NewStayApart
<1>11. Spare(r.used, leaves, pg2)
  BY <1>1, <1>2, <1>6 DEF Spare
<1>12. Numbers(nds2, pg2, stl2)
  <2> SUFFICES ASSUME NEW g \in File \ stl2, nds2[g].indirect # 0
               PROVE  PageNumbers(pg2[nds2[g].indirect])
    BY DEF Numbers
  <2>1. CASE g = f
    <3>1. nds2[g].indirect = q /\ pg[q] = Zeros
      BY <1>1, <1>2, <1>18, <2>1
    <3>2. \A w \in Word : pg2[q].word[w] \in {0} \cup Page
      BY <1>1, <1>8, <1>19, <3>1
    <3> QED
      BY <1>8, <3>1, <3>2 DEF PageNumbers
  <2>2. CASE g # f
    <3>1. /\ nds2[g] = nds[g] /\ g \notin stl /\ nds[g].indirect # 0
          /\ pg2[nds[g].indirect] = pg[nds[g].indirect]
      BY <1>1, <1>2, <1>18, <2>2
    <3> QED
      BY <1>6, <3>1 DEF Numbers
  <2> QED
    BY <2>1, <2>2
<1>13. Cells(nds2, pg2, stl2, WrittenNow(f, r, v))
  <2>1. \A x \in st.used : x = st.node.indirect \/ pg2[x] = pg[x]
    BY <1>1, <1>2
  <2>2. stl \subseteq stl2
    BY <1>18
  <2>3. ASSUME NEW g \in File \ stl2, NEW j \in 0 .. MaxIndex, At(nds2[g], pg2, j) \in Page
        PROVE  \/ At(nds2[g], pg2, j) = At(nds[g], pg, j)
               \/ g = f /\ j = i /\ At(nds2[g], pg2, j) = p
    <3>1. j \in Place /\ j # Ind
      BY FileDataConstants DEF Place, Ind
    <3> QED
      BY <1>9, <2>3, <3>1
  <2>4. ASSUME f \notin stl2, NEW w \in Word, i * Usable + w \in Cell
        PROVE  WrittenNow(f, st, v)[f][i * Usable + w] = 0
    <3>1. pg[q] = Zeros /\ q \in Page \ st.used /\ nds[f].indirect = 0
      BY <1>1, <1>2, <1>18, <2>4
    <3> QED
      BY <1>2, <1>6, <2>4, <3>1 DEF Spent
  <2> QED
    BY <1>2, <2>1, <2>2, <2>3, <2>4, AllocatedCells DEF nds, nds2, pg, pg2, stl, stl2
<1>14. Covered(nds2, WrittenNow(f, r, v))
  <2> SUFFICES ASSUME NEW g \in File, NEW j \in 0 .. Direct - 1, NEW w \in Word,
                      j * Usable + w \in Cell,
                      WrittenNow(f, r, v)[g][j * Usable + w] # 0
               PROVE  nds2[g].direct[j] # 0
    BY DEF Covered
  <2>1. j \in Nat /\ j # i
    BY <1>2, FileDataConstants
  <2>2. WrittenNow(f, st, v)[g][j * Usable + w] # 0
    BY <1>5, <1>7, <2>1
  <2>3. nds[g].direct[j] # 0
    BY <1>6, <2>2 DEF Covered
  <2> QED
    BY <1>1, <1>2, <2>3
<1>15. Spent(nds2, r.used, pg2, WrittenNow(f, r, v))
  <2> SUFFICES ASSUME NEW g \in File, NEW j \in Direct .. MaxIndex, NEW w \in Word,
                      nds2[g].indirect = 0, j * Usable + w \in Cell,
                      WrittenNow(f, r, v)[g][j * Usable + w] # 0,
                      NEW x \in Page \ r.used
               PROVE  pg2[x] # Zeros
    BY DEF Spent
  <2>1. /\ j \in Nat /\ x \in Page \ st.used /\ pg2[x] = pg[x] /\ g # f
        /\ nds[g].indirect = 0
    BY <1>1, <1>2, <1>4, FileDataConstants
  <2>2. WrittenNow(f, st, v)[g][j * Usable + w] # 0
    BY <1>7, <2>1
  <2> QED
    BY <1>6, <2>1, <2>2 DEF Spent
<1>16. Grown(f, r)
  BY <1>1, <1>2, <1>4, <1>6 DEF Grown, pg, pg2
<1> QED
  BY <1>3, <1>10, <1>11, <1>12, <1>13, <1>14, <1>15, <1>16
     DEF LoopInv, nds2, pg2, stl2


\* Every turn of nbtrfs_write's loop keeps the invariant; low says that the
\* loop stays below the indirect block.
LEMMA TurnKeeps ==
  ASSUME TypeOK, NEW f \in File, NEW v \in Value, NEW low \in BOOLEAN,
         NEW i \in Nat, NEW lo \in Cell, NEW hi \in Cell,
         NEW st, LoopInv(f, st, v, low), low => i < Direct
  PROVE  LoopInv(f, WriteTurn(st, i, lo, hi, v), v, low)
<1> DEFINE r == WriteTurn(st, i, lo, hi, v)
           cs == OnPage(i, lo, hi)
<1>1. st \in LoopType
  BY DEF LoopInv
<1>2. r \in LoopType /\ TurnOutcome(st, r, i, cs, v)
  BY <1>1, TurnFacts
<1> HIDE DEF r
<1>3. CASE Stops(st, r)
  BY <1>2, <1>3, StopKeeps DEF r
<1>4. CASE Overwrites(st, r, i, cs, v)
  BY <1>2, <1>4, OverwriteKeeps DEF r
<1>5. ASSUME NEW p \in Page, Allocates(st, r, i, cs, v, p), InDirect(st, r, i, p)
      PROVE  LoopInv(f, r, v, low)
  BY <1>2, <1>5, InDirectKeeps
<1>6. ASSUME NEW p \in Page, Allocates(st, r, i, cs, v, p),
             NEW q \in Page, InIndirect(st, r, i, p, q)
      PROVE  LoopInv(f, r, v, low)
  BY <1>2, <1>6, InIndirectKeeps
<1>7. ASSUME NEW p \in Page, Allocates(st, r, i, cs, v, p), Lost(st, r, i, p)
      PROVE  LoopInv(f, r, v, low)
  BY <1>2, <1>7, LostKeeps
<1> QED
  BY <1>2, <1>3, <1>4, <1>5, <1>6, <1>7 DEF TurnOutcome, r

LEMMA StartInv ==
  ASSUME FileInv, NEW f \in File, NEW v \in Value, NEW low \in BOOLEAN, low => ~past
  PROVE  LoopInv(f, WriteStart(f), v, low)
<1> DEFINE st == WriteStart(f)
<1>1. st \in LoopType
  BY FileDataConstants DEF WriteStart, LoopType, FileInv, TypeOK
<1>2. /\ st.node = node[f] /\ st.used = used /\ st.page = page /\ st.dirty = dirty
      /\ st.done = {}
  BY DEF WriteStart
<1> HIDE DEF st
<1>3. Nodes(f, st) = node /\ StaleNow(f, st) = stale
  BY <1>2 DEF Nodes, StaleNow, FileInv, TypeOK
<1>4. WrittenNow(f, st, v) = written
  <2>1. written \in [File -> [Cell -> Content]]
    BY DEF FileInv, TypeOK
  <2>2. [c \in Cell |-> IF c \in st.done THEN v + c ELSE written[f][c]] = written[f]
    BY <1>2, <2>1
  <2> QED
    BY <2>1, <2>2 DEF WrittenNow
<1>5. Grown(f, st)
  BY <1>2 DEF Grown
<1> QED
  BY <1>1, <1>2, <1>3, <1>4, <1>5 DEF LoopInv, FileInv, st

\* The states of the loop after 0, 1, .. n turns.
IsWriteLoop(g, n, f, lo, hi, v) ==
  g = [k \in 0 .. n |-> IF k = 0 THEN WriteStart(f)
                        ELSE WriteTurn(g[k - 1], (lo \div Usable) + k - 1, lo, hi, v)]

LEMMA WriteLoopExists ==
  ASSUME NEW f, NEW lo, NEW hi, NEW v, NEW n \in Nat
  PROVE  \E g : IsWriteLoop(g, n, f, lo, hi, v)
<1> DEFINE Bad == {m \in Nat : ~ \E g : IsWriteLoop(g, m, f, lo, hi, v)}
<1> SUFFICES ASSUME Bad # {} PROVE FALSE
  OBVIOUS
<1>1. PICK m \in Bad : \A k \in Bad : m <= k
  BY LeastNumber
<1>2. CASE m = 0
  <2> DEFINE g == [k \in 0 .. 0 |-> WriteStart(f)]
  <2>1. IsWriteLoop(g, 0, f, lo, hi, v)
    BY DEF IsWriteLoop
  <2> QED
    BY <1>2, <2>1
<1>3. CASE m # 0
  <2>1. m \in Nat /\ m - 1 \in Nat /\ m - 1 \notin Bad
    BY <1>1, <1>3
  <2>2. PICK h : IsWriteLoop(h, m - 1, f, lo, hi, v)
    BY <2>1
  <2> DEFINE T(x, k) == WriteTurn(x, (lo \div Usable) + k - 1, lo, hi, v)
             g == [k \in 0 .. m |-> IF k = m THEN T(h[m - 1], m) ELSE h[k]]
  <2>3. h = [k \in 0 .. m - 1 |-> IF k = 0 THEN WriteStart(f) ELSE T(h[k - 1], k)]
    BY <2>2 DEF IsWriteLoop
  <2> HIDE DEF T
  <2>4. ASSUME NEW k \in 0 .. m
        PROVE  g[k] = IF k = 0 THEN WriteStart(f) ELSE T(g[k - 1], k)
    <3>1. CASE k = m
      <4>1. m - 1 \in 0 .. m /\ m - 1 # m
        BY <2>1
      <4> QED
        BY <1>3, <3>1, <4>1
    <3>2. CASE k # m
      <4>1. k \in 0 .. m - 1 /\ (k # 0 => k - 1 \in 0 .. m /\ k - 1 # m)
        BY <2>1, <3>2
      <4>2. h[k] = IF k = 0 THEN WriteStart(f) ELSE T(h[k - 1], k)
        BY <2>3, <4>1
      <4> QED
        BY <3>2, <4>1, <4>2
    <3> QED
      BY <3>1, <3>2
  <2>5. g = [k \in 0 .. m |-> IF k = 0 THEN WriteStart(f) ELSE T(g[k - 1], k)]
    BY <2>4
  <2>6. IsWriteLoop(g, m, f, lo, hi, v)
    BY <2>5 DEF IsWriteLoop, T
  <2> QED
    BY <1>1, <2>6
<1> QED
  BY <1>2, <1>3

\* What is true where the loop begins and kept by its turns is true at its end.
LEMMA WriteLoopInv ==
  ASSUME FileInv, NEW f \in File, NEW v \in Value, NEW low \in BOOLEAN,
         NEW lo \in Cell, NEW hi \in Cell, lo <= hi,
         low => ~past /\ hi \div Usable < Direct
  PROVE  LoopInv(f, WriteLoop(f, lo, hi, v), v, low)
<1> DEFINE n == LastTurn(lo, hi) + 1
           ql == lo \div Usable
           qh == hi \div Usable
<1>1. ql \in Nat /\ qh \in Nat /\ ql <= qh
  BY QuotientGrows DEF Cell
<1>2. n \in Nat /\ n = qh - ql + 1
  BY <1>1 DEF LastTurn
<1> DEFINE g == CHOOSE after : IsWriteLoop(after, n, f, lo, hi, v)
<1>3. WriteLoop(f, lo, hi, v) = g[n]
  BY DEF WriteLoop, IsWriteLoop
<1> HIDE DEF n
<1>4. IsWriteLoop(g, n, f, lo, hi, v)
  BY <1>2, WriteLoopExists
<1> HIDE DEF g, ql, qh
<1>5. \A k \in 0 .. n : g[k] = IF k = 0 THEN WriteStart(f)
                              ELSE WriteTurn(g[k - 1], ql + k - 1, lo, hi, v)
  BY <1>4 DEF IsWriteLoop, ql
<1> DEFINE Bad == {k \in 0 .. n : ~LoopInv(f, g[k], v, low)}
<1>6. Bad = {}
  <2> SUFFICES ASSUME Bad # {} PROVE FALSE
    OBVIOUS
  <2>1. Bad \in SUBSET Nat
    OBVIOUS
  <2>2. PICK m \in Bad : \A k \in Bad : m <= k
    BY <2>1, LeastNumber
  <2>3. CASE m = 0
    <3>1. g[m] = WriteStart(f)
      BY <1>5, <2>3
    <3>2. LoopInv(f, WriteStart(f), v, low)
      BY StartInv
    <3> QED
      BY <2>2, <3>1, <3>2
  <2>4. CASE m # 0
    <3>1. m - 1 \in 0 .. n /\ m - 1 \notin Bad /\ m \in 0 .. n
      BY <1>2, <2>2, <2>4
    <3>2. LoopInv(f, g[m - 1], v, low)
      BY <3>1
    <3>3. ql + m - 1 \in Nat /\ ql + m - 1 <= qh
      BY <1>1, <1>2, <2>4, <3>1
    <3>4. low => ql + m - 1 < Direct
      BY <1>1, <3>3, FileDataConstants DEF qh
    <3>5. g[m] = WriteTurn(g[m - 1], ql + m - 1, lo, hi, v)
      BY <1>5, <2>4, <3>1
    <3> HIDE DEF Bad
    <3>6. TypeOK
      BY DEF FileInv
    <3>7. LoopInv(f, g[m], v, low)
      BY <3>2, <3>3, <3>4, <3>5, <3>6, TurnKeeps
    <3> QED
      BY <2>2, <3>7 DEF Bad
  <2> QED
    BY <2>3, <2>4
<1> HIDE DEF g
<1>7. n \in 0 .. n
  BY <1>2
<1> QED
  BY <1>3, <1>6, <1>7
-----------------------------------------------------------------------------
(***************************************************************************)
(* The steps.                                                              *)
(***************************************************************************)
\* What the invariant says of the indirect blocks: they are in use, and are no
\* leaves.
LEMMA IndirectIsUsed ==
  ASSUME FileInv, NEW g \in File, node[g].indirect # 0
  PROVE  node[g].indirect \in Page /\ node[g].indirect \in used \ leaves
<1>1. Ind \in Place /\ node[g].indirect \in Page
  BY FileDataConstants DEF FileInv, TypeOK, NodeType, Ind, Place
<1>2. At(node[g], page, Ind) = node[g].indirect
  BY DEF At
<1> QED
  BY <1>1, <1>2 DEF FileInv, Apart

LEMMA InitInv == Init => FileInv
<1> SUFFICES ASSUME Init PROVE FileInv
  OBVIOUS
<1>1. /\ Usable \in Nat \ {0} /\ Direct \in Nat \ {0} /\ MaxCell \in Nat /\ 0 \notin Page
  BY FileDataConstants
<1>2. TypeOK
  <2>1. node \in [File -> NodeType]
    BY <1>1 DEF Init, NodeType
  <2>2. written \in [File -> [Cell -> Content]]
    BY DEF Init, Content
  <2> QED
    BY <2>1, <2>2, PageTypes DEF Init, TypeOK
<1>3. ASSUME NEW f \in File, NEW i \in Place PROVE At(node[f], page, i) = 0
  <2>1. node[f] \in NodeType /\ node[f].indirect = 0 /\ page \in [Page -> PageType]
    BY <1>2 DEF TypeOK, Init
  <2>2. i < Direct => node[f].direct[i] = 0
    BY <1>1 DEF Init, Place
  <2> QED
    BY <2>1, <2>2, AtFacts
<1>4. Apart(node, used, leaves, page, stale)
  BY <1>1, <1>3 DEF Apart
<1>5. Spare(used, leaves, page) /\ Numbers(node, page, stale)
  BY DEF Init, Spare, Numbers
<1>6. OnDisk(node, page, dirty, saved) /\ CleanOnDisk(node, page, saved, stale)
  BY DEF Init, OnDisk, CleanOnDisk
<1>7. Cells(node, page, stale, written)
  <2>1. \A i \in 0 .. MaxIndex : i \in Place
    BY FileDataConstants DEF Place
  <2> QED
    BY <1>1, <1>3, <2>1 DEF Cells
<1>8. ASSUME NEW f \in File, NEW c \in Cell PROVE written[f][c] = 0
  BY DEF Init
<1>9. Covered(node, written) /\ Spent(node, used, page, written)
  BY <1>8 DEF Covered, Spent
<1>10. NoneLost(node, used, leaves, page)
  BY DEF Init, NoneLost
<1> QED
  BY <1>2, <1>4, <1>5, <1>6, <1>7, <1>9, <1>10 DEF FileInv

LEMMA WriteStepInv ==
  ASSUME FileInv, NEW f \in File, NEW lo \in Cell, NEW hi \in Cell, lo <= hi, NEW v \in Value,
         nbtrfs_write(f, lo, hi, v)
  PROVE  FileInv'
<1> DEFINE st == WriteLoop(f, lo, hi, v)
           low == ~past'
           nds == Nodes(f, st)
<1>1. /\ node' = [node EXCEPT ![f] = IF st.going THEN Sized(st.node, hi) ELSE st.node]
      /\ used' = st.used /\ page' = st.page /\ dirty' = st.dirty
      /\ past' = (past \/ hi \div Usable >= Direct)
      /\ stale' = StaleNow(f, st) /\ written' = WrittenNow(f, st, v)
      /\ Announced /\ leaves' = leaves
  BY DEF nbtrfs_write, StaleNow, WrittenNow
<1>2. LoopInv(f, st, v, low)
  <2>1. low => ~past /\ hi \div Usable < Direct
    <3>1. hi \div Usable \in Nat
      BY QuotientGrows DEF Cell
    <3>2. low => ~past /\ ~(hi \div Usable >= Direct)
      BY <1>1, Zenon
    <3> QED
      BY <3>1, <3>2, FileDataConstants
  <2>2. low \in BOOLEAN
    OBVIOUS
  <2> HIDE DEF low
  <2> QED
    BY <2>1, <2>2, WriteLoopInv
<1> HIDE DEF st
<1>3. /\ st \in LoopType /\ st.node \in NodeType /\ st.page \in [Page -> PageType]
      /\ st.used \subseteq Page /\ st.dirty \subseteq Page /\ Grown(f, st)
      /\ Apart(nds, st.used, leaves, st.page, stale')
      /\ Spare(st.used, leaves, st.page) /\ Numbers(nds, st.page, stale')
      /\ Cells(nds, st.page, stale', written')
      /\ Covered(nds, written') /\ Spent(nds, st.used, st.page, written')
      /\ (low => NoneLost(nds, st.used, leaves, st.page))
  BY <1>1, <1>2 DEF LoopInv, LoopType
<1>4. TypeOK
  BY DEF FileInv
<1>5. /\ nds \in [File -> NodeType] /\ nds[f] = st.node
      /\ \A g \in File \ {f} : nds[g] = node[g]
  BY <1>3, <1>4, NodesFacts
<1>6. /\ node' \in [File -> NodeType]
      /\ node'[f].direct = st.node.direct /\ node'[f].indirect = st.node.indirect
      /\ \A g \in File \ {f} : node'[g] = node[g]
  <2>1. /\ Sized(st.node, hi) \in NodeType /\ Sized(st.node, hi).direct = st.node.direct
        /\ Sized(st.node, hi).indirect = st.node.indirect
    <3>1. hi + 1 \in 0 .. MaxCell + 1
      BY FileDataConstants DEF Cell
    <3> QED
      BY <1>3, <3>1 DEF Sized, NodeType
  <2> QED
    BY <1>1, <1>3, <1>4, <2>1 DEF TypeOK
<1>7. \A g \in File : node'[g].indirect = nds[g].indirect /\ node'[g].direct = nds[g].direct
  BY <1>5, <1>6
<1>8. ASSUME NEW g \in File, NEW i \in Place PROVE At(node'[g], page', i) = At(nds[g], st.page, i)
  BY <1>1, <1>3, <1>5, <1>6, <1>7, AtChange
<1>9. TypeOK'
  <2>1. saved' \in [Page -> PageType]
    BY <1>1, <1>3, <1>4 DEF Announced, TypeOK
  <2>2. written' \in [File -> [Cell -> Content]]
    BY <1>1, <1>3, <1>4, WrittenFacts
  <2>3. leaves \subseteq st.used
    BY <1>3, <1>4, LeavesAreUsed
  <2>4. stale' \subseteq File /\ past' \in BOOLEAN
    BY <1>1, <1>4 DEF StaleNow, TypeOK
  <2> QED
    BY <1>1, <1>3, <1>6, <2>1, <2>2, <2>3, <2>4 DEF TypeOK
<1>10. Apart(node', used', leaves', page', stale')
  <2>1. used' = st.used /\ leaves' = leaves
    BY <1>1
  <2> HIDE DEF nds
  <2> QED
    BY <1>3, <1>8, <2>1, FewerStayApart
<1>11. Spare(used', leaves', page')
  BY <1>1, <1>3
<1>12. Numbers(node', page', stale')
  BY <1>1, <1>3, <1>7 DEF Numbers
<1>13. Cells(node', page', stale', written')
  <2>1. \A i \in 0 .. MaxIndex : i \in Place
    BY FileDataConstants DEF Place
  <2> QED
    BY <1>1, <1>3, <1>8, <2>1 DEF Cells
<1>14. Covered(node', written') /\ Spent(node', used', page', written')
  BY <1>1, <1>3, <1>7 DEF Covered, Spent
<1>15. ~past' => NoneLost(node', used', leaves', page')
  BY <1>1, <1>3, <1>7, <1>8 DEF NoneLost
<1>16. /\ \A p \in dirty' : saved'[p] = page'[p]
       /\ \A p \in Page \ dirty' : saved'[p] = saved[p]
  BY <1>1, <1>3 DEF Announced
<1>17. ASSUME NEW p \in Page \ dirty', \A g \in File : node[g].indirect = p => node'[g].indirect = p
       PROVE  page'[p] = page[p] \/ (node[f].indirect = 0 /\ p = st.node.indirect)
  BY <1>1, <1>3 DEF Grown
<1>18. \A g \in File : node[g].indirect # 0 => node'[g].indirect = node[g].indirect
  BY <1>3, <1>6 DEF Grown
\* The indirect block the write has begun lay free before it.
<1>19. ASSUME node[f].indirect = 0, st.node.indirect # 0
       PROVE  LET q == st.node.indirect IN
              q \in Page \ used /\ saved[q] = page[q] /\ page[q] \in {Zeros, Leaf(q)}
                /\ \A g \in File : node[g].indirect # q
  <2>1. st.node.indirect \in Page \ used
    BY <1>3, <1>19 DEF Grown, NodeType
  <2>2. \A g \in File : node[g].indirect # st.node.indirect
    BY <1>19, <2>1, IndirectIsUsed
  <2> QED
    BY <2>1, <2>2 DEF FileInv, Spare, OnDisk
<1>20. ASSUME NEW g \in File, node'[g].indirect # 0, node'[g].indirect \notin dirty'
       PROVE  LET q == node'[g].indirect IN
              /\ saved'[q] = saved[q] /\ q \in Page
              /\ \/ page'[q] = page[q] /\ node[g].indirect = q
                 \/ /\ saved[q] = page[q] /\ page[q] \in {Zeros, Leaf(q)}
                    /\ g = f /\ (f \notin stale' => page[q] = Zeros)
  <2> DEFINE q == node'[g].indirect
  <2>1. q \in Page /\ saved'[q] = saved[q]
    BY <1>6, <1>16, <1>20 DEF NodeType
  <2>2. CASE g = f /\ node[f].indirect = 0
    <3>1. q = st.node.indirect /\ st.node.indirect # node[f].indirect
      BY <1>6, <1>20, <2>2
    <3>2. f \notin stale' => page[q] = Zeros
      BY <1>1, <3>1 DEF StaleNow
    <3> QED
      BY <1>19, <1>20, <2>1, <2>2, <3>1, <3>2
  <2>3. CASE ~(g = f /\ node[f].indirect = 0)
    <3>1. node[g].indirect = q
      BY <1>6, <1>18, <2>3
    <3>2. ~(node[f].indirect = 0 /\ q = st.node.indirect)
      BY <1>19, <1>20, <3>1
    <3>3. page'[q] = page[q]
      BY <1>1, <1>3, <1>20, <2>1, <3>2 DEF Grown
    <3> QED
      BY <2>1, <3>1, <3>3
  <2> QED
    BY <2>2, <2>3
<1>21. OnDisk(node', page', dirty', saved')
  <2>1. ASSUME NEW p \in Page, \A g \in File : node'[g].indirect # p
        PROVE  saved'[p] = page'[p]
    <3>1. CASE p \in dirty'
      BY <1>16, <3>1
    <3>2. CASE p \notin dirty'
      <4>1. page'[p] = page[p]
        BY <1>1, <1>3, <1>6, <2>1, <3>2 DEF Grown
      <4>2. \A g \in File : node[g].indirect # p
        BY <1>18, <2>1, FileDataConstants
      <4> QED
        BY <1>16, <3>2, <4>1, <4>2 DEF FileInv, OnDisk
    <3> QED
      BY <3>1, <3>2
  <2>2. ASSUME NEW g \in File, node'[g].indirect # 0
        PROVE  LET q == node'[g].indirect IN
               saved'[q] = page'[q] \/ saved'[q] = Zeros \/ saved'[q].type = "node"
    <3>1. \A p : Leaf(p).type = "node"
      BY DEF Leaf
    <3> QED
      BY <1>16, <1>20, <2>2, <3>1 DEF FileInv, OnDisk
  <2> QED
    BY <1>16, <2>1, <2>2 DEF OnDisk
<1>22. CleanOnDisk(node', page', saved', stale')
  <2> SUFFICES ASSUME NEW g \in File \ stale', node'[g].indirect # 0
               PROVE  LET q == node'[g].indirect IN saved'[q] = page'[q] \/ saved'[q] = Zeros
    BY DEF CleanOnDisk
  <2>1. g \notin stale
    BY <1>1 DEF StaleNow
  <2> QED
    BY <1>16, <1>20, <2>1 DEF FileInv, CleanOnDisk
<1> QED
  BY <1>9, <1>10, <1>11, <1>12, <1>13, <1>14, <1>15, <1>21, <1>22 DEF FileInv

LEMMA NewLeafInv ==
  ASSUME FileInv, NewLeaf
  PROVE  FileInv'
<1> DEFINE p == Min(Free(used))
<1>1. /\ p \in Page \ used /\ used' = used \cup {p} /\ leaves' = leaves \cup {p}
      /\ page' = [page EXCEPT ![p] = Leaf(p)] /\ dirty' = dirty \cup {p}
      /\ Announced /\ node' = node /\ past' = past /\ stale' = stale /\ written' = written
  BY LowestFree DEF NewLeaf
<1> HIDE DEF p
<1>2. TypeOK /\ leaves \subseteq used /\ used \subseteq Page
  BY DEF FileInv, TypeOK
<1>3. page \in [Page -> PageType] /\ page' \in [Page -> PageType] /\ page'[p] = Leaf(p)
      /\ \A x \in Page \ {p} : page'[x] = page[x]
  BY <1>1, <1>2, PageTypes DEF TypeOK
<1>4. /\ \A x \in dirty' : saved'[x] = page'[x]
      /\ \A x \in Page \ dirty' : saved'[x] = saved[x] /\ page'[x] = page[x]
      /\ saved' \in [Page -> PageType] /\ dirty' \subseteq Page
  BY <1>1, <1>2, <1>3 DEF Announced, TypeOK
<1>5. TypeOK'
  BY <1>1, <1>2, <1>3, <1>4 DEF TypeOK
<1>6. \A g \in File : /\ node[g] \in NodeType
                      /\ node[g].indirect # 0 => /\ node[g].indirect \in Page
                                                 /\ page'[node[g].indirect] = page[node[g].indirect]
  <2>1. \A g \in File : node[g] \in NodeType
    BY <1>2 DEF TypeOK
  <2> QED
    BY <1>1, <1>3, <2>1, IndirectIsUsed
<1>7. \A g \in File, i \in Place : At(node[g], page', i) = At(node[g], page, i)
  BY <1>3, <1>6, AtFrame
<1>8. Apart(node, used', leaves', page', stale)
  <2>1. used \ leaves \subseteq used' \ leaves' /\ stale \subseteq stale
    BY <1>1, <1>2
  <2>2. Apart(node, used, leaves, page, stale)
    BY DEF FileInv
  <2> QED
    BY <1>7, <2>1, <2>2, FewerStayApart
<1>9. Spare(used', leaves', page')
  BY <1>1, <1>2, <1>3 DEF FileInv, Spare
<1>10. Numbers(node, page', stale)
  BY <1>6 DEF FileInv, Numbers
<1>11. OnDisk(node, page', dirty', saved')
  BY <1>4, <1>6 DEF FileInv, OnDisk
<1>12. CleanOnDisk(node, page', saved', stale)
  BY <1>4, <1>6 DEF FileInv, CleanOnDisk
<1>13. Cells(node, page', stale, written)
  <2>1. ASSUME NEW g \in File, NEW i \in 0 .. MaxIndex, At(node[g], page, i) \in Page
        PROVE  /\ At(node[g], page', i) = At(node[g], page, i)
               /\ page'[At(node[g], page, i)] = page[At(node[g], page, i)]
    <3>1. i \in Place
      BY FileDataConstants DEF Place
    <3>2. At(node[g], page, i) \in used
      BY <2>1, <3>1 DEF FileInv, Apart
    <3> QED
      BY <1>1, <1>3, <1>7, <2>1, <3>1, <3>2
  <2>2. \A i \in 0 .. MaxIndex : i \in Place
    BY FileDataConstants DEF Place
  <2> QED
    BY <1>7, <2>1, <2>2 DEF FileInv, Cells
<1>14. Covered(node, written) /\ Spent(node, used', page', written)
  BY <1>1, <1>3 DEF FileInv, Spent
<1>15. ~past => NoneLost(node, used', leaves', page')
  <2>1. used' \ leaves' = used \ leaves
    BY <1>1, <1>2
  <2>2. ~past => NoneLost(node, used, leaves, page)
    BY DEF FileInv
  <2>3. NoneLost(node, used, leaves, page) => NoneLost(node, used', leaves', page')
    BY <1>7, <2>1 DEF NoneLost
  <2> QED
    BY <2>2, <2>3
<1> QED
  BY <1>1, <1>5, <1>8, <1>9, <1>10, <1>11, <1>12, <1>13, <1>14, <1>15 DEF FileInv

LEMMA FreeLeafInv ==
  ASSUME FileInv, NEW p \in leaves, FreeLeaf(p)
  PROVE  FileInv'
<1>1. /\ used' = used \ {p} /\ leaves' = leaves \ {p} /\ node' = node /\ page' = page
      /\ dirty' = dirty /\ saved' = saved /\ past' = past /\ stale' = stale
      /\ written' = written
  BY DEF FreeLeaf
<1>2. TypeOK /\ leaves \subseteq used /\ used \subseteq Page
  BY DEF FileInv, TypeOK
<1>3. TypeOK'
  BY <1>1, <1>2 DEF TypeOK
<1>4. used' \ leaves' = used \ leaves
  BY <1>1
<1>5. page[p] = Leaf(p) /\ Leaf(p) # Zeros
  BY DEF FileInv, Spare, Leaf, Zeros
<1>6. Apart(node, used', leaves', page, stale)
  BY <1>4 DEF FileInv, Apart
<1>7. Spare(used', leaves', page)
  BY <1>1, <1>5 DEF FileInv, Spare
<1>8. Spent(node, used', page, written)
  BY <1>1, <1>5 DEF FileInv, Spent
<1>9. ~past => NoneLost(node, used', leaves', page)
  BY <1>4 DEF FileInv, NoneLost
<1> QED
  BY <1>1, <1>3, <1>6, <1>7, <1>8, <1>9 DEF FileInv

LEMMA RemountInv ==
  ASSUME FileInv, Remount
  PROVE  FileInv'
<1>1. /\ page' = saved /\ dirty' = {} /\ node' = node /\ used' = used /\ leaves' = leaves
      /\ saved' = saved /\ past' = past /\ stale' = stale /\ written' = written
  BY DEF Remount
<1>2. TypeOK /\ leaves \subseteq used /\ used \subseteq Page /\ 0 \notin Page
      /\ page \in [Page -> PageType] /\ saved \in [Page -> PageType]
  BY FileDataConstants DEF FileInv, TypeOK
<1>3. TypeOK'
  BY <1>1, <1>2 DEF TypeOK
<1>4. \A x \in Page : (\A g \in File : node[g].indirect # x) => saved[x] = page[x]
  BY DEF FileInv, OnDisk
<1>5. \A x \in Page : x \notin used \ leaves => saved[x] = page[x]
  BY <1>2, <1>4, IndirectIsUsed
<1>6. \A g \in File : node[g] \in NodeType /\ node[g].indirect \in {0} \cup Page
  BY <1>2 DEF TypeOK, NodeType
<1>7. ASSUME NEW g \in File, NEW i \in Place
      PROVE  At(node[g], saved, i) \in Page => At(node[g], saved, i) = At(node[g], page, i)
  <2> DEFINE q == node[g].indirect
  <2>1. CASE q = 0 \/ saved[q] = page[q]
    BY <1>2, <1>6, <2>1, AtFrame
  <2>2. CASE q # 0 /\ saved[q] # page[q]
    <3>1. saved[q] = Zeros \/ saved[q].type = "node"
      BY <2>2 DEF FileInv, OnDisk
    <3>2. CASE i = Ind \/ i < Direct
      BY <1>2, <1>6, <3>2, AtFacts
    <3>3. CASE i \in Direct .. MaxIndex
      <4>1. CASE saved[q] = Zeros
        <5>1. saved[q].type = "data" /\ \A w \in Word : saved[q].word[w] = 0
          BY <4>1 DEF Zeros
        <5> QED
          BY <1>2, <1>6, <2>2, <3>3, <5>1, AtFacts
      <4>2. CASE saved[q].type = "node"
        BY <1>2, <1>6, <3>3, <4>2, AtFacts
      <4> QED
        BY <3>1, <4>1, <4>2
    <3> QED
      BY <1>2, <1>6, <3>2, <3>3, AtFacts
  <2> QED
    BY <2>1, <2>2
<1>8. Apart(node, used, leaves, saved, stale)
  <2>1. Apart(node, used, leaves, page, stale) /\ used \ leaves \subseteq used \ leaves
        /\ stale \subseteq stale
    BY DEF FileInv
  <2> QED
    BY <1>7, <2>1, FewerStayApart
<1>9. Spare(used, leaves, saved)
  BY <1>2, <1>5 DEF FileInv, Spare
<1>10. Numbers(node, saved, stale)
  <2>1. PageNumbers(Zeros)
    BY DEF PageNumbers, Zeros
  <2> QED
    BY <2>1 DEF FileInv, Numbers, CleanOnDisk
<1>11. OnDisk(node, saved, {}, saved) /\ CleanOnDisk(node, saved, saved, stale)
  BY DEF OnDisk, CleanOnDisk
<1>12. Cells(node, saved, stale, written)
  <2> SUFFICES ASSUME NEW g \in File \ stale, NEW i \in 0 .. MaxIndex,
                      At(node[g], saved, i) \in Page, NEW w \in Word, i * Usable + w \in Cell
               PROVE  saved[At(node[g], saved, i)].word[w] = written[g][i * Usable + w]
    BY DEF Cells
  <2> DEFINE x == At(node[g], page, i)
  <2>1. i \in Place /\ i # Ind
    BY FileDataConstants DEF Place, Ind
  <2>2. At(node[g], saved, i) = x /\ x \in Page
    BY <1>7, <2>1
  <2>3. ASSUME NEW h \in File, node[h].indirect = x PROVE FALSE
    <3>1. node \in [File -> NodeType] /\ Apart(node, used, leaves, page, stale)
      BY <1>2 DEF TypeOK, FileInv
    <3>2. h = g /\ g \in stale
      BY <1>2, <2>1, <2>2, <2>3, <3>1, IndirectIsApart
    <3> QED
      BY <3>2
  <2>4. saved[x] = page[x]
    BY <1>4, <2>2, <2>3
  <2>5. page[x].word[w] = written[g][i * Usable + w]
    BY <2>2 DEF FileInv, Cells
  <2> QED
    BY <2>2, <2>4, <2>5
<1>13. Covered(node, written) /\ Spent(node, used, saved, written)
  BY <1>2, <1>5 DEF FileInv, Spent
<1>14. ~past => NoneLost(node, used, leaves, saved)
  <2> SUFFICES ASSUME ~past PROVE NoneLost(node, used, leaves, saved)
    OBVIOUS
  <2>1. NoneLost(node, used, leaves, page)
    BY DEF FileInv
  <2>2. \A g \in File, i \in Place : At(node[g], saved, i) = At(node[g], page, i)
    BY <1>2, <1>6, <2>1, AtFrame DEF NoneLost
  <2> QED
    BY <2>1, <2>2 DEF NoneLost
<1> QED
  BY <1>1, <1>3, <1>8, <1>9, <1>10, <1>11, <1>12, <1>13, <1>14 DEF FileInv

\* The invariant is inductive.
THEOREM FileInvariant == Spec => []FileInv
<1>1. Init => FileInv
  BY InitInv
<1>2. FileInv /\ [Next]_vars => FileInv'
  <2> SUFFICES ASSUME FileInv, [Next]_vars PROVE FileInv'
    OBVIOUS
  <2>1. ASSUME NEW f \in File, NEW lo \in Cell, NEW n \in 1 .. MaxWrite, NEW v \in Value,
               lo + n - 1 \in Cell, nbtrfs_write(f, lo, lo + n - 1, v)
        PROVE  FileInv'
    <3>1. lo <= lo + n - 1
      BY FileDataConstants DEF Cell
    <3> QED
      BY <2>1, <3>1, WriteStepInv
  <2>2. CASE NewLeaf
    BY <2>2, NewLeafInv
  <2>3. ASSUME NEW p \in leaves, FreeLeaf(p) PROVE FileInv'
    BY <2>3, FreeLeafInv
  <2>4. CASE Remount
    BY <2>4, RemountInv
  <2>5. CASE UNCHANGED vars
    BY <2>5 DEF vars, FileInv, TypeOK
  <2> QED
    BY <2>1, <2>2, <2>3, <2>4, <2>5 DEF Next
<1> QED
  BY <1>1, <1>2, PTL DEF Spec

\* Type correctness: inodes, pages and leaves are what the program declares, and
\* the leaves are in use.
THEOREM FileTypeOK == Spec => []TypeOK
<1>1. FileInv => TypeOK
  BY DEF FileInv
<1> QED
  BY <1>1, FileInvariant, PTL
-----------------------------------------------------------------------------
(***************************************************************************)
(* What the invariant says of the pages of the files.                      *)
(***************************************************************************)
LEMMA OwnedFacts ==
  ASSUME NEW f \in File
  PROVE  /\ \A i \in 0 .. MaxIndex :
              At(node[f], page, i) = inode_get_block(node[f], page, i).block /\ i \in Place /\ i # Ind
         /\ \A x : x \in Reached(f) <=>
              x \in Page /\ \E i \in Place : i # Ind /\ At(node[f], page, i) = x
         /\ At(node[f], page, Ind) = node[f].indirect /\ Ind \in Place
<1>1. /\ \A i \in 0 .. MaxIndex : i \in Place /\ i # Ind
      /\ \A i \in Place : i # Ind => i \in 0 .. MaxIndex
      /\ Ind \in Place
  BY FileDataConstants DEF Place, Ind
<1>2. \A i : i # Ind => At(node[f], page, i) = inode_get_block(node[f], page, i).block
  BY DEF At
<1>3. At(node[f], page, Ind) = node[f].indirect
  BY DEF At
<1> QED
  BY <1>1, <1>2, <1>3 DEF Reached

\* What a file owns lies at its places.
LEMMA OwnedIsAt ==
  ASSUME TypeOK, NEW f \in File, NEW x
  PROVE  x \in Owned(f) <=> x \in Page /\ \E i \in Place : At(node[f], page, i) = x
<1>1. node[f].indirect \in {0} \cup Page /\ 0 \notin Page
  BY FileDataConstants DEF TypeOK, NodeType
<1> QED
  BY <1>1, OwnedFacts DEF Owned

\* No page has two owners (inode.c:148-200, fuse.c:373-385).
THEOREM FilePagesApart == Spec => []PagesApart
<1>1. FileInv => PagesApart
  <2> SUFFICES ASSUME FileInv PROVE PagesApart
    OBVIOUS
  <2>1. TypeOK /\ Apart(node, used, leaves, page, stale)
    BY DEF FileInv
  <2>2. ASSUME NEW f \in File PROVE Owned(f) \subseteq used \ leaves
    BY <2>1, OwnedIsAt DEF Apart
  <2>3. ASSUME NEW f \in File, NEW g \in File \ {f} PROVE Owned(f) \cap Owned(g) = {}
    BY <2>1, OwnedIsAt DEF Apart
  <2>4. ASSUME NEW f \in File, f \notin stale PROVE node[f].indirect \notin Reached(f)
    BY <2>1, <2>4, OwnedFacts DEF Apart
  <2>5. ASSUME NEW f \in File, NEW i \in 0 .. MaxIndex, NEW j \in 0 .. MaxIndex, i # j,
               inode_get_block(node[f], page, i).block \in Page
        PROVE  inode_get_block(node[f], page, i).block # inode_get_block(node[f], page, j).block
    <3>1. /\ At(node[f], page, i) = inode_get_block(node[f], page, i).block
          /\ At(node[f], page, j) = inode_get_block(node[f], page, j).block
          /\ i \in Place /\ j \in Place /\ i # Ind /\ j # Ind
      BY OwnedFacts
    <3> QED
      BY <2>1, <2>5, <3>1 DEF Apart
  <2> QED
    BY <2>2, <2>3, <2>4, <2>5 DEF PagesApart
<1> QED
  BY <1>1, FileInvariant, PTL

\* Below the indirect block no page is lost (fuse.c:373-385).
THEOREM FileNoPageLeaks == Spec => []NoPageLeaks
<1>1. FileInv => NoPageLeaks
  <2> SUFFICES ASSUME FileInv, ~past PROVE used = leaves \cup UNION {Owned(f) : f \in File}
    BY DEF NoPageLeaks
  <2>1. /\ TypeOK /\ Apart(node, used, leaves, page, stale)
        /\ NoneLost(node, used, leaves, page)
    BY DEF FileInv
  <2>2. leaves \subseteq used /\ used \subseteq Page
    BY <2>1 DEF TypeOK
  <2>3. ASSUME NEW x \in used \ leaves PROVE \E f \in File : x \in Owned(f)
    BY <2>1, <2>2, OwnedIsAt DEF NoneLost
  <2>4. \A f \in File : Owned(f) \subseteq used
    BY <2>1, OwnedIsAt DEF Apart
  <2> QED
    BY <2>2, <2>3, <2>4
<1> QED
  BY <1>1, FileInvariant, PTL
-----------------------------------------------------------------------------
(***************************************************************************)
(* What nbtrfs_read returns.                                               *)
(***************************************************************************)
PageWord == {Junk} \cup Content \cup Page

ReadType == [rv : {-1} \cup Nat, data : Seq(PageWord), going : BOOLEAN]

\* The n cells in s are those of a row from lo on.
Matches(s, n, lo, row) == \A k \in 1 .. n : s[k] = row[lo + k - 1]

\* The cells a .. b - 1 lie on page index i.
LieOn(a, b, i) == \A c \in a .. b - 1 : c \div Usable = i

\* The first cell the loop for lo .. hi has not read before page index i.
From(i, lo, hi) == IF i = lo \div Usable THEN lo
                   ELSE IF i > hi \div Usable THEN hi + 1 ELSE i * Usable

\* What the loop has read before page index i.  With a page for each cell it
\* goes on to the end.
ReadInv(out, f, lo, hi, i, full) ==
  /\ out \in ReadType
  /\ out.going => lo + out.rv = From(i, lo, hi)
  /\ out.rv = -1 => ~out.going
  /\ out.rv # -1 => /\ Len(out.data) = out.rv /\ lo + out.rv <= hi + 1
                    /\ f \notin stale => Matches(out.data, out.rv, lo, written[f])
  /\ (full => out.going)

\* The cells on one page are an interval.
LEMMA OnPageIsInterval ==
  ASSUME NEW lo \in Cell, NEW hi \in Cell, lo <= hi,
         NEW i \in lo \div Usable .. hi \div Usable
  PROVE  LET a == From(i, lo, hi)
             b == From(i + 1, lo, hi)
         IN  /\ i \in Nat /\ a \in lo .. hi /\ b \in a + 1 .. hi + 1
             /\ OnPage(i, lo, hi) = a .. b - 1
<1> DEFINE ql == lo \div Usable
           qh == hi \div Usable
           wl == lo % Usable
           wh == hi % Usable
           a == From(i, lo, hi)
           b == From(i + 1, lo, hi)
<1>1. Usable \in Nat \ {0} /\ lo \in Nat /\ hi \in Nat
  BY FileDataConstants DEF Cell
<1>2. /\ ql \in Nat /\ qh \in Nat /\ wl \in 0 .. Usable - 1 /\ wh \in 0 .. Usable - 1
      /\ lo = ql * Usable + wl /\ hi = qh * Usable + wh
  BY <1>1, CellIsAt DEF Word
<1>3. i \in Nat /\ ql <= i /\ i <= qh
  BY <1>2
<1>4. a = (IF i = ql THEN lo ELSE i * Usable)
  BY <1>2, <1>3 DEF From
<1>5. b = (IF i = qh THEN hi + 1 ELSE (i + 1) * Usable)
  BY <1>2, <1>3 DEF From
<1> HIDE DEF ql, qh, wl, wh, a, b
<1>6. (i + 1) * Usable = i * Usable + Usable /\ i * Usable \in Nat
  BY <1>1, <1>3
<1>7. \A c \in Nat : c \div Usable = i <=> (i * Usable <= c /\ c < i * Usable + Usable)
  <2> SUFFICES ASSUME NEW c \in Nat
               PROVE  c \div Usable = i <=> (i * Usable <= c /\ c < i * Usable + Usable)
    OBVIOUS
  <2>1. ASSUME c \div Usable = i PROVE i * Usable <= c /\ c < i * Usable + Usable
    <3>1. c % Usable \in 0 .. Usable - 1 /\ c = i * Usable + (c % Usable)
      BY <2>1, CellIsAt DEF Word
    <3> QED
      BY <1>1, <1>6, <3>1
  <2>2. ASSUME i * Usable <= c, c < i * Usable + Usable PROVE c \div Usable = i
    <3> DEFINE w == c - i * Usable
    <3>1. w \in Word /\ c = i * Usable + w
      BY <1>1, <1>6, <2>2 DEF Word
    <3> HIDE DEF w
    <3> QED
      BY <1>3, <3>1, CellAt
  <2> QED
    BY <2>1, <2>2
<1>8. i = ql => lo >= i * Usable /\ lo < i * Usable + Usable
  BY <1>1, <1>2, <1>6
<1>9. i = qh => hi >= i * Usable /\ hi < i * Usable + Usable
  BY <1>1, <1>2, <1>6
<1>10. i # ql => lo < i * Usable
  <2> SUFFICES ASSUME i # ql, i * Usable <= lo PROVE FALSE
    BY <1>1, <1>6
  <2>1. i - ql - 1 \in Nat
    BY <1>2, <1>3
  <2>2. i * Usable = ql * Usable + Usable + (i - ql - 1) * Usable
    BY <1>1, <1>2, <1>3
  <2>3. (i - ql - 1) * Usable \in Nat /\ ql * Usable \in Nat
    BY <1>1, <1>2, <2>1
  <2> QED
    BY <1>1, <1>2, <2>2, <2>3
<1>11. i # qh => i * Usable + Usable <= hi
  <2> SUFFICES ASSUME i # qh, hi < i * Usable + Usable PROVE FALSE
    BY <1>1, <1>6
  <2>1. qh - i - 1 \in Nat
    BY <1>2, <1>3
  <2>2. qh * Usable = i * Usable + Usable + (qh - i - 1) * Usable
    BY <1>1, <1>2, <1>3
  <2>3. (qh - i - 1) * Usable \in Nat /\ qh * Usable \in Nat
    BY <1>1, <1>2, <2>1
  <2> QED
    BY <1>1, <1>2, <1>6, <2>2, <2>3
<1>12. a \in lo .. hi /\ b \in a + 1 .. hi + 1
  BY <1>1, <1>4, <1>5, <1>6, <1>8, <1>9, <1>10, <1>11
<1>13. \A c \in lo .. hi : c \div Usable = i <=> c \in a .. b - 1
  BY <1>1, <1>4, <1>5, <1>6, <1>7, <1>8, <1>9, <1>10, <1>11
<1>14. OnPage(i, lo, hi) = a .. b - 1
  <2>1. a .. b - 1 \subseteq lo .. hi
    BY <1>1, <1>12
  <2>2. OnPage(i, lo, hi) = {c \in lo .. hi : c \div Usable = i}
    BY DEF OnPage
  <2> QED
    BY <1>13, <2>1, <2>2
<1> QED
  BY <1>3, <1>12, <1>14 DEF a, b

LEMMA IntervalFacts ==
  ASSUME NEW a \in Nat, NEW b \in Nat, a < b
  PROVE  Cardinality(a .. b - 1) = b - a /\ Min(a .. b - 1) = a
<1>1. Cardinality(a .. b - 1) = b - a
  BY FS_Interval
<1>2. a \in a .. b - 1 /\ \A c \in a .. b - 1 : a <= c
  OBVIOUS
<1>3. ASSUME NEW x \in a .. b - 1, \A c \in a .. b - 1 : x <= c PROVE x = a
  BY <1>2, <1>3
<1>4. Min(a .. b - 1) = a
  BY <1>2, <1>3 DEF Min
<1> QED
  BY <1>1, <1>4

\* The cells one turn adds to what is read.
Piece(x, a, b) == [k \in 1 .. b - a |-> page[x].word[(a + k - 1) % Usable]]

\* What one turn of nbtrfs_read's loop reads is what was written there.
LEMMA PieceFacts ==
  ASSUME FileInv, NEW f \in File, NEW i \in 0 .. MaxIndex, NEW a \in Cell, NEW b \in Nat,
         a < b, b - 1 \in Cell, LieOn(a, b, i),
         NEW x \in Page, x = inode_get_block(node[f], page, i).block
  PROVE  /\ Piece(x, a, b) \in Seq(PageWord) /\ Len(Piece(x, a, b)) = b - a
         /\ f \notin stale => Matches(Piece(x, a, b), b - a, a, written[f])
<1>1. a \in Nat /\ b - a \in Nat /\ \A k \in 1 .. b - a : a + k - 1 \in Cell /\ a + k - 1 \in a .. b - 1
  BY FileDataConstants DEF Cell
<1>2. page[x] \in PageType
  BY DEF FileInv, TypeOK
<1>3. \A w \in Word : page[x].word[w] \in PageWord
  BY <1>2 DEF PageType, PageWord
<1>4. \A c \in Cell : c % Usable \in Word /\ c = (c \div Usable) * Usable + (c % Usable)
  BY CellIsAt DEF Cell
<1>5. \A k \in 1 .. b - a : Piece(x, a, b)[k] = page[x].word[(a + k - 1) % Usable]
  BY DEF Piece
<1>6. Piece(x, a, b) \in [1 .. b - a -> PageWord]
  BY <1>1, <1>3, <1>4 DEF Piece
<1>7. ASSUME f \notin stale, NEW k \in 1 .. b - a
      PROVE  Piece(x, a, b)[k] = written[f][a + k - 1]
  <2> DEFINE c == a + k - 1
             w == c % Usable
  <2>1. c \in Cell /\ c \div Usable = i /\ w \in Word /\ c = i * Usable + w
    BY <1>1, <1>4 DEF LieOn
  <2>2. At(node[f], page, i) = x
    BY OwnedFacts
  <2>3. Cells(node, page, stale, written)
    BY DEF FileInv
  <2> HIDE DEF c, w
  <2>4. page[x].word[w] = written[f][i * Usable + w]
    BY <1>7, <2>1, <2>2, <2>3 DEF Cells
  <2> QED
    BY <1>5, <2>1, <2>4 DEF c, w
<1>8. Piece(x, a, b) \in Seq(PageWord) /\ Len(Piece(x, a, b)) = b - a
  BY <1>1, <1>6
<1> QED
  BY <1>7, <1>8 DEF Matches

Join(s, d) == s \o d

LEMMA Joined ==
  ASSUME NEW s \in Seq(PageWord), NEW d \in Seq(PageWord), NEW n \in Nat, NEW m \in Nat,
         Len(s) = n, Len(d) = m
  PROVE  /\ Join(s, d) \in Seq(PageWord) /\ Len(Join(s, d)) = n + m
         /\ \A k \in 1 .. n + m : Join(s, d)[k] = IF k <= n THEN s[k] ELSE d[k - n]
BY DEF Join

\* A piece is appended to what has been read.
LEMMA ReadMore ==
  ASSUME NEW lo \in Nat, NEW n \in Nat, NEW m \in Nat,
         NEW s \in Seq(PageWord), Len(s) = n, NEW d \in Seq(PageWord), Len(d) = m,
         NEW row, Matches(s, n, lo, row), Matches(d, m, lo + n, row)
  PROVE  Matches(Join(s, d), n + m, lo, row)
<1> DEFINE z == Join(s, d)
<1>2. /\ z \in Seq(PageWord) /\ Len(z) = n + m
      /\ \A k \in 1 .. n + m : z[k] = IF k <= n THEN s[k] ELSE d[k - n]
  <2>1. /\ s \in Seq(PageWord) /\ d \in Seq(PageWord) /\ n \in Nat /\ Len(s) = n
        /\ m \in Nat /\ Len(d) = m
    OBVIOUS
  <2> QED
    BY ONLY <2>1, Joined
<1> HIDE DEF z
<1>3. ASSUME NEW k \in 1 .. n + m PROVE z[k] = row[lo + k - 1]
  <2>1. CASE k <= n
    <3>1. k \in 1 .. n /\ z[k] = s[k]
      BY <1>2, <2>1
    <3> QED
      BY <3>1 DEF Matches
  <2>2. CASE ~(k <= n)
    <3>1. k - n \in 1 .. m /\ (lo + n) + (k - n) - 1 = lo + k - 1
      BY <2>2
    <3>2. d[k - n] = row[(lo + n) + (k - n) - 1]
      BY <3>1 DEF Matches
    <3>3. z[k] = d[k - n]
      BY <1>2, <2>2
    <3> QED
      BY <3>1, <3>2, <3>3
  <2> QED
    BY <2>1, <2>2
<1>4. Matches(z, n + m, lo, row)
  BY <1>3 DEF Matches
<1> QED
  BY <1>4 DEF z

LEMMA ReadTurnKeeps ==
  ASSUME FileInv, NEW f \in File, NEW lo \in Cell, NEW hi \in Cell, lo <= hi,
         NEW i \in lo \div Usable .. hi \div Usable, NEW full \in BOOLEAN,
         full => i < Direct /\ node[f].direct[i] # 0,
         NEW out, ReadInv(out, f, lo, hi, i, full)
  PROVE  ReadInv(ReadTurn(out, i, f, lo, hi), f, lo, hi, i + 1, full)
<1> DEFINE r == ReadTurn(out, i, f, lo, hi)
           got == inode_get_block(node[f], page, i)
           cs == OnPage(i, lo, hi)
           a == From(i, lo, hi)
           b == From(i + 1, lo, hi)
<1>1. i \in Nat /\ a \in lo .. hi /\ b \in a + 1 .. hi + 1 /\ cs = a .. b - 1
  BY OnPageIsInterval
<1>2. /\ out \in ReadType /\ (out.going => lo + out.rv = a)
      /\ (out.rv = -1 => ~out.going)
      /\ (out.rv # -1 => /\ Len(out.data) = out.rv /\ lo + out.rv <= hi + 1
                         /\ f \notin stale => Matches(out.data, out.rv, lo, written[f]))
      /\ (full => out.going)
  BY DEF ReadInv
<1>3. out.rv \in {-1} \cup Nat /\ out.data \in Seq(PageWord) /\ out.going \in BOOLEAN
  BY <1>2 DEF ReadType
<1>4. node[f] \in NodeType /\ page \in [Page -> PageType] /\ 0 \notin Page
  BY FileDataConstants DEF FileInv, TypeOK
<1>5. full => got.ok /\ got.block # 0 /\ ~Wild(got.block)
  <2> SUFFICES ASSUME full PROVE got.ok /\ got.block # 0 /\ ~Wild(got.block)
    OBVIOUS
  <2>1. got = [ok |-> node[f].direct[i] # 0, block |-> node[f].direct[i]]
    BY <1>1, FileDataConstants DEF inode_get_block
  <2>2. node[f].direct[i] \in Page
    BY <1>1, <1>4, FileDataConstants DEF NodeType
  <2> HIDE DEF got
  <2>3. got.ok = (node[f].direct[i] # 0) /\ got.block = node[f].direct[i]
    BY <2>1
  <2> QED
    BY <1>4, <2>2, <2>3 DEF Wild
<1>6. r = CASE ~out.going -> out
            [] out.going /\ (~got.ok \/ Wild(got.block)) -> [out EXCEPT !.going = FALSE, !.rv = -1]
            [] out.going /\ got.ok /\ got.block = 0 -> [out EXCEPT !.going = FALSE]
            [] OTHER -> [out EXCEPT !.rv = @ + Cardinality(cs),
                           !.data = @ \o [k \in 1 .. Cardinality(cs) |->
                                            page[got.block].word[(Min(cs) + k - 1) % Usable]]]
  BY DEF ReadTurn
<1>7. a \in Nat /\ b \in Nat /\ a < b /\ lo \in Nat /\ hi \in Nat /\ a \in Cell /\ b - 1 \in Cell
  BY <1>1, FileDataConstants DEF Cell
<1>8. Cardinality(cs) = b - a /\ Min(cs) = a
  BY <1>1, <1>7, IntervalFacts
<1>9. LieOn(a, b, i)
  BY <1>1 DEF OnPage, LieOn
<1> HIDE DEF r, got, cs, a, b
<1>10. CASE ~out.going
  <2>1. r = out
    BY <1>6, <1>10
  <2> QED
    BY <1>2, <1>10, <2>1 DEF ReadInv, r
<1>11. CASE out.going /\ (~got.ok \/ Wild(got.block))
  <2>1. ~(~out.going)
    BY <1>11
  <2>2. ~(out.going /\ got.ok /\ got.block = 0)
    BY <1>11 DEF Wild
  <2>3. r = [out EXCEPT !.going = FALSE, !.rv = -1]
    BY <1>6, <1>11, <2>1, <2>2
  <2>4. r \in ReadType /\ r.rv = -1 /\ ~r.going
    BY <1>2, <2>3 DEF ReadType
  <2>5. ~full
    BY <1>5, <1>11
  <2> QED
    BY <2>4, <2>5 DEF ReadInv, r
<1>12. CASE out.going /\ got.ok /\ got.block = 0
  <2>1. ~(~out.going) /\ ~(out.going /\ (~got.ok \/ Wild(got.block)))
    BY <1>12 DEF Wild
  <2>2. r = [out EXCEPT !.going = FALSE]
    BY <1>6, <1>12, <2>1
  <2>3. r \in ReadType /\ r.rv = out.rv /\ r.data = out.data /\ ~r.going
    BY <1>2, <2>2 DEF ReadType
  <2>4. ~full
    BY <1>5, <1>12
  <2> QED
    BY <1>2, <2>3, <2>4 DEF ReadInv, r
<1>13. CASE out.going /\ got.ok /\ ~Wild(got.block) /\ got.block # 0
  <2> DEFINE x == got.block
             m == b - a
             d == Piece(x, a, b)
  <2>1. x \in Page
    BY <1>13 DEF Wild
  <2>2. i \in 0 .. MaxIndex
    <3>1. ~(i > MaxIndex)
      BY <1>1, <1>4, <1>13, BlockType DEF got
    <3> QED
      BY <1>1, <3>1, FileDataConstants
  <2>3. x = inode_get_block(node[f], page, i).block
    BY DEF got
  <2> HIDE DEF x
  <2>4. /\ d \in Seq(PageWord) /\ Len(d) = b - a
        /\ f \notin stale => Matches(d, b - a, a, written[f])
    BY <1>7, <1>9, <2>1, <2>2, <2>3, PieceFacts
  <2>5. r = [out EXCEPT !.rv = @ + m, !.data = @ \o d]
    BY <1>6, <1>8, <1>13 DEF Piece, x
  <2> HIDE DEF d
  <2> DEFINE n == out.rv
             s == out.data
  <2>6. /\ lo + n = a /\ n \in Nat /\ s \in Seq(PageWord) /\ Len(s) = n
        /\ f \notin stale => Matches(s, n, lo, written[f])
    BY <1>2, <1>3, <1>13
  <2> DEFINE true == f \notin stale
             row == written[f]
  <2>7. m \in Nat /\ Len(d) = m /\ (true => Matches(d, m, a, row)) /\ true \in BOOLEAN
    BY <1>7, <2>4
  <2> HIDE DEF n, s, d, m, true, row
  <2>8. /\ lo \in Nat /\ n \in Nat /\ s \in Seq(PageWord) /\ Len(s) = n /\ d \in Seq(PageWord)
        /\ (true => Matches(s, n, lo, row)) /\ (true => Matches(d, m, lo + n, row))
        /\ m \in Nat /\ Len(d) = m /\ true \in BOOLEAN
    BY <1>7, <2>4, <2>6, <2>7 DEF true, row
  <2>9. Join(s, d) \in Seq(PageWord) /\ Len(Join(s, d)) = n + m
    BY ONLY <2>8, Joined
  <2>10. true => Matches(Join(s, d), n + m, lo, row)
    BY ONLY <2>8, ReadMore
  <2>11. n + m \in Nat /\ lo + (n + m) = b
    BY <1>7, <2>6, <2>7 DEF m
  <2> HIDE DEF m
  <2>12. r \in ReadType /\ r.rv = n + m /\ r.data = Join(s, d) /\ r.going = out.going
    BY <1>2, <2>5, <2>9, <2>11 DEF ReadType, Join, n, s
  <2>13. b <= hi + 1 /\ n + m # -1
    BY <1>1, <1>7, <2>11
  <2> QED
    BY <1>2, <1>13, <2>9, <2>11, <2>10, <2>12, <2>13 DEF ReadInv, r, b, true, row
<1> QED
  BY <1>3, <1>10, <1>11, <1>12, <1>13

\* What has been read after 0, 1, .. n turns.
IsReadLoop(g, n, f, lo, hi) ==
  g = [k \in 0 .. n |-> IF k = 0 THEN NothingRead
                        ELSE ReadTurn(g[k - 1], (lo \div Usable) + k - 1, f, lo, hi)]

LEMMA ReadLoopExists ==
  ASSUME NEW f, NEW lo, NEW hi, NEW n \in Nat
  PROVE  \E g : IsReadLoop(g, n, f, lo, hi)
<1> DEFINE Bad == {m \in Nat : ~ \E g : IsReadLoop(g, m, f, lo, hi)}
<1> SUFFICES ASSUME Bad # {} PROVE FALSE
  OBVIOUS
<1>1. PICK m \in Bad : \A k \in Bad : m <= k
  BY LeastNumber
<1>2. CASE m = 0
  <2> DEFINE g == [k \in 0 .. 0 |-> NothingRead]
  <2>1. IsReadLoop(g, 0, f, lo, hi)
    BY DEF IsReadLoop
  <2> QED
    BY <1>2, <2>1
<1>3. CASE m # 0
  <2>1. m \in Nat /\ m - 1 \in Nat /\ m - 1 \notin Bad
    BY <1>1, <1>3
  <2>2. PICK h : IsReadLoop(h, m - 1, f, lo, hi)
    BY <2>1
  <2> DEFINE T(x, k) == ReadTurn(x, (lo \div Usable) + k - 1, f, lo, hi)
             g == [k \in 0 .. m |-> IF k = m THEN T(h[m - 1], m) ELSE h[k]]
  <2>3. h = [k \in 0 .. m - 1 |-> IF k = 0 THEN NothingRead ELSE T(h[k - 1], k)]
    BY <2>2 DEF IsReadLoop
  <2> HIDE DEF T
  <2>4. ASSUME NEW k \in 0 .. m
        PROVE  g[k] = IF k = 0 THEN NothingRead ELSE T(g[k - 1], k)
    <3>1. CASE k = m
      <4>1. m - 1 \in 0 .. m /\ m - 1 # m
        BY <2>1
      <4> QED
        BY <1>3, <3>1, <4>1
    <3>2. CASE k # m
      <4>1. k \in 0 .. m - 1 /\ (k # 0 => k - 1 \in 0 .. m /\ k - 1 # m)
        BY <2>1, <3>2
      <4>2. h[k] = IF k = 0 THEN NothingRead ELSE T(h[k - 1], k)
        BY <2>3, <4>1
      <4> QED
        BY <3>2, <4>1, <4>2
    <3> QED
      BY <3>1, <3>2
  <2>5. g = [k \in 0 .. m |-> IF k = 0 THEN NothingRead ELSE T(g[k - 1], k)]
    BY <2>4
  <2>6. IsReadLoop(g, m, f, lo, hi)
    BY <2>5 DEF IsReadLoop, T
  <2> QED
    BY <1>1, <2>6
<1> QED
  BY <1>2, <1>3

\* The loop of nbtrfs_read ends with what the cells lo .. hi hold, or as much of
\* it as there are pages for.
LEMMA ReadLoopInv ==
  ASSUME FileInv, NEW f \in File, NEW lo \in Cell, NEW hi \in Cell, lo <= hi,
         NEW full \in BOOLEAN,
         full => \A i \in lo \div Usable .. hi \div Usable : i < Direct /\ node[f].direct[i] # 0
  PROVE  ReadInv(ReadLoop(f, lo, hi), f, lo, hi, hi \div Usable + 1, full)
<1> DEFINE n == LastTurn(lo, hi) + 1
           ql == lo \div Usable
           qh == hi \div Usable
<1>1. ql \in Nat /\ qh \in Nat /\ ql <= qh /\ lo \in Nat /\ hi \in Nat
  BY QuotientGrows DEF Cell
<1>2. n \in Nat /\ n = qh - ql + 1
  BY <1>1 DEF LastTurn
<1> DEFINE g == CHOOSE after : IsReadLoop(after, n, f, lo, hi)
<1>3. ReadLoop(f, lo, hi) = g[n]
  BY DEF ReadLoop, IsReadLoop
<1> HIDE DEF n
<1>4. IsReadLoop(g, n, f, lo, hi)
  BY <1>2, ReadLoopExists
<1> HIDE DEF g, ql, qh
<1>5. \A k \in 0 .. n : g[k] = IF k = 0 THEN NothingRead
                              ELSE ReadTurn(g[k - 1], ql + k - 1, f, lo, hi)
  BY <1>4 DEF IsReadLoop, ql
<1> DEFINE Bad == {k \in 0 .. n : ~ReadInv(g[k], f, lo, hi, ql + k, full)}
<1>6. Bad = {}
  <2> SUFFICES ASSUME Bad # {} PROVE FALSE
    OBVIOUS
  <2>1. Bad \in SUBSET Nat
    OBVIOUS
  <2>2. PICK m \in Bad : \A k \in Bad : m <= k
    BY <2>1, LeastNumber
  <2>3. CASE m = 0
    <3>1. g[m] = NothingRead /\ ql + m = ql
      BY <1>1, <1>5, <2>3
    <3>2. From(ql, lo, hi) = lo
      BY DEF From, ql
    <3>3. /\ NothingRead \in ReadType /\ NothingRead.going /\ NothingRead.rv = 0
          /\ Len(NothingRead.data) = 0
      BY DEF ReadType, NothingRead
    <3>4. lo + 0 = lo /\ lo + 0 <= hi + 1 /\ Matches(NothingRead.data, 0, lo, written[f])
      BY <1>1 DEF Matches
    <3>5. ReadInv(NothingRead, f, lo, hi, ql, full)
      BY <3>2, <3>3, <3>4 DEF ReadInv
    <3> QED
      BY <2>2, <3>1, <3>5
  <2>4. CASE m # 0
    <3>1. m - 1 \in 0 .. n /\ m - 1 \notin Bad /\ m \in 0 .. n
      BY <1>2, <2>2, <2>4
    <3>2. ReadInv(g[m - 1], f, lo, hi, ql + (m - 1), full)
      BY <3>1
    <3>3. /\ ql + m - 1 = ql + (m - 1) /\ ql + (m - 1) \in ql .. qh
          /\ ql + (m - 1) + 1 = ql + m
      BY <1>1, <1>2, <2>4, <3>1
    <3>4. g[m] = ReadTurn(g[m - 1], ql + (m - 1), f, lo, hi)
      BY <1>5, <2>4, <3>1, <3>3
    <3>5. full => ql + (m - 1) < Direct /\ node[f].direct[ql + (m - 1)] # 0
      BY <3>3 DEF ql, qh
    <3> DEFINE i == ql + (m - 1)
    <3>6. i \in lo \div Usable .. hi \div Usable
      BY <3>3 DEF ql, qh
    <3> HIDE DEF Bad, i
    <3>7. ReadInv(ReadTurn(g[m - 1], i, f, lo, hi), f, lo, hi, i + 1, full)
      BY <3>2, <3>5, <3>6, ReadTurnKeeps DEF i
    <3> QED
      BY <2>2, <3>3, <3>4, <3>7 DEF Bad, i
  <2> QED
    BY <2>3, <2>4
<1> HIDE DEF g
<1>7. n \in 0 .. n /\ ql + n = qh + 1
  BY <1>1, <1>2
<1> QED
  BY <1>3, <1>6, <1>7 DEF qh

LEMMA SmallerOfTwo ==
  ASSUME NEW a \in Nat, NEW b \in Nat
  PROVE  Min({a, b}) = IF a <= b THEN a ELSE b
BY DEF Min

\* A read that succeeds returns what was last written (fuse.c:293-330, 363-408).
THEOREM FileReadNeverLies == Spec => []ReadNeverLies
<1>1. FileInv => ReadNeverLies
  <2> SUFFICES ASSUME FileInv, NEW f \in File \ stale, NEW lo \in Cell, NEW n \in 1 .. MaxWrite,
                      nbtrfs_read(f, lo, n).rv > 0, NEW k \in 1 .. nbtrfs_read(f, lo, n).rv
               PROVE  nbtrfs_read(f, lo, n).data[k] = written[f][lo + k - 1]
    BY DEF ReadNeverLies
  <2> DEFINE hi == Min({lo + n, node[f].size}) - 1
             r == nbtrfs_read(f, lo, n)
  <2>1. /\ node[f].size \in 0 .. MaxCell + 1 /\ lo \in Nat /\ n \in Nat /\ MaxCell \in Nat
        /\ lo + n \in Nat /\ node[f].size \in Nat
    BY FileDataConstants DEF FileInv, TypeOK, NodeType, Cell
  <2>2. hi \in Int /\ hi <= node[f].size - 1
    BY <2>1, SmallerOfTwo
  <2>3. r = IF lo > hi THEN NothingRead ELSE ReadLoop(f, lo, hi)
    BY DEF nbtrfs_read
  <2> HIDE DEF hi
  <2>4. ~(lo > hi)
    BY <2>3 DEF NothingRead
  <2>5. hi \in Cell /\ lo <= hi
    BY <2>1, <2>2, <2>4 DEF Cell
  <2>6. ReadInv(r, f, lo, hi, hi \div Usable + 1, FALSE)
    BY <2>3, <2>4, <2>5, ReadLoopInv
  <2> HIDE DEF r
  <2>7. r.rv # -1
    BY DEF r
  <2> QED
    BY <2>6, <2>7 DEF ReadInv, Matches, r
<1> QED
  BY <1>1, FileInvariant, PTL

\* A file without holes below the indirect block is read back in full
\* (fuse.c:261-339, inode.c:148-155).
THEOREM FileDirectReadsBack == Spec => []DirectReadsBack
<1>1. FileInv => DirectReadsBack
  <2> SUFFICES ASSUME FileInv, NEW f \in File, NEW lo \in Cell, NEW n \in 1 .. MaxWrite,
                      lo + n <= node[f].size, node[f].size <= Direct * Usable,
                      \A c \in 0 .. node[f].size - 1 : written[f][c] # 0
               PROVE  nbtrfs_read(f, lo, n).rv = n
    BY DEF DirectReadsBack
  <2> DEFINE hi == lo + n - 1
             r == nbtrfs_read(f, lo, n)
  <2>1. /\ node[f].size \in 0 .. MaxCell + 1 /\ lo \in Nat /\ n \in Nat \ {0} /\ MaxCell \in Nat
        /\ lo + n \in Nat /\ node[f].size \in Nat /\ Direct \in Nat /\ Usable \in Nat
    BY FileDataConstants DEF FileInv, TypeOK, NodeType, Cell
  <2>2. Min({lo + n, node[f].size}) - 1 = hi
    BY <2>1, SmallerOfTwo
  <2>3. hi \in Cell /\ lo <= hi /\ ~(lo > hi) /\ hi < node[f].size
    BY <2>1 DEF Cell
  <2>4. r = ReadLoop(f, lo, hi)
    BY <2>2, <2>3 DEF nbtrfs_read
  <2>5. ASSUME NEW i \in lo \div Usable .. hi \div Usable
        PROVE  i < Direct /\ node[f].direct[i] # 0
    <3> DEFINE c == From(i, lo, hi)
               w == c % Usable
    <3>1. i \in Nat /\ c \in lo .. hi /\ c \in OnPage(i, lo, hi)
      BY <2>3, OnPageIsInterval DEF Cell
    <3>2. c \in Cell /\ c \in Nat /\ c \in 0 .. node[f].size - 1 /\ c \div Usable = i
      BY <2>1, <2>3, <3>1 DEF OnPage, Cell
    <3>3. w \in Word /\ c = i * Usable + w
      BY <3>2, CellIsAt
    <3> HIDE DEF c, w
    <3>4. i < Direct
      <4> SUFFICES ASSUME Direct <= i PROVE FALSE
        BY <2>1, <3>1
      <4>1. i - Direct \in Nat /\ (i - Direct) * Usable \in Nat /\ Direct * Usable \in Nat
        BY <2>1, <3>1
      <4>2. i * Usable = Direct * Usable + (i - Direct) * Usable
        BY <2>1, <3>1
      <4>3. w \in Nat /\ c < node[f].size
        BY <2>1, <3>2, <3>3 DEF Word
      <4> QED
        BY <2>1, <3>2, <3>3, <4>1, <4>2, <4>3
    <3>5. written[f][i * Usable + w] # 0
      BY <3>2, <3>3
    <3>6. i \in 0 .. Direct - 1
      BY <2>1, <3>1, <3>4
    <3> QED
      BY <3>2, <3>3, <3>4, <3>5, <3>6 DEF FileInv, Covered
  <2> HIDE DEF hi
  <2>6. ReadInv(r, f, lo, hi, hi \div Usable + 1, TRUE)
    BY <2>3, <2>4, <2>5, ReadLoopInv
  <2>7. r.going /\ lo + r.rv = From(hi \div Usable + 1, lo, hi) /\ r.rv \in {-1} \cup Nat
    BY <2>6 DEF ReadInv, ReadType
  <2>8. From(hi \div Usable + 1, lo, hi) = hi + 1
    <3>1. lo \div Usable \in Nat /\ hi \div Usable \in Nat /\ lo \div Usable <= hi \div Usable
      BY <2>1, <2>3, QuotientGrows DEF Cell
    <3> QED
      BY <3>1 DEF From
  <2> QED
    BY <2>1, <2>7, <2>8 DEF hi, r
<1> QED
  BY <1>1, FileInvariant, PTL
=============================================================================
