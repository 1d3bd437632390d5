--------------------------- MODULE DirectoryProofs ---------------------------
(***************************************************************************)
(* Names, for every set of names and of paths, every number of inodes and  *)
(* of entries to a block, and either behaviour of snprintf.                *)
(***************************************************************************)
EXTENDS Directory, WellFoundedInduction, FiniteSetTheorems, SequenceTheorems, TLAPS

Inum == 0 .. LastInode

InodeType == [kind : {"none", "dir", "file"}, refs : 0 .. MaxRefs,
              slot : Seq(SlotType), count : Nat]
LeafType == [kind : {"dir", "file"}, val : Nat]
TreeType == [inum : Inum, leaf : [Name -> Seq(LeafType)]]
FsType == [inode : [Inum -> InodeType], tree : Seq(TreeType)]

\* Only numbers that were handed out are in use, the root's always.
InodesOK(fs, g) ==
  /\ \A i \in Inum :
       /\ fs.inode[i].kind = "none" <=> fs.inode[i].refs = 0
       /\ fs.inode[i].kind # "dir" => fs.inode[i].slot = <<>>
       /\ Len(fs.inode[i].slot) \in {0, PerBlock, 2 * PerBlock}
       /\ i > g => fs.inode[i] = Blank
  /\ fs.inode[0].kind = "dir"

\* A leaf leads to a tree other than the root's, or to an inode other than 0.
LeafOK(fs, l, g) == /\ l.kind = "dir" => l.val \in 2 .. Len(fs.tree)
                    /\ l.kind = "file" => l.val \in 1 .. g

TreesOK(fs, g) ==
  /\ Len(fs.tree) >= 1 /\ fs.tree[1].inum = 0
  /\ \A t \in 2 .. Len(fs.tree) : fs.tree[t].inum \in 1 .. g
  /\ \A t \in 1 .. Len(fs.tree), n \in Name :
       \A k \in 1 .. Len(fs.tree[t].leaf[n]) : LeafOK(fs, fs.tree[t].leaf[n][k], g)

\* A slot in use, active or not, carries a name and a number.  A count of one
\* stands for the one entry the number was made with: it is active, and not in
\* the directory it names.
SlotOK(fs, g, d, s) ==
  /\ s.inum <= g
  /\ s.active => s.name # <<>>
  /\ s.name # <<>> => /\ s.inum >= 1
                      /\ s.active => fs.inode[s.inum].refs >= 1
                      /\ ~s.active => fs.inode[s.inum].refs # 1
                      /\ fs.inode[s.inum].refs = 1 => s.inum # d

SlotsOK(fs, g) == \A d \in Inum : \A j \in 1 .. Len(fs.inode[d].slot) :
                    SlotOK(fs, g, d, fs.inode[d].slot[j])

\* The entries of a file system, and those of them that name inode i.
Entries(fs) == {e \in Inum \X (1 .. 2 * PerBlock) :
                  e[2] <= Len(fs.inode[e[1]].slot) /\ fs.inode[e[1]].slot[e[2]].active}
Naming(fs, i) == {e \in Entries(fs) : fs.inode[e[1]].slot[e[2]].inum = i}

RefsCover(fs) == \A i \in 1 .. LastInode : Cardinality(Naming(fs, i)) <= fs.inode[i].refs

Base(fs, g) == /\ fs \in FsType
               /\ InodesOK(fs, g) /\ TreesOK(fs, g) /\ SlotsOK(fs, g) /\ RefsCover(fs)

BaseInv == /\ Base(Fs, given)
           /\ given \in Inum /\ overlap \in BOOLEAN
           /\ did \subseteq {"link", "replace", "move"}
-----------------------------------------------------------------------------
LEMMA LeastNumber ==
  ASSUME NEW S \in SUBSET Nat, S # {}
  PROVE  \E n \in S : \A m \in S : n <= m
<1> DEFINE R == {ss \in Nat \X Nat : ss[1] < ss[2]}
<1>1. IsWellFoundedOn(R, Nat)
  BY NatLessThanWellFounded, Zenon DEF OpToRel
<1>2. \A x, y \in Nat : <<x, y>> \in R <=> x < y
  OBVIOUS
<1> HIDE DEF R
<1>3. PICK n \in S : \A m \in S : <<m, n>> \notin R
  BY <1>1, WFMin
<1>4. ASSUME NEW m \in S PROVE n <= m
  <2>1. m \in Nat /\ n \in Nat /\ ~(m < n)
    BY <1>2, <1>3
  <2> QED
    BY <2>1
<1> QED
  BY <1>4
-----------------------------------------------------------------------------
LEMMA FrontFacts ==
  ASSUME NEW p \in Seq(Name), p # <<>>
  PROVE  /\ Len(p) \in Nat /\ Len(p) >= 1
         /\ Front(p) \in Seq(Name) /\ Len(Front(p)) = Len(p) - 1
         /\ \A k \in 1 .. Len(p) - 1 : Front(p)[k] = p[k]
         /\ Last(p) \in Name
<1>1. Len(p) \in Nat /\ Len(p) >= 1
  BY EmptySeq, LenProperties
<1>2. \A i \in 1 .. Len(p) : p[i] \in Name
  BY ElementOfSeq
<1>3. \A i \in 1 .. Len(p) - 1 : p[i] \in Name
  BY <1>1, <1>2
<1>4. Len(p) - 1 \in Int /\ 1 \in Int
  BY <1>1
<1>5. /\ Front(p) \in Seq(Name)
      /\ Len(Front(p)) = IF 1 <= Len(p) - 1 THEN Len(p) - 1 - 1 + 1 ELSE 0
      /\ \A i \in 1 .. Len(p) - 1 - 1 + 1 : Front(p)[i] = p[1 + i - 1]
  BY <1>3, <1>4, SubSeqProperties DEF Front
<1>6. ASSUME NEW k \in 1 .. Len(p) - 1 PROVE Front(p)[k] = p[k]
  <2>1. k \in 1 .. Len(p) - 1 - 1 + 1 /\ 1 + k - 1 = k
    BY <1>1
  <2> QED
    BY <1>5, <2>1
<1>7. Last(p) \in Name
  <2>1. Len(p) \in 1 .. Len(p)
    BY <1>1
  <2> QED
    BY <1>2, <2>1 DEF Last
<1>8. Len(Front(p)) = Len(p) - 1
  <2> DEFINE n == Len(p)
             m == Len(Front(p))
  <2>1. n \in Nat /\ n >= 1 /\ m = IF 1 <= n - 1 THEN n - 1 - 1 + 1 ELSE 0
    BY <1>1, <1>5
  <2> HIDE DEF n, m
  <2>2. m = n - 1
    <3>1. CASE 1 <= n - 1
      BY <2>1, <3>1
    <3>2. CASE ~(1 <= n - 1)
      BY <2>1, <3>2
    <3> QED
      BY <3>1, <3>2
  <2> QED
    BY <2>2 DEF n, m
<1> QED
  BY <1>1, <1>5, <1>6, <1>7, <1>8

(***************************************************************************)
(* Lookup, component by component.                                         *)
(***************************************************************************)
RootAt == [inum |-> 0, tree |-> 1]

\* From w by component k of p: a file is found again by its own name.
Onward(fs, w, p, k) ==
  IF k > 1 /\ OnFile(w) /\ p[k] = p[k - 1] THEN w ELSE Descend(fs, w, p[k])

IsWalk(f, n, fs, p) ==
  f = [k \in 0 .. n |-> IF k = 0 THEN RootAt ELSE Onward(fs, f[k - 1], p, k)]

LEMMA WalkExists ==
  ASSUME NEW fs, NEW p, NEW n \in Nat
  PROVE  \E f : IsWalk(f, n, fs, p)
<1> DEFINE Bad == {m \in Nat : ~ \E f : IsWalk(f, m, fs, p)}
<1> SUFFICES ASSUME Bad # {} PROVE FALSE
  OBVIOUS
<1>1. PICK m \in Bad : \A k \in Bad : m <= k
  BY LeastNumber
<1>2. CASE m = 0
  <2> DEFINE f == [k \in 0 .. 0 |-> RootAt]
  <2>1. IsWalk(f, 0, fs, p)
    BY DEF IsWalk
  <2> QED
    BY <1>2, <2>1
<1>3. CASE m # 0
  <2>1. m \in Nat /\ m - 1 \in Nat /\ m - 1 \notin Bad
    BY <1>1, <1>3
  <2>2. PICK h : IsWalk(h, m - 1, fs, p)
    BY <2>1
  <2> DEFINE T(x, k) == Onward(fs, x, p, k)
             f == [k \in 0 .. m |-> IF k = m THEN T(h[m - 1], m) ELSE h[k]]
  <2>3. h = [k \in 0 .. m - 1 |-> IF k = 0 THEN RootAt ELSE T(h[k - 1], k)]
    BY <2>2 DEF IsWalk
  <2> HIDE DEF T
  <2>4. ASSUME NEW k \in 0 .. m
        PROVE  f[k] = IF k = 0 THEN RootAt ELSE T(f[k - 1], k)
    <3>1. CASE k = m
      <4>1. m - 1 \in 0 .. m /\ m - 1 # m
        BY <2>1
      <4> QED
        BY <1>3, <3>1, <4>1
    <3>2. CASE k # m
      <4>1. k \in 0 .. m - 1 /\ (k # 0 => k - 1 \in 0 .. m /\ k - 1 # m)
        BY <2>1, <3>2
      <4>2. h[k] = IF k = 0 THEN RootAt ELSE T(h[k - 1], k)
        BY <2>3, <4>1
      <4> QED
        BY <3>2, <4>1, <4>2
    <3> QED
      BY <3>1, <3>2
  <2>5. f = [k \in 0 .. m |-> IF k = 0 THEN RootAt ELSE T(f[k - 1], k)]
    BY <2>4
  <2>6. IsWalk(f, m, fs, p)
    BY <2>5 DEF IsWalk, T
  <2> QED
    BY <1>1, <2>6
<1> QED
  BY <1>2, <1>3

\* Where the walk along p stands at its end.
Walked(fs, p) == (CHOOSE f : IsWalk(f, Len(p), fs, p))[Len(p)]

LEMMA SearchIs ==
  ASSUME NEW fs, NEW p
  PROVE  item_search(fs, p) = IF Len(p) > 1 /\ ~overlap THEN NotFound ELSE Walked(fs, p)
BY DEF item_search, Walked, IsWalk, RootAt, Onward

LEMMA WalkedStep ==
  ASSUME NEW fs, NEW p \in Seq(Name), p # <<>>
  PROVE  Walked(fs, p) = Onward(fs, Walked(fs, Front(p)), p, Len(p))
<1> DEFINE n == Len(p)
           q == Front(p)
           f == CHOOSE x : IsWalk(x, Len(p), fs, p)
           h == CHOOSE x : IsWalk(x, Len(q), fs, q)
<1>1. n \in Nat /\ n # 0 /\ n - 1 \in Nat
  BY FrontFacts
<1>2. Len(q) = n - 1 /\ \A k \in 1 .. n - 1 : q[k] = p[k]
  BY FrontFacts
<1>3. IsWalk(f, n, fs, p) /\ IsWalk(h, n - 1, fs, q)
  BY <1>1, <1>2, WalkExists
<1>a. Walked(fs, p) = f[n] /\ Walked(fs, q) = h[n - 1]
  BY <1>2 DEF Walked
<1> HIDE DEF f, h, q, n
<1>4. \A k \in 0 .. n : f[k] = IF k = 0 THEN RootAt ELSE Onward(fs, f[k - 1], p, k)
  BY <1>3 DEF IsWalk
<1>5. \A k \in 0 .. n - 1 : h[k] = IF k = 0 THEN RootAt ELSE Onward(fs, h[k - 1], q, k)
  BY <1>3 DEF IsWalk
<1> DEFINE Bad == {k \in 0 .. n - 1 : f[k] # h[k]}
<1>6. Bad = {}
  <2> SUFFICES ASSUME Bad # {} PROVE FALSE
    OBVIOUS
  <2>1. Bad \in SUBSET Nat
    BY <1>1
  <2>2. PICK m \in Bad : \A k \in Bad : m <= k
    BY <2>1, LeastNumber
  <2>3. CASE m = 0
    <3>1. f[0] = RootAt /\ h[0] = RootAt
      BY <1>1, <1>4, <1>5
    <3> QED
      BY <2>2, <2>3, <3>1
  <2>4. CASE m # 0
    <3>1. m \in 1 .. n - 1 /\ m \in 0 .. n /\ m - 1 \in 0 .. n - 1 /\ ~(m <= m - 1)
      BY <1>1, <2>2, <2>4
    <3>2. m - 1 \notin Bad
      BY <2>2, <3>1
    <3>3. f[m - 1] = h[m - 1]
      BY <3>1, <3>2
    <3>4. f[m] = Onward(fs, f[m - 1], p, m) /\ h[m] = Onward(fs, h[m - 1], q, m)
      BY <1>4, <1>5, <2>4, <3>1
    <3>5. q[m] = p[m] /\ (m > 1 => q[m - 1] = p[m - 1])
      <4>1. m > 1 => m - 1 \in 1 .. n - 1
        BY <1>1, <3>1
      <4> QED
        BY <1>2, <3>1, <4>1
    <3>6. f[m] = h[m]
      BY <3>3, <3>4, <3>5 DEF Onward
    <3> QED
      BY <2>2, <3>6
  <2> QED
    BY <2>3, <2>4
<1>7. f[n - 1] = h[n - 1] /\ n \in 0 .. n /\ n # 0
  <2>1. n - 1 \in 0 .. n - 1
    BY <1>1
  <2> QED
    BY <1>1, <1>6, <2>1
<1>8. f[n] = Onward(fs, f[n - 1], p, n)
  BY <1>4, <1>7
<1> QED
  BY <1>a, <1>7, <1>8 DEF q, n

\* The last component is looked up where the walk stands, or is a file's again.
LEMMA WalkedEither ==
  ASSUME NEW fs, NEW p \in Seq(Name), p # <<>>
  PROVE  \/ Walked(fs, p) = Descend(fs, Walked(fs, Front(p)), Last(p))
         \/ OnFile(Walked(fs, Front(p))) /\ Walked(fs, p) = Walked(fs, Front(p))
BY WalkedStep DEF Onward, Last

\* In a directory the last component is looked up.
LEMMA WalkedDown ==
  ASSUME NEW fs, NEW p \in Seq(Name), p # <<>>, Walked(fs, Front(p)).tree # 0
  PROVE  Walked(fs, p) = Descend(fs, Walked(fs, Front(p)), Last(p))
BY WalkedEither DEF OnFile

LEMMA WalkedRoot == \A fs : Walked(fs, <<>>) = RootAt
<1> TAKE fs
<1> DEFINE f == CHOOSE x : IsWalk(x, 0, fs, <<>>)
<1>1. IsWalk(f, 0, fs, <<>>)
  BY WalkExists
<1>2. Walked(fs, <<>>) = f[0]
  BY DEF Walked
<1> HIDE DEF f
<1> QED
  BY <1>1, <1>2 DEF IsWalk

\* A walk ends at the inode its tree names, or at a file's, or nowhere.
At(fs, g, w) == /\ w.inum \in 0 .. g /\ w.tree \in 0 .. Len(fs.tree)
                /\ w.tree # 0 => w.inum = fs.tree[w.tree].inum
                /\ w = [inum |-> w.inum, tree |-> w.tree]

LEMMA DescendType ==
  ASSUME NEW fs, NEW g, NEW w, NEW n \in Name,
         g \in Inum, fs \in FsType, TreesOK(fs, g), At(fs, g, w)
  PROVE  At(fs, g, Descend(fs, w, n))
<1> DEFINE leaves == IF w.tree = 0 THEN <<>> ELSE fs.tree[w.tree].leaf[n]
           val == Head(leaves).val
<1>0. LastInode \in Nat /\ g \in Nat /\ Len(fs.tree) \in Nat
  BY DirectoryConstants, LenProperties DEF Inum, FsType
<1>1. CASE leaves = <<>>
  <2>1. Descend(fs, w, n) = [inum |-> 0, tree |-> 0]
    BY <1>1 DEF Descend, NotFound
  <2> QED
    BY <1>0, <2>1 DEF At
<1>2. CASE leaves # <<>>
  <2>1. w.tree \in 1 .. Len(fs.tree) /\ leaves = fs.tree[w.tree].leaf[n]
    BY <1>0, <1>2 DEF At
  <2>2. fs.tree[w.tree] \in TreeType
    BY <2>1, ElementOfSeq DEF FsType
  <2>3. leaves \in Seq(LeafType)
    BY <2>1, <2>2 DEF TreeType
  <2>4. Head(leaves) = leaves[1] /\ 1 \in 1 .. Len(leaves)
    <3>1. Len(leaves) \in Nat \ {0}
      BY <1>2, <2>3, EmptySeq
    <3> QED
      BY <2>3, <3>1
  <2>5. LeafOK(fs, Head(leaves), g) /\ Head(leaves) \in LeafType
    <3>1. Head(leaves) \in LeafType
      BY <2>3, <2>4, ElementOfSeq
    <3>2. LeafOK(fs, fs.tree[w.tree].leaf[n][1], g)
      BY <2>1, <2>4 DEF TreesOK
    <3> QED
      BY <2>1, <2>4, <3>1, <3>2
  <2> HIDE DEF leaves
  <2>6. CASE Head(leaves).kind = "dir"
    <3>1. Descend(fs, w, n) = [inum |-> fs.tree[val].inum, tree |-> val]
      BY <1>2, <2>6 DEF Descend, leaves
    <3>2. val \in 2 .. Len(fs.tree)
      BY <2>5, <2>6 DEF LeafOK
    <3>3. fs.tree[val].inum \in 1 .. g
      BY <3>2 DEF TreesOK
    <3> HIDE DEF val
    <3> QED
      BY <1>0, <3>1, <3>2, <3>3 DEF At
  <2>7. CASE Head(leaves).kind # "dir"
    <3>1. Descend(fs, w, n) = [inum |-> val, tree |-> 0]
      BY <1>2, <2>7 DEF Descend, leaves
    <3>2. val \in 1 .. g
      BY <2>5, <2>7 DEF LeafOK, LeafType
    <3> HIDE DEF val
    <3> QED
      BY <1>0, <3>1, <3>2 DEF At
  <2> QED
    BY <2>6, <2>7
<1> QED
  BY <1>1, <1>2

LEMMA WalkType ==
  ASSUME NEW fs, NEW g, g \in Inum, fs \in FsType, TreesOK(fs, g)
  PROVE  \A p \in Seq(Name) : At(fs, g, Walked(fs, p))
<1>0. LastInode \in Nat /\ g \in Nat /\ Len(fs.tree) \in Nat
  BY DirectoryConstants, LenProperties DEF Inum, FsType
<1> DEFINE Bad == {k \in Nat : \E p \in Seq(Name) : Len(p) = k /\ ~At(fs, g, Walked(fs, p))}
<1>1. Bad = {}
  <2> SUFFICES ASSUME Bad # {} PROVE FALSE
    OBVIOUS
  <2>1. PICK k \in Bad : \A m \in Bad : k <= m
    BY LeastNumber
  <2>2. PICK p \in Seq(Name) : Len(p) = k /\ ~At(fs, g, Walked(fs, p))
    BY <2>1
  <2>3. CASE p = <<>>
    <3>1. Walked(fs, p) = [inum |-> 0, tree |-> 1]
      BY <2>3, WalkedRoot DEF RootAt
    <3>2. fs.tree[1].inum = 0 /\ Len(fs.tree) >= 1
      BY DEF TreesOK
    <3>3. At(fs, g, Walked(fs, p))
      BY <1>0, <3>1, <3>2 DEF At
    <3> QED
      BY <2>2, <3>3
  <2>4. CASE p # <<>>
    <3>1. /\ Front(p) \in Seq(Name) /\ Len(Front(p)) = k - 1
          /\ Last(p) \in Name /\ k \in Nat /\ k >= 1
      BY <2>2, <2>4, FrontFacts
    <3>2. k - 1 \in Nat /\ ~(k <= k - 1)
      BY <3>1
    <3>3. k - 1 \notin Bad
      BY <2>1, <3>2
    <3>4. At(fs, g, Walked(fs, Front(p)))
      BY <3>1, <3>2, <3>3
    <3>5. At(fs, g, Walked(fs, p))
      BY <2>4, <3>1, <3>4, DescendType, WalkedEither
    <3> QED
      BY <2>2, <3>5
  <2> QED
    BY <2>3, <2>4
<1> QED
  BY <1>1, LenProperties

\* What lookup finds is at least a place.
LEMMA SearchType ==
  ASSUME NEW fs, NEW g, g \in Inum, fs \in FsType, TreesOK(fs, g)
  PROVE  \A p \in Seq(Name) : At(fs, g, item_search(fs, p))
<1> TAKE p \in Seq(Name)
<1>1. At(fs, g, Walked(fs, p))
  BY WalkType
<1>2. At(fs, g, NotFound)
  <2>1. g \in Nat /\ Len(fs.tree) \in Nat
    BY DirectoryConstants, LenProperties DEF Inum, FsType
  <2> QED
    BY <2>1 DEF At, NotFound
<1> QED
  BY <1>1, <1>2, SearchIs

-----------------------------------------------------------------------------
(***************************************************************************)
(* An entry goes.                                                          *)
(***************************************************************************)
LEMMA ConstantTypes ==
  /\ LastInode \in Nat /\ PerBlock \in Nat /\ PerBlock >= 1
  /\ MaxRefs \in Nat /\ MaxRefs >= 1
  /\ 0 \in Inum /\ Inum \subseteq Nat
BY DirectoryConstants DEF Inum

LEMMA NamingFinite ==
  ASSUME NEW fs, NEW i
  PROVE  IsFiniteSet(Naming(fs, i)) /\ Cardinality(Naming(fs, i)) \in Nat
<1>1. IsFiniteSet(Inum) /\ IsFiniteSet(1 .. 2 * PerBlock)
  <2>1. LastInode \in Int /\ 2 * PerBlock \in Int /\ 0 \in Int /\ 1 \in Int
    BY ConstantTypes
  <2> QED
    BY <2>1, FS_Interval DEF Inum
<1>2. IsFiniteSet(Inum \X (1 .. 2 * PerBlock))
  BY <1>1, FS_Product
<1>3. Naming(fs, i) \in SUBSET (Inum \X (1 .. 2 * PerBlock))
  BY DEF Naming, Entries
<1> QED
  BY <1>2, <1>3, FS_Subset, FS_CardinalityType

LEMMA NamingSubset ==
  ASSUME NEW fs, NEW r, NEW i, Naming(r, i) \subseteq Naming(fs, i)
  PROVE  Cardinality(Naming(r, i)) <= Cardinality(Naming(fs, i))
BY NamingFinite, FS_Subset

LEMMA FsParts ==
  ASSUME NEW fs \in FsType
  PROVE  /\ fs.inode \in [Inum -> InodeType] /\ fs.tree \in Seq(TreeType)
         /\ fs = [inode |-> fs.inode, tree |-> fs.tree]
         /\ Len(fs.tree) \in Nat
         /\ \A x \in Inum : Len(fs.inode[x].slot) \in Nat /\ fs.inode[x].slot \in Seq(SlotType)
         /\ \A t \in 1 .. Len(fs.tree) : fs.tree[t] \in TreeType
<1>1. fs.inode \in [Inum -> InodeType] /\ fs.tree \in Seq(TreeType)
      /\ fs = [inode |-> fs.inode, tree |-> fs.tree]
  BY DEF FsType
<1>2. \A x \in Inum : fs.inode[x].slot \in Seq(SlotType)
  BY <1>1 DEF InodeType
<1>3. \A t \in 1 .. Len(fs.tree) : fs.tree[t] \in TreeType
  BY <1>1, ElementOfSeq
<1> QED
  BY <1>1, <1>2, <1>3, LenProperties

Marked(dir, j) == [dir EXCEPT !.slot[j].active = FALSE]

\* The slots of x are as they were, but slot j of directory d is not active.
Kept(fs, r, x, d, j) ==
  /\ Len(r.inode[x].slot) = Len(fs.inode[x].slot)
  /\ \A k \in 1 .. Len(fs.inode[x].slot) :
       /\ r.inode[x].slot[k].name = fs.inode[x].slot[k].name
       /\ r.inode[x].slot[k].inum = fs.inode[x].slot[k].inum
       /\ r.inode[x].slot[k].active <=> fs.inode[x].slot[k].active /\ ~(x = d /\ k = j)

LEMMA MarkedFacts ==
  ASSUME NEW dir \in InodeType, NEW j \in 1 .. Len(dir.slot)
  PROVE  /\ Marked(dir, j) \in InodeType
         /\ Marked(dir, j).kind = dir.kind /\ Marked(dir, j).refs = dir.refs
         /\ Marked(dir, j).count = dir.count
         /\ Len(Marked(dir, j).slot) = Len(dir.slot)
         /\ \A k \in 1 .. Len(dir.slot) :
              /\ Marked(dir, j).slot[k].name = dir.slot[k].name
              /\ Marked(dir, j).slot[k].inum = dir.slot[k].inum
              /\ Marked(dir, j).slot[k].active <=> dir.slot[k].active /\ k # j
<1> DEFINE s == dir.slot
           u == [s[j] EXCEPT !.active = FALSE]
           t == [s EXCEPT ![j] = u]
<1>1. s \in Seq(SlotType) /\ dir.kind \in {"none", "dir", "file"} /\ dir.refs \in 0 .. MaxRefs
      /\ dir.count \in Nat
  BY DEF InodeType
<1>2. \A k \in 1 .. Len(s) : s[k] \in SlotType
  BY <1>1, ElementOfSeq
<1>3. u \in SlotType /\ u.name = s[j].name /\ u.inum = s[j].inum /\ u.active = FALSE
  BY <1>2 DEF SlotType
<1>4. t \in Seq(SlotType) /\ Len(t) = Len(s) /\ \A k \in 1 .. Len(s) : t[k] = IF k = j THEN u ELSE s[k]
  BY <1>1, <1>3, ExceptSeq
<1>5. Marked(dir, j) = [dir EXCEPT !.slot = t]
  BY DEF Marked
<1>6. Marked(dir, j) = [kind |-> dir.kind, refs |-> dir.refs, slot |-> t, count |-> dir.count]
  BY <1>5, Zenon DEF InodeType
<1> HIDE DEF s, t, u
<1>7. Marked(dir, j) \in InodeType
  BY <1>1, <1>4, <1>6 DEF InodeType
<1>8. /\ Marked(dir, j).kind = dir.kind /\ Marked(dir, j).refs = dir.refs
      /\ Marked(dir, j).slot = t /\ Marked(dir, j).count = dir.count
  BY <1>6
<1>9. ASSUME NEW k \in 1 .. Len(s)
      PROVE  t[k].name = s[k].name /\ t[k].inum = s[k].inum
             /\ (t[k].active <=> s[k].active /\ k # j)
  BY <1>3, <1>4
<1> QED
  BY <1>4, <1>7, <1>8, <1>9 DEF s

InodesLeft(fs, r, d, j) ==
  LET i == fs.inode[d.inum].slot[j].inum
      gone == fs.inode[i].refs = 1
  IN /\ r = [inode |-> r.inode, tree |-> r.tree]
     /\ r.inode \in [Inum -> InodeType]
     /\ gone => r.inode[i] = Blank
     /\ \A x \in Inum : ~(gone /\ x = i) =>
          r.inode[x] = IF x = d.inum THEN Marked(fs.inode[x], j) ELSE fs.inode[x]

LEMMA DroppedInodes ==
  ASSUME NEW fs \in FsType, NEW d, NEW j, d.inum \in Inum,
         j \in 1 .. Len(fs.inode[d.inum].slot),
         fs.inode[d.inum].slot[j].inum \in Inum
  PROVE  InodesLeft(fs, Dropped(fs, d, j), d, j)
<1> DEFINE i == fs.inode[d.inum].slot[j].inum
           off == [fs.inode EXCEPT ![d.inum] = Marked(@, j)]
<1>1. fs.inode \in [Inum -> InodeType] /\ Marked(fs.inode[d.inum], j) \in InodeType
  BY FsParts, MarkedFacts
<1>2. off = [fs.inode EXCEPT ![d.inum].slot[j].active = FALSE]
  BY DEF Marked
<1>3. off \in [Inum -> InodeType]
      /\ \A x \in Inum : off[x] = IF x = d.inum THEN Marked(fs.inode[x], j) ELSE fs.inode[x]
  BY <1>1
<1>4. Blank \in InodeType
  BY ConstantTypes, EmptySeq DEF Blank, InodeType
<1> HIDE DEF off
<1>5. Dropped(fs, d, j).inode = IF fs.inode[i].refs = 1 THEN [off EXCEPT ![i] = Blank] ELSE off
  BY <1>2 DEF Dropped
<1>6. Dropped(fs, d, j) = [inode |-> Dropped(fs, d, j).inode, tree |-> Dropped(fs, d, j).tree]
  BY Zenon DEF Dropped
<1> QED
  BY <1>3, <1>4, <1>5, <1>6, Zenon DEF InodesLeft

LEMMA DroppedTrees ==
  ASSUME NEW fs \in FsType, NEW d, NEW j,
         fs.inode[d.inum].slot[j].name \in Name
  PROVE  LET e == fs.inode[d.inum].slot[j]
             r == Dropped(fs, d, j)
             gone == fs.inode[e.inum].refs = 1
         IN /\ r.tree \in Seq(TreeType) /\ Len(r.tree) = Len(fs.tree)
            /\ \A t \in 1 .. Len(fs.tree) :
                 /\ r.tree[t].inum = fs.tree[t].inum
                 /\ \A n \in Name :
                      r.tree[t].leaf[n] = IF gone /\ t = d.tree /\ n = e.name
                                          THEN WithoutNewest(fs.tree[t].leaf[n])
                                          ELSE fs.tree[t].leaf[n]
<1> DEFINE e == fs.inode[d.inum].slot[j]
           r == Dropped(fs, d, j)
           gone == fs.inode[e.inum].refs = 1
           u == [fs.tree EXCEPT ![d.tree].leaf[e.name] = WithoutNewest(@)]
<1>1. r.tree = IF gone THEN u ELSE fs.tree
  BY DEF Dropped
<1>2. fs.tree \in Seq(TreeType) /\ Len(fs.tree) \in Nat
      /\ \A t \in 1 .. Len(fs.tree) : fs.tree[t] \in TreeType
  BY FsParts
<1>3. CASE ~gone
  BY <1>1, <1>2, <1>3
<1>4. CASE gone
  <2>a. e.name \in Name
    OBVIOUS
  <2> HIDE DEF e
  <2>0. fs.tree \in [1 .. Len(fs.tree) -> TreeType]
    BY <1>2, LenProperties
  <2> DEFINE y == WithoutNewest(fs.tree[d.tree].leaf[e.name])
             T(x) == [x EXCEPT !.leaf = [@ EXCEPT ![e.name] = y]]
  <2>1. ASSUME NEW t \in 1 .. Len(fs.tree)
        PROVE  u[t] = IF t = d.tree THEN T(fs.tree[t]) ELSE fs.tree[t]
    <3>0. u = [fs.tree EXCEPT ![d.tree].leaf[e.name] = y]
      OBVIOUS
    <3> HIDE DEF y, u
    <3>1. u = [fs.tree EXCEPT ![d.tree] = T(@)]
      BY <3>0
    <3> HIDE DEF T
    <3> QED
      BY <2>0, <3>1
  <2>2. ASSUME NEW t \in 1 .. Len(fs.tree)
        PROVE  /\ u[t] \in TreeType /\ u[t].inum = fs.tree[t].inum
               /\ \A n \in Name :
                    u[t].leaf[n] = IF t = d.tree /\ n = e.name
                                   THEN WithoutNewest(fs.tree[t].leaf[n])
                                   ELSE fs.tree[t].leaf[n]
    <3>1. fs.tree[t].leaf \in [Name -> Seq(LeafType)] /\ fs.tree[t].inum \in Inum
          /\ fs.tree[t] = [inum |-> fs.tree[t].inum, leaf |-> fs.tree[t].leaf]
      BY <1>2 DEF TreeType
    <3>2. WithoutNewest(fs.tree[t].leaf[e.name]) \in Seq(LeafType)
      BY <2>a, <3>1, HeadTailProperties DEF WithoutNewest
    <3>3. CASE t = d.tree
      <4> DEFINE l == fs.tree[t].leaf
                 w == WithoutNewest(l[e.name])
                 v == [l EXCEPT ![e.name] = w]
      <4>1. u[t] = [fs.tree[t] EXCEPT !.leaf = v]
        BY <2>1, <3>3 DEF y
      <4>2. l \in [Name -> Seq(LeafType)] /\ w \in Seq(LeafType)
        BY <3>1, <3>2
      <4>3. fs.tree[t] = [inum |-> fs.tree[t].inum, leaf |-> l]
        BY <3>1
      <4> HIDE DEF u, l, w
      <4>4. v \in [Name -> Seq(LeafType)] /\ \A n \in Name : v[n] = IF n = e.name THEN w ELSE l[n]
        BY <4>2
      <4> HIDE DEF v
      <4>5. u[t] = [inum |-> fs.tree[t].inum, leaf |-> v]
        BY <4>1, <4>3
      <4>6. u[t].inum = fs.tree[t].inum /\ u[t].leaf = v /\ u[t] \in TreeType
        BY <3>1, <4>4, <4>5 DEF TreeType
      <4> QED
        BY <3>3, <4>4, <4>6 DEF l, w
    <3>4. CASE t # d.tree
      <4>1. u[t] = fs.tree[t]
        BY <2>1, <3>4
      <4> QED
        BY <1>2, <3>4, <4>1
    <3> QED
      BY <3>3, <3>4
  <2>3. DOMAIN u = 1 .. Len(fs.tree)
    BY <2>0
  <2>5. u = [t \in 1 .. Len(fs.tree) |-> u[t]]
    BY <2>0
  <2> HIDE DEF u
  <2>4. u \in Seq(TreeType) /\ Len(u) = Len(fs.tree)
    <3>1. u \in [1 .. Len(fs.tree) -> TreeType]
      BY <2>2, <2>5
    <3> QED
      BY <1>2, <3>1
  <2> QED
    BY <1>1, <1>4, <2>2, <2>4 DEF e
<1> QED
  BY <1>3, <1>4

CanDrop(fs, g, d, j) == /\ g \in Inum /\ Base(fs, g) /\ At(fs, g, d)
                        /\ j \in 1 .. Len(fs.inode[d.inum].slot)
                        /\ fs.inode[d.inum].slot[j].name \in Name

\* What becomes of the inodes when entry j of directory d goes.
DropEffect(fs, r, d, j) ==
  LET i == fs.inode[d.inum].slot[j].inum
      gone == fs.inode[i].refs = 1
  IN /\ gone => r.inode[i] = Blank /\ fs.inode[d.inum].slot[j].active /\ i # d.inum
     /\ \A x \in Inum : ~(gone /\ x = i) =>
          /\ x # d.inum => r.inode[x] = fs.inode[x]
          /\ r.inode[x].kind = fs.inode[x].kind /\ r.inode[x].refs = fs.inode[x].refs
          /\ Kept(fs, r, x, d.inum, j)

LEMMA DropFacts ==
  ASSUME NEW fs, NEW g, NEW d, NEW j, CanDrop(fs, g, d, j)
  PROVE  /\ DropEffect(fs, Dropped(fs, d, j), d, j)
         /\ d.inum \in Inum /\ fs.inode[d.inum].slot[j].inum \in 1 .. g
         /\ Dropped(fs, d, j) \in FsType
<1> DEFINE i == fs.inode[d.inum].slot[j].inum
           r == Dropped(fs, d, j)
           gone == fs.inode[i].refs = 1
<1>1. fs \in FsType /\ SlotsOK(fs, g) /\ g \in Nat /\ g <= LastInode /\ LastInode \in Nat
  BY ConstantTypes DEF CanDrop, Base, Inum
<1>2. d.inum \in Inum /\ d.inum \in Nat
  <2>1. d.inum \in 0 .. g
    BY DEF CanDrop, At
  <2> QED
    BY <1>1, <2>1 DEF Inum
<1>3. fs.inode[d.inum].slot[j] \in SlotType
  BY <1>1, <1>2, FsParts, ElementOfSeq DEF CanDrop
<1>4. SlotOK(fs, g, d.inum, fs.inode[d.inum].slot[j]) /\ fs.inode[d.inum].slot[j].name # <<>>
  BY <1>1, <1>2, DirectoryConstants DEF SlotsOK, CanDrop
<1>5. i \in 1 .. g /\ i \in Inum /\ (gone => fs.inode[d.inum].slot[j].active /\ i # d.inum)
  <2>1. i \in Nat /\ i <= g /\ i >= 1
    <3>1. i \in 0 .. LastInode
      BY <1>3 DEF SlotType
    <3>2. i <= g /\ i >= 1
      BY <1>4 DEF SlotOK
    <3> QED
      BY <1>1, <3>1, <3>2
  <2>2. i \in 1 .. g /\ i \in Inum
    BY <1>1, <2>1 DEF Inum
  <2>3. gone => fs.inode[d.inum].slot[j].active /\ i # d.inum
    BY <1>4 DEF SlotOK
  <2> QED
    BY <2>2, <2>3
<1>6. /\ r = [inode |-> r.inode, tree |-> r.tree]
      /\ r.inode \in [Inum -> InodeType]
      /\ gone => r.inode[i] = Blank
      /\ \A x \in Inum : ~(gone /\ x = i) =>
           r.inode[x] = IF x = d.inum THEN Marked(fs.inode[x], j) ELSE fs.inode[x]
  <2>1. j \in 1 .. Len(fs.inode[d.inum].slot) /\ i \in Inum
    BY <1>5 DEF CanDrop
  <2> QED
    <3>1. InodesLeft(fs, r, d, j)
      BY <1>1, <1>2, <2>1, DroppedInodes
    <3> QED
      BY <3>1 DEF InodesLeft
<1>7. r.tree \in Seq(TreeType)
  BY <1>1, DroppedTrees DEF CanDrop
<1>8. r \in FsType
  BY <1>6, <1>7 DEF FsType
<1> HIDE DEF r
<1>9. ASSUME NEW x \in Inum, ~(gone /\ x = i)
      PROVE  /\ x # d.inum => r.inode[x] = fs.inode[x]
             /\ r.inode[x].kind = fs.inode[x].kind /\ r.inode[x].refs = fs.inode[x].refs
             /\ Kept(fs, r, x, d.inum, j)
  <2>1. CASE x = d.inum
    <3>1. r.inode[x] = Marked(fs.inode[x], j) /\ fs.inode[x] \in InodeType
          /\ j \in 1 .. Len(fs.inode[x].slot)
      BY <1>1, <1>6, <1>9, <2>1, FsParts, Zenon DEF CanDrop
    <3>2. /\ Marked(fs.inode[x], j).kind = fs.inode[x].kind
          /\ Marked(fs.inode[x], j).refs = fs.inode[x].refs
          /\ Len(Marked(fs.inode[x], j).slot) = Len(fs.inode[x].slot)
          /\ \A k \in 1 .. Len(fs.inode[x].slot) :
               /\ Marked(fs.inode[x], j).slot[k].name = fs.inode[x].slot[k].name
               /\ Marked(fs.inode[x], j).slot[k].inum = fs.inode[x].slot[k].inum
               /\ Marked(fs.inode[x], j).slot[k].active <=> fs.inode[x].slot[k].active /\ k # j
      BY <3>1, MarkedFacts
    <3> QED
      <4>1. r.inode[x].kind = fs.inode[x].kind /\ r.inode[x].refs = fs.inode[x].refs
            /\ Len(r.inode[x].slot) = Len(fs.inode[x].slot)
        BY <3>1, <3>2
      <4>2. ASSUME NEW k \in 1 .. Len(fs.inode[x].slot)
            PROVE  /\ r.inode[x].slot[k].name = fs.inode[x].slot[k].name
                   /\ r.inode[x].slot[k].inum = fs.inode[x].slot[k].inum
                   /\ r.inode[x].slot[k].active <=> fs.inode[x].slot[k].active
                                                    /\ ~(x = d.inum /\ k = j)
        BY <2>1, <3>1, <3>2
      <4>3. Kept(fs, r, x, d.inum, j)
        BY <4>1, <4>2, Zenon DEF Kept
      <4> QED
        BY <2>1, <4>1, <4>3
  <2>2. CASE x # d.inum
    <3>1. r.inode[x] = fs.inode[x]
      BY <1>6, <1>9, <2>2
    <3> QED
      BY <2>2, <3>1 DEF Kept
  <2> QED
    BY <2>1, <2>2
<1>10. DropEffect(fs, r, d, j)
  BY <1>5, <1>6, <1>9 DEF DropEffect
<1> QED
  BY <1>2, <1>5, <1>8, <1>10 DEF r

LEMMA DropTreesOK ==
  ASSUME NEW fs, NEW g, NEW d, NEW j, CanDrop(fs, g, d, j)
  PROVE  TreesOK(Dropped(fs, d, j), g)
<1> DEFINE r == Dropped(fs, d, j)
<1>1. fs \in FsType /\ TreesOK(fs, g) /\ fs.inode[d.inum].slot[j].name \in Name
  BY DEF CanDrop, Base
<1>2. /\ Len(r.tree) = Len(fs.tree)
      /\ \A t \in 1 .. Len(fs.tree) :
           /\ r.tree[t].inum = fs.tree[t].inum
           /\ \A n \in Name : \/ r.tree[t].leaf[n] = fs.tree[t].leaf[n]
                              \/ r.tree[t].leaf[n] = WithoutNewest(fs.tree[t].leaf[n])
  BY <1>1, DroppedTrees
<1> HIDE DEF r
<1>3. Len(fs.tree) \in Nat
  BY <1>1, FsParts
<1>4. ASSUME NEW t \in 1 .. Len(fs.tree), NEW n \in Name,
             NEW k \in 1 .. Len(r.tree[t].leaf[n])
      PROVE  LeafOK(r, r.tree[t].leaf[n][k], g)
  <2> DEFINE l == fs.tree[t].leaf[n]
             u == r.tree[t].leaf[n]
  <2>1. l \in Seq(LeafType)
    BY <1>1, FsParts DEF TreeType
  <2>2. \A m \in 1 .. Len(l) : LeafOK(fs, l[m], g)
    BY <1>1 DEF TreesOK
  <2>3. \E m \in 1 .. Len(l) : u[k] = l[m]
    <3>1. CASE u = l
      BY <3>1
    <3>2. CASE u = WithoutNewest(l) /\ l # <<>>
      <4>1. u = Tail(l)
        BY <3>2 DEF WithoutNewest
      <4>2. Len(l) \in Nat /\ Len(u) = Len(l) - 1 /\ \A m \in 1 .. Len(u) : u[m] = l[m + 1]
        BY <2>1, <3>2, <4>1, HeadTailProperties, LenProperties
      <4> HIDE DEF l
      <4>3. k + 1 \in 1 .. Len(l) /\ u[k] = l[k + 1]
        BY <4>2
      <4> QED
        BY <4>3
    <3>3. CASE u = WithoutNewest(l) /\ l = <<>>
      <4>1. u = l
        BY <3>3 DEF WithoutNewest
      <4> QED
        BY <4>1
    <3> QED
      BY <1>2, <3>1, <3>2, <3>3
  <2> QED
    BY <1>2, <2>2, <2>3 DEF LeafOK
<1>5. TreesOK(r, g)
  BY <1>1, <1>2, <1>3, <1>4 DEF TreesOK
<1> QED
  BY <1>5 DEF r

\* The entries that name x are among those that did; one of them is gone.
LEMMA DropNaming ==
  ASSUME NEW fs, NEW g, NEW d, NEW j, CanDrop(fs, g, d, j)
  PROVE  LET r == Dropped(fs, d, j)
             i == fs.inode[d.inum].slot[j].inum
         IN /\ \A x \in Inum : Naming(r, x) \subseteq Naming(fs, x)
            /\ fs.inode[i].refs = 1 => Naming(r, i) = {}
<1> DEFINE i == fs.inode[d.inum].slot[j].inum
           r == Dropped(fs, d, j)
           gone == fs.inode[i].refs = 1
<1>1. DropEffect(fs, r, d, j) /\ d.inum \in Inum /\ i \in 1 .. g /\ r \in FsType
  BY DropFacts
<1>2. fs \in FsType /\ RefsCover(fs) /\ j \in 1 .. Len(fs.inode[d.inum].slot)
      /\ InodesOK(fs, g) /\ g \in Inum
  BY DEF CanDrop, Base
<1> HIDE DEF r, i
<1>3. ASSUME NEW e \in Entries(r)
      PROVE  /\ e \in Entries(fs) /\ e # <<d.inum, j>>
             /\ r.inode[e[1]].slot[e[2]].inum = fs.inode[e[1]].slot[e[2]].inum
  <2> DEFINE x == e[1]
             k == e[2]
  <2>1. x \in Inum /\ k \in 1 .. 2 * PerBlock /\ k <= Len(r.inode[x].slot)
        /\ r.inode[x].slot[k].active /\ e \in Inum \X (1 .. 2 * PerBlock) /\ e = <<x, k>>
    BY DEF Entries
  <2> HIDE DEF x, k
  <2>2. ~(gone /\ x = i)
    <3> SUFFICES ASSUME gone, x = i PROVE FALSE
      OBVIOUS
    <3>a. r.inode[x] = Blank
      BY <1>1 DEF DropEffect, i
    <3>1. r.inode[x].slot = <<>>
      BY <3>a DEF Blank
    <3>2. Len(r.inode[x].slot) = 0
      BY <3>1
    <3> QED
      BY <2>1, <3>2, ConstantTypes
  <2>3. Kept(fs, r, x, d.inum, j)
    BY <1>1, <2>1, <2>2 DEF DropEffect, i
  <2>4. k \in 1 .. Len(fs.inode[x].slot)
    <3>1. k \in Nat /\ k >= 1 /\ Len(fs.inode[x].slot) \in Nat
      BY <1>2, <2>1, ConstantTypes, FsParts
    <3>2. k <= Len(fs.inode[x].slot)
      BY <2>1, <2>3 DEF Kept
    <3> QED
      BY <3>1, <3>2
  <2>5. /\ r.inode[x].slot[k].inum = fs.inode[x].slot[k].inum
        /\ fs.inode[x].slot[k].active /\ ~(x = d.inum /\ k = j)
    BY <2>1, <2>3, <2>4 DEF Kept
  <2>6. e \in Entries(fs)
    BY <2>1, <2>4, <2>5 DEF Entries, x, k
  <2> QED
    BY <2>1, <2>5, <2>6 DEF x, k
<1>4. \A x \in Inum : Naming(r, x) \subseteq Naming(fs, x)
  BY <1>3 DEF Naming
<1>5. ASSUME gone PROVE Naming(r, i) = {}
  <2>1. fs.inode[d.inum].slot[j].active /\ i \in Inum
    <3>1. i \in Nat /\ i <= LastInode /\ i >= 1
      BY <1>1, <1>2, ConstantTypes DEF Inum
    <3> QED
      BY <1>1, <1>5, <3>1, ConstantTypes DEF DropEffect, i, Inum
  <2>2. <<d.inum, j>> \in Naming(fs, i)
    <3>1. Len(fs.inode[d.inum].slot) \in {0, PerBlock, 2 * PerBlock}
      BY <1>1, <1>2 DEF InodesOK
    <3>2. j \in 1 .. 2 * PerBlock /\ j <= Len(fs.inode[d.inum].slot)
      BY <1>2, <3>1, ConstantTypes
    <3> QED
      BY <1>1, <2>1, <3>2 DEF Naming, Entries, i
  <2>3. Cardinality(Naming(fs, i)) <= 1
    <3>1. i \in 1 .. LastInode
      BY <1>1, <1>2, ConstantTypes DEF Inum
    <3> QED
      BY <1>2, <1>5, <3>1 DEF RefsCover
  <2>4. Cardinality(Naming(fs, i) \ {<<d.inum, j>>}) = Cardinality(Naming(fs, i)) - 1
        /\ IsFiniteSet(Naming(fs, i) \ {<<d.inum, j>>})
        /\ Cardinality(Naming(fs, i)) \in Nat
    BY <2>2, NamingFinite, FS_RemoveElement
  <2>5. Cardinality(Naming(fs, i) \ {<<d.inum, j>>}) \in Nat
    BY <2>4, FS_CardinalityType
  <2>6. Naming(fs, i) \ {<<d.inum, j>>} = {}
    <3>1. Cardinality(Naming(fs, i) \ {<<d.inum, j>>}) = 0
      BY <2>3, <2>4, <2>5
    <3> QED
      BY <2>4, <3>1, FS_EmptySet
  <2>7. <<d.inum, j>> \notin Naming(r, i)
    BY <1>3 DEF Naming
  <2> QED
    BY <1>4, <2>1, <2>6, <2>7
<1> QED
  BY <1>4, <1>5 DEF r, i

LEMMA DroppedBase ==
  ASSUME NEW fs, NEW g, NEW d, NEW j, CanDrop(fs, g, d, j)
  PROVE  Base(Dropped(fs, d, j), g)
<1> DEFINE i == fs.inode[d.inum].slot[j].inum
           r == Dropped(fs, d, j)
           gone == fs.inode[i].refs = 1
<1>1. DropEffect(fs, r, d, j) /\ d.inum \in Inum /\ i \in 1 .. g /\ r \in FsType
  BY DropFacts
<1>2. fs \in FsType /\ RefsCover(fs) /\ j \in 1 .. Len(fs.inode[d.inum].slot)
      /\ InodesOK(fs, g) /\ SlotsOK(fs, g) /\ g \in Inum
  BY DEF CanDrop, Base
<1>3. TreesOK(r, g)
  BY DropTreesOK
<1>4. (\A x \in Inum : Naming(r, x) \subseteq Naming(fs, x)) /\ (gone => Naming(r, i) = {})
  BY DropNaming
<1> HIDE DEF r, i
<1>5. g \in Nat /\ g <= LastInode /\ LastInode \in Nat /\ i \in Inum /\ i >= 1
  BY <1>1, <1>2, ConstantTypes DEF Inum
<1>6. gone => /\ r.inode[i] = Blank /\ r.inode[i].kind = "none" /\ r.inode[i].refs = 0
              /\ r.inode[i].slot = <<>> /\ Len(r.inode[i].slot) = 0
  <2>1. gone => r.inode[i] = Blank
    BY <1>1 DEF DropEffect, i
  <2> QED
    BY <2>1, EmptySeq DEF Blank
<1>7. \A x \in Inum : ~(gone /\ x = i) =>
         /\ x # d.inum => r.inode[x] = fs.inode[x]
         /\ r.inode[x].kind = fs.inode[x].kind /\ r.inode[x].refs = fs.inode[x].refs
         /\ Kept(fs, r, x, d.inum, j)
  BY <1>1 DEF DropEffect, i
<1>8. InodesOK(r, g)
  <2>1. ASSUME NEW x \in Inum
        PROVE  /\ r.inode[x].kind = "none" <=> r.inode[x].refs = 0
               /\ r.inode[x].kind # "dir" => r.inode[x].slot = <<>>
               /\ Len(r.inode[x].slot) \in {0, PerBlock, 2 * PerBlock}
               /\ x > g => r.inode[x] = Blank
    <3>1. CASE gone /\ x = i
      BY <1>6, <3>1
    <3>2. CASE ~(gone /\ x = i)
      <4>1. /\ x # d.inum => r.inode[x] = fs.inode[x]
            /\ r.inode[x].kind = fs.inode[x].kind /\ r.inode[x].refs = fs.inode[x].refs
            /\ Len(r.inode[x].slot) = Len(fs.inode[x].slot)
        BY <1>7, <3>2 DEF Kept
      <4>2. /\ fs.inode[x].kind = "none" <=> fs.inode[x].refs = 0
            /\ fs.inode[x].kind # "dir" => fs.inode[x].slot = <<>>
            /\ Len(fs.inode[x].slot) \in {0, PerBlock, 2 * PerBlock}
            /\ x > g => fs.inode[x] = Blank
        BY <1>2 DEF InodesOK
      <4>3. fs.inode[d.inum].slot # <<>> /\ fs.inode[d.inum] # Blank /\ fs.inode[d.inum].kind = "dir"
        <5>1. Len(fs.inode[d.inum].slot) # 0
          BY <1>1, <1>2, FsParts
        <5>2. fs.inode[d.inum].slot # <<>>
          BY <5>1
        <5> QED
          BY <1>1, <1>2, <5>2 DEF InodesOK, Blank
      <4>4. x = d.inum => ~(x > g) /\ r.inode[x].kind = "dir"
        BY <4>1, <4>2, <4>3
      <4> QED
        BY <4>1, <4>2, <4>4
    <3> QED
      BY <3>1, <3>2
  <2>2. r.inode[0].kind = "dir"
    <3>1. 0 \in Inum /\ 0 # i
      BY <1>5, ConstantTypes
    <3> QED
      BY <1>2, <1>7, <3>1 DEF InodesOK
  <2> QED
    BY <2>1, <2>2 DEF InodesOK
<1>9. SlotsOK(r, g)
  <2> SUFFICES ASSUME NEW x \in Inum, NEW k \in 1 .. Len(r.inode[x].slot)
               PROVE  SlotOK(r, g, x, r.inode[x].slot[k])
    BY DEF SlotsOK
  <2>1. ~(gone /\ x = i)
    BY <1>6
  <2>2. Kept(fs, r, x, d.inum, j) /\ k \in 1 .. Len(fs.inode[x].slot)
    BY <1>7, <2>1 DEF Kept
  <2> DEFINE s == fs.inode[x].slot[k]
             t == r.inode[x].slot[k]
  <2>3. t.name = s.name /\ t.inum = s.inum /\ (t.active <=> s.active /\ ~(x = d.inum /\ k = j))
    BY <2>2 DEF Kept
  <2>4. SlotOK(fs, g, x, s) /\ s \in SlotType
    BY <1>2, <2>2, FsParts, ElementOfSeq DEF SlotsOK
  <2>5. s.inum \in Inum
    BY <2>4 DEF SlotType, Inum
  <2>6. x = d.inum /\ k = j => s.inum = i
    BY DEF i
  <2>7. t.active /\ gone => s.inum # i
    <3> SUFFICES ASSUME t.active, gone, s.inum = i PROVE FALSE
      OBVIOUS
    <3>1. k \in 1 .. 2 * PerBlock /\ k <= Len(r.inode[x].slot)
      <4>1. Len(r.inode[x].slot) \in {0, PerBlock, 2 * PerBlock}
        BY <1>8 DEF InodesOK
      <4> QED
        BY <4>1, ConstantTypes
    <3>2. <<x, k>> \in Naming(r, i)
      BY <2>3, <3>1 DEF Naming, Entries
    <3> QED
      BY <1>4, <3>2
  <2>8. r.inode[s.inum].refs = IF gone /\ s.inum = i THEN 0 ELSE fs.inode[s.inum].refs
    BY <1>6, <1>7, <2>5
  <2>9. fs.inode[i].refs # 1 <=> ~gone
    OBVIOUS
  <2> HIDE DEF s, t, gone
  <2>10. s.inum <= g /\ (t.active => s.name # <<>>)
    BY <2>3, <2>4 DEF SlotOK
  <2>11. ASSUME s.name # <<>>
         PROVE  /\ s.inum >= 1
                /\ t.active => r.inode[s.inum].refs >= 1
                /\ ~t.active => r.inode[s.inum].refs # 1
                /\ r.inode[s.inum].refs = 1 => s.inum # x
    <3>1. /\ s.inum >= 1
          /\ s.active => fs.inode[s.inum].refs >= 1
          /\ ~s.active => fs.inode[s.inum].refs # 1
          /\ fs.inode[s.inum].refs = 1 => s.inum # x
      BY <2>4, <2>11 DEF SlotOK
    <3>2. CASE gone /\ s.inum = i
      BY <2>7, <2>8, <3>1, <3>2
    <3>3. CASE ~(gone /\ s.inum = i)
      <4>1. r.inode[s.inum].refs = fs.inode[s.inum].refs
        BY <2>8, <3>3
      <4>2. x = d.inum /\ k = j => fs.inode[s.inum].refs # 1
        BY <2>6, <2>9, <3>3
      <4> QED
        BY <2>3, <3>1, <4>1, <4>2
    <3> QED
      BY <3>2, <3>3
  <2>12. SlotOK(r, g, x, t)
    BY <2>3, <2>10, <2>11 DEF SlotOK
  <2> QED
    BY <2>12 DEF t
<1>10. RefsCover(r)
  <2> SUFFICES ASSUME NEW x \in 1 .. LastInode
               PROVE  Cardinality(Naming(r, x)) <= r.inode[x].refs
    BY DEF RefsCover
  <2>1. x \in Inum
    BY <1>5 DEF Inum
  <2>2. CASE gone /\ x = i
    <3>1. Naming(r, x) = {} /\ r.inode[x].refs = 0
      BY <1>4, <1>6, <2>2
    <3> QED
      BY <3>1, FS_EmptySet
  <2>3. CASE ~(gone /\ x = i)
    <3>1. r.inode[x].refs = fs.inode[x].refs /\ fs.inode[x].refs \in Nat
      BY <1>2, <1>7, <2>1, <2>3, FsParts, ConstantTypes DEF InodeType
    <3>2. Cardinality(Naming(r, x)) <= Cardinality(Naming(fs, x))
      BY <1>4, <2>1, NamingSubset
    <3>3. Cardinality(Naming(fs, x)) <= fs.inode[x].refs
      BY <1>2 DEF RefsCover
    <3> QED
      BY <3>1, <3>2, <3>3, NamingFinite
  <2> QED
    BY <2>2, <2>3
<1> QED
  BY <1>1, <1>3, <1>8, <1>9, <1>10 DEF Base, r

\* An entry with the name that is looked for.
IsNamed(fs, d, j, n) == /\ j \in 1 .. Len(fs.inode[d.inum].slot)
                        /\ fs.inode[d.inum].slot[j].name = n

LEMMA InBlockFacts ==
  ASSUME NEW dir, NEW n, NEW b, Len(dir.slot) \in Nat, InBlock(dir, n, b) # 0
  PROVE  /\ InBlock(dir, n, b) \in 1 .. Len(dir.slot)
         /\ dir.slot[InBlock(dir, n, b)].name = n
<1> DEFINE at == {j \in 1 .. Len(dir.slot) : (j - 1) \div PerBlock = b /\ dir.slot[j].name = n}
<1>1. InBlock(dir, n, b) = IF at = {} THEN 0 ELSE Min(at)
  BY DEF InBlock
<1>2. at # {} /\ at \in SUBSET Nat
  BY <1>1
<1> HIDE DEF at
<1>3. \E m \in at : \A k \in at : m <= k
  BY <1>2, LeastNumber
<1>4. Min(at) \in at
  BY <1>3 DEF Min
<1>5. InBlock(dir, n, b) \in at
  BY <1>1, <1>2, <1>4
<1> QED
  BY <1>5 DEF at

\* What is dropped leaves directory d where it was, its entries with their names.
LEMMA DroppedAgain ==
  ASSUME NEW fs, NEW g, NEW d, NEW j, CanDrop(fs, g, d, j)
  PROVE  LET r == Dropped(fs, d, j)
         IN At(r, g, d) /\ \A k, n : IsNamed(fs, d, k, n) => IsNamed(r, d, k, n)
<1> DEFINE r == Dropped(fs, d, j)
<1>1. fs \in FsType /\ At(fs, g, d) /\ fs.inode[d.inum].slot[j].name \in Name
  BY DEF CanDrop, Base
<1>2. Len(r.tree) = Len(fs.tree) /\ \A t \in 1 .. Len(fs.tree) : r.tree[t].inum = fs.tree[t].inum
  BY <1>1, DroppedTrees
<1>3. DropEffect(fs, r, d, j) /\ d.inum \in Inum
  BY DropFacts
<1> HIDE DEF r
<1>4. Kept(fs, r, d.inum, d.inum, j)
  BY <1>3 DEF DropEffect
<1>5. At(r, g, d)
  <2>1. Len(fs.tree) \in Nat
    BY <1>1, FsParts
  <2> QED
    BY <1>1, <1>2, <2>1 DEF At
<1>6. \A k, n : IsNamed(fs, d, k, n) => IsNamed(r, d, k, n)
  BY <1>4 DEF IsNamed, Kept
<1> QED
  BY <1>5, <1>6 DEF r

\* A removal drops no entry, one, or two of the name.
LEMMA RemovedIs ==
  ASSUME NEW fs, NEW g, NEW p \in Seq(Name), p # <<>>, g \in Inum, Base(fs, g)
  PROVE  LET r == directory_remove_entry(fs, p)
             d == item_search(fs, Front(p))
             n == Last(p)
         IN \/ r = fs
            \/ \E j : IsNamed(fs, d, j, n) /\ r = Dropped(fs, d, j)
            \/ \E j, k : /\ IsNamed(fs, d, j, n) /\ IsNamed(fs, d, k, n)
                         /\ r = Dropped(Dropped(fs, d, j), d, k)
<1> DEFINE d == item_search(fs, Front(p))
           n == Last(p)
           dir == fs.inode[d.inum]
           here == InBlock(dir, n, 0)
           next == InBlock(dir, n, 1)
           one == IF here = 0 THEN fs ELSE Dropped(fs, d, here)
           r == directory_remove_entry(fs, p)
<1>1. r = fs \/ r = one \/ (next # 0 /\ r = Dropped(one, d, next))
  BY DEF directory_remove_entry, parent_path, get_name
<1>2. Len(dir.slot) \in Nat
  <2>1. At(fs, g, d) /\ fs \in FsType
    BY FrontFacts, SearchType DEF Base
  <2>2. d.inum \in Inum
    BY <2>1, ConstantTypes DEF At, Inum
  <2> QED
    BY <2>1, <2>2, FsParts
<1>3. (here # 0 => IsNamed(fs, d, here, n)) /\ (next # 0 => IsNamed(fs, d, next, n))
  BY <1>2, InBlockFacts DEF IsNamed
<1> HIDE DEF r, here, next, dir, d, n
<1>4. CASE r = fs
  BY <1>4 DEF r, d, n
<1>5. CASE r = one
  BY <1>3, <1>5 DEF r, d, n
<1>6. CASE next # 0 /\ r = Dropped(one, d, next)
  BY <1>3, <1>6 DEF r, d, n
<1> QED
  BY <1>1, <1>4, <1>5, <1>6

LEMMA RemovedBase ==
  ASSUME NEW fs, NEW g, NEW p \in Seq(Name), p # <<>>, g \in Inum, Base(fs, g)
  PROVE  Base(directory_remove_entry(fs, p), g)
<1> DEFINE d == item_search(fs, Front(p))
           n == Last(p)
           r == directory_remove_entry(fs, p)
<1>1. At(fs, g, d) /\ n \in Name
  BY FrontFacts, SearchType DEF Base
<1>2. \/ r = fs
      \/ \E j : IsNamed(fs, d, j, n) /\ r = Dropped(fs, d, j)
      \/ \E j, k : /\ IsNamed(fs, d, j, n) /\ IsNamed(fs, d, k, n)
                   /\ r = Dropped(Dropped(fs, d, j), d, k)
  BY RemovedIs
<1> HIDE DEF d, n, r
<1>3. \A j : IsNamed(fs, d, j, n) => CanDrop(fs, g, d, j)
  BY <1>1 DEF CanDrop, IsNamed
<1>4. CASE \E j : IsNamed(fs, d, j, n) /\ r = Dropped(fs, d, j)
  BY <1>3, <1>4, DroppedBase DEF r
<1>5. CASE \E j, k : /\ IsNamed(fs, d, j, n) /\ IsNamed(fs, d, k, n)
                     /\ r = Dropped(Dropped(fs, d, j), d, k)
  <2>1. PICK j, k : /\ IsNamed(fs, d, j, n) /\ IsNamed(fs, d, k, n)
                    /\ r = Dropped(Dropped(fs, d, j), d, k)
    BY <1>5
  <2>2. Base(Dropped(fs, d, j), g) /\ At(Dropped(fs, d, j), g, d)
        /\ IsNamed(Dropped(fs, d, j), d, k, n)
    BY <1>3, <2>1, DroppedBase, DroppedAgain
  <2>3. CanDrop(Dropped(fs, d, j), g, d, k)
    BY <1>1, <2>2 DEF CanDrop, IsNamed
  <2> QED
    BY <2>1, <2>3, DroppedBase DEF r
<1> QED
  BY <1>2, <1>4, <1>5 DEF r

-----------------------------------------------------------------------------
(***************************************************************************)
(* An entry is added.                                                      *)
(***************************************************************************)
LEMMA SpotFacts ==
  ASSUME NEW dir, Len(dir.slot) \in Nat
  PROVE  /\ Spot(dir) \in 1 .. Len(dir.slot) + 1
         /\ Spot(dir) <= Len(dir.slot) =>
              \/ ~dir.slot[Spot(dir)].active
              \/ Cardinality({k \in 1 .. Spot(dir) - 1 : dir.slot[k].active}) = dir.count
<1> DEFINE s == dir.slot
           before(j) == Cardinality({k \in 1 .. j - 1 : s[k].active})
           P(j) == ~s[j].active \/ before(j) = dir.count
           S == {j \in 1 .. Len(s) : P(j)} \cup {Len(s) + 1}
<1>1. Spot(dir) = Min(S)
  BY DEF Spot
<1> HIDE DEF P
<1>2. S # {} /\ S \in SUBSET Nat /\ S \subseteq 1 .. Len(dir.slot) + 1
  OBVIOUS
<1>a. \A m \in S : m <= Len(dir.slot) => P(m)
  OBVIOUS
<1> HIDE DEF S
<1>3. \E m \in S : \A k \in S : m <= k
  BY <1>2, LeastNumber
<1>4. Min(S) \in S
  BY <1>3 DEF Min
<1>5. Spot(dir) <= Len(dir.slot) => P(Spot(dir))
  BY <1>1, <1>4, <1>a
<1>6. Spot(dir) \in 1 .. Len(dir.slot) + 1
  BY <1>1, <1>2, <1>4
<1> QED
  BY <1>5, <1>6 DEF P

AddedDir(dir, entry, stale) == [Grown(dir, stale) EXCEPT !.slot[Spot(dir)] = entry, !.count = @ + 1]

\* The slots of a directory with an entry more.
SlotsAdded(old, new, sp, e) ==
  /\ Len(new) \in {PerBlock, 2 * PerBlock} /\ Len(old) <= Len(new) /\ sp \in 1 .. Len(new)
  /\ \A k \in 1 .. Len(new) :
       new[k] = IF k = sp THEN e ELSE IF k <= Len(old) THEN old[k] ELSE Unused

\* A first block may begin with an old count; the new entry is counted.
CountsMore(old, new) == /\ new.count >= 1
                        /\ old.slot # <<>> => new.count = old.count + 1

LEMMA AddedFacts ==
  ASSUME NEW dir \in InodeType, NEW entry \in SlotType, NEW stale \in Nat,
         Len(dir.slot) \in {0, PerBlock, 2 * PerBlock}, Spot(dir) <= 2 * PerBlock
  PROVE  LET x == AddedDir(dir, entry, stale)
         IN /\ x \in InodeType /\ x.kind = dir.kind /\ x.refs = dir.refs
            /\ SlotsAdded(dir.slot, x.slot, Spot(dir), entry)
            /\ CountsMore(dir, x)
<1> DEFINE s == dir.slot
           more == [k \in 1 .. PerBlock |-> Unused]
           room == IF Spot(dir) <= Len(s) THEN s ELSE s \o more
           g == Grown(dir, stale)
           t == [room EXCEPT ![Spot(dir)] = entry]
<1>1. s \in Seq(SlotType) /\ dir.kind \in {"none", "dir", "file"} /\ dir.refs \in 0 .. MaxRefs
      /\ dir.count \in Nat /\ Len(s) \in Nat
      /\ dir = [kind |-> dir.kind, refs |-> dir.refs, slot |-> s, count |-> dir.count]
  BY LenProperties DEF InodeType
<1>2. Spot(dir) \in 1 .. Len(s) + 1
  BY <1>1, SpotFacts
<1>3. more \in Seq(SlotType) /\ Len(more) = PerBlock /\ \A k \in 1 .. PerBlock : more[k] = Unused
  <2>1. Unused \in SlotType
    BY ConstantTypes DEF Unused, SlotType
  <2>2. more \in [1 .. PerBlock -> SlotType]
    BY <2>1
  <2> QED
    BY <2>2, ConstantTypes
<1> HIDE DEF s, more
<1>4. /\ room \in Seq(SlotType) /\ Len(room) \in {PerBlock, 2 * PerBlock}
      /\ Len(s) <= Len(room) /\ Spot(dir) \in 1 .. Len(room)
      /\ \A k \in 1 .. Len(room) : room[k] = IF k <= Len(s) THEN s[k] ELSE Unused
  <2>1. CASE Spot(dir) <= Len(s)
    <3>1. room = s /\ Len(s) # 0
      BY <1>1, <1>2, <2>1
    <3> QED
      BY <1>1, <1>2, <2>1, <3>1 DEF s
  <2>2. CASE ~(Spot(dir) <= Len(s))
    <3>1. Spot(dir) = Len(s) + 1 /\ room = s \o more
      BY <1>1, <1>2, <2>2
    <3>2. Len(s) \in {0, PerBlock}
      BY <3>1, ConstantTypes DEF s
    <3>3. /\ room \in Seq(SlotType) /\ Len(room) = Len(s) + PerBlock
          /\ \A k \in 1 .. Len(s) + PerBlock :
               room[k] = IF k <= Len(s) THEN s[k] ELSE more[k - Len(s)]
      <4>1. /\ s \o more \in Seq(SlotType) /\ Len(s \o more) = Len(s) + Len(more)
            /\ \A k \in 1 .. Len(s) + Len(more) :
                 (s \o more)[k] = IF k <= Len(s) THEN s[k] ELSE more[k - Len(s)]
        BY <1>1, <1>3, ConcatProperties
      <4> HIDE DEF room
      <4> QED
        BY <1>3, <3>1, <4>1
    <3>4. ASSUME NEW k \in 1 .. Len(room), ~(k <= Len(s)) PROVE room[k] = Unused
      <4>1. k - Len(s) \in 1 .. PerBlock /\ k \in 1 .. Len(s) + PerBlock
        BY <1>1, <3>3, <3>4, ConstantTypes
      <4> QED
        BY <1>3, <3>3, <3>4, <4>1
    <3> HIDE DEF room
    <3>5. Len(room) \in {PerBlock, 2 * PerBlock} /\ Len(s) <= Len(room) /\ Spot(dir) \in 1 .. Len(room)
      BY <1>1, <3>1, <3>2, <3>3, ConstantTypes
    <3> QED
      BY <3>3, <3>4, <3>5
  <2> QED
    BY <2>1, <2>2
<1>5. \E c \in Nat : /\ g = [kind |-> dir.kind, refs |-> dir.refs, slot |-> room, count |-> c]
                     /\ dir.slot # <<>> => c = dir.count
  <2>1. CASE Spot(dir) <= Len(s)
    <3>1. g = dir /\ room = s
      BY <2>1 DEF Grown, s
    <3> QED
      BY <1>1, <3>1
  <2>2. CASE ~(Spot(dir) <= Len(s))
    <3> DEFINE c == IF dir.slot = <<>> THEN stale ELSE dir.count
    <3>1. c \in Nat /\ room = s \o more
      BY <1>1, <2>2
    <3>a. dir.slot # <<>> => c = dir.count
      OBVIOUS
    <3>2. g = [dir EXCEPT !.slot = @ \o [k \in 1 .. PerBlock |-> Unused], !.count = c]
      BY <2>2 DEF Grown, s
    <3> HIDE DEF c, g, room
    <3>3. g = [kind |-> dir.kind, refs |-> dir.refs, slot |-> room, count |-> c]
      BY <1>1, <3>1, <3>2 DEF s, more
    <3> QED
      BY <3>1, <3>3, <3>a
  <2> QED
    BY <2>1, <2>2
<1> HIDE DEF room, g
<1>6. PICK c \in Nat : /\ g = [kind |-> dir.kind, refs |-> dir.refs, slot |-> room, count |-> c]
                       /\ dir.slot # <<>> => c = dir.count
  BY <1>5
<1>7. g \in InodeType /\ g.kind = dir.kind /\ g.refs = dir.refs /\ g.slot = room /\ g.count = c
  <2>1. g = [kind |-> dir.kind, refs |-> dir.refs, slot |-> room, count |-> c]
    BY <1>6
  <2> QED
    BY <1>1, <1>4, <2>1 DEF InodeType
<1>8. t \in Seq(SlotType) /\ Len(t) = Len(room)
      /\ \A k \in 1 .. Len(room) : t[k] = IF k = Spot(dir) THEN entry ELSE room[k]
  BY <1>4, ExceptSeq
<1> DEFINE y == g.count + 1
           x == AddedDir(dir, entry, stale)
<1>9. x = [g EXCEPT !.slot[Spot(dir)] = entry, !.count = y]
  BY DEF AddedDir, g
<1>10. /\ y \in Nat /\ y >= 1
       /\ dir.slot # <<>> => y = dir.count + 1
  <2>1. y = c + 1 /\ c \in Nat
    BY <1>7
  <2>2. dir.slot # <<>> => c = dir.count
    BY <1>6
  <2> HIDE DEF y
  <2> QED
    BY <2>1, <2>2
<1> HIDE DEF y, x
<1>11. x = [g EXCEPT !.slot = [g.slot EXCEPT ![Spot(dir)] = entry], !.count = y]
  BY <1>9
<1>12. x = [g EXCEPT !.slot = t, !.count = y]
  BY <1>7, <1>11
<1> HIDE DEF t
<1>13. x \in InodeType /\ x.kind = dir.kind /\ x.refs = dir.refs /\ x.slot = t /\ x.count = y
  BY <1>7, <1>8, <1>10, <1>12 DEF InodeType
<1>14. SlotsAdded(s, t, Spot(dir), entry)
  BY <1>4, <1>8 DEF SlotsAdded
<1>15. CountsMore(dir, x)
  BY <1>10, <1>13 DEF CountsMore
<1> QED
  BY <1>13, <1>14, <1>15 DEF s, x

\* The index with a name more: a leaf before the others of the name.
TreesIndexed(tr, u, at, n, target, kind) ==
  LET val == IF kind = "dir" THEN Len(tr) + 1 ELSE target
  IN /\ u \in Seq(TreeType) /\ Len(u) = IF kind = "dir" THEN Len(tr) + 1 ELSE Len(tr)
     /\ \A t \in 1 .. Len(tr) :
          /\ u[t].inum = tr[t].inum
          /\ \A m \in Name :
               u[t].leaf[m] = IF t = at /\ m = n
                              THEN <<[kind |-> kind, val |-> val]>> \o tr[t].leaf[m]
                              ELSE tr[t].leaf[m]
     /\ kind = "dir" => u[Len(tr) + 1] = NewTree(target)

LEMMA IndexedInDir ==
  ASSUME NEW tr \in Seq(TreeType), NEW d, NEW n \in Name, NEW target \in Inum,
         NEW kind \in {"dir", "file"}, d.tree \in 1 .. Len(tr)
  PROVE  TreesIndexed(tr, Indexed(tr, d, n, target, kind), d.tree, n, target, kind)
<1> DEFINE at == d.tree
           L == Len(tr)
           new == IF kind = "dir" THEN Append(tr, NewTree(target)) ELSE tr
           val == IF kind = "dir" THEN L + 1 ELSE target
           l == [kind |-> kind, val |-> val]
           y == <<l>> \o new[at].leaf[n]
           u == [new EXCEPT ![at].leaf[n] = y]
           T(x) == [x EXCEPT !.leaf = [@ EXCEPT ![n] = y]]
<1>1. L \in Nat /\ \A t \in 1 .. L : tr[t] \in TreeType
  BY LenProperties, ElementOfSeq
<1>2. NewTree(target) \in TreeType
  BY EmptySeq DEF NewTree, TreeType
<1>3. /\ new \in Seq(TreeType) /\ Len(new) = IF kind = "dir" THEN L + 1 ELSE L
      /\ \A t \in 1 .. L : new[t] = tr[t]
      /\ kind = "dir" => new[L + 1] = NewTree(target)
  BY <1>1, <1>2, AppendProperties
<1>4. l \in LeafType
  BY <1>1, ConstantTypes DEF LeafType
<1>5. Indexed(tr, d, n, target, kind) = u
  <2>1. (IF kind = "dir" THEN Len(new) ELSE target) = val
    BY <1>3
  <2> QED
    BY <2>1 DEF Indexed
<1>6. at \in 1 .. L /\ at \in 1 .. Len(new)
  BY <1>1, <1>3
<1> HIDE DEF at, L, new, val, l
<1>7. new[at] \in TreeType /\ new[at] = tr[at] /\ new[at].leaf[n] \in Seq(LeafType)
  <2>1. new[at] \in TreeType /\ new[at] = tr[at]
    BY <1>1, <1>3, <1>6
  <2> QED
    BY <2>1 DEF TreeType
<1>8. y \in Seq(LeafType)
  <2>1. <<l>> \in Seq(LeafType)
    BY <1>4
  <2> QED
    BY <1>7, <2>1, ConcatProperties
<1>9. y = <<l>> \o tr[at].leaf[n]
  BY <1>7
<1> HIDE DEF y
<1>10. u = [new EXCEPT ![at] = T(@)]
  OBVIOUS
<1>11. new \in [1 .. Len(new) -> TreeType] /\ Len(new) \in Nat
  BY <1>3, LenProperties
<1> DEFINE v == T(new[at])
<1>12. v \in TreeType /\ v.inum = new[at].inum
       /\ \A m \in Name : v.leaf[m] = IF m = n THEN y ELSE new[at].leaf[m]
  <2> DEFINE f == new[at].leaf
             h == [f EXCEPT ![n] = y]
  <2>1. f \in [Name -> Seq(LeafType)] /\ new[at].inum \in Inum
        /\ new[at] = [inum |-> new[at].inum, leaf |-> f]
    BY <1>7 DEF TreeType
  <2>2. v = [new[at] EXCEPT !.leaf = h]
    OBVIOUS
  <2> HIDE DEF f, v
  <2>3. h \in [Name -> Seq(LeafType)] /\ \A m \in Name : h[m] = IF m = n THEN y ELSE f[m]
    BY <1>8, <2>1
  <2> HIDE DEF h
  <2>4. v = [inum |-> new[at].inum, leaf |-> h]
    BY <2>1, <2>2
  <2> QED
    BY <2>1, <2>3, <2>4 DEF TreeType, f
<1>13. u = [t \in 1 .. Len(new) |-> IF t = at THEN v ELSE new[t]]
  <2> HIDE DEF u, T
  <2> QED
    BY <1>10, <1>11
<1> HIDE DEF u, v
<1>14. u \in Seq(TreeType) /\ Len(u) = Len(new)
       /\ \A t \in 1 .. Len(new) : u[t] = IF t = at THEN v ELSE new[t]
  <2>1. u \in [1 .. Len(new) -> TreeType]
    BY <1>11, <1>12, <1>13
  <2> QED
    BY <1>11, <1>13, <2>1
<1>15. ASSUME NEW t \in 1 .. L
       PROVE  /\ u[t].inum = tr[t].inum
              /\ \A m \in Name : u[t].leaf[m] = IF t = at /\ m = n THEN y ELSE tr[t].leaf[m]
  <2>1. t \in 1 .. Len(new) /\ new[t] = tr[t]
    BY <1>1, <1>3
  <2>2. u[t] = IF t = at THEN v ELSE tr[t]
    BY <1>14, <2>1
  <2> QED
    BY <1>7, <1>12, <2>2
<1>16. kind = "dir" => u[L + 1] = NewTree(target)
  <2> SUFFICES ASSUME kind = "dir" PROVE u[L + 1] = NewTree(target)
    OBVIOUS
  <2>1. L + 1 \in 1 .. Len(new) /\ L + 1 # at
    BY <1>1, <1>3, <1>6
  <2> QED
    BY <1>3, <1>14, <2>1
<1>17. TreesIndexed(tr, u, at, n, target, kind)
  BY <1>3, <1>9, <1>14, <1>15, <1>16 DEF TreesIndexed, L, l, val
<1> QED
  BY <1>5, <1>17 DEF at

\* A place without a tree gets no leaf.
LEMMA IndexedNowhere ==
  ASSUME NEW tr \in Seq(TreeType), NEW d, NEW n \in Name, NEW target \in Inum,
         NEW kind \in {"dir", "file"}, d.tree = 0
  PROVE  TreesIndexed(tr, Indexed(tr, d, n, target, kind), d.tree, n, target, kind)
<1> DEFINE L == Len(tr)
           new == IF kind = "dir" THEN Append(tr, NewTree(target)) ELSE tr
           u == Indexed(tr, d, n, target, kind)
<1>1. L \in Nat
  BY LenProperties
<1>2. NewTree(target) \in TreeType
  BY EmptySeq DEF NewTree, TreeType
<1>3. /\ new \in Seq(TreeType) /\ Len(new) = IF kind = "dir" THEN L + 1 ELSE L
      /\ \A t \in 1 .. L : new[t] = tr[t]
      /\ kind = "dir" => new[L + 1] = NewTree(target)
  BY <1>1, <1>2, AppendProperties
<1> DEFINE y == <<[kind |-> kind, val |-> IF kind = "dir" THEN Len(new) ELSE target]>>
                  \o new[d.tree].leaf[n]
<1>4. u = [new EXCEPT ![d.tree].leaf[n] = y]
  BY DEF Indexed
<1> HIDE DEF new, L, u, y
<1>5. new \in [1 .. Len(new) -> TreeType] /\ Len(new) \in Nat
  BY <1>3, LenProperties
<1>6. u = new
  BY <1>4, <1>5
<1>7. ASSUME NEW t \in 1 .. L PROVE u[t] = tr[t] /\ t # d.tree
  BY <1>3, <1>6
<1>8. u \in Seq(TreeType) /\ Len(u) = (IF kind = "dir" THEN L + 1 ELSE L)
      /\ (kind = "dir" => u[L + 1] = NewTree(target))
  BY <1>3, <1>6
<1> QED
  BY <1>7, <1>8 DEF TreesIndexed, L, u

LEMMA IndexedFacts ==
  ASSUME NEW tr \in Seq(TreeType), NEW d, NEW n \in Name, NEW target \in Inum,
         NEW kind \in {"dir", "file"}, d.tree \in 0 .. Len(tr)
  PROVE  TreesIndexed(tr, Indexed(tr, d, n, target, kind), d.tree, n, target, kind)
<1>1. Len(tr) \in Nat
  BY LenProperties
<1>2. CASE d.tree = 0
  BY <1>2, IndexedNowhere
<1>3. CASE d.tree # 0
  <2>1. d.tree \in 1 .. Len(tr)
    BY <1>1, <1>3
  <2> QED
    BY <2>1, IndexedInDir
<1> QED
  BY <1>2, <1>3

CanIndex(fs, r, g, at, n, target, kind) ==
  /\ g \in Inum /\ fs \in FsType /\ TreesOK(fs, g)
  /\ n \in Name /\ target \in 1 .. g /\ kind \in {"dir", "file"}
  /\ TreesIndexed(fs.tree, r.tree, at, n, target, kind)

LEMMA IndexedTreesOK ==
  ASSUME NEW fs, NEW r, NEW g, NEW at, NEW n, NEW target, NEW kind,
         CanIndex(fs, r, g, at, n, target, kind)
  PROVE  TreesOK(r, g)
<1>0. /\ g \in Inum /\ fs \in FsType /\ TreesOK(fs, g)
      /\ n \in Name /\ target \in 1 .. g /\ kind \in {"dir", "file"}
      /\ TreesIndexed(fs.tree, r.tree, at, n, target, kind)
  BY DEF CanIndex
<1> DEFINE L == Len(fs.tree)
           val == IF kind = "dir" THEN L + 1 ELSE target
           new == [kind |-> kind, val |-> val]
<1>1. g \in Nat /\ L \in Nat /\ L >= 1 /\ fs.tree[1].inum = 0 /\ target \in Inum
  BY <1>0, ConstantTypes, FsParts DEF TreesOK, Inum
<1>2. /\ Len(r.tree) = IF kind = "dir" THEN L + 1 ELSE L
      /\ \A t \in 1 .. L :
           /\ r.tree[t].inum = fs.tree[t].inum
           /\ \A m \in Name : r.tree[t].leaf[m] = IF t = at /\ m = n
                                                  THEN <<new>> \o fs.tree[t].leaf[m]
                                                  ELSE fs.tree[t].leaf[m]
      /\ kind = "dir" => r.tree[L + 1] = NewTree(target)
  BY <1>0 DEF TreesIndexed
<1>3. LeafOK(r, new, g) /\ new \in LeafType
  BY <1>0, <1>1, <1>2 DEF LeafOK, LeafType
<1>4. ASSUME NEW l \in LeafType, LeafOK(fs, l, g) PROVE LeafOK(r, l, g)
  BY <1>1, <1>2, <1>4 DEF LeafOK
<1> HIDE DEF L, val, new
<1>5. ASSUME NEW t \in 1 .. Len(r.tree), NEW m \in Name, NEW k \in 1 .. Len(r.tree[t].leaf[m])
      PROVE  LeafOK(r, r.tree[t].leaf[m][k], g)
  <2>1. CASE t = L + 1 /\ kind = "dir"
    <3>1. r.tree[t].leaf[m] = <<>>
      BY <1>2, <2>1 DEF NewTree
    <3> QED
      BY <3>1
  <2>2. CASE ~(t = L + 1 /\ kind = "dir")
    <3> DEFINE l == fs.tree[t].leaf[m]
    <3>1. t \in 1 .. L
      BY <1>1, <1>2, <2>2
    <3>2. l \in Seq(LeafType)
      BY <1>0, <3>1, FsParts DEF TreeType, L
    <3>3. \A i \in 1 .. Len(l) : LeafOK(r, l[i], g)
      BY <1>0, <1>4, <3>1, <3>2, ElementOfSeq DEF TreesOK, L
    <3> HIDE DEF l
    <3>4. CASE r.tree[t].leaf[m] = l
      BY <3>3, <3>4
    <3>5. CASE r.tree[t].leaf[m] = <<new>> \o l
      <4>1. <<new>> \in Seq(LeafType) /\ Len(<<new>>) = 1 /\ <<new>>[1] = new
        BY <1>3
      <4>2. /\ Len(<<new>> \o l) = 1 + Len(l)
            /\ \A i \in 1 .. 1 + Len(l) :
                 (<<new>> \o l)[i] = IF i <= 1 THEN <<new>>[i] ELSE l[i - 1]
        BY <3>2, <4>1, ConcatProperties
      <4>3. Len(l) \in Nat /\ k \in 1 .. 1 + Len(l)
        BY <3>2, <3>5, <4>2, LenProperties
      <4>4. CASE k = 1
        BY <1>3, <3>5, <4>1, <4>2, <4>3, <4>4
      <4>5. CASE k # 1
        <5>1. k - 1 \in 1 .. Len(l) /\ ~(k <= 1)
          BY <4>3, <4>5
        <5> QED
          BY <3>3, <3>5, <4>2, <4>3, <5>1
      <4> QED
        BY <4>4, <4>5
    <3> QED
      BY <1>2, <3>1, <3>4, <3>5 DEF l
  <2> QED
    BY <2>1, <2>2
<1>6. Len(r.tree) >= 1 /\ r.tree[1].inum = 0
  BY <1>1, <1>2
<1>7. ASSUME NEW t \in 2 .. Len(r.tree) PROVE r.tree[t].inum \in 1 .. g
  <2>1. CASE t = L + 1 /\ kind = "dir"
    BY <1>0, <1>2, <2>1 DEF NewTree
  <2>2. CASE ~(t = L + 1 /\ kind = "dir")
    <3>1. t \in 2 .. L /\ t \in 1 .. L
      BY <1>1, <1>2, <2>2
    <3> QED
      BY <1>0, <1>2, <3>1 DEF TreesOK, L
  <2> QED
    BY <2>1, <2>2
<1> QED
  BY <1>5, <1>6, <1>7 DEF TreesOK

\* What becomes of the inodes when directory i gets entry e at sp.
AddEffect(fs, r, i, sp, e) ==
  /\ r.inode \in [Inum -> InodeType]
  /\ \A x \in Inum :
       /\ r.inode[x].kind = fs.inode[x].kind
       /\ x # i /\ x # e.inum => r.inode[x] = fs.inode[x]
       /\ x # e.inum => r.inode[x].refs = fs.inode[x].refs
       /\ x # i => /\ r.inode[x].slot = fs.inode[x].slot
                   /\ r.inode[x].count = fs.inode[x].count
  /\ SlotsAdded(fs.inode[i].slot, r.inode[i].slot, sp, e)
  /\ CountsMore(fs.inode[i], r.inode[i])

\* The target of the new entry has a reference for it.
CanAdd(fs, g, r, i, sp, e) ==
  /\ g \in Inum /\ fs \in FsType
  /\ InodesOK(fs, g) /\ SlotsOK(fs, g) /\ RefsCover(fs)
  /\ i \in 0 .. g /\ fs.inode[i].kind = "dir" /\ AddEffect(fs, r, i, sp, e)
  /\ e \in SlotType /\ e.active /\ e.name \in Name /\ e.inum \in 1 .. g
  /\ fs.inode[e.inum].kind # "none"
  /\ r.inode[e.inum].refs >= 1
  /\ Cardinality(Naming(fs, e.inum)) + 1 <= r.inode[e.inum].refs
  /\ r.inode[e.inum].refs = 1 =>
       /\ e.inum # i
       /\ \A x \in Inum : \A k \in 1 .. Len(fs.inode[x].slot) :
            fs.inode[x].slot[k].inum # e.inum

LEMMA AddNaming ==
  ASSUME NEW fs, NEW g, NEW r, NEW i, NEW sp, NEW e, CanAdd(fs, g, r, i, sp, e), NEW x \in Inum
  PROVE  Naming(r, x) \subseteq Naming(fs, x) \cup (IF x = e.inum THEN {<<i, sp>>} ELSE {})
<1> SUFFICES ASSUME NEW y \in Naming(r, x), y # <<i, sp>> \/ x # e.inum
             PROVE  y \in Naming(fs, x)
  OBVIOUS
<1> DEFINE d == y[1]
           k == y[2]
<1>1. /\ d \in Inum /\ k \in 1 .. 2 * PerBlock /\ y = <<d, k>> /\ k <= Len(r.inode[d].slot)
      /\ r.inode[d].slot[k].active /\ r.inode[d].slot[k].inum = x
      /\ y \in Inum \X (1 .. 2 * PerBlock)
  BY DEF Naming, Entries
<1> HIDE DEF d, k
<1>2. fs \in FsType /\ AddEffect(fs, r, i, sp, e)
  BY DEF CanAdd
<1>3. k <= Len(fs.inode[d].slot) /\ fs.inode[d].slot[k].active /\ fs.inode[d].slot[k].inum = x
  <2>1. CASE d # i
    BY <1>1, <1>2, <2>1 DEF AddEffect
  <2>2. CASE d = i
    <3> DEFINE old == fs.inode[i].slot
               new == r.inode[i].slot
    <3>1. /\ Len(new) \in {PerBlock, 2 * PerBlock}
          /\ \A m \in 1 .. Len(new) :
               new[m] = IF m = sp THEN e ELSE IF m <= Len(old) THEN old[m] ELSE Unused
      BY <1>2 DEF AddEffect, SlotsAdded
    <3>2. k \in 1 .. Len(new)
      BY <1>1, <2>2, <3>1, ConstantTypes
    <3>3. new[k].active /\ new[k].inum = x
      BY <1>1, <2>2
    <3>4. k # sp
      <4> SUFFICES ASSUME k = sp PROVE FALSE
        OBVIOUS
      <4>1. new[k] = e
        BY <3>1, <3>2
      <4> QED
        BY <1>1, <2>2, <3>3, <4>1
    <3>5. k <= Len(old)
      <4> SUFFICES ASSUME ~(k <= Len(old)) PROVE FALSE
        OBVIOUS
      <4>1. new[k] = Unused
        BY <3>1, <3>2, <3>4
      <4> QED
        BY <3>3, <4>1 DEF Unused
    <3>6. new[k] = old[k]
      BY <3>1, <3>2, <3>4, <3>5
    <3> QED
      BY <2>2, <3>3, <3>5, <3>6
  <2> QED
    BY <2>1, <2>2
<1> QED
  BY <1>1, <1>3 DEF Naming, Entries, d, k

LEMMA AddInodes ==
  ASSUME NEW fs, NEW g, NEW r, NEW i, NEW sp, NEW e, CanAdd(fs, g, r, i, sp, e)
  PROVE  InodesOK(r, g) /\ SlotsOK(r, g) /\ RefsCover(r)
<1>1. g \in Nat /\ g <= LastInode /\ LastInode \in Nat /\ i \in Inum /\ e.inum \in Inum
  BY ConstantTypes DEF CanAdd, Inum
<1>2. /\ fs \in FsType /\ InodesOK(fs, g) /\ SlotsOK(fs, g) /\ RefsCover(fs)
      /\ AddEffect(fs, r, i, sp, e)
  BY DEF CanAdd
<1>3. /\ r.inode \in [Inum -> InodeType]
      /\ \A x \in Inum :
           /\ r.inode[x].kind = fs.inode[x].kind
           /\ x # i /\ x # e.inum => r.inode[x] = fs.inode[x]
           /\ x # e.inum => r.inode[x].refs = fs.inode[x].refs
           /\ x # i => r.inode[x].slot = fs.inode[x].slot
      /\ SlotsAdded(fs.inode[i].slot, r.inode[i].slot, sp, e)
  BY <1>2 DEF AddEffect
<1>4. /\ i \in 0 .. g /\ fs.inode[i].kind = "dir"
      /\ e \in SlotType /\ e.active /\ e.name \in Name /\ e.inum \in 1 .. g
      /\ fs.inode[e.inum].kind # "none" /\ r.inode[e.inum].refs >= 1
  BY DEF CanAdd
<1>5. InodesOK(r, g)
  <2>1. ASSUME NEW x \in Inum
        PROVE  /\ r.inode[x].kind = "none" <=> r.inode[x].refs = 0
               /\ r.inode[x].kind # "dir" => r.inode[x].slot = <<>>
               /\ Len(r.inode[x].slot) \in {0, PerBlock, 2 * PerBlock}
               /\ x > g => r.inode[x] = Blank
    <3>1. /\ fs.inode[x].kind = "none" <=> fs.inode[x].refs = 0
          /\ fs.inode[x].kind # "dir" => fs.inode[x].slot = <<>>
          /\ Len(fs.inode[x].slot) \in {0, PerBlock, 2 * PerBlock}
          /\ x > g => fs.inode[x] = Blank
      BY <1>2 DEF InodesOK
    <3>2. r.inode[x].kind = "none" <=> r.inode[x].refs = 0
      <4>1. CASE x = e.inum
        BY <1>3, <1>4, <4>1
      <4>2. CASE x # e.inum
        BY <1>3, <3>1, <4>2
      <4> QED
        BY <4>1, <4>2
    <3>3. /\ r.inode[x].kind # "dir" => r.inode[x].slot = <<>>
          /\ Len(r.inode[x].slot) \in {0, PerBlock, 2 * PerBlock}
      <4>1. CASE x = i
        BY <1>3, <1>4, <4>1 DEF SlotsAdded
      <4>2. CASE x # i
        BY <1>3, <3>1, <4>2
      <4> QED
        BY <4>1, <4>2
    <3>4. x > g => r.inode[x] = Blank
      <4>1. x > g => x # i /\ x # e.inum
        BY <1>1, <1>4
      <4> QED
        BY <1>3, <3>1, <4>1
    <3> QED
      BY <3>2, <3>3, <3>4
  <2>2. r.inode[0].kind = "dir"
    BY <1>2, <1>3, ConstantTypes DEF InodesOK
  <2> QED
    BY <2>1, <2>2 DEF InodesOK
<1>6. SlotsOK(r, g)
  <2> SUFFICES ASSUME NEW x \in Inum, NEW k \in 1 .. Len(r.inode[x].slot)
               PROVE  SlotOK(r, g, x, r.inode[x].slot[k])
    BY DEF SlotsOK
  <2> DEFINE t == r.inode[x].slot[k]
  <2>1. CASE x = i /\ k = sp
    <3>1. t = e
      BY <1>3, <2>1 DEF SlotsAdded
    <3>2. e.name # <<>> /\ e.inum <= g /\ e.inum >= 1
      BY <1>1, <1>4, DirectoryConstants
    <3>3. r.inode[e.inum].refs = 1 => e.inum # x
      BY <2>1 DEF CanAdd
    <3>4. SlotOK(r, g, x, e)
      BY <1>4, <3>2, <3>3 DEF SlotOK
    <3> QED
      BY <3>1, <3>4
  <2>2. CASE x = i /\ k # sp /\ ~(k <= Len(fs.inode[x].slot))
    <3>1. t = Unused
      BY <1>3, <2>2 DEF SlotsAdded
    <3>2. SlotOK(r, g, x, Unused)
      BY <1>1 DEF SlotOK, Unused
    <3> QED
      BY <3>1, <3>2
  <2>3. CASE ~(x = i /\ k = sp) /\ k <= Len(fs.inode[x].slot)
    <3> DEFINE s == fs.inode[x].slot[k]
    <3>1. t = s /\ k \in 1 .. Len(fs.inode[x].slot)
      <4>1. t = s
        BY <1>3, <2>3 DEF SlotsAdded
      <4>2. Len(fs.inode[x].slot) \in Nat /\ Len(r.inode[x].slot) \in Nat
        BY <1>2, <1>3, FsParts, LenProperties DEF InodeType
      <4> QED
        BY <2>3, <4>1, <4>2
    <3>2. SlotOK(fs, g, x, s) /\ s \in SlotType
      BY <1>2, <3>1, FsParts, ElementOfSeq DEF SlotsOK
    <3>3. s.inum \in Inum
      BY <3>2 DEF SlotType, Inum
    <3>4. r.inode[e.inum].refs = 1 => s.inum # e.inum
      BY <3>1 DEF CanAdd
    <3>5. s.inum # e.inum => r.inode[s.inum].refs = fs.inode[s.inum].refs
      BY <1>3, <3>3
    <3> HIDE DEF s
    <3>6. SlotOK(r, g, x, s)
      <4>1. CASE s.inum = e.inum
        BY <1>4, <3>2, <3>4, <4>1 DEF SlotOK
      <4>2. CASE s.inum # e.inum
        BY <3>2, <3>5, <4>2 DEF SlotOK
      <4> QED
        BY <4>1, <4>2
    <3> QED
      BY <3>1, <3>6
  <2>4. x # i => k <= Len(fs.inode[x].slot)
    <3>1. x # i => r.inode[x].slot = fs.inode[x].slot
      BY <1>3
    <3>2. Len(r.inode[x].slot) \in Nat
      BY <1>3, LenProperties DEF InodeType
    <3> QED
      BY <3>1, <3>2
  <2> QED
    BY <2>1, <2>2, <2>3, <2>4
<1>7. RefsCover(r)
  <2> SUFFICES ASSUME NEW x \in 1 .. LastInode
               PROVE  Cardinality(Naming(r, x)) <= r.inode[x].refs
    BY DEF RefsCover
  <2>1. x \in Inum
    BY <1>1 DEF Inum
  <2>2. Cardinality(Naming(fs, x)) <= fs.inode[x].refs
    BY <1>2 DEF RefsCover
  <2>3. CASE x = e.inum
    <3>1. Naming(r, x) \subseteq Naming(fs, x) \cup {<<i, sp>>}
      BY <2>1, <2>3, AddNaming
    <3>2. /\ IsFiniteSet(Naming(fs, x) \cup {<<i, sp>>})
          /\ Cardinality(Naming(fs, x) \cup {<<i, sp>>}) <= Cardinality(Naming(fs, x)) + 1
      BY NamingFinite, FS_AddElement
    <3>3. Cardinality(Naming(r, x)) <= Cardinality(Naming(fs, x) \cup {<<i, sp>>})
      BY <3>1, <3>2, FS_Subset
    <3>4. Cardinality(Naming(fs, x)) + 1 <= r.inode[x].refs
      BY <2>3 DEF CanAdd
    <3>5. r.inode[x].refs \in Nat
      BY <1>3, <2>1, ConstantTypes DEF InodeType
    <3>6. Cardinality(Naming(fs, x) \cup {<<i, sp>>}) \in Nat
      BY <3>2, FS_CardinalityType
    <3> QED
      BY <3>2, <3>3, <3>4, <3>5, <3>6, NamingFinite
  <2>4. CASE x # e.inum
    <3>1. Cardinality(Naming(r, x)) <= Cardinality(Naming(fs, x))
      BY <2>1, <2>4, AddNaming, NamingSubset
    <3>2. r.inode[x].refs = fs.inode[x].refs /\ fs.inode[x].refs \in Nat
      BY <1>2, <1>3, <2>1, <2>4, FsParts, ConstantTypes DEF InodeType
    <3> QED
      BY <2>2, <3>1, <3>2, NamingFinite
  <2> QED
    BY <2>3, <2>4
<1> QED
  BY <1>5, <1>6, <1>7

\* What directory_add_entry does to the inodes: directory i gets entry e at sp.
EntryPut(fs, r, i, sp, e) ==
  /\ r \in FsType
  /\ \A x \in Inum : x # i => r.inode[x] = fs.inode[x]
  /\ r.inode[i].kind = fs.inode[i].kind /\ r.inode[i].refs = fs.inode[i].refs
  /\ SlotsAdded(fs.inode[i].slot, r.inode[i].slot, sp, e)
  /\ CountsMore(fs.inode[i], r.inode[i])

NewEntry(p, target) == [name |-> Last(p), inum |-> target, active |-> TRUE]

LEMMA EntryAdded ==
  ASSUME NEW fs \in FsType, NEW g, g \in Inum, InodesOK(fs, g), TreesOK(fs, g),
         NEW p \in Seq(Name), p # <<>>, NEW target \in 1 .. g, NEW kind \in {"dir", "file"},
         NEW stale \in StaleCount,
         Spot(fs.inode[item_search(fs, Front(p)).inum]) <= 2 * PerBlock
  PROVE  LET r == directory_add_entry(fs, p, target, kind, stale)
             d == item_search(fs, Front(p))
         IN /\ EntryPut(fs, r, d.inum, Spot(fs.inode[d.inum]), NewEntry(p, target))
            /\ TreesIndexed(fs.tree, r.tree, d.tree, Last(p), target, kind)
            /\ TreesOK(r, g)
<1> DEFINE d == item_search(fs, Front(p))
           r == directory_add_entry(fs, p, target, kind, stale)
           dir == fs.inode[d.inum]
           e == NewEntry(p, target)
<1>1. At(fs, g, d) /\ Last(p) \in Name
  BY FrontFacts, SearchType
<1>2. d.inum \in Inum /\ d.tree \in 0 .. Len(fs.tree) /\ target \in Inum
  <2>1. g \in Nat /\ g <= LastInode /\ LastInode \in Nat
    BY ConstantTypes DEF Inum
  <2> QED
    BY <1>1, <2>1 DEF At, Inum
<1>3. dir \in InodeType /\ Len(dir.slot) \in {0, PerBlock, 2 * PerBlock} /\ Spot(dir) <= 2 * PerBlock
  BY <1>2, FsParts DEF InodesOK
<1>4. e \in SlotType /\ stale \in Nat
  BY <1>1, <1>2, DirectoryConstants DEF NewEntry, SlotType, Inum
<1>5. r = [inode |-> [fs.inode EXCEPT ![d.inum] = AddedDir(dir, e, stale)],
           tree |-> Indexed(fs.tree, d, Last(p), target, kind)]
  BY DEF directory_add_entry, parent_path, get_name, AddedDir, NewEntry
<1> HIDE DEF r, d, dir, e
<1>6. TreesIndexed(fs.tree, r.tree, d.tree, Last(p), target, kind)
  BY <1>1, <1>2, <1>5, FsParts, IndexedFacts
<1>7. /\ AddedDir(dir, e, stale) \in InodeType /\ AddedDir(dir, e, stale).kind = dir.kind
      /\ AddedDir(dir, e, stale).refs = dir.refs
      /\ SlotsAdded(dir.slot, AddedDir(dir, e, stale).slot, Spot(dir), e)
      /\ CountsMore(dir, AddedDir(dir, e, stale))
  BY <1>3, <1>4, AddedFacts
<1>8. /\ r.inode \in [Inum -> InodeType] /\ r.inode[d.inum] = AddedDir(dir, e, stale)
      /\ \A x \in Inum : x # d.inum => r.inode[x] = fs.inode[x]
      /\ r = [inode |-> r.inode, tree |-> r.tree]
  BY <1>2, <1>5, <1>7, FsParts
<1>9. r \in FsType
  BY <1>6, <1>8 DEF FsType, TreesIndexed
<1>10. EntryPut(fs, r, d.inum, Spot(dir), e)
  BY <1>7, <1>8, <1>9 DEF EntryPut, dir
<1>11. TreesOK(r, g)
  <2>1. CanIndex(fs, r, g, d.tree, Last(p), target, kind)
    BY <1>1, <1>6 DEF CanIndex
  <2> QED
    BY <2>1, IndexedTreesOK
<1> QED
  BY <1>6, <1>10, <1>11 DEF r, d, dir, e

LEMMA SameWalks ==
  ASSUME NEW fs, NEW r, \A w : \A n \in Name : Descend(fs, w, n) = Descend(r, w, n)
  PROVE  \A p \in Seq(Name) : Walked(fs, p) = Walked(r, p)
<1> DEFINE Bad == {k \in Nat : \E p \in Seq(Name) : Len(p) = k /\ Walked(fs, p) # Walked(r, p)}
<1>1. Bad = {}
  <2> SUFFICES ASSUME Bad # {} PROVE FALSE
    OBVIOUS
  <2>1. PICK k \in Bad : \A m \in Bad : k <= m
    BY LeastNumber
  <2>2. PICK p \in Seq(Name) : Len(p) = k /\ Walked(fs, p) # Walked(r, p)
    BY <2>1
  <2>3. p # <<>>
    BY <2>2, WalkedRoot
  <2>4. /\ Front(p) \in Seq(Name) /\ Len(Front(p)) = k - 1
        /\ Last(p) \in Name /\ k \in Nat /\ k >= 1
    BY <2>2, <2>3, FrontFacts
  <2>5. k - 1 \in Nat /\ ~(k <= k - 1)
    BY <2>4
  <2>6. k - 1 \notin Bad
    BY <2>1, <2>5
  <2>7. Walked(fs, Front(p)) = Walked(r, Front(p))
    BY <2>4, <2>5, <2>6
  <2>8. Onward(fs, Walked(fs, Front(p)), p, Len(p)) = Onward(r, Walked(r, Front(p)), p, Len(p))
    BY <2>4, <2>7 DEF Onward, Last
  <2>9. Walked(fs, p) = Walked(r, p)
    BY <2>3, <2>8, WalkedStep
  <2> QED
    BY <2>2, <2>9
<1> QED
  BY <1>1, LenProperties

LEMMA SameTreeSameSearch ==
  ASSUME NEW fs, NEW r, r.tree = fs.tree, NEW p \in Seq(Name)
  PROVE  item_search(r, p) = item_search(fs, p)
<1>1. \A w : \A n \in Name : Descend(fs, w, n) = Descend(r, w, n)
  BY DEF Descend
<1> QED
  BY <1>1, SameWalks, SearchIs

\* A name leads from a place to an inode other than the root's.
LEMMA DescendNotRoot ==
  ASSUME NEW fs, NEW g, g \in Inum, fs \in FsType, TreesOK(fs, g),
         NEW w, At(fs, g, w), NEW n \in Name, Descend(fs, w, n) # NotFound
  PROVE  Descend(fs, w, n).inum \in 1 .. g
<1> DEFINE leaves == IF w.tree = 0 THEN <<>> ELSE fs.tree[w.tree].leaf[n]
<1>3. leaves # <<>>
  BY Zenon DEF Descend
<1>4. w.tree \in 1 .. Len(fs.tree) /\ leaves = fs.tree[w.tree].leaf[n]
  <2>1. Len(fs.tree) \in Nat
    BY FsParts
  <2> QED
    BY <1>3, <2>1 DEF At
<1>5. leaves \in Seq(LeafType)
  BY <1>4, FsParts DEF TreeType
<1>6. Head(leaves) = leaves[1] /\ 1 \in 1 .. Len(leaves)
  BY <1>3, <1>5, EmptySeq
<1>7. LeafOK(fs, Head(leaves), g) /\ Head(leaves) \in LeafType
  BY <1>4, <1>5, <1>6, ElementOfSeq DEF TreesOK
<1>8. CASE Head(leaves).kind = "dir"
  <2>1. Descend(fs, w, n).inum = fs.tree[Head(leaves).val].inum
    <3> DEFINE v == Head(leaves).val
    <3>1. Descend(fs, w, n) = [inum |-> fs.tree[v].inum, tree |-> v]
      BY <1>3, <1>8 DEF Descend
    <3> HIDE DEF v
    <3>2. Descend(fs, w, n).inum = fs.tree[v].inum
      <4> DEFINE i == fs.tree[v].inum
      <4>1. Descend(fs, w, n) = [inum |-> i, tree |-> v]
        BY <3>1
      <4> HIDE DEF i
      <4>2. Descend(fs, w, n).inum = i
        BY <4>1
      <4> QED
        BY <4>2 DEF i
    <3> QED
      BY <3>2 DEF v
  <2> QED
    BY <1>7, <1>8, <2>1, Zenon DEF LeafOK, TreesOK
<1>9. CASE Head(leaves).kind # "dir"
  <2>1. Descend(fs, w, n).inum = Head(leaves).val
    <3>1. Descend(fs, w, n) = [inum |-> Head(leaves).val, tree |-> 0]
      BY <1>3, <1>9 DEF Descend
    <3> QED
      BY <3>1
  <2> QED
    BY <1>7, <1>9, <2>1 DEF LeafOK, LeafType
<1> QED
  BY <1>8, <1>9

\* A name that is found leads to an inode other than the root's.
LEMMA FoundNotRoot ==
  ASSUME NEW fs, NEW g, g \in Inum, fs \in FsType, TreesOK(fs, g),
         NEW p \in Seq(Name), p # <<>>, item_search(fs, p) # NotFound
  PROVE  item_search(fs, p).inum \in 1 .. g
<1> DEFINE Good(q) == q # <<>> /\ Walked(fs, q) # NotFound => Walked(fs, q).inum \in 1 .. g
           Bad == {k \in Nat : \E q \in Seq(Name) : Len(q) = k /\ ~Good(q)}
<1>1. Bad = {}
  <2> SUFFICES ASSUME Bad # {} PROVE FALSE
    OBVIOUS
  <2>1. PICK k \in Bad : \A m \in Bad : k <= m
    BY LeastNumber
  <2>2. PICK q \in Seq(Name) : Len(q) = k /\ ~Good(q)
    BY <2>1
  <2> DEFINE w == Walked(fs, Front(q))
  <2>3. q # <<>> /\ Walked(fs, q) # NotFound /\ ~(Walked(fs, q).inum \in 1 .. g)
    BY <2>2
  <2>4. /\ Front(q) \in Seq(Name) /\ Len(Front(q)) = k - 1
        /\ Last(q) \in Name /\ k \in Nat /\ k >= 1
    BY <2>2, <2>3, FrontFacts
  <2>5. k - 1 \in Nat /\ ~(k <= k - 1)
    BY <2>4
  <2>6. k - 1 \notin Bad
    BY <2>1, <2>5
  <2>7. Good(Front(q))
    BY <2>4, <2>5, <2>6
  <2>8. At(fs, g, w)
    BY <2>4, WalkType
  <2>9. CASE Walked(fs, q) = Descend(fs, w, Last(q))
    <3> HIDE DEF w
    <3> QED
      BY <2>3, <2>4, <2>8, <2>9, DescendNotRoot
  <2>10. CASE OnFile(w) /\ Walked(fs, q) = w
    <3>1. Front(q) # <<>>
      BY <2>10, WalkedRoot DEF OnFile, RootAt
    <3> QED
      BY <2>3, <2>7, <2>10, <3>1
  <2> QED
    BY <2>3, <2>9, <2>10, WalkedEither
<1>2. \A q \in Seq(Name) : Good(q)
  <2> HIDE DEF Good
  <2> QED
    BY <1>1, LenProperties
<1>3. item_search(fs, p) = Walked(fs, p)
  BY SearchIs
<1> QED
  BY <1>2, <1>3

-----------------------------------------------------------------------------
(***************************************************************************)
(* The calls.                                                              *)
(***************************************************************************)
NewInode(k) == [Blank EXCEPT !.kind = k, !.refs = 1]

LEMMA NewInodeIs ==
  ASSUME NEW k \in {"dir", "file"}
  PROVE  NewInode(k) \in InodeType /\ NewInode(k).kind = k /\ NewInode(k).refs = 1
         /\ NewInode(k).slot = <<>>
<1>1. <<>> \in Seq(SlotType) /\ 1 \in 0 .. MaxRefs
  BY ConstantTypes, EmptySeq
<1>2. Blank \in InodeType /\ Blank.slot = <<>>
  BY <1>1, ConstantTypes DEF Blank, InodeType
<1> QED
  BY <1>1, <1>2 DEF NewInode, InodeType

\* What inode_allocate leaves: the next number is in use and nothing names it.
IsAllocated(fs, a, g, k) ==
  /\ a \in FsType /\ a.tree = fs.tree
  /\ \A x \in Inum : a.inode[x] = IF x = g + 1 THEN NewInode(k) ELSE fs.inode[x]

LEMMA AllocatedIs ==
  ASSUME BaseInv, given < LastInode, NEW k \in {"dir", "file"}
  PROVE  IsAllocated(Fs, Allocated(k), given, k)
<1>1. Fs \in FsType /\ given \in Nat /\ given + 1 \in Inum
  BY ConstantTypes DEF BaseInv, Base, Inum
<1>2. Fs.inode \in [Inum -> InodeType] /\ Fs.tree \in Seq(TreeType) /\ Fs = [inode |-> inode, tree |-> tree]
      /\ Fs.inode = inode /\ Fs.tree = tree
  BY <1>1, FsParts DEF Fs
<1>3. Allocated(k) = [Fs EXCEPT !.inode = [Fs.inode EXCEPT ![given + 1] = NewInode(k)]]
  BY DEF Allocated, NewInode
<1> DEFINE i == [inode EXCEPT ![given + 1] = NewInode(k)]
<1>4. i \in [Inum -> InodeType]
      /\ \A x \in Inum : i[x] = IF x = given + 1 THEN NewInode(k) ELSE inode[x]
  BY <1>1, <1>2, NewInodeIs
<1> HIDE DEF i
<1>5. Allocated(k) = [Fs EXCEPT !.inode = i]
  BY <1>2, <1>3 DEF i
<1>6. Allocated(k) \in FsType /\ Allocated(k).inode = i /\ Allocated(k).tree = tree
  BY <1>1, <1>2, <1>4, <1>5 DEF FsType
<1> QED
  BY <1>2, <1>4, <1>6 DEF IsAllocated

LEMMA AllocatedBase ==
  ASSUME NEW fs, NEW a, NEW g, NEW k \in {"dir", "file"},
         Base(fs, g), g \in Inum, g < LastInode, IsAllocated(fs, a, g, k)
  PROVE  /\ Base(a, g + 1) /\ g + 1 \in Inum
         /\ Naming(a, g + 1) = {}
         /\ \A x \in Inum : \A j \in 1 .. Len(a.inode[x].slot) : a.inode[x].slot[j].inum # g + 1
<1>1. g \in Nat /\ LastInode \in Nat /\ g + 1 \in Inum /\ g + 1 # 0
  BY ConstantTypes DEF Inum
<1>2. /\ fs \in FsType /\ InodesOK(fs, g) /\ TreesOK(fs, g) /\ SlotsOK(fs, g) /\ RefsCover(fs)
      /\ a \in FsType /\ a.tree = fs.tree
      /\ \A x \in Inum : a.inode[x] = IF x = g + 1 THEN NewInode(k) ELSE fs.inode[x]
  BY DEF Base, IsAllocated
<1>3. /\ NewInode(k).kind = k /\ NewInode(k).refs = 1 /\ NewInode(k).slot = <<>>
      /\ Len(NewInode(k).slot) = 0
  BY NewInodeIs, EmptySeq
<1>4. fs.inode[g + 1] = Blank
  BY <1>1, <1>2 DEF InodesOK
<1>5. \A x \in Inum : a.inode[x].slot = fs.inode[x].slot
  BY <1>2, <1>3, <1>4 DEF Blank
<1>6. InodesOK(a, g + 1)
  <2>1. ASSUME NEW x \in Inum
        PROVE  /\ a.inode[x].kind = "none" <=> a.inode[x].refs = 0
               /\ a.inode[x].kind # "dir" => a.inode[x].slot = <<>>
               /\ Len(a.inode[x].slot) \in {0, PerBlock, 2 * PerBlock}
               /\ x > g + 1 => a.inode[x] = Blank
    <3>1. CASE x = g + 1
      <4>1. a.inode[x] = NewInode(k) /\ ~(x > g + 1)
        BY <1>1, <1>2, <3>1
      <4> QED
        BY <1>3, <4>1
    <3>2. CASE x # g + 1
      <4>1. a.inode[x] = fs.inode[x] /\ (x > g + 1 => x > g)
        BY <1>1, <1>2, <3>2, ConstantTypes
      <4>2. /\ fs.inode[x].kind = "none" <=> fs.inode[x].refs = 0
            /\ fs.inode[x].kind # "dir" => fs.inode[x].slot = <<>>
            /\ Len(fs.inode[x].slot) \in {0, PerBlock, 2 * PerBlock}
            /\ x > g => fs.inode[x] = Blank
        BY <1>2 DEF InodesOK
      <4> QED
        BY <4>1, <4>2
    <3> QED
      BY <3>1, <3>2
  <2>2. a.inode[0].kind = "dir"
    BY <1>1, <1>2, ConstantTypes DEF InodesOK
  <2> QED
    BY <2>1, <2>2 DEF InodesOK
<1>7. TreesOK(a, g + 1)
  <2>1. ASSUME NEW t \in 1 .. Len(a.tree), NEW n \in Name, NEW j \in 1 .. Len(a.tree[t].leaf[n])
        PROVE  LeafOK(a, a.tree[t].leaf[n][j], g + 1)
    <3>1. LeafOK(fs, a.tree[t].leaf[n][j], g)
      BY <1>2 DEF TreesOK
    <3> QED
      BY <1>1, <1>2, <3>1 DEF LeafOK
  <2>2. \A t \in 2 .. Len(a.tree) : a.tree[t].inum \in 1 .. g + 1
    BY <1>1, <1>2 DEF TreesOK
  <2> QED
    BY <1>2, <2>1, <2>2 DEF TreesOK
<1>8. \A x \in Inum : \A j \in 1 .. Len(a.inode[x].slot) :
        /\ SlotOK(fs, g, x, a.inode[x].slot[j]) /\ a.inode[x].slot[j] \in SlotType
        /\ a.inode[x].slot[j].inum \in Nat /\ a.inode[x].slot[j].inum \in Inum
  <2> SUFFICES ASSUME NEW x \in Inum, NEW j \in 1 .. Len(a.inode[x].slot)
               PROVE  /\ SlotOK(fs, g, x, a.inode[x].slot[j]) /\ a.inode[x].slot[j] \in SlotType
                      /\ a.inode[x].slot[j].inum \in Nat /\ a.inode[x].slot[j].inum \in Inum
    OBVIOUS
  <2>1. SlotOK(fs, g, x, a.inode[x].slot[j])
    BY <1>2, <1>5 DEF SlotsOK
  <2>2. a.inode[x].slot[j] \in SlotType
    BY <1>2, FsParts, ElementOfSeq
  <2>3. a.inode[x].slot[j].inum \in Inum
    BY <2>2 DEF SlotType, Inum
  <2> QED
    BY <2>1, <2>2, <2>3, ConstantTypes
<1>9. \A x \in Inum : \A j \in 1 .. Len(a.inode[x].slot) : a.inode[x].slot[j].inum # g + 1
  <2> SUFFICES ASSUME NEW x \in Inum, NEW j \in 1 .. Len(a.inode[x].slot)
               PROVE  a.inode[x].slot[j].inum # g + 1
    OBVIOUS
  <2>1. a.inode[x].slot[j].inum <= g /\ a.inode[x].slot[j].inum \in Nat
    BY <1>8 DEF SlotOK
  <2> QED
    BY <1>1, <2>1
<1>10. SlotsOK(a, g + 1)
  <2> SUFFICES ASSUME NEW x \in Inum, NEW j \in 1 .. Len(a.inode[x].slot)
               PROVE  SlotOK(a, g + 1, x, a.inode[x].slot[j])
    BY DEF SlotsOK
  <2> DEFINE s == a.inode[x].slot[j]
  <2>1. SlotOK(fs, g, x, s) /\ s.inum \in Nat /\ s.inum \in Inum /\ s.inum # g + 1
    BY <1>8, <1>9
  <2>2. a.inode[s.inum] = fs.inode[s.inum]
    BY <1>2, <2>1
  <2> HIDE DEF s
  <2>3. SlotOK(a, g + 1, x, s)
    BY <1>1, <2>1, <2>2 DEF SlotOK
  <2> QED
    BY <2>3 DEF s
<1>11. \A x : Naming(a, x) = Naming(fs, x)
  BY <1>5 DEF Naming, Entries
<1>12. Naming(a, g + 1) = {}
  <2> SUFFICES ASSUME NEW y \in Naming(a, g + 1) PROVE FALSE
    OBVIOUS
  <2>1. y[1] \in Inum /\ y[2] \in 1 .. 2 * PerBlock /\ y[2] <= Len(a.inode[y[1]].slot)
        /\ a.inode[y[1]].slot[y[2]].inum = g + 1
    BY DEF Naming, Entries
  <2>2. y[2] \in 1 .. Len(a.inode[y[1]].slot)
    BY <1>2, <2>1, ConstantTypes, FsParts
  <2> QED
    BY <1>9, <2>1, <2>2
<1>13. RefsCover(a)
  <2> SUFFICES ASSUME NEW x \in 1 .. LastInode
               PROVE  Cardinality(Naming(a, x)) <= a.inode[x].refs
    BY DEF RefsCover
  <2>1. x \in Inum
    BY <1>1 DEF Inum
  <2>2. CASE x = g + 1
    <3>1. a.inode[x].refs = 1 /\ Naming(a, x) = {}
      BY <1>2, <1>3, <1>12, <2>1, <2>2
    <3> QED
      BY <3>1, FS_EmptySet
  <2>3. CASE x # g + 1
    BY <1>2, <1>11, <2>1, <2>3 DEF RefsCover
  <2> QED
    BY <2>2, <2>3
<1> QED
  BY <1>1, <1>2, <1>6, <1>7, <1>9, <1>10, <1>12, <1>13 DEF Base

LEMMA FsIs == Fs.inode = inode /\ Fs.tree = tree
BY DEF Fs

LEMMA PathIs ==
  ASSUME NEW p \in Path
  PROVE  p \in Seq(Name) /\ p # <<>> /\ Front(p) \in Seq(Name) /\ parent_path(p) = Front(p)
         /\ Last(p) \in Name
BY DirectoryConstants, FrontFacts DEF parent_path

\* The place of a directory that is found.
LEMMA DirIs ==
  ASSUME BaseInv, NEW p \in Seq(Name), IsDir(p)
  PROVE  /\ At(Fs, given, item_search(Fs, p)) /\ item_search(Fs, p).inum \in 0 .. given
         /\ Fs.inode[item_search(Fs, p).inum].kind = "dir"
<1>1. At(Fs, given, item_search(Fs, p))
  BY SearchType DEF BaseInv, Base
<1> QED
  BY <1>1, FsIs DEF At, IsDir, Mode

\* From fs a call comes to r by adding entry e to the directory at d.
Adds(fs, g, r, d, e, kind) ==
  /\ CanAdd(fs, g, r, d.inum, Spot(fs.inode[d.inum]), e) /\ r \in FsType /\ TreesOK(r, g)
  /\ TreesIndexed(fs.tree, r.tree, d.tree, e.name, e.inum, kind)

LEMMA AddsBase ==
  ASSUME NEW fs, NEW g, NEW r, NEW d, NEW e, NEW kind, Adds(fs, g, r, d, e, kind)
  PROVE  Base(r, g)
BY AddInodes DEF Adds, Base

\* mknod, create and mkdir: the number, then the entry.
LEMMA MadeAdds ==
  ASSUME BaseInv, NEW p \in Path, NEW k \in {"dir", "file"}, NEW stale \in StaleCount,
         MayMake(p), HasRoom(p)
  PROVE  LET r == directory_add_entry(Allocated(k), p, given + 1, k, stale)
         IN /\ Adds(Allocated(k), given + 1, r, item_search(Allocated(k), Front(p)),
                    NewEntry(p, given + 1), k)
            /\ r.inode[given + 1].refs = 1
<1> DEFINE a == Allocated(k)
           g == given + 1
           d == item_search(a, Front(p))
           sp == Spot(a.inode[d.inum])
           e == NewEntry(p, g)
           r == directory_add_entry(a, p, g, k, stale)
<1>1. /\ IsAllocated(Fs, a, given, k) /\ Base(Fs, given) /\ given \in Inum /\ given < LastInode
      /\ given \in Nat
  BY AllocatedIs, ConstantTypes DEF BaseInv, MayMake
<1>2. p \in Seq(Name) /\ p # <<>> /\ Front(p) \in Seq(Name) /\ Last(p) \in Name /\ IsDir(Front(p))
  BY PathIs DEF MayMake
<1>3. /\ Base(a, g) /\ g \in Inum /\ Naming(a, g) = {}
      /\ \A x \in Inum : \A j \in 1 .. Len(a.inode[x].slot) : a.inode[x].slot[j].inum # g
  BY <1>1, AllocatedBase
<1>4. d = item_search(Fs, Front(p))
  BY <1>1, <1>2, SameTreeSameSearch DEF IsAllocated
<1> HIDE DEF a
<1>5. /\ d.inum \in 0 .. given /\ d.inum \in Inum /\ d.inum # g
      /\ a.inode[d.inum] = Fs.inode[d.inum] /\ a.inode[d.inum].kind = "dir"
  <2>1. d.inum \in 0 .. given /\ Fs.inode[d.inum].kind = "dir"
    BY <1>2, <1>4, DirIs
  <2>2. d.inum \in Inum /\ d.inum # g
    BY <1>1, <2>1, ConstantTypes DEF Inum
  <2>3. a.inode[d.inum] = Fs.inode[d.inum]
    BY <1>1, <2>2 DEF IsAllocated
  <2> QED
    BY <2>1, <2>2, <2>3
<1>6. sp <= 2 * PerBlock
  BY <1>4, <1>5, FsIs, PathIs DEF HasRoom
<1>7. /\ EntryPut(a, r, d.inum, sp, e) /\ TreesOK(r, g)
      /\ TreesIndexed(a.tree, r.tree, d.tree, Last(p), g, k)
  <2>1. g \in 1 .. g /\ a \in FsType /\ InodesOK(a, g) /\ TreesOK(a, g)
    BY <1>1, <1>3 DEF Base
  <2> QED
    BY <1>2, <1>3, <1>6, <2>1, EntryAdded
<1>8. /\ e \in SlotType /\ e.active /\ e.name \in Name /\ e.inum = g /\ e.inum \in 1 .. g
      /\ e.name = Last(p)
  BY <1>1, <1>2, <1>3 DEF NewEntry, SlotType, Inum
<1>9. a.inode[g].kind = k /\ a.inode[g].refs = 1
  BY <1>1, <1>3, NewInodeIs DEF IsAllocated
<1> HIDE DEF r, d, e, sp
<1>10. AddEffect(a, r, d.inum, sp, e)
  <2>1. /\ r.inode \in [Inum -> InodeType]
        /\ \A x \in Inum : x # d.inum => r.inode[x] = a.inode[x]
        /\ r.inode[d.inum].kind = a.inode[d.inum].kind /\ r.inode[d.inum].refs = a.inode[d.inum].refs
        /\ SlotsAdded(a.inode[d.inum].slot, r.inode[d.inum].slot, sp, e)
        /\ CountsMore(a.inode[d.inum], r.inode[d.inum])
    BY <1>7, FsParts DEF EntryPut
  <2> QED
    BY <2>1 DEF AddEffect
<1>11. r.inode[g] = a.inode[g]
  BY <1>3, <1>5, <1>7 DEF EntryPut
<1>12. CanAdd(a, g, r, d.inum, sp, e)
  <2>1. d.inum \in 0 .. g
    BY <1>1, <1>5
  <2>2. Cardinality(Naming(a, e.inum)) + 1 <= r.inode[e.inum].refs /\ r.inode[e.inum].refs >= 1
    <3>1. Naming(a, e.inum) = {} /\ r.inode[e.inum].refs = 1
      BY <1>3, <1>8, <1>9, <1>11
    <3> QED
      BY <3>1, FS_EmptySet
  <2>3. e.inum # d.inum /\ a.inode[e.inum].kind # "none"
    BY <1>5, <1>8, <1>9
  <2> QED
    BY <1>3, <1>5, <1>8, <1>10, <2>1, <2>2, <2>3 DEF CanAdd, Base
<1>13. r \in FsType
  BY <1>7 DEF EntryPut
<1>14. Adds(a, g, r, d, e, k) /\ r.inode[g].refs = 1
  BY <1>7, <1>8, <1>9, <1>11, <1>12, <1>13 DEF Adds, sp
<1> QED
  BY <1>14 DEF r, a, d, e

LEMMA MadeBase ==
  ASSUME BaseInv, NEW p \in Path, NEW k \in {"dir", "file"}, NEW stale \in StaleCount,
         MayMake(p), HasRoom(p)
  PROVE  Base(directory_add_entry(Allocated(k), p, given + 1, k, stale), given + 1)
BY MadeAdds, AddsBase

\* The reference of a link comes after its entry.
RefMore(rr, r, i) ==
  /\ r \in FsType /\ r.tree = rr.tree
  /\ \A x \in Inum : x # i => r.inode[x] = rr.inode[x]
  /\ r.inode[i].kind = rr.inode[i].kind /\ r.inode[i].slot = rr.inode[i].slot
  /\ r.inode[i].count = rr.inode[i].count
  /\ r.inode[i].refs = rr.inode[i].refs + 1

LEMMA LinkedIs ==
  ASSUME NEW from, NEW to, NEW stale, NEW i, i = item_search(Fs, from).inum, i \in Inum,
         LET rr == directory_add_entry(Fs, to, i, inode[i].kind, stale)
         IN rr \in FsType /\ rr.inode[i].refs < MaxRefs
  PROVE  RefMore(directory_add_entry(Fs, to, i, inode[i].kind, stale), Linked(from, to, stale), i)
<1> DEFINE rr == directory_add_entry(Fs, to, i, inode[i].kind, stale)
           n == [rr.inode[i] EXCEPT !.refs = @ + 1]
           m == [rr.inode EXCEPT ![i] = n]
           r == Linked(from, to, stale)
<1>1. r = [rr EXCEPT !.inode[i].refs = @ + 1]
  BY DEF Linked
<1>0. rr \in FsType /\ rr.inode[i].refs < MaxRefs
  OBVIOUS
<1> HIDE DEF rr
<1>2. r = [rr EXCEPT !.inode = m]
  BY <1>1
<1>3. rr.inode[i] \in InodeType /\ rr.inode[i].refs \in Nat /\ rr.inode[i].refs + 1 \in 0 .. MaxRefs
  <2>1. rr.inode[i] \in InodeType
    BY <1>0, FsParts
  <2> QED
    BY <1>0, <2>1, ConstantTypes DEF InodeType
<1>4. n \in InodeType /\ n.kind = rr.inode[i].kind /\ n.slot = rr.inode[i].slot
      /\ n.refs = rr.inode[i].refs + 1 /\ n.count = rr.inode[i].count
  BY <1>3 DEF InodeType
<1> HIDE DEF n, r
<1>5. m \in [Inum -> InodeType] /\ \A x \in Inum : m[x] = IF x = i THEN n ELSE rr.inode[x]
  BY <1>0, <1>4, FsParts
<1> HIDE DEF m
<1>6. r \in FsType /\ r.inode = m /\ r.tree = rr.tree
  BY <1>0, <1>2, <1>5 DEF FsType
<1> QED
  BY <1>4, <1>5, <1>6 DEF RefMore, r, rr

LEMMA LinkedAdds ==
  ASSUME BaseInv, NEW from \in Path, NEW to \in Path, NEW stale \in StaleCount,
         IsFile(from) \/ IsDir(from), IsDir(parent_path(to)), HasRoom(to),
         inode[item_search(Fs, from).inum].refs < MaxRefs
  PROVE  LET i == item_search(Fs, from).inum
         IN /\ Adds(Fs, given, Linked(from, to, stale), item_search(Fs, Front(to)),
                    NewEntry(to, i), inode[i].kind)
            /\ Linked(from, to, stale).inode[i].refs # 1
<1> DEFINE i == item_search(Fs, from).inum
           kind == inode[i].kind
           d == item_search(Fs, Front(to))
           sp == Spot(Fs.inode[d.inum])
           e == NewEntry(to, i)
           rr == directory_add_entry(Fs, to, i, kind, stale)
           r == Linked(from, to, stale)
<1>1. Base(Fs, given) /\ given \in Inum /\ given \in Nat /\ given <= LastInode
      /\ Fs \in FsType /\ InodesOK(Fs, given) /\ TreesOK(Fs, given) /\ LastInode \in Nat
  BY ConstantTypes DEF BaseInv, Base, Inum
<1>2. to \in Seq(Name) /\ to # <<>> /\ Front(to) \in Seq(Name) /\ Last(to) \in Name
      /\ from \in Seq(Name) /\ from # <<>> /\ IsDir(Front(to))
  BY PathIs
<1>3. i \in 1 .. given /\ kind \in {"dir", "file"}
  <2>1. item_search(Fs, from) # NotFound /\ kind \in {"dir", "file"}
    BY DEF IsFile, IsDir, Found, Mode
  <2> QED
    BY <1>1, <1>2, <2>1, FoundNotRoot
<1>4. i \in Inum
  BY <1>1, <1>3 DEF Inum
<1>5. d.inum \in 0 .. given /\ Fs.inode[d.inum].kind = "dir" /\ d.inum \in Inum
  <2>1. d.inum \in 0 .. given /\ Fs.inode[d.inum].kind = "dir"
    BY <1>2, DirIs
  <2> QED
    BY <1>1, <2>1 DEF Inum
<1>6. sp <= 2 * PerBlock
  BY FsIs, PathIs DEF HasRoom
<1>7. /\ EntryPut(Fs, rr, d.inum, sp, e) /\ TreesOK(rr, given)
      /\ TreesIndexed(Fs.tree, rr.tree, d.tree, Last(to), i, kind)
  BY <1>1, <1>2, <1>3, <1>6, EntryAdded
<1>8. e \in SlotType /\ e.active /\ e.name \in Name /\ e.inum = i /\ e.name = Last(to)
  BY <1>2, <1>4 DEF NewEntry, SlotType, Inum
<1> HIDE DEF kind, d, e, sp
<1>9. /\ rr \in FsType
      /\ \A x \in Inum : x # d.inum => rr.inode[x] = Fs.inode[x]
      /\ rr.inode[d.inum].kind = Fs.inode[d.inum].kind
      /\ rr.inode[d.inum].refs = Fs.inode[d.inum].refs
      /\ SlotsAdded(Fs.inode[d.inum].slot, rr.inode[d.inum].slot, sp, e)
      /\ CountsMore(Fs.inode[d.inum], rr.inode[d.inum])
  BY <1>7 DEF EntryPut
<1>10. rr.inode[i].refs = Fs.inode[i].refs /\ rr.inode[i].refs < MaxRefs
  BY <1>4, <1>9, FsIs
<1>11. /\ r \in FsType /\ r.tree = rr.tree
       /\ \A x \in Inum : x # i => r.inode[x] = rr.inode[x]
       /\ r.inode[i].kind = rr.inode[i].kind /\ r.inode[i].slot = rr.inode[i].slot
       /\ r.inode[i].count = rr.inode[i].count
       /\ r.inode[i].refs = rr.inode[i].refs + 1
  <2>1. RefMore(rr, r, i)
    BY <1>4, <1>9, <1>10, LinkedIs, Zenon DEF kind
  <2> QED
    BY <2>1 DEF RefMore
<1> HIDE DEF rr, r, i
<1>12. AddEffect(Fs, r, d.inum, sp, e)
  <2>1. r.inode \in [Inum -> InodeType]
    BY <1>11, FsParts
  <2>2. ASSUME NEW x \in Inum
        PROVE  /\ r.inode[x].kind = Fs.inode[x].kind
               /\ x # d.inum /\ x # e.inum => r.inode[x] = Fs.inode[x]
               /\ x # e.inum => r.inode[x].refs = Fs.inode[x].refs
               /\ x # d.inum => /\ r.inode[x].slot = Fs.inode[x].slot
                                /\ r.inode[x].count = Fs.inode[x].count
    <3>1. CASE x = i
      BY <1>8, <1>9, <1>11, <3>1
    <3>2. CASE x # i
      BY <1>8, <1>9, <1>11, <3>2
    <3> QED
      BY <3>1, <3>2
  <2>3. /\ SlotsAdded(Fs.inode[d.inum].slot, r.inode[d.inum].slot, sp, e)
        /\ CountsMore(Fs.inode[d.inum], r.inode[d.inum])
    <3>1. /\ r.inode[d.inum].slot = rr.inode[d.inum].slot
          /\ r.inode[d.inum].count = rr.inode[d.inum].count
      BY <1>5, <1>11
    <3> QED
      BY <1>9, <3>1 DEF CountsMore
  <2> QED
    BY <2>1, <2>2, <2>3 DEF AddEffect
<1>13. CanAdd(Fs, given, r, d.inum, sp, e) /\ r.inode[i].refs # 1
  <2>1. Fs.inode[i].refs \in Nat /\ Fs.inode[i].refs # 0 /\ Fs.inode[i].kind # "none"
    <3>1. Fs.inode[i] \in InodeType
      BY <1>1, <1>4, FsParts
    <3>2. Fs.inode[i].kind = "none" <=> Fs.inode[i].refs = 0
      BY <1>1, <1>4 DEF InodesOK
    <3> QED
      BY <1>3, <3>1, <3>2, FsIs, ConstantTypes DEF InodeType, kind
  <2>2. r.inode[i].refs = Fs.inode[i].refs + 1
    BY <1>10, <1>11
  <2>3. Cardinality(Naming(Fs, i)) <= Fs.inode[i].refs
    BY <1>1, <1>3 DEF Base, RefsCover
  <2>4. r.inode[i].refs >= 1 /\ r.inode[i].refs # 1
        /\ Cardinality(Naming(Fs, i)) + 1 <= r.inode[i].refs
    BY <2>1, <2>2, <2>3, NamingFinite
  <2>5. /\ SlotsOK(Fs, given) /\ RefsCover(Fs)
    BY <1>1 DEF Base
  <2> QED
    BY <1>1, <1>3, <1>5, <1>8, <1>12, <2>1, <2>4, <2>5 DEF CanAdd
<1>14. TreesOK(r, given)
  BY <1>7, <1>11 DEF TreesOK, LeafOK
<1>15. Adds(Fs, given, r, d, e, kind)
  BY <1>7, <1>8, <1>11, <1>13, <1>14 DEF Adds, sp
<1> QED
  BY <1>13, <1>15 DEF r, i, d, e, kind

LEMMA LinkedBase ==
  ASSUME BaseInv, NEW from \in Path, NEW to \in Path, NEW stale \in StaleCount,
         IsFile(from) \/ IsDir(from), IsDir(parent_path(to)), HasRoom(to),
         inode[item_search(Fs, from).inum].refs < MaxRefs
  PROVE  Base(Linked(from, to, stale), given)
BY LinkedAdds, AddsBase

LEMMA FsRecords ==
  /\ \A fs : fs \in FsType => fs = [inode |-> fs.inode, tree |-> fs.tree]
  /\ \A fs : SetFs(fs) /\ fs \in FsType => Fs' = fs
<1>1. \A fs : fs \in FsType => fs = [inode |-> fs.inode, tree |-> fs.tree]
  BY FsParts
<1> QED
  BY <1>1 DEF SetFs, Fs

LEMMA BaseInit == Init => BaseInv
<1> SUFFICES ASSUME Init PROVE BaseInv
  OBVIOUS
<1>1. Fs.inode = inode /\ Fs.tree = <<NewTree(0)>> /\ Len(Fs.tree) = 1 /\ Fs.tree[1] = NewTree(0)
      /\ Fs = [inode |-> inode, tree |-> <<NewTree(0)>>]
  BY DEF Init, Fs
<1>2. /\ inode \in [Inum -> InodeType]
      /\ \A x \in Inum : x # 0 => inode[x] = Blank
      /\ inode[0] = [Blank EXCEPT !.kind = "dir", !.refs = 1]
  <2>1. Blank \in InodeType
    BY ConstantTypes, EmptySeq DEF Blank, InodeType
  <2>2. NewInode("dir") \in InodeType
    BY NewInodeIs
  <2>3. inode = [i \in Inum |-> IF i = 0 THEN NewInode("dir") ELSE Blank]
    BY DEF Init, NewInode, Inum
  <2> QED
    BY <2>1, <2>2, <2>3, ConstantTypes DEF NewInode
<1>3. inode[0].kind = "dir" /\ inode[0].refs = 1 /\ inode[0].slot = <<>>
  BY <1>2, NewInodeIs DEF NewInode
<1>4. Blank.kind = "none" /\ Blank.refs = 0 /\ Blank.slot = <<>> /\ Len(<<>>) = 0
  BY EmptySeq DEF Blank
<1>5. Fs \in FsType
  <2>1. NewTree(0) \in TreeType
    BY ConstantTypes, EmptySeq DEF NewTree, TreeType
  <2>2. <<NewTree(0)>> \in Seq(TreeType)
    BY <2>1
  <2> QED
    BY <1>1, <1>2, <2>2 DEF FsType
<1>6. given = 0 /\ overlap \in BOOLEAN /\ did = {}
  BY DEF Init
<1>7. \A x \in Inum : inode[x].slot = <<>> /\ Len(inode[x].slot) = 0
  BY <1>2, <1>3, <1>4
<1>8. InodesOK(Fs, 0)
  <2>1. ASSUME NEW x \in Inum
        PROVE  /\ Fs.inode[x].kind = "none" <=> Fs.inode[x].refs = 0
               /\ Fs.inode[x].kind # "dir" => Fs.inode[x].slot = <<>>
               /\ Len(Fs.inode[x].slot) \in {0, PerBlock, 2 * PerBlock}
               /\ x > 0 => Fs.inode[x] = Blank
    <3>1. CASE x = 0
      BY <1>1, <1>3, <1>4, <3>1
    <3>2. CASE x # 0
      BY <1>1, <1>2, <1>4, <3>2
    <3> QED
      BY <3>1, <3>2
  <2> QED
    BY <1>1, <1>3, <2>1 DEF InodesOK
<1>9. TreesOK(Fs, 0)
  <2>1. \A n \in Name : NewTree(0).leaf[n] = <<>>
    BY DEF NewTree
  <2>2. NewTree(0).inum = 0
    BY DEF NewTree
  <2>3. \A t \in 1 .. 1 : t = 1
    OBVIOUS
  <2>4. ASSUME NEW t \in 1 .. Len(Fs.tree), NEW n \in Name, NEW k \in 1 .. Len(Fs.tree[t].leaf[n])
        PROVE  LeafOK(Fs, Fs.tree[t].leaf[n][k], 0)
    <3>1. Fs.tree[t].leaf[n] = <<>>
      BY <1>1, <2>1, <2>3
    <3> QED
      BY <3>1
  <2> QED
    BY <1>1, <2>2, <2>4 DEF TreesOK
<1>10. SlotsOK(Fs, 0)
  BY <1>1, <1>7 DEF SlotsOK
<1>11. RefsCover(Fs)
  <2> SUFFICES ASSUME NEW x \in 1 .. LastInode
               PROVE  Cardinality(Naming(Fs, x)) <= Fs.inode[x].refs
    BY DEF RefsCover
  <2>1. Naming(Fs, x) = {}
    <3> SUFFICES ASSUME NEW y \in Naming(Fs, x) PROVE FALSE
      OBVIOUS
    <3>1. y[1] \in Inum /\ y[2] \in 1 .. 2 * PerBlock /\ y[2] <= Len(Fs.inode[y[1]].slot)
      BY DEF Naming, Entries
    <3> QED
      <4>1. Len(Fs.inode[y[1]].slot) = 0
        BY <1>1, <1>7, <3>1
      <4>2. y[2] \in Nat /\ y[2] >= 1
        BY <3>1, ConstantTypes
      <4> QED
        BY <3>1, <4>1, <4>2
  <2>2. x \in Inum
    BY ConstantTypes DEF Inum
  <2>3. Fs.inode[x].refs \in Nat
    BY <1>1, <1>2, <2>2, ConstantTypes DEF InodeType
  <2> QED
    BY <2>1, <2>3, FS_EmptySet
<1> QED
  BY <1>5, <1>6, <1>8, <1>9, <1>10, <1>11, ConstantTypes DEF BaseInv, Base

\* A call leaves a well-formed file system: each is one removal, one addition,
\* or an addition and a removal.
LEMMA BaseStep == BaseInv /\ [Next]_vars => BaseInv'
<1> SUFFICES ASSUME BaseInv, [Next]_vars PROVE BaseInv'
  OBVIOUS
<1>0. Base(Fs, given) /\ given \in Inum /\ overlap \in BOOLEAN
      /\ did \subseteq {"link", "replace", "move"}
  BY DEF BaseInv
<1>1. ASSUME NEW p \in Path, NEW k \in {"dir", "file"}, mknod(p, k) PROVE BaseInv'
  <2>1. PICK stale \in StaleCount :
          SetFs(directory_add_entry(Allocated(k), p, given + 1, k, stale))
    BY <1>1 DEF mknod
  <2>2. Base(directory_add_entry(Allocated(k), p, given + 1, k, stale), given + 1)
    BY <1>1, MadeBase DEF mknod
  <2>3. Fs' = directory_add_entry(Allocated(k), p, given + 1, k, stale)
    BY <2>1, <2>2, FsRecords DEF Base
  <2>4. given' = given + 1 /\ given + 1 \in Inum /\ overlap' = overlap /\ did' = did
    <3>1. given < LastInode /\ LastInode \in Nat /\ given \in Nat
      BY <1>0, <1>1, ConstantTypes DEF mknod, MayMake, Inum
    <3> QED
      BY <1>1, <3>1 DEF mknod, Inum
  <2> QED
    BY <1>0, <2>2, <2>3, <2>4 DEF BaseInv
<1>2. ASSUME NEW p \in Path, NEW k \in {"dir", "file"}, mknodFails(p, k) PROVE BaseInv'
  <2>1. given < LastInode /\ SetFs(Allocated(k)) /\ given' = given + 1
        /\ overlap' = overlap /\ did' = did
    BY <1>2 DEF mknodFails, MayMake
  <2>2. IsAllocated(Fs, Allocated(k), given, k)
    BY <2>1, AllocatedIs
  <2>3. Base(Allocated(k), given + 1) /\ given + 1 \in Inum
    BY <1>0, <2>1, <2>2, AllocatedBase
  <2>4. Fs' = Allocated(k)
    BY <2>1, <2>3, FsRecords DEF Base
  <2> QED
    BY <1>0, <2>1, <2>3, <2>4 DEF BaseInv
<1>3. ASSUME NEW p \in Path, unlink(p) PROVE BaseInv'
  <2>1. SetFs(directory_remove_entry(Fs, p)) /\ given' = given /\ overlap' = overlap /\ did' = did
    BY <1>3 DEF unlink
  <2>2. Base(directory_remove_entry(Fs, p), given)
    BY <1>0, PathIs, RemovedBase
  <2>3. Fs' = directory_remove_entry(Fs, p)
    BY <2>1, <2>2, FsRecords DEF Base
  <2> QED
    BY <1>0, <2>1, <2>2, <2>3 DEF BaseInv
<1>4. ASSUME NEW from \in Path, NEW to \in Path, link(from, to) PROVE BaseInv'
  <2>1. PICK stale \in StaleCount : SetFs(Linked(from, to, stale))
    BY <1>4 DEF link
  <2>2. /\ IsFile(from) /\ IsDir(parent_path(to)) /\ HasRoom(to)
        /\ inode[item_search(Fs, from).inum].refs < MaxRefs
        /\ given' = given /\ overlap' = overlap /\ did' = did \cup {"link"}
    BY <1>4 DEF link, MayLink
  <2>3. Base(Linked(from, to, stale), given)
    BY <2>2, LinkedBase
  <2>4. Fs' = Linked(from, to, stale)
    BY <2>1, <2>3, FsRecords DEF Base
  <2> QED
    BY <1>0, <2>2, <2>3, <2>4 DEF BaseInv
<1>5. ASSUME NEW from \in Path, NEW to \in Path, rename(from, to) PROVE BaseInv'
  <2>1. PICK stale \in StaleCount : SetFs(directory_remove_entry(Linked(from, to, stale), from))
    BY <1>5 DEF rename
  <2>2. /\ IsFile(from) \/ IsDir(from)
        /\ IsDir(parent_path(to)) /\ HasRoom(to)
        /\ inode[item_search(Fs, from).inum].refs < MaxRefs
        /\ given' = given /\ overlap' = overlap
    BY <1>5 DEF rename, MayLink
  <2>3. did' \subseteq {"link", "replace", "move"}
    BY <1>0, <1>5 DEF rename
  <2>4. Base(Linked(from, to, stale), given)
    BY <2>2, LinkedBase
  <2>5. Base(directory_remove_entry(Linked(from, to, stale), from), given)
    BY <1>0, <2>4, PathIs, RemovedBase
  <2>6. Fs' = directory_remove_entry(Linked(from, to, stale), from)
    BY <2>1, <2>5, FsRecords DEF Base
  <2> QED
    BY <1>0, <2>2, <2>3, <2>5, <2>6 DEF BaseInv
<1>6. CASE UNCHANGED vars
  <2>1. Fs' = Fs /\ given' = given /\ overlap' = overlap /\ did' = did
    BY <1>6 DEF vars, Fs
  <2> QED
    BY <1>0, <2>1 DEF BaseInv
<1> QED
  BY <1>1, <1>2, <1>3, <1>4, <1>5, <1>6 DEF Next

LEMMA BaseHolds == Spec => []BaseInv
BY BaseInit, BaseStep, PTL DEF Spec

\* Type correctness, with the link between an inode's kind and its count and
\* between kind and slots, whatever calls are made (directory.c, fuse.c).
THEOREM DirectoryTypeOK == Spec => []TypeOK
<1>1. BaseInv => TypeOK
  <2> SUFFICES ASSUME BaseInv PROVE TypeOK
    OBVIOUS
  <2>1. Fs \in FsType /\ InodesOK(Fs, given) /\ given \in Inum
    BY DEF BaseInv, Base
  <2>2. ASSUME NEW i \in Inum
        PROVE  /\ inode[i].kind \in {"none", "dir", "file"}
               /\ inode[i].refs \in 0 .. MaxRefs
               /\ inode[i].slot \in Seq(SlotType) /\ inode[i].count \in Nat
               /\ (inode[i].kind = "none") = (inode[i].refs = 0)
               /\ inode[i].kind # "dir" => inode[i].slot = <<>>
    <3>1. inode[i] \in InodeType
      BY <2>1, FsIs, FsParts
    <3>2. /\ inode[i].kind = "none" <=> inode[i].refs = 0
          /\ inode[i].kind # "dir" => inode[i].slot = <<>>
      BY <2>1, FsIs DEF InodesOK
    <3> QED
      BY <3>1, <3>2 DEF InodeType
  <2> QED
    BY <2>1, <2>2 DEF TypeOK, BaseInv, Inum
<1> QED
  BY <1>1, BaseHolds, PTL

\* No entry names an inode that was freed, and the count of an inode covers its
\* entries, for every mixture of calls (fuse.c:184-189, directory.c:138-146).
THEOREM DirectoryEntriesAreLive == Spec => []EntriesAreLive
<1>1. BaseInv => EntriesAreLive
  <2> SUFFICES ASSUME BaseInv PROVE EntriesAreLive
    OBVIOUS
  <2> DEFINE entries == {e \in (0 .. LastInode) \X (1 .. 2 * PerBlock) :
                           e[2] <= Len(inode[e[1]].slot) /\ inode[e[1]].slot[e[2]].active}
             named(e) == inode[e[1]].slot[e[2]].inum
  <2>1. Fs \in FsType /\ InodesOK(Fs, given) /\ SlotsOK(Fs, given) /\ RefsCover(Fs)
    BY DEF BaseInv, Base
  <2>2. entries = Entries(Fs)
    BY FsIs DEF Entries, Inum
  <2>3. \A i \in 1 .. LastInode : {e \in entries : named(e) = i} = Naming(Fs, i)
    BY <2>2, FsIs DEF Naming
  <2>4. ASSUME NEW e \in entries PROVE inode[named(e)].kind # "none"
    <3> DEFINE d == e[1]
               k == e[2]
               s == Fs.inode[d].slot[k]
    <3>1. d \in Inum /\ k \in 1 .. 2 * PerBlock /\ k <= Len(Fs.inode[d].slot) /\ s.active
      BY <2>2 DEF Entries
    <3>2. k \in 1 .. Len(Fs.inode[d].slot)
      BY <2>1, <3>1, FsParts, ConstantTypes
    <3>3. SlotOK(Fs, given, d, s) /\ s \in SlotType
      BY <2>1, <3>1, <3>2, FsParts, ElementOfSeq DEF SlotsOK
    <3>4. s.inum \in Inum
      BY <3>3 DEF SlotType, Inum
    <3>5. named(e) = s.inum
      BY FsIs
    <3> HIDE DEF s, d, k, entries, named
    <3>6. Fs.inode[s.inum].refs >= 1
      BY <3>1, <3>3 DEF SlotOK
    <3>7. Fs.inode[s.inum].kind # "none"
      BY <2>1, <3>4, <3>6 DEF InodesOK
    <3> QED
      BY <3>5, <3>7, FsIs
  <2>5. \A i \in 1 .. LastInode : Cardinality({e \in entries : named(e) = i}) <= inode[i].refs
    BY <2>1, <2>3, FsIs DEF RefsCover
  <2> QED
    BY <2>4, <2>5 DEF EntriesAreLive
<1> QED
  BY <1>1, BaseHolds, PTL
-----------------------------------------------------------------------------
(***************************************************************************)
(* Until a rename replaces a name or moves a directory, index and entries  *)
(* agree.  Where the walked path is lost only the root's tree is looked at. *)
(***************************************************************************)
Looked(o, t) == o \/ t = 1

\* The inode a leaf leads to.
LeadsTo(fs, l) == IF l.kind = "dir" THEN fs.tree[l.val].inum ELSE l.val

\* The slots of the directory of tree t.
SlotsOf(fs, t) == fs.inode[fs.tree[t].inum].slot
IsLive(fs, t) == fs.inode[fs.tree[t].inum].kind = "dir"

\* The leaves of the names a walk may meet in a directory that is there.
LeavesOf(fs, o) == {x \in (1 .. Len(fs.tree)) \X Name :
                      Looked(o, x[1]) /\ IsLive(fs, x[1]) /\ fs.tree[x[1]].leaf[x[2]] # <<>>}
LeafAt(fs, x) == Head(fs.tree[x[1]].leaf[x[2]])

\* One leaf to a name, one tree to a directory.
LeavesSingle(fs, o) == \A t \in 1 .. Len(fs.tree), n \in Name :
                         Looked(o, t) => Len(fs.tree[t].leaf[n]) <= 1
TreesApart(fs) == \A t, u \in 1 .. Len(fs.tree) : fs.tree[t].inum = fs.tree[u].inum => t = u

\* A leaf leads to an inode of its kind, and is the leaf of the entry that an
\* inode with one reference has.
LeavesLive(fs, o) ==
  \A x \in LeavesOf(fs, o) :
    fs.inode[LeadsTo(fs, LeafAt(fs, x))].kind = LeafAt(fs, x).kind
LeavesOwn(fs, o) ==
  \A x \in LeavesOf(fs, o), d \in Inum : \A j \in 1 .. Len(fs.inode[d].slot) :
    LET s == fs.inode[d].slot[j]
    IN s.name # <<>> /\ s.inum = LeadsTo(fs, LeafAt(fs, x)) /\ fs.inode[s.inum].refs = 1
         => d = fs.tree[x[1]].inum /\ s.name = x[2]

\* An entry has a leaf that leads where it does, and its name to itself.
EntriesIndexed(fs, o) ==
  \A t \in 1 .. Len(fs.tree) : Looked(o, t) =>
    \A j \in 1 .. Len(SlotsOf(fs, t)) : SlotsOf(fs, t)[j].active =>
      /\ fs.tree[t].leaf[SlotsOf(fs, t)[j].name] # <<>>
      /\ LeadsTo(fs, LeafAt(fs, <<t, SlotsOf(fs, t)[j].name>>)) = SlotsOf(fs, t)[j].inum
EntriesApart(fs, o) ==
  \A t \in 1 .. Len(fs.tree) : Looked(o, t) =>
    \A j, k \in 1 .. Len(SlotsOf(fs, t)) :
      SlotsOf(fs, t)[j].active /\ SlotsOf(fs, t)[k].active
        /\ SlotsOf(fs, t)[j].name = SlotsOf(fs, t)[k].name => j = k

Agree(fs, o) == /\ LeavesSingle(fs, o) /\ TreesApart(fs)
                /\ LeavesLive(fs, o) /\ LeavesOwn(fs, o)
                /\ EntriesIndexed(fs, o) /\ EntriesApart(fs, o)

AgreeInv == did \cap {"replace", "move"} = {} => Agree(Fs, overlap)

\* Until a file has a second name no inode has a second reference, and each leaf
\* has its entry.
LeavesEntered(fs, o) ==
  \A x \in LeavesOf(fs, o) : \E j \in 1 .. Len(SlotsOf(fs, x[1])) :
    SlotsOf(fs, x[1])[j].active /\ SlotsOf(fs, x[1])[j].name = x[2]
SingleRefs(fs) == \A i \in Inum : fs.inode[i].refs <= 1

Entered(fs, o) == LeavesEntered(fs, o) /\ SingleRefs(fs)

EnteredInv == did = {} => Entered(Fs, overlap)

\* The count of a directory covers its entries.
ActiveIn(dir) == {j \in 1 .. Len(dir.slot) : dir.slot[j].active}
Counted(fs) == \A d \in Inum : Cardinality(ActiveIn(fs.inode[d])) <= fs.inode[d].count

CountInv == Counted(Fs)
-----------------------------------------------------------------------------
LEMMA LeafFacts ==
  ASSUME NEW fs \in FsType, NEW g, g \in Inum, TreesOK(fs, g),
         NEW t \in 1 .. Len(fs.tree), NEW n \in Name, fs.tree[t].leaf[n] # <<>>
  PROVE  LET l == LeafAt(fs, <<t, n>>)
         IN l \in LeafType /\ LeafOK(fs, l, g) /\ LeadsTo(fs, l) \in 1 .. g
<1> DEFINE q == fs.tree[t].leaf[n]
           l == LeafAt(fs, <<t, n>>)
<1>1. q \in Seq(LeafType) /\ l = Head(q)
  BY FsParts DEF TreeType, LeafAt
<1>2. l = q[1] /\ 1 \in 1 .. Len(q)
  BY <1>1, EmptySeq
<1>3. LeafOK(fs, l, g) /\ l \in LeafType
  BY <1>1, <1>2, ElementOfSeq DEF TreesOK
<1> HIDE DEF l, q
<1>4. LeadsTo(fs, l) \in 1 .. g
  <2>1. CASE l.kind = "dir"
    BY <1>3, <2>1 DEF LeafOK, LeadsTo, TreesOK
  <2>2. CASE l.kind # "dir"
    BY <1>3, <2>2 DEF LeafOK, LeadsTo, LeafType
  <2> QED
    BY <2>1, <2>2
<1> QED
  BY <1>3, <1>4 DEF l

LEMMA LeavesOfFacts ==
  ASSUME NEW fs \in FsType, NEW g, g \in Inum, TreesOK(fs, g), NEW o, NEW x \in LeavesOf(fs, o)
  PROVE  /\ x[1] \in 1 .. Len(fs.tree) /\ x[2] \in Name /\ x = <<x[1], x[2]>>
         /\ Looked(o, x[1]) /\ IsLive(fs, x[1]) /\ fs.tree[x[1]].leaf[x[2]] # <<>>
         /\ LeafAt(fs, x) \in LeafType /\ LeafOK(fs, LeafAt(fs, x), g)
         /\ LeadsTo(fs, LeafAt(fs, x)) \in 1 .. g
         /\ LeadsTo(fs, LeafAt(fs, x)) \in Inum
<1>1. /\ x[1] \in 1 .. Len(fs.tree) /\ x[2] \in Name /\ x = <<x[1], x[2]>>
      /\ Looked(o, x[1]) /\ IsLive(fs, x[1]) /\ fs.tree[x[1]].leaf[x[2]] # <<>>
  BY DEF LeavesOf
<1>2. LET l == LeafAt(fs, <<x[1], x[2]>>)
      IN l \in LeafType /\ LeafOK(fs, l, g) /\ LeadsTo(fs, l) \in 1 .. g
  BY <1>1, LeafFacts
<1>3. LeadsTo(fs, LeafAt(fs, x)) \in 1 .. g
  BY <1>1, <1>2
<1>4. LeadsTo(fs, LeafAt(fs, x)) \in Inum
  <2>1. g \in Nat /\ g <= LastInode /\ LastInode \in Nat
    BY ConstantTypes DEF Inum
  <2> QED
    BY <1>3, <2>1 DEF Inum
<1> QED
  BY <1>1, <1>2, <1>3, <1>4

\* A drop takes a leaf away or none.
LeavesDropped(fs, r, d, j, o) ==
  LET e == fs.inode[d.inum].slot[j]
      gone == fs.inode[e.inum].refs = 1
  IN /\ Len(r.tree) = Len(fs.tree)
     /\ \A t \in 1 .. Len(fs.tree) : r.tree[t].inum = fs.tree[t].inum
     /\ \A t \in 1 .. Len(fs.tree), n \in Name :
          Looked(o, t) => r.tree[t].leaf[n] = IF gone /\ t = d.tree /\ n = e.name
                                              THEN <<>> ELSE fs.tree[t].leaf[n]
     /\ LeavesOf(r, o) \subseteq LeavesOf(fs, o)
     /\ \A x \in LeavesOf(r, o) :
          /\ LeafAt(r, x) = LeafAt(fs, x)
          /\ LeadsTo(r, LeafAt(r, x)) = LeadsTo(fs, LeafAt(fs, x))
          /\ ~(gone /\ x = <<d.tree, e.name>>)

LEMMA DropLeaves ==
  ASSUME NEW fs, NEW g, NEW d, NEW j, NEW o, CanDrop(fs, g, d, j), LeavesSingle(fs, o)
  PROVE  LeavesDropped(fs, Dropped(fs, d, j), d, j, o)
<1> DEFINE e == fs.inode[d.inum].slot[j]
           r == Dropped(fs, d, j)
           gone == fs.inode[e.inum].refs = 1
<1>1. fs \in FsType /\ TreesOK(fs, g) /\ g \in Inum /\ e.name \in Name
  BY DEF CanDrop, Base
<1>2. /\ Len(r.tree) = Len(fs.tree)
      /\ \A t \in 1 .. Len(fs.tree) :
           /\ r.tree[t].inum = fs.tree[t].inum
           /\ \A n \in Name :
                r.tree[t].leaf[n] = IF gone /\ t = d.tree /\ n = e.name
                                    THEN WithoutNewest(fs.tree[t].leaf[n])
                                    ELSE fs.tree[t].leaf[n]
  BY <1>1, DroppedTrees
<1>3. DropEffect(fs, r, d, j) /\ e.inum \in 1 .. g /\ r \in FsType
  BY DropFacts
<1> HIDE DEF r, e
<1>4. ASSUME NEW t \in 1 .. Len(fs.tree), NEW n \in Name, Looked(o, t)
      PROVE  r.tree[t].leaf[n] = IF gone /\ t = d.tree /\ n = e.name
                                 THEN <<>> ELSE fs.tree[t].leaf[n]
  <2> DEFINE q == fs.tree[t].leaf[n]
  <2>1. q \in Seq(LeafType) /\ Len(q) <= 1
    BY <1>1, <1>4, FsParts DEF TreeType, LeavesSingle
  <2>2. WithoutNewest(q) = <<>>
    <3>1. CASE q = <<>>
      BY <3>1 DEF WithoutNewest
    <3>2. CASE q # <<>>
      <4>1. Tail(q) \in Seq(LeafType) /\ Len(Tail(q)) = Len(q) - 1 /\ Len(q) \in Nat \ {0}
        BY <2>1, <3>2, HeadTailProperties, EmptySeq
      <4> HIDE DEF q
      <4>2. Len(Tail(q)) = 0
        BY <2>1, <4>1
      <4>3. Tail(q) = <<>>
        BY <4>1, <4>2, EmptySeq
      <4> QED
        BY <3>2, <4>3 DEF WithoutNewest
    <3> QED
      BY <3>1, <3>2
  <2> QED
    BY <1>2, <2>2
<1>5. ASSUME NEW x \in LeavesOf(r, o)
      PROVE  /\ x \in LeavesOf(fs, o) /\ LeafAt(r, x) = LeafAt(fs, x)
             /\ ~(gone /\ x = <<d.tree, e.name>>)
  <2> DEFINE t == x[1]
             n == x[2]
  <2>1. /\ t \in 1 .. Len(fs.tree) /\ n \in Name /\ x = <<t, n>> /\ Looked(o, t)
        /\ IsLive(r, t) /\ r.tree[t].leaf[n] # <<>>
        /\ x \in (1 .. Len(fs.tree)) \X Name
    BY <1>2 DEF LeavesOf
  <2> HIDE DEF t, n
  <2>2. r.tree[t].leaf[n] = fs.tree[t].leaf[n] /\ ~(gone /\ t = d.tree /\ n = e.name)
    BY <1>4, <2>1
  <2>3. IsLive(fs, t)
    <3> DEFINE i == fs.tree[t].inum
    <3>1. r.inode[i].kind = "dir" /\ i \in Inum
      BY <1>1, <1>2, <2>1, FsParts DEF IsLive, TreeType
    <3>2. ~(gone /\ i = e.inum)
      <4> SUFFICES ASSUME gone, i = e.inum PROVE FALSE
        OBVIOUS
      <4>1. r.inode[i] = Blank
        BY <1>3 DEF DropEffect, e
      <4> QED
        BY <3>1, <4>1 DEF Blank
    <3>3. r.inode[i].kind = fs.inode[i].kind
      BY <1>3, <3>1, <3>2, Zenon DEF DropEffect, e
    <3> QED
      BY <3>1, <3>3 DEF IsLive
  <2>4. x \in LeavesOf(fs, o)
    BY <2>1, <2>2, <2>3 DEF LeavesOf, t, n
  <2>5. LeafAt(r, x) = LeafAt(fs, x)
    BY <2>2 DEF LeafAt, t, n
  <2> QED
    BY <2>1, <2>2, <2>4, <2>5
<1>6. ASSUME NEW x \in LeavesOf(r, o)
      PROVE  LeadsTo(r, LeafAt(r, x)) = LeadsTo(fs, LeafAt(fs, x))
  <2>1. LeafOK(fs, LeafAt(fs, x), g) /\ LeafAt(r, x) = LeafAt(fs, x)
    BY <1>1, <1>5, LeavesOfFacts
  <2>2. Len(fs.tree) \in Nat
    BY <1>1, FsParts
  <2> QED
    BY <1>2, <2>1, <2>2 DEF LeadsTo, LeafOK
<1>7. LeavesDropped(fs, r, d, j, o)
  BY <1>2, <1>4, <1>5, <1>6 DEF LeavesDropped, e
<1> QED
  BY <1>7 DEF r

\* The slots a drop leaves active, and what they name.
SlotLeft(fs, r, d, j, x, k) ==
  LET s == fs.inode[x].slot[k]
      t == r.inode[x].slot[k]
      i == fs.inode[d.inum].slot[j].inum
      gone == fs.inode[i].refs = 1
  IN /\ k \in 1 .. Len(fs.inode[x].slot)
     /\ ~(gone /\ x = i)
     /\ t.name = s.name /\ t.inum = s.inum /\ s.inum \in Inum
     /\ t.active <=> s.active /\ ~(x = d.inum /\ k = j)
     /\ s.active => s.name \in Name
     /\ r.inode[s.inum].refs = 1 => fs.inode[s.inum].refs = 1 /\ ~(gone /\ s.inum = i)

LEMMA DropSlots ==
  ASSUME NEW fs, NEW g, NEW d, NEW j, CanDrop(fs, g, d, j), NEW x \in Inum,
         NEW k \in 1 .. Len(Dropped(fs, d, j).inode[x].slot)
  PROVE  SlotLeft(fs, Dropped(fs, d, j), d, j, x, k)
<1> DEFINE i == fs.inode[d.inum].slot[j].inum
           r == Dropped(fs, d, j)
           gone == fs.inode[i].refs = 1
           s == fs.inode[x].slot[k]
           t == r.inode[x].slot[k]
<1>1. DropEffect(fs, r, d, j) /\ r \in FsType
  BY DropFacts
<1>2. fs \in FsType /\ SlotsOK(fs, g)
  BY DEF CanDrop, Base
<1>0. k \in 1 .. Len(r.inode[x].slot)
  OBVIOUS
<1> HIDE DEF r, i
<1>3. ~(gone /\ x = i)
  <2> SUFFICES ASSUME gone, x = i PROVE FALSE
    OBVIOUS
  <2>1. r.inode[x] = Blank
    BY <1>1 DEF DropEffect, i
  <2>2. Len(r.inode[x].slot) = 0
    BY <2>1, EmptySeq DEF Blank
  <2> QED
    BY <1>0, <2>2
<1>4. Kept(fs, r, x, d.inum, j)
  BY <1>1, <1>3 DEF DropEffect, i
<1>5. k \in 1 .. Len(fs.inode[x].slot)
  BY <1>0, <1>4 DEF Kept
<1>6. t.name = s.name /\ t.inum = s.inum /\ (t.active <=> s.active /\ ~(x = d.inum /\ k = j))
  BY <1>4, <1>5 DEF Kept
<1>7. s \in SlotType /\ SlotOK(fs, g, x, s)
  BY <1>2, <1>5, FsParts, ElementOfSeq DEF SlotsOK
<1>8. s.inum \in Inum /\ (s.active => s.name \in Name)
  BY <1>7 DEF SlotType, SlotOK, Inum
<1> HIDE DEF s, t
<1>9. r.inode[s.inum].refs = 1 => fs.inode[s.inum].refs = 1 /\ ~(gone /\ s.inum = i)
  <2>1. CASE gone /\ s.inum = i
    <3>1. r.inode[s.inum] = Blank
      BY <1>1, <2>1 DEF DropEffect, i
    <3>2. r.inode[s.inum].refs # 1
      BY <3>1 DEF Blank
    <3> QED
      BY <3>2
  <2>2. CASE ~(gone /\ s.inum = i)
    <3>1. r.inode[s.inum].refs = fs.inode[s.inum].refs
      BY <1>1, <1>8, <2>2, Zenon DEF DropEffect, i
    <3> QED
      BY <2>2, <3>1
  <2> QED
    BY <2>1, <2>2
<1> QED
  BY <1>3, <1>5, <1>6, <1>8, <1>9 DEF SlotLeft, r, i, s, t

LEMMA DropAgree ==
  ASSUME NEW fs, NEW g, NEW d, NEW j, NEW o, CanDrop(fs, g, d, j), Agree(fs, o),
         d.tree # 0, Looked(o, d.tree)
  PROVE  Agree(Dropped(fs, d, j), o)
<1> DEFINE e == fs.inode[d.inum].slot[j]
           r == Dropped(fs, d, j)
           gone == fs.inode[e.inum].refs = 1
<1>1. /\ fs \in FsType /\ TreesOK(fs, g) /\ g \in Inum /\ e.name \in Name /\ e.name # <<>>
      /\ At(fs, g, d) /\ SlotsOK(fs, g) /\ j \in 1 .. Len(fs.inode[d.inum].slot)
  BY DirectoryConstants DEF CanDrop, Base
<1>2. LeavesSingle(fs, o) /\ TreesApart(fs) /\ LeavesLive(fs, o) /\ LeavesOwn(fs, o)
      /\ EntriesIndexed(fs, o) /\ EntriesApart(fs, o)
  BY DEF Agree
<1>3. LeavesDropped(fs, r, d, j, o)
  BY <1>2, DropLeaves
<1>4. /\ Len(r.tree) = Len(fs.tree) /\ Len(fs.tree) \in Nat
      /\ \A t \in 1 .. Len(fs.tree) : r.tree[t].inum = fs.tree[t].inum
      /\ \A t \in 1 .. Len(fs.tree), n \in Name :
           Looked(o, t) => r.tree[t].leaf[n] = IF gone /\ t = d.tree /\ n = e.name
                                               THEN <<>> ELSE fs.tree[t].leaf[n]
      /\ LeavesOf(r, o) \subseteq LeavesOf(fs, o)
      /\ \A x \in LeavesOf(r, o) :
           /\ LeafAt(r, x) = LeafAt(fs, x)
           /\ LeadsTo(r, LeafAt(r, x)) = LeadsTo(fs, LeafAt(fs, x))
           /\ ~(gone /\ x = <<d.tree, e.name>>)
  BY <1>1, <1>3, FsParts DEF LeavesDropped
<1>5. DropEffect(fs, r, d, j) /\ e.inum \in 1 .. g /\ r \in FsType /\ d.inum \in Inum
  BY DropFacts
<1>6. \A x \in Inum : \A k \in 1 .. Len(r.inode[x].slot) : SlotLeft(fs, r, d, j, x, k)
  BY DropSlots
<1>7. d.tree \in 1 .. Len(fs.tree) /\ fs.tree[d.tree].inum = d.inum
  <2>1. d.tree \in 0 .. Len(fs.tree) /\ d.inum = fs.tree[d.tree].inum
    BY <1>1 DEF At
  <2>2. Len(fs.tree) \in Nat
    BY <1>4
  <2> HIDE DEF e
  <2> QED
    BY <2>1, <2>2
<1>8. gone => e.active
  BY <1>5 DEF DropEffect
<1>9. \A t \in 1 .. Len(fs.tree) : fs.tree[t].inum \in Inum
  BY <1>1, FsParts DEF TreeType
<1> HIDE DEF e, r, gone
<1>10. LeavesSingle(r, o)
  <2> SUFFICES ASSUME NEW t \in 1 .. Len(r.tree), NEW n \in Name, Looked(o, t)
               PROVE  Len(r.tree[t].leaf[n]) <= 1
    BY DEF LeavesSingle
  <2>1. r.tree[t].leaf[n] = <<>> \/ r.tree[t].leaf[n] = fs.tree[t].leaf[n]
    BY <1>4
  <2>2. Len(fs.tree[t].leaf[n]) <= 1
    BY <1>2, <1>4 DEF LeavesSingle
  <2> QED
    BY <2>1, <2>2, EmptySeq
<1>11. TreesApart(r)
  BY <1>2, <1>4 DEF TreesApart
<1>12. LeavesLive(r, o)
  <2> SUFFICES ASSUME NEW x \in LeavesOf(r, o)
               PROVE  r.inode[LeadsTo(r, LeafAt(r, x))].kind = LeafAt(r, x).kind
    BY DEF LeavesLive
  <2> DEFINE i == LeadsTo(fs, LeafAt(fs, x))
  <2>1. /\ x \in LeavesOf(fs, o) /\ LeafAt(r, x) = LeafAt(fs, x) /\ LeadsTo(r, LeafAt(r, x)) = i
        /\ ~(gone /\ x = <<d.tree, e.name>>)
    BY <1>4
  <2>2. /\ i \in Inum /\ fs.inode[i].kind = LeafAt(fs, x).kind
        /\ x[1] \in 1 .. Len(fs.tree) /\ x = <<x[1], x[2]>>
    BY <1>1, <1>2, <2>1, LeavesOfFacts DEF LeavesLive
  <2>3. ~(gone /\ i = e.inum)
    <3> SUFFICES ASSUME gone, i = e.inum PROVE FALSE
      OBVIOUS
    <3>1. d.inum = fs.tree[x[1]].inum /\ e.name = x[2]
      BY <1>1, <1>2, <1>5, <2>1 DEF LeavesOwn, e, gone
    <3>2. x[1] = d.tree
      BY <1>2, <1>7, <2>2, <3>1 DEF TreesApart
    <3> QED
      BY <2>1, <2>2, <3>1, <3>2
  <2> HIDE DEF i
  <2>4. r.inode[i].kind = fs.inode[i].kind
    BY <1>5, <2>2, <2>3 DEF DropEffect, e, gone
  <2> QED
    BY <2>1, <2>2, <2>4
<1>13. LeavesOwn(r, o)
  <2> SUFFICES ASSUME NEW x \in LeavesOf(r, o), NEW y \in Inum,
                      NEW k \in 1 .. Len(r.inode[y].slot),
                      r.inode[y].slot[k].name # <<>>,
                      r.inode[y].slot[k].inum = LeadsTo(r, LeafAt(r, x)),
                      r.inode[r.inode[y].slot[k].inum].refs = 1
               PROVE  y = r.tree[x[1]].inum /\ r.inode[y].slot[k].name = x[2]
    BY DEF LeavesOwn
  <2> DEFINE s == fs.inode[y].slot[k]
             t == r.inode[y].slot[k]
  <2>1. /\ k \in 1 .. Len(fs.inode[y].slot) /\ t.name = s.name /\ t.inum = s.inum
        /\ fs.inode[s.inum].refs = 1
    <3>1. SlotLeft(fs, r, d, j, y, k)
      BY <1>6
    <3> QED
      BY <3>1 DEF SlotLeft
  <2>2. x \in LeavesOf(fs, o) /\ LeadsTo(r, LeafAt(r, x)) = LeadsTo(fs, LeafAt(fs, x))
    BY <1>4
  <2>3. y = fs.tree[x[1]].inum /\ s.name = x[2]
    BY <1>2, <2>1, <2>2 DEF LeavesOwn
  <2>4. x[1] \in 1 .. Len(fs.tree)
    BY <2>2 DEF LeavesOf
  <2>5. r.tree[x[1]].inum = fs.tree[x[1]].inum
    BY <1>4, <2>4
  <2> HIDE DEF s, t
  <2> QED
    BY <2>1, <2>3, <2>5 DEF t
<1>14. ASSUME NEW t \in 1 .. Len(r.tree), NEW k \in 1 .. Len(SlotsOf(r, t)), SlotsOf(r, t)[k].active
       PROVE  /\ t \in 1 .. Len(fs.tree) /\ k \in 1 .. Len(SlotsOf(fs, t))
              /\ SlotsOf(r, t)[k].name = SlotsOf(fs, t)[k].name
              /\ SlotsOf(r, t)[k].inum = SlotsOf(fs, t)[k].inum
              /\ SlotsOf(fs, t)[k].active /\ SlotsOf(fs, t)[k].name \in Name
              /\ ~(fs.tree[t].inum = d.inum /\ k = j)
  <2> DEFINE y == fs.tree[t].inum
  <2>1. t \in 1 .. Len(fs.tree)
    BY <1>4
  <2>2. y \in Inum /\ SlotsOf(r, t) = r.inode[y].slot /\ SlotsOf(fs, t) = fs.inode[y].slot
    BY <1>4, <1>9, <2>1, Zenon DEF SlotsOf
  <2> HIDE DEF y
  <2>3. k \in 1 .. Len(r.inode[y].slot) /\ r.inode[y].slot[k].active
    BY <1>14, <2>2
  <2>4. SlotLeft(fs, r, d, j, y, k)
    BY <1>6, <2>2, <2>3
  <2>5. /\ k \in 1 .. Len(fs.inode[y].slot) /\ r.inode[y].slot[k].name = fs.inode[y].slot[k].name
        /\ r.inode[y].slot[k].inum = fs.inode[y].slot[k].inum
        /\ fs.inode[y].slot[k].active /\ fs.inode[y].slot[k].name \in Name
        /\ ~(y = d.inum /\ k = j)
    BY <2>3, <2>4, Zenon DEF SlotLeft
  <2> QED
    BY <2>1, <2>2, <2>5 DEF y
<1>15. EntriesIndexed(r, o)
  <2> SUFFICES ASSUME NEW t \in 1 .. Len(r.tree), Looked(o, t),
                      NEW k \in 1 .. Len(SlotsOf(r, t)), SlotsOf(r, t)[k].active
               PROVE  /\ r.tree[t].leaf[SlotsOf(r, t)[k].name] # <<>>
                      /\ LeadsTo(r, LeafAt(r, <<t, SlotsOf(r, t)[k].name>>))
                           = SlotsOf(r, t)[k].inum
    BY DEF EntriesIndexed
  <2> DEFINE n == SlotsOf(fs, t)[k].name
             i == SlotsOf(fs, t)[k].inum
             l == LeafAt(fs, <<t, n>>)
  <2>1. /\ t \in 1 .. Len(fs.tree) /\ k \in 1 .. Len(SlotsOf(fs, t)) /\ SlotsOf(fs, t)[k].active
        /\ SlotsOf(r, t)[k].name = n /\ SlotsOf(r, t)[k].inum = i /\ n \in Name
        /\ ~(fs.tree[t].inum = d.inum /\ k = j)
    BY <1>14
  <2>2. fs.tree[t].leaf[n] # <<>> /\ LeadsTo(fs, l) = i
    BY <1>2, <2>1, Zenon DEF EntriesIndexed
  <2>3. n = SlotsOf(fs, t)[k].name
    OBVIOUS
  <2> HIDE DEF n, i, l
  <2>4. ~(gone /\ t = d.tree /\ n = e.name)
    <3> SUFFICES ASSUME gone, t = d.tree, n = e.name PROVE FALSE
      OBVIOUS
    <3>1. SlotsOf(fs, t)[j] = e /\ j \in 1 .. Len(SlotsOf(fs, t))
      BY <1>1, <1>7 DEF SlotsOf, e
    <3>2. j = k
      BY <1>2, <1>8, <2>1, <2>3, <3>1, Zenon DEF EntriesApart
    <3> QED
      BY <1>7, <2>1, <3>2
  <2>5. r.tree[t].leaf[n] = fs.tree[t].leaf[n]
    BY <1>4, <2>1, <2>4, Zenon
  <2>6. LeafAt(r, <<t, n>>) = l
    BY <2>5 DEF LeafAt, l
  <2>7. l.kind = "dir" => l.val \in 1 .. Len(fs.tree)
    <3>1. LeafOK(fs, l, g)
      BY <1>1, <2>1, <2>2, LeafFacts DEF l
    <3> QED
      BY <1>4, <3>1 DEF LeafOK
  <2>8. LeadsTo(r, l) = LeadsTo(fs, l)
    BY <1>4, <2>7 DEF LeadsTo
  <2> QED
    BY <2>1, <2>2, <2>5, <2>6, <2>8
<1>16. EntriesApart(r, o)
  <2> SUFFICES ASSUME NEW t \in 1 .. Len(r.tree), Looked(o, t),
                      NEW k \in 1 .. Len(SlotsOf(r, t)), NEW m \in 1 .. Len(SlotsOf(r, t)),
                      SlotsOf(r, t)[k].active, SlotsOf(r, t)[m].active,
                      SlotsOf(r, t)[k].name = SlotsOf(r, t)[m].name
               PROVE  k = m
    BY DEF EntriesApart
  <2>1. /\ t \in 1 .. Len(fs.tree) /\ k \in 1 .. Len(SlotsOf(fs, t)) /\ SlotsOf(fs, t)[k].active
        /\ SlotsOf(r, t)[k].name = SlotsOf(fs, t)[k].name
    BY <1>14
  <2>2. /\ m \in 1 .. Len(SlotsOf(fs, t)) /\ SlotsOf(fs, t)[m].active
        /\ SlotsOf(r, t)[m].name = SlotsOf(fs, t)[m].name
    BY <1>14
  <2> QED
    BY <1>2, <2>1, <2>2, Zenon DEF EntriesApart
<1>17. Agree(r, o)
  BY <1>10, <1>11, <1>12, <1>13, <1>15, <1>16 DEF Agree
<1> QED
  BY <1>17 DEF r

(***************************************************************************)
(* An entry more.                                                          *)
(***************************************************************************)
\* The place of the new entry is free, and what it leads to is new or a file.
CanEnter(fs, g, r, i, sp, e, at, kind, o) ==
  /\ CanAdd(fs, g, r, i, sp, e) /\ TreesOK(fs, g)
  /\ TreesIndexed(fs.tree, r.tree, at, e.name, e.inum, kind) /\ kind \in {"dir", "file"}
  /\ at \in 1 .. Len(fs.tree) /\ i = fs.tree[at].inum
  /\ Looked(o, at) => fs.tree[at].leaf[e.name] = <<>>
  /\ fs.inode[e.inum].kind = kind
  /\ kind = "dir" => /\ fs.inode[e.inum].slot = <<>> /\ e.inum # i
                     /\ \A t \in 1 .. Len(fs.tree) : fs.tree[t].inum # e.inum
  /\ r.inode[e.inum].refs = 1 =>
       \A x \in LeavesOf(fs, o) : LeadsTo(fs, LeafAt(fs, x)) # e.inum

\* One leaf comes: the others stay where they are.
LeavesAdded(fs, r, e, at, kind, o) ==
  /\ \A t \in 1 .. Len(fs.tree) :
       /\ t \in 1 .. Len(r.tree) /\ r.tree[t].inum = fs.tree[t].inum
       /\ IsLive(r, t) <=> IsLive(fs, t)
       /\ \A n \in Name : ~(t = at /\ n = e.name) => r.tree[t].leaf[n] = fs.tree[t].leaf[n]
  /\ \A t \in 1 .. Len(r.tree) : t \notin 1 .. Len(fs.tree) =>
       kind = "dir" /\ r.tree[t] = NewTree(e.inum)
  /\ Looked(o, at) => /\ Len(r.tree[at].leaf[e.name]) = 1
                      /\ r.tree[at].leaf[e.name] # <<>>
                      /\ LeafAt(r, <<at, e.name>>).kind = kind
                      /\ LeadsTo(r, LeafAt(r, <<at, e.name>>)) = e.inum
  /\ \A t \in 1 .. Len(fs.tree), n \in Name :
       fs.tree[t].leaf[n] # <<>> /\ ~(t = at /\ n = e.name) =>
         /\ LeafAt(r, <<t, n>>) = LeafAt(fs, <<t, n>>)
         /\ LeadsTo(r, LeafAt(r, <<t, n>>)) = LeadsTo(fs, LeafAt(fs, <<t, n>>))
  /\ \A x \in LeavesOf(r, o) :
       x = <<at, e.name>> \/ (x \in LeavesOf(fs, o) /\ x # <<at, e.name>>)

LEMMA AddLeaves ==
  ASSUME NEW fs, NEW g, NEW r, NEW i, NEW sp, NEW e, NEW at, NEW kind, NEW o,
         CanEnter(fs, g, r, i, sp, e, at, kind, o)
  PROVE  LeavesAdded(fs, r, e, at, kind, o)
<1> DEFINE L == Len(fs.tree)
           val == IF kind = "dir" THEN L + 1 ELSE e.inum
           new == [kind |-> kind, val |-> val]
<1>1. /\ fs \in FsType /\ TreesOK(fs, g) /\ g \in Inum /\ e.name \in Name
      /\ AddEffect(fs, r, i, sp, e) /\ kind \in {"dir", "file"} /\ at \in 1 .. L
      /\ L \in Nat
      /\ Looked(o, at) => fs.tree[at].leaf[e.name] = <<>>
  BY FsParts DEF CanEnter, CanAdd
<1>2. /\ r.tree \in Seq(TreeType) /\ Len(r.tree) = IF kind = "dir" THEN L + 1 ELSE L
      /\ \A t \in 1 .. L :
           /\ r.tree[t].inum = fs.tree[t].inum
           /\ \A m \in Name : r.tree[t].leaf[m] = IF t = at /\ m = e.name
                                                  THEN <<new>> \o fs.tree[t].leaf[m]
                                                  ELSE fs.tree[t].leaf[m]
      /\ kind = "dir" => r.tree[L + 1] = NewTree(e.inum)
  BY DEF CanEnter, TreesIndexed
<1>3. ASSUME NEW t \in 1 .. L PROVE t \in 1 .. Len(r.tree) /\ fs.tree[t].inum \in Inum
  BY <1>1, <1>2, FsParts DEF TreeType
<1> HIDE DEF new
<1>4. ASSUME NEW t \in 1 .. L PROVE IsLive(r, t) <=> IsLive(fs, t)
  <2>1. r.inode[fs.tree[t].inum].kind = fs.inode[fs.tree[t].inum].kind
    BY <1>1, <1>3 DEF AddEffect
  <2> QED
    BY <1>2, <2>1 DEF IsLive
<1>5. ASSUME NEW t \in 1 .. Len(r.tree), t \notin 1 .. L
      PROVE  kind = "dir" /\ r.tree[t] = NewTree(e.inum)
  <2>1. kind = "dir" /\ t = L + 1
    BY <1>1, <1>2, <1>5
  <2> QED
    BY <1>2, <2>1
<1>6. ASSUME NEW t \in 1 .. L, NEW n \in Name, fs.tree[t].leaf[n] # <<>>, ~(t = at /\ n = e.name)
      PROVE  /\ LeafAt(r, <<t, n>>) = LeafAt(fs, <<t, n>>)
             /\ LeadsTo(r, LeafAt(r, <<t, n>>)) = LeadsTo(fs, LeafAt(fs, <<t, n>>))
  <2> DEFINE l == LeafAt(fs, <<t, n>>)
  <2>1. LeafAt(r, <<t, n>>) = l
    BY <1>2, <1>6 DEF LeafAt
  <2>2. l.kind = "dir" => l.val \in 1 .. L
    <3>1. LeafOK(fs, l, g)
      BY <1>1, <1>6, LeafFacts
    <3> QED
      BY <1>1, <3>1 DEF LeafOK
  <2> HIDE DEF l
  <2>3. LeadsTo(r, l) = LeadsTo(fs, l)
    BY <1>2, <2>2 DEF LeadsTo
  <2> QED
    BY <2>1, <2>3 DEF l
<1>7. ASSUME Looked(o, at)
      PROVE  /\ Len(r.tree[at].leaf[e.name]) = 1
             /\ r.tree[at].leaf[e.name] # <<>>
             /\ LeafAt(r, <<at, e.name>>).kind = kind
             /\ LeadsTo(r, LeafAt(r, <<at, e.name>>)) = e.inum
  <2>0. r.tree[at].leaf[e.name] = <<new>> \o fs.tree[at].leaf[e.name]
    BY <1>1, <1>2
  <2>1. r.tree[at].leaf[e.name] = <<new>> \o <<>>
    BY <1>1, <1>7, <2>0
  <2>2. r.tree[at].leaf[e.name] = <<new>>
    BY <2>1
  <2>3. LeafAt(r, <<at, e.name>>) = new
    BY <2>2 DEF LeafAt
  <2>4. LeadsTo(r, new) = e.inum /\ new.kind = kind
    BY <1>1, <1>2 DEF LeadsTo, new, NewTree
  <2> QED
    BY <2>2, <2>3, <2>4
<1>8. ASSUME NEW x \in LeavesOf(r, o)
      PROVE  x = <<at, e.name>> \/ (x \in LeavesOf(fs, o) /\ x # <<at, e.name>>)
  <2> SUFFICES ASSUME x # <<at, e.name>> PROVE x \in LeavesOf(fs, o)
    OBVIOUS
  <2> DEFINE t == x[1]
             n == x[2]
  <2>1. /\ t \in 1 .. Len(r.tree) /\ n \in Name /\ x = <<t, n>> /\ Looked(o, t)
        /\ IsLive(r, t) /\ r.tree[t].leaf[n] # <<>>
    BY DEF LeavesOf
  <2>2. t \in 1 .. L
    <3> SUFFICES ASSUME t \notin 1 .. L PROVE FALSE
      OBVIOUS
    <3>1. r.tree[t] = NewTree(e.inum)
      BY <1>5, <2>1
    <3> QED
      BY <2>1, <3>1 DEF NewTree
  <2> HIDE DEF t, n
  <2>3. ~(t = at /\ n = e.name)
    BY <2>1
  <2>4. r.tree[t].leaf[n] = fs.tree[t].leaf[n]
    BY <1>2, <2>1, <2>2, <2>3
  <2>5. x \in (1 .. L) \X Name /\ IsLive(fs, t) /\ fs.tree[t].leaf[n] # <<>>
    BY <1>4, <2>1, <2>2, <2>4
  <2> QED
    BY <2>1, <2>5 DEF LeavesOf, t, n
<1>9. \A t \in 1 .. L, n \in Name :
        ~(t = at /\ n = e.name) => r.tree[t].leaf[n] = fs.tree[t].leaf[n]
  BY <1>2
<1> QED
  BY <1>2, <1>3, <1>4, <1>5, <1>6, <1>7, <1>8, <1>9 DEF LeavesAdded

\* The slots of a directory with an entry more, seen from the new ones.
LEMMA SlotsAddedFacts ==
  ASSUME NEW old, NEW new, NEW sp, NEW e, SlotsAdded(old, new, sp, e), Len(old) \in Nat,
         NEW k \in 1 .. Len(new), new[k].name # <<>> \/ new[k].active
  PROVE  IF k = sp THEN new[k] = e ELSE k \in 1 .. Len(old) /\ new[k] = old[k]
<1>1. new[k] = IF k = sp THEN e ELSE IF k <= Len(old) THEN old[k] ELSE Unused
  BY DEF SlotsAdded
<1>2. Unused.name = <<>> /\ Unused.active = FALSE
  BY DEF Unused
<1>3. CASE k = sp
  BY <1>1, <1>3
<1>4. CASE k # sp
  <2>1. k <= Len(old)
    <3> SUFFICES ASSUME ~(k <= Len(old)) PROVE FALSE
      OBVIOUS
    <3>1. new[k] = Unused
      BY <1>1, <1>4
    <3> QED
      BY <1>2, <3>1
  <2>2. k \in Nat /\ k >= 1
    <3>1. Len(new) \in Nat
      BY ConstantTypes DEF SlotsAdded
    <3> QED
      BY <3>1
  <2> QED
    BY <1>1, <1>4, <2>1, <2>2
<1> QED
  BY <1>3, <1>4

\* A named slot of r: the new entry, or one that was there.
SlotAdded(fs, r, i, sp, e, x, k) ==
  LET t == r.inode[x].slot[k]
  IN IF x = i /\ k = sp THEN t = e
     ELSE k \in 1 .. Len(fs.inode[x].slot) /\ t = fs.inode[x].slot[k]

LEMMA AddSlots ==
  ASSUME NEW fs, NEW g, NEW r, NEW i, NEW sp, NEW e, CanAdd(fs, g, r, i, sp, e),
         NEW x \in Inum, NEW k \in 1 .. Len(r.inode[x].slot),
         r.inode[x].slot[k].name # <<>> \/ r.inode[x].slot[k].active
  PROVE  SlotAdded(fs, r, i, sp, e, x, k)
<1>1. fs \in FsType /\ AddEffect(fs, r, i, sp, e)
  BY DEF CanAdd
<1>2. CASE x # i
  <2>1. r.inode[x].slot = fs.inode[x].slot
    BY <1>1, <1>2 DEF AddEffect
  <2> QED
    BY <1>2, <2>1 DEF SlotAdded
<1>3. CASE x = i
  <2>1. SlotsAdded(fs.inode[x].slot, r.inode[x].slot, sp, e) /\ Len(fs.inode[x].slot) \in Nat
    BY <1>1, <1>3, FsParts DEF AddEffect
  <2>2. IF k = sp THEN r.inode[x].slot[k] = e
        ELSE k \in 1 .. Len(fs.inode[x].slot) /\ r.inode[x].slot[k] = fs.inode[x].slot[k]
    BY <2>1, SlotsAddedFacts
  <2> QED
    BY <1>3, <2>2 DEF SlotAdded
<1> QED
  BY <1>2, <1>3

LEMMA AddAgree ==
  ASSUME NEW fs, NEW g, NEW r, NEW i, NEW sp, NEW e, NEW at, NEW kind, NEW o,
         CanEnter(fs, g, r, i, sp, e, at, kind, o), Agree(fs, o)
  PROVE  Agree(r, o)
<1>1. /\ fs \in FsType /\ TreesOK(fs, g) /\ g \in Inum /\ e.name \in Name
      /\ CanAdd(fs, g, r, i, sp, e) /\ AddEffect(fs, r, i, sp, e)
      /\ at \in 1 .. Len(fs.tree) /\ i = fs.tree[at].inum
      /\ fs.inode[e.inum].kind = kind /\ e.inum \in Inum /\ e.active /\ e.name # <<>>
      /\ Len(fs.tree) \in Nat
  <2>1. e.inum \in 1 .. g /\ g \in Nat /\ g <= LastInode /\ LastInode \in Nat
    BY ConstantTypes DEF CanEnter, CanAdd, Inum
  <2>2. e.inum \in Inum
    BY <2>1 DEF Inum
  <2> QED
    BY <2>2, FsParts, DirectoryConstants DEF CanEnter, CanAdd
<1>2. LeavesSingle(fs, o) /\ TreesApart(fs) /\ LeavesLive(fs, o) /\ LeavesOwn(fs, o)
      /\ EntriesIndexed(fs, o) /\ EntriesApart(fs, o)
  BY DEF Agree
<1>3. LeavesAdded(fs, r, e, at, kind, o)
  BY AddLeaves
<1>4. /\ Looked(o, at) => fs.tree[at].leaf[e.name] = <<>>
      /\ kind = "dir" => /\ fs.inode[e.inum].slot = <<>> /\ e.inum # i
                         /\ \A t \in 1 .. Len(fs.tree) : fs.tree[t].inum # e.inum
      /\ r.inode[e.inum].refs = 1 =>
           /\ \A x \in LeavesOf(fs, o) : LeadsTo(fs, LeafAt(fs, x)) # e.inum
           /\ \A x \in Inum : \A k \in 1 .. Len(fs.inode[x].slot) :
                fs.inode[x].slot[k].inum # e.inum
  BY DEF CanEnter, CanAdd
<1>5. \A t \in 1 .. Len(fs.tree) : fs.tree[t].inum \in Inum
  BY <1>1, FsParts DEF TreeType
<1>6. \A t \in 1 .. Len(r.tree) :
        t \in 1 .. Len(fs.tree) \/ (kind = "dir" /\ r.tree[t] = NewTree(e.inum))
  BY <1>3 DEF LeavesAdded
<1>7. \A t \in 1 .. Len(fs.tree) : t \in 1 .. Len(r.tree) /\ r.tree[t].inum = fs.tree[t].inum
  BY <1>3 DEF LeavesAdded
<1>8. \A t \in 1 .. Len(fs.tree), n \in Name :
        ~(t = at /\ n = e.name) => r.tree[t].leaf[n] = fs.tree[t].leaf[n]
  BY <1>3 DEF LeavesAdded
<1>9. \A x \in LeavesOf(r, o) :
        x = <<at, e.name>> \/ (x \in LeavesOf(fs, o) /\ x # <<at, e.name>>)
  BY <1>3 DEF LeavesAdded
<1>10. \A x \in LeavesOf(fs, o) : x # <<at, e.name>> =>
         /\ x[1] \in 1 .. Len(fs.tree) /\ LeafAt(r, x) = LeafAt(fs, x)
         /\ LeadsTo(r, LeafAt(r, x)) = LeadsTo(fs, LeafAt(fs, x))
  <2> SUFFICES ASSUME NEW x \in LeavesOf(fs, o), x # <<at, e.name>>
               PROVE  /\ x[1] \in 1 .. Len(fs.tree) /\ LeafAt(r, x) = LeafAt(fs, x)
                      /\ LeadsTo(r, LeafAt(r, x)) = LeadsTo(fs, LeafAt(fs, x))
    OBVIOUS
  <2> DEFINE t == x[1]
             n == x[2]
  <2>1. t \in 1 .. Len(fs.tree) /\ n \in Name /\ x = <<t, n>> /\ fs.tree[t].leaf[n] # <<>>
    BY <1>1, LeavesOfFacts
  <2> HIDE DEF t, n
  <2>2. ~(t = at /\ n = e.name)
    BY <2>1
  <2>3. /\ LeafAt(r, <<t, n>>) = LeafAt(fs, <<t, n>>)
        /\ LeadsTo(r, LeafAt(r, <<t, n>>)) = LeadsTo(fs, LeafAt(fs, <<t, n>>))
    BY <1>3, <2>1, <2>2 DEF LeavesAdded
  <2> QED
    BY <2>1, <2>3 DEF t
<1>11. \A x \in LeavesOf(r, o) : x = <<at, e.name>> =>
         /\ Looked(o, at) /\ LeafAt(r, x).kind = kind /\ LeadsTo(r, LeafAt(r, x)) = e.inum
  <2> SUFFICES ASSUME <<at, e.name>> \in LeavesOf(r, o)
               PROVE  /\ Looked(o, at) /\ LeafAt(r, <<at, e.name>>).kind = kind
                      /\ LeadsTo(r, LeafAt(r, <<at, e.name>>)) = e.inum
    OBVIOUS
  <2>1. Looked(o, at)
    BY DEF LeavesOf
  <2> QED
    BY <1>3, <2>1 DEF LeavesAdded
<1>12. \A x \in Inum : r.inode[x].kind = fs.inode[x].kind
                       /\ (x # e.inum => r.inode[x].refs = fs.inode[x].refs)
  BY <1>1 DEF AddEffect
<1>13. LeavesSingle(r, o)
  <2> SUFFICES ASSUME NEW t \in 1 .. Len(r.tree), NEW n \in Name, Looked(o, t)
               PROVE  Len(r.tree[t].leaf[n]) <= 1
    BY DEF LeavesSingle
  <2>1. CASE t \notin 1 .. Len(fs.tree)
    <3>1. r.tree[t].leaf[n] = <<>>
      BY <1>6, <2>1 DEF NewTree
    <3> QED
      BY <3>1, EmptySeq
  <2>2. CASE t = at /\ n = e.name
    <3>1. Looked(o, at) => Len(r.tree[at].leaf[e.name]) = 1
      BY <1>3 DEF LeavesAdded
    <3>2. Looked(o, at)
      BY <2>2
    <3>3. Len(r.tree[t].leaf[n]) = 1
      BY <2>2, <3>1, <3>2
    <3> HIDE <2>2
    <3> QED
      BY <3>3
  <2>3. CASE t \in 1 .. Len(fs.tree) /\ ~(t = at /\ n = e.name)
    BY <1>2, <1>8, <2>3 DEF LeavesSingle
  <2> QED
    BY <1>1, <2>1, <2>2, <2>3
<1>14. TreesApart(r)
  <2> SUFFICES ASSUME NEW t \in 1 .. Len(r.tree), NEW u \in 1 .. Len(r.tree),
                      r.tree[t].inum = r.tree[u].inum
               PROVE  t = u
    BY DEF TreesApart
  <2>1. NewTree(e.inum).inum = e.inum
    BY DEF NewTree
  <2>2. CASE t \in 1 .. Len(fs.tree) /\ u \in 1 .. Len(fs.tree)
    BY <1>2, <1>7, <2>2 DEF TreesApart
  <2>3. CASE t \in 1 .. Len(fs.tree) /\ u \notin 1 .. Len(fs.tree)
    BY <1>4, <1>6, <1>7, <2>1, <2>3
  <2>4. CASE t \notin 1 .. Len(fs.tree) /\ u \in 1 .. Len(fs.tree)
    BY <1>4, <1>6, <1>7, <2>1, <2>4
  <2>5. CASE t \notin 1 .. Len(fs.tree) /\ u \notin 1 .. Len(fs.tree)
    <3>1. Len(r.tree) = Len(fs.tree) \/ Len(r.tree) = Len(fs.tree) + 1
      BY DEF CanEnter, TreesIndexed
    <3> QED
      BY <1>1, <2>5, <3>1
  <2> QED
    BY <2>2, <2>3, <2>4, <2>5
<1>15. LeavesLive(r, o)
  <2> SUFFICES ASSUME NEW x \in LeavesOf(r, o)
               PROVE  r.inode[LeadsTo(r, LeafAt(r, x))].kind = LeafAt(r, x).kind
    BY DEF LeavesLive
  <2>1. CASE x = <<at, e.name>>
    BY <1>1, <1>11, <1>12, <2>1
  <2>2. CASE x \in LeavesOf(fs, o) /\ x # <<at, e.name>>
    <3>1. /\ LeafAt(r, x) = LeafAt(fs, x)
          /\ LeadsTo(r, LeafAt(r, x)) = LeadsTo(fs, LeafAt(fs, x))
      BY <1>10, <2>2
    <3>2. fs.inode[LeadsTo(fs, LeafAt(fs, x))].kind = LeafAt(fs, x).kind
          /\ LeadsTo(fs, LeafAt(fs, x)) \in Inum
      BY <1>1, <1>2, <2>2, LeavesOfFacts DEF LeavesLive
    <3> QED
      BY <1>12, <3>1, <3>2
  <2> QED
    BY <1>9, <2>1, <2>2
<1>16. LeavesOwn(r, o)
  <2> SUFFICES ASSUME NEW x \in LeavesOf(r, o), NEW y \in Inum,
                      NEW k \in 1 .. Len(r.inode[y].slot),
                      r.inode[y].slot[k].name # <<>>,
                      r.inode[y].slot[k].inum = LeadsTo(r, LeafAt(r, x)),
                      r.inode[r.inode[y].slot[k].inum].refs = 1
               PROVE  y = r.tree[x[1]].inum /\ r.inode[y].slot[k].name = x[2]
    BY DEF LeavesOwn
  <2> DEFINE s == fs.inode[y].slot[k]
             t == r.inode[y].slot[k]
  <2>1. SlotAdded(fs, r, i, sp, e, y, k)
    BY <1>1, AddSlots
  <2>2. CASE y = i /\ k = sp
    <3>1. t = e
      BY <2>1, <2>2 DEF SlotAdded
    <3>2. x = <<at, e.name>>
      <4> SUFFICES ASSUME x \in LeavesOf(fs, o), x # <<at, e.name>> PROVE FALSE
        BY <1>9
      <4>1. LeadsTo(r, LeafAt(r, x)) = LeadsTo(fs, LeafAt(fs, x))
        BY <1>10
      <4> HIDE DEF t
      <4>2. LeadsTo(fs, LeafAt(fs, x)) = e.inum /\ r.inode[e.inum].refs = 1
        BY <3>1, <4>1 DEF t
      <4> QED
        BY <1>4, <4>2
    <3>3. x[1] = at /\ x[2] = e.name
      BY <3>2
    <3> QED
      BY <1>1, <1>7, <2>2, <3>1, <3>3
  <2>3. CASE ~(y = i /\ k = sp)
    <3>1. k \in 1 .. Len(fs.inode[y].slot) /\ t = s
      BY <2>1, <2>3 DEF SlotAdded
    <3>2. s.inum # e.inum
      <4> SUFFICES ASSUME s.inum = e.inum PROVE FALSE
        OBVIOUS
      <4>1. r.inode[e.inum].refs = 1
        BY <3>1
      <4> QED
        BY <1>4, <3>1, <4>1
    <3>3. x \in LeavesOf(fs, o) /\ x # <<at, e.name>>
      <4> SUFFICES ASSUME x = <<at, e.name>> PROVE FALSE
        BY <1>9
      <4>1. LeadsTo(r, LeafAt(r, x)) = e.inum
        BY <1>11
      <4> QED
        BY <3>1, <3>2, <4>1
    <3>4. LeadsTo(r, LeafAt(r, x)) = LeadsTo(fs, LeafAt(fs, x)) /\ x[1] \in 1 .. Len(fs.tree)
      BY <1>10, <3>3
    <3>5. s.inum \in Inum
      <4>1. LeadsTo(fs, LeafAt(fs, x)) \in Inum
        BY <1>1, <3>3, LeavesOfFacts
      <4> QED
        BY <3>1, <3>4, <4>1
    <3>6. fs.inode[s.inum].refs = 1
      BY <1>12, <3>1, <3>2, <3>5
    <3>7. s.name # <<>> /\ s.inum = LeadsTo(fs, LeafAt(fs, x))
      BY <3>1, <3>4
    <3> HIDE DEF s, t
    <3>8. y = fs.tree[x[1]].inum /\ s.name = x[2]
      BY <1>2, <3>1, <3>3, <3>6, <3>7 DEF LeavesOwn, s
    <3> QED
      BY <1>7, <3>1, <3>4, <3>8 DEF t
  <2> QED
    BY <2>2, <2>3
<1>17. ASSUME NEW t \in 1 .. Len(r.tree), Looked(o, t),
              NEW k \in 1 .. Len(SlotsOf(r, t)), SlotsOf(r, t)[k].active
       PROVE  \/ t = at /\ k = sp /\ SlotsOf(r, t)[k] = e
              \/ /\ t \in 1 .. Len(fs.tree) /\ k \in 1 .. Len(SlotsOf(fs, t))
                 /\ SlotsOf(r, t)[k] = SlotsOf(fs, t)[k] /\ SlotsOf(fs, t)[k].active
                 /\ SlotsOf(fs, t)[k].name \in Name
                 /\ fs.tree[t].leaf[SlotsOf(fs, t)[k].name] # <<>>
                 /\ ~(t = at /\ SlotsOf(fs, t)[k].name = e.name)
  <2>1. t \in 1 .. Len(fs.tree)
    <3> SUFFICES ASSUME t \notin 1 .. Len(fs.tree) PROVE FALSE
      OBVIOUS
    <3>1. kind = "dir" /\ r.tree[t].inum = e.inum
      BY <1>6 DEF NewTree
    <3>2. r.inode[e.inum].slot = fs.inode[e.inum].slot
      BY <1>1, <1>4, <3>1 DEF AddEffect
    <3>3. SlotsOf(r, t) = <<>>
      BY <1>4, <3>1, <3>2 DEF SlotsOf
    <3> QED
      BY <3>3, EmptySeq
  <2> DEFINE y == fs.tree[t].inum
             s == fs.inode[y].slot[k]
  <2>2. /\ y \in Inum /\ SlotsOf(r, t) = r.inode[y].slot /\ SlotsOf(fs, t) = fs.inode[y].slot
    BY <1>5, <1>7, <2>1 DEF SlotsOf
  <2>3. k \in 1 .. Len(r.inode[y].slot) /\ r.inode[y].slot[k].active
    BY <1>17, <2>2
  <2> HIDE DEF y
  <2>4. SlotAdded(fs, r, i, sp, e, y, k)
    BY <1>1, <2>2, <2>3, AddSlots
  <2>5. CASE y = i /\ k = sp
    <3>1. t = at
      BY <1>1, <1>2, <2>1, <2>5 DEF TreesApart, y
    <3> QED
      BY <2>2, <2>4, <2>5, <3>1 DEF SlotAdded
  <2>6. CASE ~(y = i /\ k = sp)
    <3>1. k \in 1 .. Len(fs.inode[y].slot) /\ r.inode[y].slot[k] = s /\ s.active
      BY <2>3, <2>4, <2>6 DEF SlotAdded
    <3>2. k \in 1 .. Len(SlotsOf(fs, t)) /\ SlotsOf(fs, t)[k] = s
      BY <2>2, <3>1
    <3>3. s.name \in Name
      <4>1. SlotsOK(fs, g) /\ fs \in FsType
        BY DEF CanEnter, CanAdd
      <4>2. s \in SlotType /\ SlotOK(fs, g, y, s)
        BY <2>2, <3>1, <4>1, FsParts, ElementOfSeq DEF SlotsOK
      <4> HIDE DEF s
      <4> QED
        BY <3>1, <4>2 DEF SlotOK, SlotType
    <3>4. fs.tree[t].leaf[s.name] # <<>>
      BY <1>2, <1>17, <2>1, <3>1, <3>2 DEF EntriesIndexed
    <3>5. ~(t = at /\ s.name = e.name)
      BY <1>4, <1>17, <3>4
    <3> HIDE DEF s
    <3> QED
      BY <2>1, <2>2, <3>1, <3>2, <3>3, <3>4, <3>5
  <2> QED
    BY <2>5, <2>6
<1>18. EntriesIndexed(r, o)
  <2> SUFFICES ASSUME NEW t \in 1 .. Len(r.tree), Looked(o, t),
                      NEW k \in 1 .. Len(SlotsOf(r, t)), SlotsOf(r, t)[k].active
               PROVE  /\ r.tree[t].leaf[SlotsOf(r, t)[k].name] # <<>>
                      /\ LeadsTo(r, LeafAt(r, <<t, SlotsOf(r, t)[k].name>>))
                           = SlotsOf(r, t)[k].inum
    BY DEF EntriesIndexed
  <2>1. CASE t = at /\ k = sp /\ SlotsOf(r, t)[k] = e
    BY <1>3, <2>1 DEF LeavesAdded
  <2> DEFINE s == SlotsOf(fs, t)[k]
  <2>2. CASE /\ t \in 1 .. Len(fs.tree) /\ k \in 1 .. Len(SlotsOf(fs, t))
             /\ SlotsOf(r, t)[k] = s /\ s.active /\ s.name \in Name
             /\ fs.tree[t].leaf[s.name] # <<>> /\ ~(t = at /\ s.name = e.name)
    <3>1. LeadsTo(fs, LeafAt(fs, <<t, s.name>>)) = s.inum
      BY <1>2, <2>2 DEF EntriesIndexed
    <3> HIDE DEF s
    <3>2. LeadsTo(r, LeafAt(r, <<t, s.name>>)) = LeadsTo(fs, LeafAt(fs, <<t, s.name>>))
      BY <1>3, <2>2 DEF LeavesAdded
    <3>3. r.tree[t].leaf[s.name] = fs.tree[t].leaf[s.name]
      BY <1>8, <2>2
    <3> QED
      BY <2>2, <3>1, <3>2, <3>3
  <2> QED
    BY <1>17, <2>1, <2>2
<1>19. EntriesApart(r, o)
  <2> SUFFICES ASSUME NEW t \in 1 .. Len(r.tree), Looked(o, t),
                      NEW k \in 1 .. Len(SlotsOf(r, t)), NEW m \in 1 .. Len(SlotsOf(r, t)),
                      SlotsOf(r, t)[k].active, SlotsOf(r, t)[m].active,
                      SlotsOf(r, t)[k].name = SlotsOf(r, t)[m].name
               PROVE  k = m
    BY DEF EntriesApart
  <2> DEFINE New(j) == t = at /\ j = sp /\ SlotsOf(r, t)[j] = e
             Old(j) == /\ t \in 1 .. Len(fs.tree) /\ j \in 1 .. Len(SlotsOf(fs, t))
                       /\ SlotsOf(r, t)[j] = SlotsOf(fs, t)[j] /\ SlotsOf(fs, t)[j].active
                       /\ ~(t = at /\ SlotsOf(r, t)[j].name = e.name)
  <2>1. New(k) \/ Old(k)
    BY <1>17
  <2>2. New(m) \/ Old(m)
    BY <1>17
  <2>3. CASE Old(k) /\ Old(m)
    BY <1>2, <2>3 DEF EntriesApart
  <2>4. CASE New(k) /\ New(m)
    BY <2>4
  <2>5. CASE New(k) /\ Old(m)
    BY <2>5
  <2>6. CASE Old(k) /\ New(m)
    BY <2>6
  <2> HIDE DEF New, Old
  <2> QED
    BY <2>1, <2>2, <2>3, <2>4, <2>5, <2>6
<1> QED
  BY <1>13, <1>14, <1>15, <1>16, <1>18, <1>19 DEF Agree

-----------------------------------------------------------------------------
(***************************************************************************)
(* A walk meets the directories that are there.                            *)
(***************************************************************************)
\* Nowhere, in a directory, or at a file.
Stands(fs, w) == \/ w = NotFound
                 \/ w.tree # 0 /\ fs.inode[w.inum].kind = "dir"
                 \/ w.tree = 0 /\ fs.inode[w.inum].kind = "file"

LEMMA DescendStands ==
  ASSUME NEW fs, NEW g, NEW o, NEW w, NEW n \in Name, g \in Inum, fs \in FsType,
         TreesOK(fs, g), LeavesLive(fs, o), At(fs, g, w), Stands(fs, w),
         w.tree # 0 => Looked(o, w.tree)
  PROVE  Stands(fs, Descend(fs, w, n))
<1> DEFINE leaves == IF w.tree = 0 THEN <<>> ELSE fs.tree[w.tree].leaf[n]
           l == Head(leaves)
           x == <<w.tree, n>>
<1>1. CASE leaves = <<>>
  <2>1. Descend(fs, w, n) = NotFound
    BY <1>1 DEF Descend
  <2> QED
    BY <2>1 DEF Stands
<1>2. CASE leaves # <<>>
  <2>1. /\ w.tree # 0 /\ w.tree \in 1 .. Len(fs.tree) /\ leaves = fs.tree[w.tree].leaf[n]
        /\ w.inum = fs.tree[w.tree].inum
    <3>1. w.tree # 0 /\ Len(fs.tree) \in Nat
      BY <1>2, FsParts
    <3> QED
      BY <3>1 DEF At
  <2>2. w # NotFound
    BY <2>1 DEF NotFound
  <2>3. IsLive(fs, w.tree) /\ Looked(o, w.tree)
    BY <2>1, <2>2 DEF Stands, IsLive
  <2>4. x \in LeavesOf(fs, o) /\ LeafAt(fs, x) = l
    BY <1>2, <2>1, <2>3 DEF LeavesOf, LeafAt
  <2>5. /\ fs.inode[LeadsTo(fs, l)].kind = l.kind /\ l \in LeafType /\ LeafOK(fs, l, g)
    BY <2>4, LeavesOfFacts DEF LeavesLive
  <2>6. CASE l.kind = "dir"
    <3> DEFINE v == l.val
               i == fs.tree[v].inum
    <3>1. Descend(fs, w, n) = [inum |-> i, tree |-> v]
      BY <1>2, <2>6 DEF Descend
    <3>2. fs.inode[i].kind = "dir"
      <4>1. LeadsTo(fs, l) = i
        BY <2>6 DEF LeadsTo
      <4> HIDE DEF l, i, v
      <4> QED
        BY <2>5, <2>6, <4>1
    <3>3. v # 0
      <4>1. v \in 2 .. Len(fs.tree) /\ Len(fs.tree) \in Nat
        BY <2>5, <2>6, FsParts DEF LeafOK
      <4> HIDE DEF v
      <4> QED
        BY <4>1
    <3> HIDE DEF v, i
    <3> QED
      BY <3>1, <3>2, <3>3 DEF Stands
  <2>7. CASE l.kind # "dir"
    <3> DEFINE v == l.val
    <3>1. Descend(fs, w, n) = [inum |-> v, tree |-> 0]
      BY <1>2, <2>7 DEF Descend
    <3>2. fs.inode[v].kind = "file"
      BY <2>5, <2>7, Zenon DEF LeadsTo, LeafType
    <3> HIDE DEF v
    <3> QED
      BY <3>1, <3>2 DEF Stands
  <2> QED
    BY <2>6, <2>7
<1> QED
  BY <1>1, <1>2

LEMMA WalkStands ==
  ASSUME NEW fs, NEW g, NEW o, g \in Inum, fs \in FsType, InodesOK(fs, g),
         TreesOK(fs, g), LeavesLive(fs, o)
  PROVE  \A p \in Seq(Name) : o \/ Len(p) <= 1 => Stands(fs, Walked(fs, p))
<1> DEFINE Good(p) == o \/ Len(p) <= 1 => Stands(fs, Walked(fs, p))
           Bad == {k \in Nat : \E p \in Seq(Name) : Len(p) = k /\ ~Good(p)}
<1>0. RootAt.tree = 1 /\ Stands(fs, RootAt)
  BY DEF RootAt, Stands, InodesOK
<1>1. Bad = {}
  <2> SUFFICES ASSUME Bad # {} PROVE FALSE
    OBVIOUS
  <2>1. PICK k \in Bad : \A m \in Bad : k <= m
    BY LeastNumber
  <2>2. PICK p \in Seq(Name) : Len(p) = k /\ ~Good(p)
    BY <2>1
  <2>3. p # <<>>
    BY <1>0, <2>2, WalkedRoot
  <2> DEFINE q == Front(p)
  <2>4. q \in Seq(Name) /\ Len(q) = k - 1 /\ Last(p) \in Name /\ k \in Nat /\ k >= 1
    BY <2>2, <2>3, FrontFacts
  <2>5. k - 1 \in Nat /\ ~(k <= k - 1)
    BY <2>4
  <2>6. k - 1 \notin Bad
    BY <2>1, <2>5
  <2>7. Good(q)
    BY <2>4, <2>5, <2>6
  <2>8. o \/ k = 1
    BY <2>2, <2>4
  <2>9. Stands(fs, Walked(fs, q))
    BY <2>4, <2>7, <2>8
  <2>10. Looked(o, Walked(fs, q).tree)
    <3>1. CASE o
      BY <3>1 DEF Looked
    <3>2. CASE k = 1
      <4>1. q = <<>>
        BY <2>4, <3>2, EmptySeq
      <4> QED
        BY <1>0, <4>1, WalkedRoot DEF Looked
    <3> QED
      BY <2>8, <3>1, <3>2
  <2>11. At(fs, g, Walked(fs, q))
    BY <2>4, WalkType
  <2>12. \/ Walked(fs, p) = Descend(fs, Walked(fs, q), Last(p))
         \/ Walked(fs, p) = Walked(fs, q)
    BY <2>3, WalkedEither
  <2> HIDE DEF q
  <2>13. Stands(fs, Walked(fs, p))
    BY <2>4, <2>9, <2>10, <2>11, <2>12, DescendStands
  <2> QED
    BY <2>2, <2>13
<1> HIDE DEF Good
<1> SUFFICES \A p \in Seq(Name) : Good(p)
  BY DEF Good
<1> QED
  BY <1>1, LenProperties

LEMMA SearchStands ==
  ASSUME NEW fs, NEW g, g \in Inum, fs \in FsType, InodesOK(fs, g),
         TreesOK(fs, g), LeavesLive(fs, overlap)
  PROVE  \A p \in Seq(Name) : Stands(fs, item_search(fs, p))
<1> TAKE p \in Seq(Name)
<1>1. Stands(fs, NotFound)
  BY DEF Stands
<1>2. Len(p) \in Nat
  BY LenProperties
<1>3. overlap \/ Len(p) <= 1 => Stands(fs, Walked(fs, p))
  BY WalkStands
<1> QED
  BY <1>1, <1>2, <1>3, SearchIs

\* In a directory a walk looks at, a name that is not found has no leaf.
LEMMA NoLeaf ==
  ASSUME NEW fs, NEW g, g \in Inum, fs \in FsType, TreesOK(fs, g),
         NEW p \in Seq(Name), p # <<>>, item_search(fs, p) = NotFound,
         NEW d, d = item_search(fs, Front(p)), d.tree # 0, Looked(overlap, d.tree)
  PROVE  fs.tree[d.tree].leaf[Last(p)] = <<>>
<1> DEFINE n == Last(p)
           leaves == fs.tree[d.tree].leaf[n]
           l == Head(leaves)
<1> SUFFICES ASSUME leaves # <<>> PROVE FALSE
  OBVIOUS
<1>1. At(fs, g, d) /\ n \in Name /\ Front(p) \in Seq(Name) /\ Len(Front(p)) = Len(p) - 1
      /\ Len(p) \in Nat \ {0}
  BY SearchType, FrontFacts, EmptySeq
<1>2. d.tree \in 1 .. Len(fs.tree)
  <2>1. Len(fs.tree) \in Nat
    BY FsParts
  <2> QED
    BY <1>1, <2>1 DEF At
<1> HIDE DEF n
<1>3. LeafOK(fs, l, g) /\ l \in LeafType
  <2>1. l = LeafAt(fs, <<d.tree, n>>)
    BY DEF LeafAt
  <2> HIDE DEF l
  <2> QED
    BY <1>1, <1>2, <2>1, LeafFacts
<1>4. Descend(fs, d, n) # NotFound
  <2>1. CASE l.kind = "dir"
    <3> DEFINE v == l.val
    <3>1. Descend(fs, d, n) = [inum |-> fs.tree[v].inum, tree |-> v]
      BY <2>1 DEF Descend
    <3>2. v \in 2 .. Len(fs.tree)
      BY <1>3, <2>1 DEF LeafOK
    <3>3. v # 0
      BY <3>2
    <3> HIDE DEF v
    <3>4. Descend(fs, d, n).tree = v
      BY <3>1
    <3> QED
      BY <3>3, <3>4 DEF NotFound
  <2>2. CASE l.kind # "dir"
    <3> DEFINE v == l.val
    <3>1. Descend(fs, d, n) = [inum |-> v, tree |-> 0]
      BY <2>2 DEF Descend
    <3>2. v \in 1 .. g
      BY <1>3, <2>2 DEF LeafOK, LeafType
    <3>3. v # 0
      BY <3>2
    <3> HIDE DEF v
    <3>4. Descend(fs, d, n).inum = v
      BY <3>1
    <3> QED
      BY <3>3, <3>4 DEF NotFound
  <2> QED
    BY <2>1, <2>2
<1>5. overlap \/ Len(p) <= 1
  <2> SUFFICES ASSUME ~overlap, Len(p) > 1 PROVE FALSE
    BY <1>1
  <2> DEFINE q == Front(p)
  <2>1. d.tree = 1 /\ d # NotFound
    BY DEF Looked, NotFound
  <2>2. q \in Seq(Name) /\ q # <<>> /\ ~(Len(q) > 1)
    <3>1. ~(Len(q) > 1)
      BY <2>1, SearchIs
    <3> QED
      BY <1>1, <3>1, EmptySeq
  <2>4. Walked(fs, Front(q)) = RootAt /\ Last(q) \in Name
    <3>1. Front(q) \in Seq(Name) /\ Len(Front(q)) = Len(q) - 1 /\ Len(q) \in Nat \ {0}
          /\ Last(q) \in Name
      BY <2>2, FrontFacts, EmptySeq
    <3>2. Front(q) = <<>>
      BY <2>2, <3>1, EmptySeq
    <3> QED
      BY <3>1, <3>2, WalkedRoot
  <2>3. d = Descend(fs, Walked(fs, Front(q)), Last(q))
    BY <2>2, <2>4, SearchIs, WalkedDown DEF RootAt
  <2> DEFINE m == Last(q)
             lv == fs.tree[1].leaf[m]
             h == Head(lv)
  <2>5. lv # <<>>
    <3> SUFFICES ASSUME lv = <<>> PROVE FALSE
      OBVIOUS
    <3>1. Descend(fs, RootAt, m) = NotFound
      BY DEF Descend, RootAt
    <3> QED
      BY <2>1, <2>3, <2>4, <3>1
  <2>6. LeafOK(fs, h, g)
    <3>1. h = LeafAt(fs, <<1, m>>) /\ 1 \in 1 .. Len(fs.tree)
      BY <1>2, <2>1 DEF LeafAt
    <3> HIDE DEF h, m
    <3> QED
      BY <2>4, <2>5, <3>1, LeafFacts DEF m
  <2>7. CASE h.kind = "dir"
    <3> DEFINE v == h.val
    <3>1. Descend(fs, RootAt, m) = [inum |-> fs.tree[v].inum, tree |-> v]
      BY <2>5, <2>7 DEF Descend, RootAt
    <3>2. v \in 2 .. Len(fs.tree)
      BY <2>6, <2>7 DEF LeafOK
    <3>3. v # 1
      BY <3>2
    <3> HIDE DEF v
    <3>4. Descend(fs, RootAt, m).tree = v
      BY <3>1
    <3> HIDE DEF m, h, lv
    <3> QED
      BY <2>1, <2>3, <2>4, <3>3, <3>4 DEF m
  <2>8. CASE h.kind # "dir"
    <3>1. Descend(fs, RootAt, m) = [inum |-> h.val, tree |-> 0]
      BY <2>5, <2>8 DEF Descend, RootAt
    <3>2. Descend(fs, RootAt, m).tree = 0
      BY <3>1
    <3> HIDE DEF m, h, lv
    <3> QED
      BY <2>1, <2>3, <2>4, <3>2 DEF m
  <2> QED
    BY <2>7, <2>8
<1>6. item_search(fs, p) = Descend(fs, d, n)
  <2>1. ~(Len(p) > 1 /\ ~overlap) /\ ~(Len(Front(p)) > 1 /\ ~overlap)
    BY <1>1, <1>5
  <2> QED
    BY <2>1, SearchIs, WalkedDown DEF n
<1> QED
  BY <1>4, <1>6

-----------------------------------------------------------------------------
(***************************************************************************)
(* The calls keep index and entries in step.                               *)
(***************************************************************************)
\* A new inode has no tree: the directories that have one are as they were.
SameIndexed(fs, a, o) ==
  /\ \A t \in 1 .. Len(fs.tree) :
       SlotsOf(a, t) = SlotsOf(fs, t) /\ (IsLive(a, t) <=> IsLive(fs, t))
  /\ LeavesOf(a, o) = LeavesOf(fs, o)

LEMMA AllocSame ==
  ASSUME NEW fs, NEW a, NEW g, NEW k, NEW o, IsAllocated(fs, a, g, k),
         fs \in FsType, TreesOK(fs, g), g \in Inum
  PROVE  SameIndexed(fs, a, o)
<1>1. /\ g \in Nat /\ a.tree = fs.tree
      /\ \A x \in Inum : a.inode[x] = IF x = g + 1 THEN NewInode(k) ELSE fs.inode[x]
  BY ConstantTypes DEF IsAllocated
<1>4. ASSUME NEW t \in 1 .. Len(fs.tree)
      PROVE  fs.tree[t].inum \in Inum /\ fs.tree[t].inum # g + 1
  <2>1. fs.tree[t].inum \in 0 .. g
    <3>1. CASE t = 1
      BY <1>1, <3>1 DEF TreesOK
    <3>2. CASE t # 1
      <4>1. t \in 2 .. Len(fs.tree)
        BY <1>1, <3>2, FsParts
      <4>2. fs.tree[t].inum \in 1 .. g
        BY <1>1, <4>1 DEF TreesOK
      <4> QED
        BY <4>2
    <3> QED
      BY <3>1, <3>2
  <2>2. fs.tree[t].inum \in Inum
    BY <1>1, FsParts DEF TreeType
  <2> QED
    BY <1>1, <2>1, <2>2
<1>5. ASSUME NEW t \in 1 .. Len(fs.tree)
      PROVE  SlotsOf(a, t) = SlotsOf(fs, t) /\ (IsLive(a, t) <=> IsLive(fs, t))
  BY <1>1, <1>4 DEF SlotsOf, IsLive
<1>6. LeavesOf(a, o) = LeavesOf(fs, o)
  BY <1>1, <1>5 DEF LeavesOf
<1> QED
  BY <1>5, <1>6 DEF SameIndexed

LEMMA AllocAgree ==
  ASSUME NEW fs, NEW a, NEW g, NEW k \in {"dir", "file"}, NEW o, IsAllocated(fs, a, g, k),
         Base(fs, g), g \in Inum, g + 1 \in Inum, Agree(fs, o)
  PROVE  /\ Agree(a, o) /\ TreesOK(a, g)
         /\ \A x \in LeavesOf(a, o) : LeadsTo(a, LeafAt(a, x)) \in 1 .. g
<1>1. /\ fs \in FsType /\ InodesOK(fs, g) /\ TreesOK(fs, g) /\ g \in Nat
      /\ a \in FsType /\ a.tree = fs.tree
      /\ \A x \in Inum : a.inode[x] = IF x = g + 1 THEN NewInode(k) ELSE fs.inode[x]
  BY ConstantTypes DEF Base, IsAllocated
<1>2. LeavesSingle(fs, o) /\ TreesApart(fs) /\ LeavesLive(fs, o) /\ LeavesOwn(fs, o)
      /\ EntriesIndexed(fs, o) /\ EntriesApart(fs, o)
  BY DEF Agree
<1>3. NewInode(k).kind = k /\ NewInode(k).slot = <<>> /\ Len(<<>>) = 0
  BY NewInodeIs, EmptySeq
<1>5. /\ \A t \in 1 .. Len(fs.tree) :
           SlotsOf(a, t) = SlotsOf(fs, t) /\ (IsLive(a, t) <=> IsLive(fs, t))
      /\ LeavesOf(a, o) = LeavesOf(fs, o)
  <2>1. SameIndexed(fs, a, o)
    BY <1>1, AllocSame
  <2> QED
    BY <2>1 DEF SameIndexed
<1>6. \A l : LeadsTo(a, l) = LeadsTo(fs, l)
  BY <1>1 DEF LeadsTo
<1>7. \A x : LeafAt(a, x) = LeafAt(fs, x)
  BY <1>1 DEF LeafAt
<1>8. LeavesOf(a, o) = LeavesOf(fs, o)
  BY <1>5
<1>9. TreesOK(a, g)
  BY <1>1 DEF TreesOK, LeafOK
<1>10. \A x \in LeavesOf(fs, o) :
         LeadsTo(fs, LeafAt(fs, x)) \in 1 .. g /\ LeadsTo(fs, LeafAt(fs, x)) \in Inum
  BY <1>1, LeavesOfFacts
<1>11. \A x \in LeavesOf(fs, o) : LeadsTo(fs, LeafAt(fs, x)) # g + 1
  BY <1>1, <1>10
<1>12. LeavesSingle(a, o) /\ TreesApart(a)
  BY <1>1, <1>2 DEF LeavesSingle, TreesApart
<1>13. LeavesLive(a, o)
  <2> SUFFICES ASSUME NEW x \in LeavesOf(fs, o)
               PROVE  a.inode[LeadsTo(fs, LeafAt(fs, x))].kind = LeafAt(fs, x).kind
    BY <1>6, <1>7, <1>8 DEF LeavesLive
  <2>1. fs.inode[LeadsTo(fs, LeafAt(fs, x))].kind = LeafAt(fs, x).kind
    BY <1>2 DEF LeavesLive
  <2> QED
    BY <1>1, <1>10, <1>11, <2>1
<1>14. LeavesOwn(a, o)
  <2> SUFFICES ASSUME NEW x \in LeavesOf(fs, o), NEW y \in Inum,
                      NEW j \in 1 .. Len(a.inode[y].slot),
                      a.inode[y].slot[j].name # <<>>,
                      a.inode[y].slot[j].inum = LeadsTo(fs, LeafAt(fs, x)),
                      a.inode[a.inode[y].slot[j].inum].refs = 1
               PROVE  y = fs.tree[x[1]].inum /\ a.inode[y].slot[j].name = x[2]
    BY <1>1, <1>6, <1>7, <1>8 DEF LeavesOwn
  <2> DEFINE i == LeadsTo(fs, LeafAt(fs, x))
  <2>1. y # g + 1
    <3> SUFFICES ASSUME y = g + 1 PROVE FALSE
      OBVIOUS
    <3>1. a.inode[y].slot = <<>>
      BY <1>1, <1>3
    <3> QED
      BY <1>3, <3>1
  <2>2. a.inode[y] = fs.inode[y]
    BY <1>1, <2>1
  <2>3. i \in Inum /\ i # g + 1
    BY <1>10, <1>11
  <2> HIDE DEF i
  <2>4. a.inode[i] = fs.inode[i]
    BY <1>1, <2>3
  <2>5. /\ j \in 1 .. Len(fs.inode[y].slot) /\ fs.inode[y].slot[j].name # <<>>
        /\ fs.inode[y].slot[j].inum = i /\ fs.inode[i].refs = 1
    BY <2>2, <2>4 DEF i
  <2>6. y = fs.tree[x[1]].inum /\ fs.inode[y].slot[j].name = x[2]
    BY <1>2, <2>5 DEF LeavesOwn, i
  <2> QED
    BY <2>2, <2>6
<1>15. EntriesIndexed(a, o)
  <2> SUFFICES ASSUME NEW t \in 1 .. Len(a.tree), Looked(o, t),
                      NEW j \in 1 .. Len(SlotsOf(a, t)), SlotsOf(a, t)[j].active
               PROVE  /\ a.tree[t].leaf[SlotsOf(a, t)[j].name] # <<>>
                      /\ LeadsTo(a, LeafAt(a, <<t, SlotsOf(a, t)[j].name>>))
                           = SlotsOf(a, t)[j].inum
    BY DEF EntriesIndexed
  <2> DEFINE n == SlotsOf(fs, t)[j].name
             l == LeafAt(fs, <<t, n>>)
  <2>1. t \in 1 .. Len(fs.tree) /\ SlotsOf(a, t) = SlotsOf(fs, t)
    BY <1>1, <1>5
  <2>2. fs.tree[t].leaf[n] # <<>> /\ LeadsTo(fs, l) = SlotsOf(fs, t)[j].inum
    BY <1>2, <2>1 DEF EntriesIndexed
  <2>3. LeafAt(a, <<t, n>>) = l
    BY <1>7
  <2> HIDE DEF l
  <2>4. LeadsTo(a, l) = LeadsTo(fs, l)
    BY <1>6
  <2> QED
    BY <1>1, <2>1, <2>2, <2>3, <2>4
<1>16. EntriesApart(a, o)
  BY <1>1, <1>2, <1>5 DEF EntriesApart
<1>17. Agree(a, o)
  BY <1>12, <1>13, <1>14, <1>15, <1>16 DEF Agree
<1>18. \A x \in LeavesOf(a, o) : LeadsTo(a, LeafAt(a, x)) \in 1 .. g
  BY <1>6, <1>7, <1>8, <1>10
<1> QED
  BY <1>9, <1>17, <1>18

\* Where a directory is found the walk has its tree.
LEMMA DirHasTree ==
  ASSUME BaseInv, Agree(Fs, overlap), NEW p \in Seq(Name), IsDir(p)
  PROVE  LET d == item_search(Fs, p)
         IN /\ At(Fs, given, d) /\ d.tree # 0 /\ d.tree \in 1 .. Len(Fs.tree)
            /\ d.inum = Fs.tree[d.tree].inum
<1> DEFINE d == item_search(Fs, p)
<1>1. /\ given \in Inum /\ Fs \in FsType /\ InodesOK(Fs, given) /\ TreesOK(Fs, given)
      /\ LeavesLive(Fs, overlap)
  BY DEF BaseInv, Base, Agree
<1>2. Stands(Fs, d) /\ At(Fs, given, d)
  BY <1>1, SearchStands, SearchType
<1>3. d # NotFound /\ Fs.inode[d.inum].kind = "dir"
  BY FsIs DEF IsDir, Found, Mode
<1>4. d.tree # 0 /\ Len(Fs.tree) \in Nat
  BY <1>1, <1>2, <1>3, FsParts DEF Stands
<1> HIDE DEF d
<1> QED
  BY <1>2, <1>4 DEF At, d

LEMMA MadeAgree ==
  ASSUME BaseInv, Agree(Fs, overlap), NEW p \in Path, NEW k \in {"dir", "file"},
         NEW stale \in StaleCount, MayMake(p), HasRoom(p)
  PROVE  LET a == Allocated(k)
             d == item_search(a, Front(p))
             r == directory_add_entry(a, p, given + 1, k, stale)
         IN /\ CanEnter(a, given + 1, r, d.inum, Spot(a.inode[d.inum]), NewEntry(p, given + 1),
                        d.tree, k, overlap)
            /\ Agree(r, overlap)
<1> DEFINE a == Allocated(k)
           g == given + 1
           d == item_search(a, Front(p))
           e == NewEntry(p, g)
           sp == Spot(a.inode[d.inum])
           r == directory_add_entry(a, p, g, k, stale)
<1>1. Adds(a, g, r, d, e, k)
  BY MadeAdds
<1>2. /\ IsAllocated(Fs, a, given, k) /\ Base(Fs, given) /\ given \in Inum /\ given < LastInode
      /\ given \in Nat /\ g \in Inum /\ Fs \in FsType /\ TreesOK(Fs, given)
  <2>1. given < LastInode /\ LastInode \in Nat /\ given \in Inum /\ given \in Nat
    BY ConstantTypes DEF BaseInv, MayMake
  <2>2. g \in Inum
    BY <2>1 DEF Inum
  <2> QED
    BY <2>1, <2>2, AllocatedIs DEF BaseInv, Base
<1>3. /\ p \in Seq(Name) /\ p # <<>> /\ Front(p) \in Seq(Name) /\ Last(p) \in Name
      /\ IsDir(Front(p)) /\ item_search(Fs, p) = NotFound
  BY PathIs DEF MayMake, Found, IsDir
<1>4. d = item_search(Fs, Front(p)) /\ a.tree = Fs.tree
  BY <1>2, <1>3, SameTreeSameSearch DEF IsAllocated
<1>5. /\ d.tree # 0 /\ d.tree \in 1 .. Len(Fs.tree) /\ d.inum = Fs.tree[d.tree].inum
      /\ d.inum \in 0 .. given
  BY <1>3, <1>4, DirHasTree, DirIs
<1>6. Looked(overlap, d.tree) => Fs.tree[d.tree].leaf[Last(p)] = <<>>
  BY <1>2, <1>3, <1>4, <1>5, NoLeaf
<1>7. /\ Agree(a, overlap)
      /\ \A x \in LeavesOf(a, overlap) : LeadsTo(a, LeafAt(a, x)) \in 1 .. given
  BY <1>2, AllocAgree
<1>8. e.name = Last(p) /\ e.inum = g
  BY DEF NewEntry
<1>9. a.inode[g].kind = k /\ a.inode[g].slot = <<>>
  BY <1>2, NewInodeIs DEF IsAllocated
<1> HIDE DEF a, d, e, r, sp
<1>10. \A t \in 1 .. Len(Fs.tree) : Fs.tree[t].inum # g
  <2> SUFFICES ASSUME NEW t \in 1 .. Len(Fs.tree) PROVE Fs.tree[t].inum # g
    OBVIOUS
  <2>1. CASE t = 1
    BY <1>2, <2>1 DEF TreesOK
  <2>2. CASE t # 1
    <3>1. t \in 2 .. Len(Fs.tree)
      BY <1>2, <2>2, FsParts
    <3>2. Fs.tree[t].inum \in 1 .. given
      BY <1>2, <3>1 DEF TreesOK
    <3> QED
      BY <1>2, <3>2
  <2> QED
    BY <2>1, <2>2
<1>11. \A x \in LeavesOf(a, overlap) : LeadsTo(a, LeafAt(a, x)) # g
  BY <1>2, <1>7
<1>12. g # d.inum
  BY <1>2, <1>5
<1>13. TreesOK(a, g)
  <2>1. Base(a, g)
    BY <1>2, AllocatedBase
  <2> QED
    BY <2>1 DEF Base
<1>14. CanAdd(a, g, r, d.inum, sp, e) /\ TreesIndexed(a.tree, r.tree, d.tree, e.name, e.inum, k)
  BY <1>1 DEF Adds, sp
<1>15. CanEnter(a, g, r, d.inum, sp, e, d.tree, k, overlap)
  BY <1>4, <1>5, <1>6, <1>8, <1>9, <1>10, <1>11, <1>12, <1>13, <1>14 DEF CanEnter
<1>16. Agree(r, overlap)
  BY <1>7, <1>15, AddAgree
<1> QED
  BY <1>15, <1>16 DEF r, a, d, e, sp

LEMMA LinkedAgree ==
  ASSUME BaseInv, Agree(Fs, overlap), NEW from \in Path, NEW to \in Path,
         NEW stale \in StaleCount, IsFile(from), ~Found(to), IsDir(parent_path(to)), HasRoom(to),
         inode[item_search(Fs, from).inum].refs < MaxRefs
  PROVE  LET d == item_search(Fs, Front(to))
             i == item_search(Fs, from).inum
         IN /\ CanEnter(Fs, given, Linked(from, to, stale), d.inum, Spot(Fs.inode[d.inum]),
                        NewEntry(to, i), d.tree, "file", overlap)
            /\ Agree(Linked(from, to, stale), overlap)
<1> DEFINE i == item_search(Fs, from).inum
           d == item_search(Fs, Front(to))
           e == NewEntry(to, i)
           sp == Spot(Fs.inode[d.inum])
           r == Linked(from, to, stale)
<1>1. inode[i].kind = "file"
  BY DEF IsFile, Mode
<1>2. Adds(Fs, given, r, d, e, "file") /\ r.inode[i].refs # 1
  BY <1>1, LinkedAdds
<1>3. /\ given \in Inum /\ Fs \in FsType /\ TreesOK(Fs, given)
  BY DEF BaseInv, Base
<1>4. /\ to \in Seq(Name) /\ to # <<>> /\ Front(to) \in Seq(Name) /\ Last(to) \in Name
      /\ IsDir(Front(to)) /\ item_search(Fs, to) = NotFound
  BY PathIs DEF Found, IsDir
<1>5. /\ d.tree # 0 /\ d.tree \in 1 .. Len(Fs.tree) /\ d.inum = Fs.tree[d.tree].inum
  BY <1>4, DirHasTree
<1>6. Looked(overlap, d.tree) => Fs.tree[d.tree].leaf[Last(to)] = <<>>
  BY <1>3, <1>4, <1>5, NoLeaf
<1>7. e.name = Last(to) /\ e.inum = i /\ Fs.inode[i].kind = "file"
  BY <1>1, FsIs DEF NewEntry
<1> HIDE DEF d, e, r, sp, i
<1>8. CanAdd(Fs, given, r, d.inum, sp, e)
      /\ TreesIndexed(Fs.tree, r.tree, d.tree, e.name, e.inum, "file")
  BY <1>2 DEF Adds, sp
<1>9. CanEnter(Fs, given, r, d.inum, sp, e, d.tree, "file", overlap)
  BY <1>2, <1>3, <1>5, <1>6, <1>7, <1>8 DEF CanEnter
<1>10. Agree(r, overlap)
  BY <1>9, AddAgree
<1> QED
  BY <1>9, <1>10 DEF d, e, r, sp, i

LEMMA RemovedAgree ==
  ASSUME NEW fs, NEW g, NEW p \in Seq(Name), NEW o, p # <<>>, g \in Inum, Base(fs, g),
         Agree(fs, o), item_search(fs, Front(p)).tree # 0,
         Looked(o, item_search(fs, Front(p)).tree)
  PROVE  Agree(directory_remove_entry(fs, p), o)
<1> DEFINE d == item_search(fs, Front(p))
           n == Last(p)
           r == directory_remove_entry(fs, p)
<1>1. At(fs, g, d) /\ n \in Name
  BY FrontFacts, SearchType DEF Base
<1>2. \/ r = fs
      \/ \E j : IsNamed(fs, d, j, n) /\ r = Dropped(fs, d, j)
      \/ \E j, k : /\ IsNamed(fs, d, j, n) /\ IsNamed(fs, d, k, n)
                   /\ r = Dropped(Dropped(fs, d, j), d, k)
  BY RemovedIs
<1>3. d.tree # 0 /\ Looked(o, d.tree)
  OBVIOUS
<1> HIDE DEF d, n, r
<1>4. \A j : IsNamed(fs, d, j, n) => CanDrop(fs, g, d, j)
  BY <1>1 DEF CanDrop, IsNamed
<1>5. CASE \E j : IsNamed(fs, d, j, n) /\ r = Dropped(fs, d, j)
  BY <1>3, <1>4, <1>5, DropAgree DEF r
<1>6. CASE \E j, k : /\ IsNamed(fs, d, j, n) /\ IsNamed(fs, d, k, n)
                     /\ r = Dropped(Dropped(fs, d, j), d, k)
  <2>1. PICK j, k : /\ IsNamed(fs, d, j, n) /\ IsNamed(fs, d, k, n)
                    /\ r = Dropped(Dropped(fs, d, j), d, k)
    BY <1>6
  <2>2. Base(Dropped(fs, d, j), g) /\ At(Dropped(fs, d, j), g, d)
        /\ IsNamed(Dropped(fs, d, j), d, k, n)
    BY <1>4, <2>1, DroppedBase, DroppedAgain
  <2>3. CanDrop(Dropped(fs, d, j), g, d, k)
    BY <1>1, <2>2 DEF CanDrop, IsNamed
  <2>4. Agree(Dropped(fs, d, j), o)
    BY <1>3, <1>4, <2>1, DropAgree
  <2> QED
    BY <1>3, <2>1, <2>3, <2>4, DropAgree DEF r
<1> QED
  BY <1>2, <1>5, <1>6 DEF r

\* A walk that gets somewhere was somewhere before.
LEMMA FrontFound ==
  ASSUME NEW fs, NEW p \in Seq(Name), p # <<>>, Walked(fs, p) # NotFound
  PROVE  Walked(fs, Front(p)) # NotFound
<1> DEFINE w == Walked(fs, Front(p))
<1>1. Walked(fs, p) = Descend(fs, w, Last(p)) \/ (OnFile(w) /\ Walked(fs, p) = w)
  BY WalkedEither
<1> HIDE DEF w
<1>2. w.tree = 0 => Descend(fs, w, Last(p)) = NotFound
  BY DEF Descend
<1>3. NotFound.tree = 0
  BY DEF NotFound
<1> QED
  BY <1>1, <1>2, <1>3 DEF w

\* Steps that lead somewhere in fs lead there in r too.
KeepsSteps(fs, g, r) ==
  \A w : \A n \in Name : At(fs, g, w) /\ Descend(fs, w, n) # NotFound =>
                           Descend(r, w, n) = Descend(fs, w, n)

LEMMA WalksKept ==
  ASSUME NEW fs, NEW g, NEW r, g \in Inum, fs \in FsType, TreesOK(fs, g), KeepsSteps(fs, g, r)
  PROVE  \A p \in Seq(Name) : Walked(fs, p) # NotFound => Walked(r, p) = Walked(fs, p)
<1> DEFINE Good(p) == Walked(fs, p) # NotFound => Walked(r, p) = Walked(fs, p)
           Bad == {k \in Nat : \E p \in Seq(Name) : Len(p) = k /\ ~Good(p)}
<1>1. Bad = {}
  <2> SUFFICES ASSUME Bad # {} PROVE FALSE
    OBVIOUS
  <2>1. PICK k \in Bad : \A m \in Bad : k <= m
    BY LeastNumber
  <2>2. PICK p \in Seq(Name) : Len(p) = k /\ ~Good(p)
    BY <2>1
  <2>3. p # <<>>
    BY <2>2, WalkedRoot
  <2> DEFINE q == Front(p)
  <2>4. q \in Seq(Name) /\ Len(q) = k - 1 /\ Last(p) \in Name /\ k \in Nat /\ k >= 1
    BY <2>2, <2>3, FrontFacts
  <2>5. k - 1 \in Nat /\ ~(k <= k - 1)
    BY <2>4
  <2>6. k - 1 \notin Bad
    BY <2>1, <2>5
  <2>7. Good(q)
    BY <2>4, <2>5, <2>6
  <2>8. Walked(fs, p) # NotFound
    BY <2>2
  <2>9. Walked(r, q) = Walked(fs, q)
    BY <2>3, <2>7, <2>8, FrontFound
  <2>10. /\ Walked(fs, p) = Onward(fs, Walked(fs, q), p, Len(p))
         /\ Walked(r, p) = Onward(r, Walked(r, q), p, Len(p))
    BY <2>3, WalkedStep
  <2>11. At(fs, g, Walked(fs, q))
    BY <2>4, WalkType
  <2> HIDE DEF q
  <2>12. Walked(r, p) = Walked(fs, p)
    BY <2>4, <2>8, <2>9, <2>10, <2>11 DEF KeepsSteps, Onward, Last
  <2> QED
    BY <2>2, <2>12
<1> HIDE DEF Good
<1> SUFFICES \A p \in Seq(Name) : Good(p)
  BY DEF Good
<1> QED
  BY <1>1, LenProperties

LEMMA EnterKeepsSteps ==
  ASSUME NEW fs, NEW g, NEW r, NEW i, NEW sp, NEW e, NEW at, NEW kind, NEW o, o,
         CanEnter(fs, g, r, i, sp, e, at, kind, o)
  PROVE  KeepsSteps(fs, g, r)
<1> SUFFICES ASSUME NEW w, NEW n \in Name, At(fs, g, w), Descend(fs, w, n) # NotFound
             PROVE  Descend(r, w, n) = Descend(fs, w, n)
  BY DEF KeepsSteps
<1>1. /\ fs \in FsType /\ TreesOK(fs, g) /\ g \in Inum /\ Len(fs.tree) \in Nat
      /\ fs.tree[at].leaf[e.name] = <<>>
  BY FsParts DEF CanEnter, CanAdd, Looked
<1>2. LeavesAdded(fs, r, e, at, kind, o)
  BY AddLeaves, Zenon
<1> DEFINE t == w.tree
           q == fs.tree[t].leaf[n]
           l == Head(q)
<1>3. t # 0 /\ q # <<>>
  <2> SUFFICES ASSUME t = 0 \/ q = <<>> PROVE FALSE
    OBVIOUS
  <2>1. Descend(fs, w, n) = NotFound
    BY Zenon DEF Descend
  <2> QED
    BY <2>1
<1>4. t \in 1 .. Len(fs.tree)
  BY <1>1, <1>3 DEF At
<1> HIDE DEF t
<1>5. ~(t = at /\ n = e.name)
  BY <1>1, <1>3
<1>6. r.tree[t].leaf[n] = q
  BY <1>2, <1>4, <1>5 DEF LeavesAdded
<1>7. l.kind = "dir" => l.val \in 1 .. Len(fs.tree)
  <2>1. l = LeafAt(fs, <<t, n>>)
    BY DEF LeafAt
  <2>2. LeafOK(fs, l, g)
    <3> HIDE DEF l
    <3> QED
      BY <1>1, <1>3, <1>4, <2>1, LeafFacts
  <2> QED
    BY <1>1, <2>2 DEF LeafOK
<1> HIDE DEF q
<1>8. CASE l.kind = "dir"
  <2> DEFINE v == l.val
  <2>1. Descend(fs, w, n) = [inum |-> fs.tree[v].inum, tree |-> v]
    BY <1>3, <1>8, Zenon DEF Descend, t, q
  <2>2. Descend(r, w, n) = [inum |-> r.tree[v].inum, tree |-> v]
    BY <1>3, <1>6, <1>8 DEF Descend, t
  <2>3. r.tree[v].inum = fs.tree[v].inum
    BY <1>2, <1>7, <1>8 DEF LeavesAdded
  <2> HIDE DEF v
  <2> QED
    BY <2>1, <2>2, <2>3
<1>9. CASE l.kind # "dir"
  <2>1. Descend(fs, w, n) = [inum |-> l.val, tree |-> 0]
    BY <1>3, <1>9 DEF Descend, t, q
  <2>2. Descend(r, w, n) = [inum |-> l.val, tree |-> 0]
    BY <1>3, <1>6, <1>9 DEF Descend, t
  <2> QED
    BY <2>1, <2>2
<1> QED
  BY <1>8, <1>9

\* What is found lies in a directory the walk looks at.
LEMMA ParentIs ==
  ASSUME BaseInv, Agree(Fs, overlap), NEW p \in Seq(Name), p # <<>>, Found(p)
  PROVE  LET d == item_search(Fs, Front(p))
         IN /\ d.tree # 0 /\ Looked(overlap, d.tree) /\ d = Walked(Fs, Front(p))
            /\ ~overlap => Front(p) = <<>>
<1> DEFINE fs == Fs
           q == Front(p)
<1>0. item_search(fs, p) # NotFound /\ fs.inode[item_search(fs, q).inum].kind = "dir"
  BY FsIs DEF Found, Mode, parent_path
<1>1. q \in Seq(Name) /\ Len(q) = Len(p) - 1 /\ Len(p) \in Nat \ {0}
  BY FrontFacts, EmptySeq
<1>2. ~(Len(p) > 1 /\ ~overlap) /\ Walked(fs, p) # NotFound
  BY <1>0, SearchIs
<1>3. ~overlap => q = <<>>
  BY <1>1, <1>2, EmptySeq
<1>4. Walked(fs, q) # NotFound
  BY <1>2, FrontFound
<1>5. item_search(fs, q) = Walked(fs, q)
  <2>1. ~(Len(q) > 1 /\ ~overlap)
    BY <1>1, <1>2
  <2> QED
    BY <2>1, SearchIs
<1>6. Looked(overlap, Walked(fs, q).tree)
  BY <1>3, WalkedRoot DEF Looked, RootAt
<1>7. item_search(fs, q).tree # 0
  <2>1. Stands(fs, item_search(fs, q))
    BY <1>1, SearchStands DEF BaseInv, Base, Agree
  <2> QED
    BY <1>0, <1>4, <1>5, <2>1 DEF Stands
<1> QED
  BY <1>3, <1>5, <1>6, <1>7

LEMMA RenamedAgree ==
  ASSUME BaseInv, Agree(Fs, overlap), NEW from \in Path, NEW to \in Path,
         NEW stale \in StaleCount, IsFile(from), ~Found(to), IsDir(parent_path(to)), HasRoom(to),
         inode[item_search(Fs, from).inum].refs < MaxRefs
  PROVE  Agree(directory_remove_entry(Linked(from, to, stale), from), overlap)
<1> DEFINE r == Linked(from, to, stale)
           q == Front(from)
<1>1. Base(r, given) /\ given \in Inum /\ Fs \in FsType /\ TreesOK(Fs, given)
  BY LinkedBase DEF BaseInv, Base
<1>2. /\ Agree(r, overlap)
      /\ \E i, sp, e, at : CanEnter(Fs, given, r, i, sp, e, at, "file", overlap)
  BY LinkedAgree
<1>3. from \in Seq(Name) /\ from # <<>> /\ q \in Seq(Name) /\ Found(from)
  BY PathIs DEF IsFile
<1>4. /\ item_search(Fs, q).tree # 0 /\ Looked(overlap, item_search(Fs, q).tree)
      /\ item_search(Fs, q) = Walked(Fs, q)
      /\ ~overlap => q = <<>>
  BY <1>3, ParentIs
<1> HIDE DEF r, q
<1>5. Walked(r, q) = Walked(Fs, q)
  <2>1. CASE overlap
    <3>1. KeepsSteps(Fs, given, r)
      BY <1>2, <2>1, EnterKeepsSteps
    <3>2. Walked(Fs, q) # NotFound
      BY <1>4 DEF NotFound
    <3> QED
      BY <1>1, <1>3, <3>1, <3>2, WalksKept
  <2>2. CASE ~overlap
    BY <1>4, <2>2, WalkedRoot
  <2> QED
    BY <2>1, <2>2
<1>6. item_search(r, q) = item_search(Fs, q)
  <2>1. CASE Len(q) > 1 /\ ~overlap
    BY <1>4, <2>1, EmptySeq
  <2>2. CASE ~(Len(q) > 1 /\ ~overlap)
    BY <1>5, <2>2, SearchIs
  <2> QED
    BY <2>1, <2>2
<1> QED
  BY <1>1, <1>2, <1>3, <1>4, <1>6, RemovedAgree DEF r, q

LEMMA AgreeInit == Init => AgreeInv
<1> SUFFICES ASSUME Init PROVE Agree(Fs, overlap)
  BY DEF AgreeInv
<1>1. Fs.inode = inode /\ Fs.tree = <<NewTree(0)>> /\ Len(Fs.tree) = 1 /\ Fs.tree[1] = NewTree(0)
  BY DEF Init, Fs
<1>2. \A n \in Name : NewTree(0).leaf[n] = <<>>
  BY DEF NewTree
<1>3. \A t \in 1 .. 1 : t = 1
  OBVIOUS
<1>4. inode[0].slot = <<>> /\ NewTree(0).inum = 0
  <2>1. NewInode("dir").slot = <<>>
    BY NewInodeIs
  <2> QED
    BY <2>1, ConstantTypes DEF Init, NewInode, NewTree, Inum
<1>5. LeavesOf(Fs, overlap) = {}
  BY <1>1, <1>2, <1>3 DEF LeavesOf
<1>6. SlotsOf(Fs, 1) = <<>> /\ Len(<<>>) = 0
  BY <1>1, <1>4, EmptySeq DEF SlotsOf
<1>7. LeavesSingle(Fs, overlap)
  BY <1>1, <1>2, <1>3, <1>6 DEF LeavesSingle
<1>8. TreesApart(Fs)
  BY <1>1, <1>3 DEF TreesApart
<1>9. LeavesLive(Fs, overlap) /\ LeavesOwn(Fs, overlap)
  BY <1>5 DEF LeavesLive, LeavesOwn
<1>10. EntriesIndexed(Fs, overlap) /\ EntriesApart(Fs, overlap)
  <2>1. \A t \in 1 .. Len(Fs.tree) : 1 .. Len(SlotsOf(Fs, t)) = {}
    <3>1. \A t \in 1 .. Len(Fs.tree) : Len(SlotsOf(Fs, t)) = 0
      BY <1>1, <1>3, <1>6
    <3> QED
      BY <3>1
  <2> QED
    BY <2>1 DEF EntriesIndexed, EntriesApart
<1> QED
  BY <1>7, <1>8, <1>9, <1>10 DEF Agree

\* A call keeps index and entries in step unless it replaces a name or moves a
\* directory.
LEMMA AgreeStep == BaseInv /\ AgreeInv /\ [Next]_vars => AgreeInv'
<1> SUFFICES ASSUME BaseInv, AgreeInv, [Next]_vars, did' \cap {"replace", "move"} = {}
             PROVE  Agree(Fs', overlap')
  BY DEF AgreeInv
<1>0. Base(Fs, given) /\ given \in Inum
  BY DEF BaseInv
<1>1. ASSUME NEW p \in Path, NEW k \in {"dir", "file"}, mknod(p, k)
      PROVE  Agree(Fs', overlap')
  <2>1. PICK stale \in StaleCount :
          SetFs(directory_add_entry(Allocated(k), p, given + 1, k, stale))
    BY <1>1 DEF mknod
  <2> DEFINE r == directory_add_entry(Allocated(k), p, given + 1, k, stale)
  <2>2. MayMake(p) /\ HasRoom(p) /\ overlap' = overlap /\ did' = did
    BY <1>1 DEF mknod
  <2>3. Agree(Fs, overlap)
    BY <2>2 DEF AgreeInv
  <2>4. Agree(r, overlap) /\ Base(r, given + 1)
    BY <2>2, <2>3, MadeAgree, MadeBase
  <2>5. Fs' = r
    BY <2>1, <2>4, FsRecords DEF Base
  <2> QED
    BY <2>2, <2>4, <2>5
<1>2. ASSUME NEW p \in Path, NEW k \in {"dir", "file"}, mknodFails(p, k)
      PROVE  Agree(Fs', overlap')
  <2>1. given < LastInode /\ SetFs(Allocated(k)) /\ overlap' = overlap /\ did' = did
    BY <1>2 DEF mknodFails, MayMake
  <2>2. IsAllocated(Fs, Allocated(k), given, k)
    BY <2>1, AllocatedIs
  <2>3. Base(Allocated(k), given + 1) /\ given + 1 \in Inum
    BY <1>0, <2>1, <2>2, AllocatedBase, ConstantTypes DEF Inum
  <2>4. Agree(Fs, overlap)
    BY <2>1 DEF AgreeInv
  <2>5. Agree(Allocated(k), overlap)
    BY <1>0, <2>2, <2>3, <2>4, AllocAgree
  <2>6. Fs' = Allocated(k)
    BY <2>1, <2>3, FsRecords DEF Base
  <2> QED
    BY <2>1, <2>5, <2>6
<1>3. ASSUME NEW p \in Path, unlink(p) PROVE Agree(Fs', overlap')
  <2> DEFINE r == directory_remove_entry(Fs, p)
  <2>1. SetFs(r) /\ overlap' = overlap /\ did' = did /\ Found(p)
    BY <1>3 DEF unlink
  <2>2. Agree(Fs, overlap) /\ p \in Seq(Name) /\ p # <<>>
    BY <2>1, PathIs DEF AgreeInv
  <2>3. item_search(Fs, Front(p)).tree # 0 /\ Looked(overlap, item_search(Fs, Front(p)).tree)
    BY <1>0, <2>1, <2>2, ParentIs
  <2>4. Agree(r, overlap) /\ Base(r, given)
    BY <1>0, <2>2, <2>3, RemovedAgree, RemovedBase
  <2>5. Fs' = r
    BY <2>1, <2>4, FsRecords DEF Base
  <2> QED
    BY <2>1, <2>4, <2>5
<1>4. ASSUME NEW from \in Path, NEW to \in Path, link(from, to) PROVE Agree(Fs', overlap')
  <2>1. PICK stale \in StaleCount : SetFs(Linked(from, to, stale))
    BY <1>4 DEF link
  <2>2. /\ IsFile(from) /\ ~Found(to) /\ IsDir(parent_path(to)) /\ HasRoom(to)
        /\ inode[item_search(Fs, from).inum].refs < MaxRefs
        /\ overlap' = overlap /\ did' = did \cup {"link"}
    BY <1>4 DEF link, MayLink
  <2>3. Agree(Fs, overlap)
    BY <2>2 DEF AgreeInv
  <2>4. Agree(Linked(from, to, stale), overlap)
    BY <2>2, <2>3, LinkedAgree
  <2>5. Base(Linked(from, to, stale), given)
    BY <2>2, LinkedBase
  <2>6. Fs' = Linked(from, to, stale)
    BY <2>1, <2>5, FsRecords DEF Base
  <2> QED
    BY <2>2, <2>4, <2>6
<1>5. ASSUME NEW from \in Path, NEW to \in Path, rename(from, to) PROVE Agree(Fs', overlap')
  <2>1. PICK stale \in StaleCount : SetFs(directory_remove_entry(Linked(from, to, stale), from))
    BY <1>5 DEF rename
  <2>2. /\ IsFile(from) \/ IsDir(from)
        /\ IsDir(parent_path(to)) /\ HasRoom(to)
        /\ inode[item_search(Fs, from).inum].refs < MaxRefs
        /\ overlap' = overlap
    BY <1>5 DEF rename, MayLink
  <2>3. did' = did \cup {"link"} \cup (IF Found(to) THEN {"replace"} ELSE {})
                                 \cup (IF IsDir(from) THEN {"move"} ELSE {})
    BY <1>5 DEF rename
  <2>4. ~Found(to) /\ ~IsDir(from) /\ did \subseteq did'
    BY <2>3
  <2>5. Agree(Fs, overlap)
    BY <2>4 DEF AgreeInv
  <2>6. Agree(directory_remove_entry(Linked(from, to, stale), from), overlap)
    BY <2>2, <2>4, <2>5, RenamedAgree
  <2>7. Base(Linked(from, to, stale), given)
    BY <2>2, LinkedBase
  <2>8. Base(directory_remove_entry(Linked(from, to, stale), from), given)
    BY <1>0, <2>7, PathIs, RemovedBase
  <2>9. Fs' = directory_remove_entry(Linked(from, to, stale), from)
    BY <2>1, <2>8, FsRecords DEF Base
  <2> QED
    BY <2>2, <2>6, <2>9
<1>6. CASE UNCHANGED vars
  <2>1. Fs' = Fs /\ overlap' = overlap /\ did' = did
    BY <1>6 DEF vars, Fs
  <2> QED
    BY <2>1 DEF AgreeInv
<1> QED
  BY <1>1, <1>2, <1>3, <1>4, <1>5, <1>6 DEF Next

LEMMA AgreeHolds == Spec => [](BaseInv /\ AgreeInv)
<1>1. Init => BaseInv /\ AgreeInv
  BY BaseInit, AgreeInit
<1>2. (BaseInv /\ AgreeInv) /\ [Next]_vars => (BaseInv /\ AgreeInv)'
  BY BaseStep, AgreeStep
<1> QED
  BY <1>1, <1>2, PTL DEF Spec

\* As long as no rename has replaced a name or moved a directory, no name leads
\* to an inode that was freed: index and entries agree, so that the leaf that
\* goes with the last reference is the one that led there (directory.c:141-146).
THEOREM DirectoryFoundIsLive == Spec => []FoundIsLive
<1>1. BaseInv /\ AgreeInv => FoundIsLive
  <2> SUFFICES ASSUME BaseInv, Agree(Fs, overlap), NEW p \in Path, Found(p)
               PROVE  Mode(p) # "none"
    BY DEF AgreeInv, FoundIsLive
  <2> DEFINE w == item_search(Fs, p)
  <2>1. Stands(Fs, w)
    BY PathIs, SearchStands DEF BaseInv, Base, Agree
  <2>2. w # NotFound /\ Mode(p) = Fs.inode[w.inum].kind
    BY FsIs DEF Found, Mode
  <2> QED
    BY <2>1, <2>2 DEF Stands
<1> QED
  BY <1>1, AgreeHolds, PTL

\* What readdir lists is found, as the inode its entry names and once each, so
\* that its assertion holds, in the same states (fuse.c:97-105).
THEOREM DirectoryListedIsFound == Spec => []ListedIsFound
<1>1. BaseInv /\ AgreeInv => ListedIsFound
  <2> SUFFICES ASSUME BaseInv, Agree(Fs, overlap), NEW p \in Directories,
                      overlap \/ p = <<>>, NEW j \in Listed(p)
               PROVE  /\ item_search(Fs, Append(p, Entry(p, j).name)).inum = Entry(p, j).inum
                      /\ \A k \in Listed(p) : Entry(p, j).name = Entry(p, k).name => j = k
    BY DEF AgreeInv, ListedIsFound
  <2> DEFINE d == item_search(Fs, p)
             s == Fs.inode[d.inum].slot
  <2>1. p \in Seq(Name) /\ IsDir(p)
    <3>1. p \in Path \cup {<<>>} /\ IsDir(p)
      BY DEF Directories
    <3> QED
      BY <3>1, PathIs, EmptySeq
  <2>2. /\ At(Fs, given, d) /\ d.tree # 0 /\ d.tree \in 1 .. Len(Fs.tree)
        /\ d.inum = Fs.tree[d.tree].inum
    BY <2>1, DirHasTree
  <2>3. d = Walked(Fs, p) /\ Looked(overlap, d.tree)
    <3>1. p = <<>> => Len(p) = 0 /\ Walked(Fs, p) = RootAt
      BY WalkedRoot, EmptySeq
    <3>2. d = Walked(Fs, p)
      BY <3>1, SearchIs
    <3> QED
      BY <3>1, <3>2 DEF Looked, RootAt
  <2>4. SlotsOf(Fs, d.tree) = s
    BY <2>2 DEF SlotsOf
  <2>5. ASSUME NEW k \in Listed(p)
        PROVE  k \in 1 .. Len(s) /\ s[k].active /\ Entry(p, k) = s[k]
    BY FsIs DEF Listed, Entry
  <2>6. s[j].name \in Name
    <3>1. Fs \in FsType /\ SlotsOK(Fs, given) /\ d.inum \in Inum
      BY <2>2, FsParts DEF BaseInv, Base, TreeType
    <3>2. s[j] \in SlotType /\ SlotOK(Fs, given, d.inum, s[j])
      BY <2>5, <3>1, FsParts, ElementOfSeq DEF SlotsOK
    <3> HIDE DEF s
    <3> QED
      BY <2>5, <3>2 DEF SlotType, SlotOK
  <2>7. /\ Fs.tree[d.tree].leaf[s[j].name] # <<>>
        /\ LeadsTo(Fs, LeafAt(Fs, <<d.tree, s[j].name>>)) = s[j].inum
    <3>1. j \in 1 .. Len(SlotsOf(Fs, d.tree)) /\ SlotsOf(Fs, d.tree)[j] = s[j] /\ s[j].active
      BY <2>4, <2>5
    <3>2. EntriesIndexed(Fs, overlap)
      BY DEF Agree
    <3> HIDE DEF s, d
    <3> QED
      BY <2>2, <2>3, <3>1, <3>2 DEF EntriesIndexed
  <2> DEFINE n == s[j].name
             a == Append(p, n)
             l == LeafAt(Fs, <<d.tree, n>>)
  <2>8. a \in Seq(Name) /\ a # <<>> /\ Front(a) = p /\ Last(a) = n
    <3>1. a \in Seq(Name) /\ Len(a) = Len(p) + 1 /\ a[Len(p) + 1] = n
          /\ \A k \in 1 .. Len(p) : a[k] = p[k]
      BY <2>1, <2>6, AppendProperties
    <3>2. Len(p) \in Nat
      BY <2>1, LenProperties
    <3>3. a # <<>> /\ Last(a) = n
      BY <3>1, <3>2, EmptySeq DEF Last
    <3> HIDE DEF a, n
    <3>4. /\ Front(a) \in Seq(Name) /\ Len(Front(a)) = Len(p)
          /\ \A k \in 1 .. Len(p) : Front(a)[k] = p[k]
      BY <3>1, <3>2, <3>3, FrontFacts
    <3>5. Front(a) = p
      BY <2>1, <3>4, SeqEqual
    <3> QED
      BY <3>1, <3>3, <3>5
  <2>9. item_search(Fs, a) = Descend(Fs, d, n)
    <3>1. ~(Len(a) > 1 /\ ~overlap)
      <4>1. p = <<>> => Len(a) = 1
        BY <2>6
      <4> QED
        BY <4>1
    <3> QED
      BY <2>2, <2>3, <2>8, <3>1, SearchIs, WalkedDown
  <2>10. Descend(Fs, d, n).inum = LeadsTo(Fs, l)
    <3>1. l = Head(Fs.tree[d.tree].leaf[n])
      BY DEF LeafAt
    <3> HIDE DEF l, d, n
    <3>2. CASE l.kind = "dir"
      <4> DEFINE v == l.val
                 i == Fs.tree[v].inum
      <4>1. Descend(Fs, d, n) = [inum |-> i, tree |-> v]
        BY <2>2, <2>7, <3>1, <3>2, Zenon DEF Descend, n
      <4>2. LeadsTo(Fs, l) = i
        BY <3>2 DEF LeadsTo
      <4> HIDE DEF i, v
      <4> QED
        BY <4>1, <4>2
    <3>3. CASE l.kind # "dir"
      <4> DEFINE v == l.val
      <4>1. Descend(Fs, d, n) = [inum |-> v, tree |-> 0]
        BY <2>2, <2>7, <3>1, <3>3, Zenon DEF Descend, n
      <4>2. LeadsTo(Fs, l) = v
        BY <3>3 DEF LeadsTo
      <4> HIDE DEF v
      <4> QED
        BY <4>1, <4>2
    <3> QED
      BY <3>2, <3>3
  <2>11. \A k \in Listed(p) : Entry(p, j).name = Entry(p, k).name => j = k
    <3> SUFFICES ASSUME NEW k \in Listed(p), Entry(p, j).name = Entry(p, k).name
                 PROVE  j = k
      OBVIOUS
    <3>1. /\ j \in 1 .. Len(SlotsOf(Fs, d.tree)) /\ k \in 1 .. Len(SlotsOf(Fs, d.tree))
          /\ SlotsOf(Fs, d.tree)[j].active /\ SlotsOf(Fs, d.tree)[k].active
          /\ SlotsOf(Fs, d.tree)[j].name = SlotsOf(Fs, d.tree)[k].name
      BY <2>4, <2>5
    <3>2. EntriesApart(Fs, overlap)
      BY DEF Agree
    <3> HIDE DEF d
    <3> QED
      BY <2>2, <2>3, <3>1, <3>2 DEF EntriesApart
  <2> QED
    BY <2>5, <2>7, <2>9, <2>10, <2>11, Zenon
<1> QED
  BY <1>1, AgreeHolds, PTL
-----------------------------------------------------------------------------
(***************************************************************************)
(* The count of a directory covers its entries; until a file has a second  *)
(* name every leaf has its entry.                                          *)
(***************************************************************************)
LEMMA ActiveFinite ==
  ASSUME NEW dir, Len(dir.slot) \in Nat
  PROVE  IsFiniteSet(ActiveIn(dir)) /\ Cardinality(ActiveIn(dir)) \in Nat
<1>1. IsFiniteSet(1 .. Len(dir.slot))
  BY FS_Interval
<1>2. ActiveIn(dir) \in SUBSET (1 .. Len(dir.slot))
  BY DEF ActiveIn
<1> QED
  BY <1>1, <1>2, FS_Subset, FS_CardinalityType

LEMMA NoneActive ==
  ASSUME NEW dir, dir.slot = <<>>
  PROVE  ActiveIn(dir) = {} /\ Cardinality(ActiveIn(dir)) = 0
<1>1. Len(dir.slot) = 0
  BY EmptySeq
<1>2. ActiveIn(dir) = {}
  BY <1>1 DEF ActiveIn
<1> QED
  BY <1>2, FS_EmptySet

\* Slots that are reused for a new entry are inactive.
LEMMA SpotIsFree ==
  ASSUME NEW dir, Len(dir.slot) \in Nat, dir.count \in Nat,
         Cardinality(ActiveIn(dir)) <= dir.count, Spot(dir) <= Len(dir.slot)
  PROVE  ~dir.slot[Spot(dir)].active
<1> SUFFICES ASSUME dir.slot[Spot(dir)].active PROVE FALSE
  OBVIOUS
<1> DEFINE m == Spot(dir)
           B == {k \in 1 .. m - 1 : dir.slot[k].active}
<1>1. m \in 1 .. Len(dir.slot) /\ Cardinality(B) = dir.count
  <2>1. m \in 1 .. Len(dir.slot) + 1 /\ (~dir.slot[m].active \/ Cardinality(B) = dir.count)
    BY SpotFacts
  <2> HIDE DEF m, B
  <2>2. m \in 1 .. Len(dir.slot)
    BY <2>1 DEF m
  <2> QED
    BY <2>1, <2>2 DEF m
<1> HIDE DEF m
<1>2. B \cup {m} \subseteq ActiveIn(dir) /\ m \notin B
  <2>1. \A k \in 1 .. m - 1 : k \in 1 .. Len(dir.slot) /\ k # m
    BY <1>1
  <2> QED
    BY <1>1, <2>1 DEF ActiveIn, m
<1> HIDE DEF B
<1>3. IsFiniteSet(ActiveIn(dir)) /\ Cardinality(ActiveIn(dir)) \in Nat
  BY ActiveFinite
<1>4. IsFiniteSet(B \cup {m}) /\ Cardinality(B \cup {m}) <= Cardinality(ActiveIn(dir))
  BY <1>2, <1>3, FS_Subset
<1>5. IsFiniteSet(B)
  BY <1>4, FS_Subset
<1>6. Cardinality(B \cup {m}) = Cardinality(B) + 1
  BY <1>2, <1>5, FS_AddElement
<1> QED
  BY <1>1, <1>3, <1>4, <1>6

LEMMA DropCounted ==
  ASSUME NEW fs, NEW g, NEW d, NEW j, CanDrop(fs, g, d, j), Counted(fs)
  PROVE  Counted(Dropped(fs, d, j))
<1> DEFINE i == fs.inode[d.inum].slot[j].inum
           r == Dropped(fs, d, j)
           gone == fs.inode[i].refs = 1
<1>1. /\ d.inum \in Inum /\ i \in 1 .. g /\ fs \in FsType /\ r \in FsType
      /\ j \in 1 .. Len(fs.inode[d.inum].slot)
  BY DropFacts DEF CanDrop, Base
<1>2. i \in Inum
  <2>1. g \in Nat /\ g <= LastInode /\ LastInode \in Nat
    BY ConstantTypes DEF CanDrop, Inum
  <2> QED
    BY <1>1, <2>1 DEF Inum
<1>3. InodesLeft(fs, r, d, j)
  BY <1>1, <1>2, DroppedInodes
<1> HIDE DEF r, i
<1> SUFFICES ASSUME NEW x \in Inum
             PROVE  Cardinality(ActiveIn(r.inode[x])) <= r.inode[x].count
  BY DEF Counted, r
<1>4. fs.inode[x] \in InodeType /\ Len(fs.inode[x].slot) \in Nat
      /\ Cardinality(ActiveIn(fs.inode[x])) <= fs.inode[x].count
  BY <1>1, FsParts DEF Counted
<1>5. CASE gone /\ x = i
  <2>1. r.inode[x] = Blank
    BY <1>3, <1>5 DEF InodesLeft, i
  <2>2. Blank.slot = <<>> /\ Blank.count = 0
    BY DEF Blank
  <2> QED
    BY <2>1, <2>2, NoneActive
<1>6. CASE ~(gone /\ x = i)
  <2>1. r.inode[x] = IF x = d.inum THEN Marked(fs.inode[x], j) ELSE fs.inode[x]
    BY <1>3, <1>6 DEF InodesLeft, i
  <2>2. CASE x = d.inum
    <3> DEFINE y == fs.inode[x]
    <3>1. /\ Marked(y, j).count = y.count /\ Len(Marked(y, j).slot) = Len(y.slot)
          /\ \A k \in 1 .. Len(y.slot) : Marked(y, j).slot[k].active <=> y.slot[k].active /\ k # j
      BY <1>1, <1>4, <2>2, MarkedFacts
    <3> HIDE DEF y
    <3>2. ActiveIn(Marked(y, j)) \subseteq ActiveIn(y)
      BY <3>1 DEF ActiveIn
    <3>3. Cardinality(ActiveIn(Marked(y, j))) <= Cardinality(ActiveIn(y))
          /\ Cardinality(ActiveIn(Marked(y, j))) \in Nat
      BY <1>4, <3>1, <3>2, ActiveFinite, FS_Subset DEF y
    <3>4. Cardinality(ActiveIn(y)) \in Nat /\ y.count \in Nat
          /\ Cardinality(ActiveIn(y)) <= y.count
      BY <1>4, ActiveFinite DEF y, InodeType
    <3>5. Cardinality(ActiveIn(Marked(y, j))) <= Marked(y, j).count
      BY <3>1, <3>3, <3>4
    <3> QED
      BY <2>1, <2>2, <3>5 DEF y
  <2>3. CASE x # d.inum
    BY <1>4, <2>1, <2>3
  <2> QED
    BY <2>2, <2>3
<1> QED
  BY <1>5, <1>6

LEMMA AddCounted ==
  ASSUME NEW fs, NEW g, NEW r, NEW i, NEW sp, NEW e, CanAdd(fs, g, r, i, sp, e), Counted(fs)
  PROVE  Counted(r)
<1>1. fs \in FsType /\ AddEffect(fs, r, i, sp, e)
  BY DEF CanAdd
<1>2. /\ r.inode \in [Inum -> InodeType]
      /\ \A x \in Inum : x # i => /\ r.inode[x].slot = fs.inode[x].slot
                                  /\ r.inode[x].count = fs.inode[x].count
      /\ SlotsAdded(fs.inode[i].slot, r.inode[i].slot, sp, e)
      /\ CountsMore(fs.inode[i], r.inode[i])
  BY <1>1 DEF AddEffect
<1> SUFFICES ASSUME NEW x \in Inum
             PROVE  Cardinality(ActiveIn(r.inode[x])) <= r.inode[x].count
  BY DEF Counted
<1>3. /\ Len(fs.inode[x].slot) \in Nat /\ fs.inode[x].count \in Nat
      /\ Cardinality(ActiveIn(fs.inode[x])) <= fs.inode[x].count
      /\ r.inode[x].slot \in Seq(SlotType) /\ r.inode[x].count \in Nat
  BY <1>1, <1>2, FsParts DEF Counted, InodeType
<1>4. CASE x # i
  <2>1. ActiveIn(r.inode[x]) = ActiveIn(fs.inode[x])
    BY <1>2, <1>4 DEF ActiveIn
  <2> QED
    BY <1>2, <1>3, <1>4, <2>1
<1>5. CASE x = i
  <2> DEFINE old == fs.inode[i]
             new == r.inode[i]
             A == ActiveIn(old)
  <2>1. /\ SlotsAdded(old.slot, new.slot, sp, e) /\ CountsMore(old, new)
        /\ Len(old.slot) \in Nat /\ old.count \in Nat /\ Cardinality(A) <= old.count
        /\ Len(new.slot) \in Nat /\ new.count \in Nat
    BY <1>2, <1>3, <1>5, LenProperties
  <2> HIDE DEF old, new
  <2>2. ActiveIn(new) \subseteq A \cup {sp}
    <3> SUFFICES ASSUME NEW k \in ActiveIn(new), k # sp PROVE k \in A
      OBVIOUS
    <3>1. k \in 1 .. Len(new.slot) /\ new.slot[k].active
      BY DEF ActiveIn
    <3>2. IF k = sp THEN new.slot[k] = e
          ELSE k \in 1 .. Len(old.slot) /\ new.slot[k] = old.slot[k]
      BY <2>1, <3>1, SlotsAddedFacts
    <3> QED
      BY <3>1, <3>2 DEF ActiveIn
  <2>3. IsFiniteSet(A) /\ Cardinality(A) \in Nat
    BY <2>1, ActiveFinite
  <2>4. IsFiniteSet(A \cup {sp}) /\ Cardinality(A \cup {sp}) <= Cardinality(A) + 1
        /\ Cardinality(A \cup {sp}) \in Nat
    <3>1. IsFiniteSet(A \cup {sp})
          /\ Cardinality(A \cup {sp}) = IF sp \in A THEN Cardinality(A) ELSE Cardinality(A) + 1
      BY <2>3, FS_AddElement
    <3> HIDE DEF A
    <3> QED
      BY <2>3, <3>1
  <2>5. Cardinality(ActiveIn(new)) <= Cardinality(A \cup {sp})
        /\ Cardinality(ActiveIn(new)) \in Nat
    BY <2>1, <2>2, <2>4, ActiveFinite, FS_Subset
  <2>6. Cardinality(A) + 1 <= new.count
    <3>1. CASE old.slot = <<>>
      <4>1. Cardinality(A) = 0
        BY <3>1, NoneActive
      <4> HIDE DEF A
      <4> QED
        BY <2>1, <4>1 DEF CountsMore
    <3>2. CASE old.slot # <<>>
      <4>1. new.count = old.count + 1
        BY <2>1, <3>2 DEF CountsMore
      <4> HIDE DEF A
      <4> QED
        BY <2>1, <2>3, <4>1
    <3> QED
      BY <3>1, <3>2
  <2> HIDE DEF A
  <2>7. Cardinality(ActiveIn(new)) <= new.count
    BY <2>1, <2>3, <2>4, <2>5, <2>6
  <2> QED
    BY <1>5, <2>7 DEF new
<1> QED
  BY <1>4, <1>5

LEMMA AllocCounted ==
  ASSUME NEW fs, NEW a, NEW g, NEW k \in {"dir", "file"}, IsAllocated(fs, a, g, k), Counted(fs)
  PROVE  Counted(a)
<1> SUFFICES ASSUME NEW x \in Inum
             PROVE  Cardinality(ActiveIn(a.inode[x])) <= a.inode[x].count
  BY DEF Counted
<1>1. a.inode[x] = IF x = g + 1 THEN NewInode(k) ELSE fs.inode[x]
  BY DEF IsAllocated
<1>2. NewInode(k).slot = <<>> /\ NewInode(k).count \in Nat
  BY NewInodeIs DEF InodeType
<1>3. Cardinality(ActiveIn(NewInode(k))) <= NewInode(k).count
  BY <1>2, NoneActive
<1> QED
  BY <1>1, <1>3 DEF Counted

LEMMA RemovedCounted ==
  ASSUME NEW fs, NEW g, NEW p \in Seq(Name), p # <<>>, g \in Inum, Base(fs, g), Counted(fs)
  PROVE  Counted(directory_remove_entry(fs, p))
<1> DEFINE d == item_search(fs, Front(p))
           n == Last(p)
           r == directory_remove_entry(fs, p)
<1>1. At(fs, g, d) /\ n \in Name
  BY FrontFacts, SearchType DEF Base
<1>2. \/ r = fs
      \/ \E j : IsNamed(fs, d, j, n) /\ r = Dropped(fs, d, j)
      \/ \E j, k : /\ IsNamed(fs, d, j, n) /\ IsNamed(fs, d, k, n)
                   /\ r = Dropped(Dropped(fs, d, j), d, k)
  BY RemovedIs
<1> HIDE DEF d, n, r
<1>3. \A j : IsNamed(fs, d, j, n) => CanDrop(fs, g, d, j)
  BY <1>1 DEF CanDrop, IsNamed
<1>4. CASE \E j : IsNamed(fs, d, j, n) /\ r = Dropped(fs, d, j)
  BY <1>3, <1>4, DropCounted DEF r
<1>5. CASE \E j, k : /\ IsNamed(fs, d, j, n) /\ IsNamed(fs, d, k, n)
                     /\ r = Dropped(Dropped(fs, d, j), d, k)
  <2>1. PICK j, k : /\ IsNamed(fs, d, j, n) /\ IsNamed(fs, d, k, n)
                    /\ r = Dropped(Dropped(fs, d, j), d, k)
    BY <1>5
  <2>2. Base(Dropped(fs, d, j), g) /\ At(Dropped(fs, d, j), g, d)
        /\ IsNamed(Dropped(fs, d, j), d, k, n)
    BY <1>3, <2>1, DroppedBase, DroppedAgain
  <2>3. CanDrop(Dropped(fs, d, j), g, d, k)
    BY <1>1, <2>2 DEF CanDrop, IsNamed
  <2>4. Counted(Dropped(fs, d, j))
    BY <1>3, <2>1, DropCounted
  <2> QED
    BY <2>1, <2>3, <2>4, DropCounted DEF r
<1> QED
  BY <1>2, <1>4, <1>5 DEF r

LEMMA CountInit == Init => CountInv
<1> SUFFICES ASSUME Init, NEW x \in Inum
             PROVE  Cardinality(ActiveIn(Fs.inode[x])) <= Fs.inode[x].count
  BY DEF CountInv, Counted
<1>1. Fs.inode[x] = IF x = 0 THEN NewInode("dir") ELSE Blank
  BY DEF Init, Fs, NewInode, Inum
<1>2. /\ NewInode("dir").slot = <<>> /\ NewInode("dir").count \in Nat
      /\ Blank.slot = <<>> /\ Blank.count \in Nat
  BY NewInodeIs DEF InodeType, Blank
<1>3. /\ Cardinality(ActiveIn(NewInode("dir"))) = 0
      /\ Cardinality(ActiveIn(Blank)) = 0
  BY <1>2, NoneActive
<1>4. 0 <= NewInode("dir").count /\ 0 <= Blank.count
  BY <1>2
<1> QED
  BY <1>1, <1>3, <1>4

\* Every call that adds an entry to a directory counts it.
LEMMA CountStep == BaseInv /\ CountInv /\ [Next]_vars => CountInv'
<1> SUFFICES ASSUME BaseInv, Counted(Fs), [Next]_vars PROVE Counted(Fs')
  BY DEF CountInv
<1>0. Base(Fs, given) /\ given \in Inum
  BY DEF BaseInv
<1>1. ASSUME NEW p \in Path, NEW k \in {"dir", "file"}, mknod(p, k) PROVE Counted(Fs')
  <2>1. PICK stale \in StaleCount :
          SetFs(directory_add_entry(Allocated(k), p, given + 1, k, stale))
    BY <1>1 DEF mknod
  <2> DEFINE r == directory_add_entry(Allocated(k), p, given + 1, k, stale)
  <2>2. MayMake(p) /\ HasRoom(p) /\ given < LastInode
    BY <1>1 DEF mknod, MayMake
  <2>3. Counted(Allocated(k))
    BY <2>2, AllocatedIs, AllocCounted
  <2>4. Adds(Allocated(k), given + 1, r, item_search(Allocated(k), Front(p)),
             NewEntry(p, given + 1), k)
    BY <2>2, MadeAdds
  <2>5. Counted(r) /\ r \in FsType
    BY <2>3, <2>4, AddCounted DEF Adds
  <2>6. Fs' = r
    BY <2>1, <2>5, FsRecords
  <2> QED
    BY <2>5, <2>6
<1>2. ASSUME NEW p \in Path, NEW k \in {"dir", "file"}, mknodFails(p, k) PROVE Counted(Fs')
  <2>1. given < LastInode /\ SetFs(Allocated(k))
    BY <1>2 DEF mknodFails, MayMake
  <2>2. IsAllocated(Fs, Allocated(k), given, k)
    BY <2>1, AllocatedIs
  <2>3. Fs' = Allocated(k)
    BY <2>1, <2>2, FsRecords DEF IsAllocated
  <2> QED
    BY <2>2, <2>3, AllocCounted
<1>3. ASSUME NEW p \in Path, unlink(p) PROVE Counted(Fs')
  <2> DEFINE r == directory_remove_entry(Fs, p)
  <2>1. SetFs(r) /\ p \in Seq(Name) /\ p # <<>>
    BY <1>3, PathIs DEF unlink
  <2>2. Counted(r) /\ Base(r, given)
    BY <1>0, <2>1, RemovedCounted, RemovedBase
  <2>3. Fs' = r
    BY <2>1, <2>2, FsRecords DEF Base
  <2> QED
    BY <2>2, <2>3
<1>4. ASSUME NEW from \in Path, NEW to \in Path, NEW stale \in StaleCount,
             IsFile(from) \/ IsDir(from), MayLink(from, to)
      PROVE  Counted(Linked(from, to, stale)) /\ Base(Linked(from, to, stale), given)
  <2>1. IsDir(parent_path(to)) /\ HasRoom(to) /\ inode[item_search(Fs, from).inum].refs < MaxRefs
    BY <1>4 DEF MayLink
  <2>2. LET i == item_search(Fs, from).inum
        IN Adds(Fs, given, Linked(from, to, stale), item_search(Fs, Front(to)),
                NewEntry(to, i), inode[i].kind)
    BY <1>4, <2>1, LinkedAdds
  <2>3. Counted(Linked(from, to, stale))
    BY <2>2, AddCounted DEF Adds
  <2> QED
    BY <1>4, <2>1, <2>3, LinkedBase
<1>5. ASSUME NEW from \in Path, NEW to \in Path, link(from, to) PROVE Counted(Fs')
  <2>1. PICK stale \in StaleCount : SetFs(Linked(from, to, stale))
    BY <1>5 DEF link
  <2>2. Counted(Linked(from, to, stale)) /\ Base(Linked(from, to, stale), given)
    BY <1>4, <1>5 DEF link
  <2>3. Fs' = Linked(from, to, stale)
    BY <2>1, <2>2, FsRecords DEF Base
  <2> QED
    BY <2>2, <2>3
<1>6. ASSUME NEW from \in Path, NEW to \in Path, rename(from, to) PROVE Counted(Fs')
  <2>1. PICK stale \in StaleCount : SetFs(directory_remove_entry(Linked(from, to, stale), from))
    BY <1>6 DEF rename
  <2>2. Counted(Linked(from, to, stale)) /\ Base(Linked(from, to, stale), given)
    BY <1>4, <1>6 DEF rename
  <2> DEFINE r == directory_remove_entry(Linked(from, to, stale), from)
  <2>3. Counted(r) /\ Base(r, given)
    BY <1>0, <2>2, PathIs, RemovedCounted, RemovedBase
  <2>4. Fs' = r
    BY <2>1, <2>3, FsRecords DEF Base
  <2> QED
    BY <2>3, <2>4
<1>7. CASE UNCHANGED vars
  <2>1. Fs' = Fs
    BY <1>7 DEF vars, Fs
  <2> QED
    BY <2>1
<1> QED
  BY <1>1, <1>2, <1>3, <1>5, <1>6, <1>7 DEF Next

LEMMA DropEntered ==
  ASSUME NEW fs, NEW g, NEW d, NEW j, NEW o, CanDrop(fs, g, d, j), Agree(fs, o),
         Entered(fs, o), d.tree # 0
  PROVE  Entered(Dropped(fs, d, j), o)
<1> DEFINE e == fs.inode[d.inum].slot[j]
           r == Dropped(fs, d, j)
           gone == fs.inode[e.inum].refs = 1
<1>1. /\ fs \in FsType /\ SlotsOK(fs, g) /\ TreesOK(fs, g) /\ g \in Inum /\ d.inum \in Inum
      /\ DropEffect(fs, r, d, j) /\ r \in FsType /\ e.inum \in Inum
      /\ j \in 1 .. Len(fs.inode[d.inum].slot)
  <2>0. e.inum \in 1 .. g
    BY DropFacts
  <2> HIDE DEF e
  <2>1. e.inum \in 1 .. g /\ g \in Nat /\ g <= LastInode /\ LastInode \in Nat
    BY <2>0, ConstantTypes DEF CanDrop, Inum
  <2>2. e.inum \in Inum
    BY <2>1 DEF Inum
  <2> QED
    BY <2>2, DropFacts DEF CanDrop, Base, e
<1>2. d.tree \in 1 .. Len(fs.tree) /\ d.inum = fs.tree[d.tree].inum
  BY <1>1, FsParts DEF CanDrop, At
<1>3. LeavesDropped(fs, r, d, j, o)
  BY DropLeaves DEF Agree
<1>4. LeavesEntered(fs, o) /\ SingleRefs(fs) /\ TreesApart(fs)
  BY DEF Entered, Agree
<1> HIDE DEF r
<1>5. SingleRefs(r)
  <2> SUFFICES ASSUME NEW x \in Inum PROVE r.inode[x].refs <= 1
    BY DEF SingleRefs
  <2>1. CASE gone /\ x = e.inum
    <3>1. r.inode[x] = Blank
      BY <1>1, <2>1 DEF DropEffect
    <3>2. Blank.refs = 0
      BY DEF Blank
    <3> QED
      BY <3>1, <3>2
  <2>2. CASE ~(gone /\ x = e.inum)
    <3>1. r.inode[x].refs = fs.inode[x].refs
      BY <1>1, <2>2 DEF DropEffect
    <3> QED
      BY <1>4, <3>1 DEF SingleRefs
  <2> QED
    BY <2>1, <2>2
<1>6. LeavesEntered(r, o)
  <2> SUFFICES ASSUME NEW x \in LeavesOf(r, o)
               PROVE  \E k \in 1 .. Len(SlotsOf(r, x[1])) :
                        SlotsOf(r, x[1])[k].active /\ SlotsOf(r, x[1])[k].name = x[2]
    BY DEF LeavesEntered
  <2> DEFINE y == fs.tree[x[1]].inum
  <2>1. x \in LeavesOf(fs, o) /\ ~(gone /\ x = <<d.tree, e.name>>)
    BY <1>3 DEF LeavesDropped
  <2>2. x[1] \in 1 .. Len(fs.tree) /\ x = <<x[1], x[2]>>
    BY <1>1, <2>1, LeavesOfFacts
  <2>3. r.tree[x[1]].inum = y /\ IsLive(r, x[1])
    BY <1>3, <2>2 DEF LeavesDropped, LeavesOf
  <2>4. y \in Inum /\ r.inode[y].kind = "dir"
    BY <1>1, <2>2, <2>3, FsParts DEF TreeType, IsLive
  <2>5. PICK k \in 1 .. Len(SlotsOf(fs, x[1])) :
          SlotsOf(fs, x[1])[k].active /\ SlotsOf(fs, x[1])[k].name = x[2]
    BY <1>4, <2>1 DEF LeavesEntered
  <2>6. /\ k \in 1 .. Len(fs.inode[y].slot) /\ fs.inode[y].slot[k].active
        /\ fs.inode[y].slot[k].name = x[2] /\ SlotsOf(r, x[1]) = r.inode[y].slot
    BY <2>3, <2>5 DEF SlotsOf
  <2> HIDE DEF y
  <2>7. Kept(fs, r, y, d.inum, j)
    <3>1. ~(gone /\ y = e.inum)
      <4> SUFFICES ASSUME gone, y = e.inum PROVE FALSE
        OBVIOUS
      <4>1. r.inode[y] = Blank
        BY <1>1 DEF DropEffect
      <4> QED
        BY <2>4, <4>1 DEF Blank
    <3> QED
      BY <1>1, <2>4, <3>1 DEF DropEffect
  <2>8. ~(y = d.inum /\ k = j)
    <3> SUFFICES ASSUME y = d.inum, k = j PROVE FALSE
      OBVIOUS
    <3>1. x[1] = d.tree
      BY <1>2, <1>4, <2>2 DEF TreesApart, y
    <3>2. e.active /\ e.name = x[2] /\ e.name # <<>>
      <4>1. e.active /\ e.name = x[2]
        BY <2>6
      <4>2. SlotOK(fs, g, d.inum, e)
        BY <1>1 DEF SlotsOK
      <4> HIDE DEF e
      <4> QED
        BY <4>1, <4>2 DEF SlotOK
    <3>3. fs.inode[e.inum].refs >= 1
      <4>1. SlotOK(fs, g, d.inum, e)
        BY <1>1 DEF SlotsOK
      <4> HIDE DEF e
      <4> QED
        BY <3>2, <4>1 DEF SlotOK
    <3>4. fs.inode[e.inum].refs <= 1 /\ fs.inode[e.inum].refs \in Nat
      <4>1. fs.inode[e.inum] \in InodeType
        BY <1>1, FsParts
      <4> HIDE DEF e
      <4>2. fs.inode[e.inum].refs \in Nat
        BY <4>1, ConstantTypes DEF InodeType
      <4> QED
        BY <1>1, <1>4, <4>2 DEF SingleRefs
    <3>5. gone
      BY <3>3, <3>4
    <3> QED
      BY <2>1, <2>2, <3>1, <3>2, <3>5
  <2>9. k \in 1 .. Len(r.inode[y].slot) /\ r.inode[y].slot[k].active /\ r.inode[y].slot[k].name = x[2]
    BY <2>6, <2>7, <2>8 DEF Kept
  <2> QED
    BY <2>6, <2>9
<1> QED
  BY <1>5, <1>6 DEF r, Entered

LEMMA RemovedEntered ==
  ASSUME NEW fs, NEW g, NEW p \in Seq(Name), NEW o, p # <<>>, g \in Inum, Base(fs, g),
         Agree(fs, o), Entered(fs, o), item_search(fs, Front(p)).tree # 0,
         Looked(o, item_search(fs, Front(p)).tree)
  PROVE  Entered(directory_remove_entry(fs, p), o)
<1> DEFINE d == item_search(fs, Front(p))
           n == Last(p)
           r == directory_remove_entry(fs, p)
<1>1. At(fs, g, d) /\ n \in Name
  BY FrontFacts, SearchType DEF Base
<1>2. \/ r = fs
      \/ \E j : IsNamed(fs, d, j, n) /\ r = Dropped(fs, d, j)
      \/ \E j, k : /\ IsNamed(fs, d, j, n) /\ IsNamed(fs, d, k, n)
                   /\ r = Dropped(Dropped(fs, d, j), d, k)
  BY RemovedIs
<1>3. d.tree # 0 /\ Looked(o, d.tree)
  OBVIOUS
<1> HIDE DEF d, n, r
<1>4. \A j : IsNamed(fs, d, j, n) => CanDrop(fs, g, d, j)
  BY <1>1 DEF CanDrop, IsNamed
<1>5. CASE \E j : IsNamed(fs, d, j, n) /\ r = Dropped(fs, d, j)
  BY <1>3, <1>4, <1>5, DropEntered DEF r
<1>6. CASE \E j, k : /\ IsNamed(fs, d, j, n) /\ IsNamed(fs, d, k, n)
                     /\ r = Dropped(Dropped(fs, d, j), d, k)
  <2>1. PICK j, k : /\ IsNamed(fs, d, j, n) /\ IsNamed(fs, d, k, n)
                    /\ r = Dropped(Dropped(fs, d, j), d, k)
    BY <1>6
  <2>2. Base(Dropped(fs, d, j), g) /\ At(Dropped(fs, d, j), g, d)
        /\ IsNamed(Dropped(fs, d, j), d, k, n)
    BY <1>4, <2>1, DroppedBase, DroppedAgain
  <2>3. CanDrop(Dropped(fs, d, j), g, d, k)
    BY <1>1, <2>2 DEF CanDrop, IsNamed
  <2>4. Agree(Dropped(fs, d, j), o) /\ Entered(Dropped(fs, d, j), o)
    BY <1>3, <1>4, <2>1, DropAgree, DropEntered
  <2> QED
    BY <1>3, <2>1, <2>3, <2>4, DropEntered DEF r
<1> QED
  BY <1>2, <1>5, <1>6 DEF r

LEMMA AllocEntered ==
  ASSUME NEW fs, NEW a, NEW g, NEW k \in {"dir", "file"}, NEW o, IsAllocated(fs, a, g, k),
         Base(fs, g), g \in Inum, Entered(fs, o)
  PROVE  Entered(a, o)
<1>1. fs \in FsType /\ TreesOK(fs, g) /\ LeavesEntered(fs, o) /\ SingleRefs(fs)
  BY DEF Base, Entered
<1>2. /\ \A t \in 1 .. Len(fs.tree) : SlotsOf(a, t) = SlotsOf(fs, t)
      /\ LeavesOf(a, o) = LeavesOf(fs, o)
  <2>1. SameIndexed(fs, a, o)
    BY <1>1, AllocSame
  <2> QED
    BY <2>1 DEF SameIndexed
<1>3. LeavesEntered(a, o)
  BY <1>1, <1>2, LeavesOfFacts DEF LeavesEntered
<1>4. SingleRefs(a)
  <2>1. NewInode(k).refs = 1
    BY NewInodeIs
  <2> QED
    BY <1>1, <2>1 DEF SingleRefs, IsAllocated
<1> QED
  BY <1>3, <1>4 DEF Entered

\* The entry does not take the slot of another: the count covers those, so that
\* its slot was inactive or is new.
LEMMA AddEntered ==
  ASSUME NEW fs, NEW g, NEW r, NEW i, NEW e, NEW at, NEW kind, NEW o,
         CanEnter(fs, g, r, i, Spot(fs.inode[i]), e, at, kind, o),
         Entered(fs, o), Counted(fs), r.inode[e.inum].refs = 1
  PROVE  Entered(r, o)
<1> DEFINE sp == Spot(fs.inode[i])
           old == fs.inode[i].slot
           new == r.inode[i].slot
<1>1. /\ fs \in FsType /\ TreesOK(fs, g) /\ g \in Inum /\ CanAdd(fs, g, r, i, sp, e)
      /\ AddEffect(fs, r, i, sp, e) /\ at \in 1 .. Len(fs.tree) /\ i = fs.tree[at].inum
      /\ e.active
  BY DEF CanEnter, CanAdd
<1>2. LeavesAdded(fs, r, e, at, kind, o)
  BY AddLeaves
<1>3. LeavesEntered(fs, o) /\ SingleRefs(fs)
  BY DEF Entered
<1>4. i \in Inum /\ Len(old) \in Nat /\ fs.inode[i].count \in Nat
      /\ Cardinality(ActiveIn(fs.inode[i])) <= fs.inode[i].count
  <2>1. i \in Inum
    BY <1>1, FsParts DEF TreeType
  <2>2. fs.inode[i] \in InodeType
    BY <1>1, <2>1, FsParts
  <2> QED
    BY <1>1, <2>1, <2>2, FsParts DEF InodeType, Counted
<1>5. SlotsAdded(old, new, sp, e)
  BY <1>1 DEF AddEffect
<1>6. sp <= Len(old) => ~old[sp].active
  BY <1>4, SpotIsFree
<1> HIDE DEF sp, old, new
<1>7. SingleRefs(r)
  BY <1>1, <1>3 DEF SingleRefs, AddEffect
<1>8. LeavesEntered(r, o)
  <2> SUFFICES ASSUME NEW x \in LeavesOf(r, o)
               PROVE  \E k \in 1 .. Len(SlotsOf(r, x[1])) :
                        SlotsOf(r, x[1])[k].active /\ SlotsOf(r, x[1])[k].name = x[2]
    BY DEF LeavesEntered
  <2>1. CASE x = <<at, e.name>>
    <3>1. x[1] = at /\ x[2] = e.name /\ SlotsOf(r, at) = new
      BY <1>1, <1>2, <2>1 DEF LeavesAdded, SlotsOf, new
    <3>2. sp \in 1 .. Len(new) /\ new[sp] = e
      BY <1>5 DEF SlotsAdded
    <3> QED
      BY <1>1, <3>1, <3>2
  <2>2. CASE x \in LeavesOf(fs, o)
    <3> DEFINE y == fs.tree[x[1]].inum
    <3>1. x[1] \in 1 .. Len(fs.tree)
      BY <1>1, <2>2, LeavesOfFacts
    <3>2. y \in Inum /\ SlotsOf(r, x[1]) = r.inode[y].slot
      BY <1>1, <1>2, <3>1, FsParts DEF LeavesAdded, SlotsOf, TreeType
    <3>3. PICK k \in 1 .. Len(SlotsOf(fs, x[1])) :
            SlotsOf(fs, x[1])[k].active /\ SlotsOf(fs, x[1])[k].name = x[2]
      BY <1>3, <2>2 DEF LeavesEntered
    <3>4. k \in 1 .. Len(fs.inode[y].slot) /\ fs.inode[y].slot[k].active
          /\ fs.inode[y].slot[k].name = x[2]
      BY <3>3 DEF SlotsOf
    <3> HIDE DEF y
    <3>5. CASE y # i
      <4>1. r.inode[y].slot = fs.inode[y].slot
        BY <1>1, <3>2, <3>5 DEF AddEffect
      <4> QED
        BY <3>2, <3>4, <4>1
    <3>6. CASE y = i
      <4>1. k \in 1 .. Len(old) /\ old[k].active /\ old[k].name = x[2] /\ SlotsOf(r, x[1]) = new
        BY <3>2, <3>4, <3>6 DEF old, new
      <4>2. k # sp
        BY <1>4, <1>6, <4>1
      <4>3. k \in 1 .. Len(new) /\ new[k] = old[k]
        <5>1. Len(new) \in Nat /\ Len(old) <= Len(new)
          BY <1>5, ConstantTypes DEF SlotsAdded
        <5>2. k \in 1 .. Len(new) /\ k <= Len(old)
          BY <1>4, <4>1, <5>1
        <5> QED
          BY <1>5, <4>2, <5>2 DEF SlotsAdded
      <4> QED
        BY <4>1, <4>3
    <3> QED
      BY <3>5, <3>6
  <2> QED
    BY <1>2, <2>1, <2>2 DEF LeavesAdded
<1> QED
  BY <1>7, <1>8 DEF Entered

LEMMA EnteredInit == Init => EnteredInv
<1> SUFFICES ASSUME Init PROVE Entered(Fs, overlap)
  BY DEF EnteredInv
<1>1. Fs.inode = inode /\ Fs.tree = <<NewTree(0)>> /\ Len(Fs.tree) = 1 /\ Fs.tree[1] = NewTree(0)
  BY DEF Init, Fs
<1>2. \A n \in Name : NewTree(0).leaf[n] = <<>>
  BY DEF NewTree
<1>3. \A t \in 1 .. 1 : t = 1
  OBVIOUS
<1>4. LeavesOf(Fs, overlap) = {}
  BY <1>1, <1>2, <1>3 DEF LeavesOf
<1>5. SingleRefs(Fs)
  <2> SUFFICES ASSUME NEW x \in Inum PROVE Fs.inode[x].refs <= 1
    BY DEF SingleRefs
  <2>1. Fs.inode[x] = IF x = 0 THEN NewInode("dir") ELSE Blank
    BY DEF Init, Fs, NewInode, Inum
  <2>2. NewInode("dir").refs = 1 /\ Blank.refs = 0
    BY NewInodeIs DEF Blank
  <2> QED
    BY <2>1, <2>2
<1> QED
  BY <1>4, <1>5 DEF Entered, LeavesEntered

\* Without a link or a rename every call keeps the entries of the leaves.
LEMMA EnteredStep ==
  BaseInv /\ AgreeInv /\ CountInv /\ EnteredInv /\ [Next]_vars => EnteredInv'
<1> SUFFICES ASSUME BaseInv, AgreeInv, CountInv, EnteredInv, [Next]_vars, did' = {}
             PROVE  Entered(Fs', overlap')
  BY DEF EnteredInv
<1>0. Base(Fs, given) /\ given \in Inum /\ Counted(Fs)
  BY DEF BaseInv, CountInv
<1>1. ASSUME did = {} PROVE Agree(Fs, overlap) /\ Entered(Fs, overlap)
  BY <1>1 DEF AgreeInv, EnteredInv
<1>2. ASSUME NEW p \in Path, NEW k \in {"dir", "file"}, mknod(p, k)
      PROVE  Entered(Fs', overlap')
  <2>1. PICK stale \in StaleCount :
          SetFs(directory_add_entry(Allocated(k), p, given + 1, k, stale))
    BY <1>2 DEF mknod
  <2> DEFINE a == Allocated(k)
             g == given + 1
             d == item_search(a, Front(p))
             e == NewEntry(p, g)
             r == directory_add_entry(a, p, g, k, stale)
  <2>2. MayMake(p) /\ HasRoom(p) /\ given < LastInode /\ overlap' = overlap /\ did' = did
    BY <1>2 DEF mknod, MayMake
  <2>3. Agree(Fs, overlap) /\ Entered(Fs, overlap)
    BY <1>1, <2>2
  <2>4. IsAllocated(Fs, a, given, k)
    BY <2>2, AllocatedIs
  <2>5. Entered(a, overlap) /\ Counted(a)
    BY <1>0, <2>3, <2>4, AllocEntered, AllocCounted
  <2>6. CanEnter(a, g, r, d.inum, Spot(a.inode[d.inum]), e, d.tree, k, overlap)
    BY <2>2, <2>3, MadeAgree
  <2>7. r.inode[g].refs = 1 /\ r \in FsType
    BY <2>2, MadeAdds DEF Adds
  <2>8. e.inum = g
    BY DEF NewEntry
  <2> HIDE DEF a, g, d, e, r
  <2>9. Entered(r, overlap)
    BY <2>5, <2>6, <2>7, <2>8, AddEntered
  <2>10. Fs' = r
    BY <2>1, <2>7, FsRecords DEF r, a, g
  <2> QED
    BY <2>2, <2>9, <2>10
<1>3. ASSUME NEW p \in Path, NEW k \in {"dir", "file"}, mknodFails(p, k)
      PROVE  Entered(Fs', overlap')
  <2>1. given < LastInode /\ SetFs(Allocated(k)) /\ overlap' = overlap /\ did' = did
    BY <1>3 DEF mknodFails, MayMake
  <2>2. IsAllocated(Fs, Allocated(k), given, k)
    BY <2>1, AllocatedIs
  <2>3. Entered(Allocated(k), overlap)
    BY <1>0, <1>1, <2>1, <2>2, AllocEntered
  <2>4. Fs' = Allocated(k)
    BY <2>1, <2>2, FsRecords DEF IsAllocated
  <2> QED
    BY <2>1, <2>3, <2>4
<1>4. ASSUME NEW p \in Path, unlink(p) PROVE Entered(Fs', overlap')
  <2> DEFINE r == directory_remove_entry(Fs, p)
  <2>1. SetFs(r) /\ overlap' = overlap /\ did' = did /\ Found(p)
    BY <1>4 DEF unlink
  <2>2. Agree(Fs, overlap) /\ Entered(Fs, overlap) /\ p \in Seq(Name) /\ p # <<>>
    BY <1>1, <2>1, PathIs
  <2>3. item_search(Fs, Front(p)).tree # 0 /\ Looked(overlap, item_search(Fs, Front(p)).tree)
    BY <1>0, <2>1, <2>2, ParentIs
  <2>4. Entered(r, overlap) /\ Base(r, given)
    BY <1>0, <2>2, <2>3, RemovedEntered, RemovedBase
  <2>5. Fs' = r
    BY <2>1, <2>4, FsRecords DEF Base
  <2> QED
    BY <2>1, <2>4, <2>5
<1>5. \A from, to \in Path : ~link(from, to) /\ ~rename(from, to)
  BY DEF link, rename
<1>6. CASE UNCHANGED vars
  <2>1. Fs' = Fs /\ overlap' = overlap /\ did' = did
    BY <1>6 DEF vars, Fs
  <2> QED
    BY <1>1, <2>1
<1> QED
  BY <1>2, <1>3, <1>4, <1>5, <1>6 DEF Next

LEMMA EnteredHolds == Spec => [](BaseInv /\ AgreeInv /\ CountInv /\ EnteredInv)
<1>1. Init => BaseInv /\ AgreeInv /\ CountInv /\ EnteredInv
  BY BaseInit, AgreeInit, CountInit, EnteredInit
<1>2. (BaseInv /\ AgreeInv /\ CountInv /\ EnteredInv) /\ [Next]_vars
        => (BaseInv /\ AgreeInv /\ CountInv /\ EnteredInv)'
  BY BaseStep, AgreeStep, CountStep, EnteredStep
<1> QED
  BY <1>1, <1>2, PTL DEF Spec

\* While no file has had a second name readdir lists every name that is found,
\* unless the directory's first block has lost all its entries and a later one
\* has not: every leaf has its entry, and the count covers the entries
\* (directory.c:165-216).
THEOREM DirectoryFoundIsListed == Spec => []FoundIsListed
<1>1. BaseInv /\ AgreeInv /\ CountInv /\ EnteredInv => FoundIsListed
  <2> SUFFICES ASSUME BaseInv, Agree(Fs, overlap), Counted(Fs), Entered(Fs, overlap), NEW p \in Directories,
                      NEW j \in 1 .. Len(inode[item_search(Fs, p).inum].slot), j <= PerBlock,
                      inode[item_search(Fs, p).inum].slot[j].active,
                      NEW q \in Path, Front(q) = p, Found(q)
               PROVE  \E k \in Listed(p) : Entry(p, k).name = Last(q)
    BY DEF AgreeInv, CountInv, EnteredInv, FoundIsListed
  <2> DEFINE d == item_search(Fs, p)
             dir == inode[d.inum]
             n == Last(q)
             x == <<d.tree, n>>
  <2>1. q \in Seq(Name) /\ q # <<>> /\ n \in Name /\ item_search(Fs, q) # NotFound
        /\ p \in Seq(Name) /\ dir.kind = "dir"
    BY PathIs DEF Found, Directories, IsDir, Mode
  <2>2. d.tree # 0 /\ Looked(overlap, d.tree) /\ d = Walked(Fs, p)
    BY <2>1, ParentIs
  <2>3. /\ d.tree \in 1 .. Len(Fs.tree) /\ d.inum = Fs.tree[d.tree].inum
        /\ d.inum \in Inum /\ Fs \in FsType
    <3>1. At(Fs, given, d) /\ Fs \in FsType
      BY <2>1, SearchType DEF BaseInv, Base
    <3> HIDE DEF d
    <3>2. d.tree \in 1 .. Len(Fs.tree) /\ d.inum = Fs.tree[d.tree].inum
      BY <2>2, <3>1, FsParts DEF At
    <3> QED
      BY <3>1, <3>2, FsParts DEF TreeType
  <2>4. Fs.tree[d.tree].leaf[n] # <<>>
    <3>1. Descend(Fs, d, n) # NotFound
      BY <2>1, <2>2, SearchIs, WalkedDown
    <3> HIDE DEF d, n
    <3> QED
      BY <3>1, <2>2 DEF Descend
  <2>5. SlotsOf(Fs, d.tree) = dir.slot /\ IsLive(Fs, d.tree)
    BY <2>1, <2>3, FsIs DEF SlotsOf, IsLive
  <2> HIDE DEF d, n
  <2>6. x \in LeavesOf(Fs, overlap) /\ x[1] = d.tree /\ x[2] = n
    BY <2>1, <2>2, <2>3, <2>4, <2>5 DEF LeavesOf
  <2>7. PICK k \in 1 .. Len(dir.slot) : dir.slot[k].active /\ dir.slot[k].name = n
    BY <2>5, <2>6 DEF Entered, LeavesEntered
  <2>8. Len(dir.slot) \in Nat /\ dir.count \in Nat /\ Cardinality(ActiveIn(dir)) <= dir.count
    <3>1. Fs.inode[d.inum] = dir /\ Fs.inode[d.inum] \in InodeType
      BY <2>3, FsIs, FsParts
    <3> QED
      BY <2>3, <3>1, FsParts DEF Counted, InodeType
  <2>9. k \in Listed(p)
    <3> DEFINE active(m) == {l \in 1 .. m : dir.slot[l].active}
    <3>1. j \in active(PerBlock) /\ dir.slot # <<>>
      BY ConstantTypes, EmptySeq DEF d
    <3>2. k \in active(Len(dir.slot))
      BY <2>7
    <3>3. Cardinality(active(k)) <= dir.count
      <4>1. active(k) \subseteq ActiveIn(dir)
        BY <2>7, <2>8 DEF ActiveIn
      <4>2. IsFiniteSet(ActiveIn(dir)) /\ Cardinality(ActiveIn(dir)) \in Nat
        BY <2>8, ActiveFinite
      <4>3. Cardinality(active(k)) <= Cardinality(ActiveIn(dir)) /\ Cardinality(active(k)) \in Nat
        BY <4>1, <4>2, FS_Subset, FS_CardinalityType
      <4> QED
        BY <2>8, <4>2, <4>3
    <3> QED
      BY <3>1, <3>2, <3>3 DEF Listed, d
  <2>10. Entry(p, k).name = n
    BY <2>7 DEF Entry, d
  <2> QED
    BY <2>9, <2>10 DEF n
<1> QED
  BY <1>1, EnteredHolds, PTL
=============================================================================
