-------------------------- MODULE BlockCacheProofs --------------------------
(***************************************************************************)
(* The block cache keeps its books and implements the store, for any cache *)
(* size and any sets of blocks, inodes and contents.                       *)
(***************************************************************************)
EXTENDS SyncOrder, RingProofs, SequenceTheorems, WellFoundedInduction

-----------------------------------------------------------------------------
\* A sequence taken apart at its head, as fl_pop and dl_pop do.
LEMMA HeadTailSet ==
  ASSUME NEW S, NEW q \in Seq(S), q # <<>>
  PROVE  /\ Head(q) \in S /\ Tail(q) \in Seq(S)
         /\ ToSet(q) = {Head(q)} \cup ToSet(Tail(q))
         /\ IsInjective(q) => IsInjective(Tail(q)) /\ Head(q) \notin ToSet(Tail(q))
<1>1. /\ Len(q) \in Nat \ {0} /\ DOMAIN q = 1 .. Len(q)
      /\ Tail(q) \in Seq(S) /\ Len(Tail(q)) = Len(q) - 1
      /\ DOMAIN Tail(q) = 1 .. Len(q) - 1
      /\ Head(q) = q[1] /\ q[1] \in S
      /\ \A i \in 1 .. Len(q) - 1 : Tail(q)[i] = q[i + 1]
  BY EmptySeq, LenProperties, HeadTailProperties
<1>2. ToSet(q) \subseteq {Head(q)} \cup ToSet(Tail(q))
  <2> DEFINE n == Len(q)
             t == Tail(q)
  <2> HIDE DEF n, t
  <2>1. /\ n \in Nat /\ DOMAIN q = 1 .. n /\ DOMAIN t = 1 .. n - 1
        /\ \A i \in 1 .. n - 1 : t[i] = q[i + 1]
    BY <1>1 DEF n, t
  <2>2. ASSUME NEW i \in 1 .. n, i # 1
        PROVE  q[i] \in ToSet(t)
    <3>1. i - 1 \in 1 .. n - 1 /\ (i - 1) + 1 = i
      BY <2>1, <2>2
    <3>2. t[i - 1] = q[i]
      BY <2>1, <3>1
    <3> QED
      BY <2>1, <3>1, <3>2 DEF ToSet
  <2> QED
    BY <1>1, <2>1, <2>2 DEF ToSet, t
<1>3. {Head(q)} \cup ToSet(Tail(q)) \subseteq ToSet(q)
  BY <1>1 DEF ToSet
<1>4. IsInjective(q) => IsInjective(Tail(q)) /\ Head(q) \notin ToSet(Tail(q))
  BY <1>1 DEF IsInjective, ToSet
<1> QED
  BY <1>1, <1>2, <1>3, <1>4

\* A sequence with a new head, as gdl_push and dl_push make it.
LEMMA ConsSet ==
  ASSUME NEW S, NEW q \in Seq(S), NEW e \in S
  PROVE  <<e>> \o q \in Seq(S) /\ ToSet(<<e>> \o q) = {e} \cup ToSet(q)
<1> DEFINE r == <<e>> \o q
<1>1. /\ <<e>> \in Seq(S) /\ Len(<<e>>) = 1 /\ <<e>>[1] = e
      /\ Len(q) \in Nat /\ DOMAIN q = 1 .. Len(q)
  BY LenProperties
<1>2. /\ r \in Seq(S) /\ Len(r) = 1 + Len(q)
      /\ \A i \in 1 .. 1 + Len(q) : r[i] = IF i <= 1 THEN <<e>>[i] ELSE q[i - 1]
  BY <1>1, ConcatProperties
<1>3. DOMAIN r = 1 .. 1 + Len(q)
  BY <1>2, LenProperties
<1> HIDE DEF r
<1>4. {e} \cup ToSet(q) \subseteq ToSet(r)
  <2>1. e = r[1] /\ 1 \in DOMAIN r
    BY <1>1, <1>2, <1>3
  <2>2. ASSUME NEW i \in 1 .. Len(q)
        PROVE  i + 1 \in DOMAIN r /\ r[i + 1] = q[i]
    BY <1>1, <1>2, <1>3
  <2> QED
    BY <2>1, <2>2, <1>1 DEF ToSet
<1>5. ToSet(r) \subseteq {e} \cup ToSet(q)
  <2> SUFFICES ASSUME NEW i \in 1 .. 1 + Len(q), i # 1
               PROVE  \E j \in 1 .. Len(q) : r[i] = q[j]
    <3>1. /\ \A k \in 1 .. 1 + Len(q) : k = 1 => r[k] = e
          /\ DOMAIN r = 1 .. 1 + Len(q) /\ DOMAIN q = 1 .. Len(q)
      BY <1>1, <1>2, <1>3
    <3> QED
      BY <3>1 DEF ToSet
  <2>1. i - 1 \in 1 .. Len(q)
    BY <1>1
  <2>2. r[i] = q[i - 1]
    BY <1>1, <1>2, <2>1
  <2> QED
    BY <2>1, <2>2
<1> QED
  BY <1>2, <1>4, <1>5 DEF r

\* A sequence without its last element, as cache_sync leaves it.
LEMMA FrontSet ==
  ASSUME NEW S, NEW q \in Seq(S), q # <<>>
  PROVE  /\ Last(q) \in ToSet(q) /\ Front(q) \in Seq(S)
         /\ ToSet(q) \ {Last(q)} \subseteq ToSet(Front(q))
         /\ ToSet(Front(q)) \subseteq ToSet(q)
<1>1. Len(q) \in Nat \ {0} /\ DOMAIN q = 1 .. Len(q)
      /\ \A i \in 1 .. Len(q) : q[i] \in S
  BY EmptySeq, LenProperties, ElementOfSeq
<1>2. /\ Front(q) \in Seq(S) /\ Len(Front(q)) = Len(q) - 1
      /\ \A i \in 1 .. Len(q) - 1 : Front(q)[i] = q[i]
  <2>1. \A i \in 1 .. Len(q) - 1 : q[i] \in S
    BY <1>1
  <2>2. /\ SubSeq(q, 1, Len(q) - 1) \in Seq(S)
        /\ Len(SubSeq(q, 1, Len(q) - 1)) = IF 1 <= Len(q) - 1 THEN Len(q) - 1 - 1 + 1 ELSE 0
        /\ \A i \in 1 .. Len(q) - 1 - 1 + 1 :
             SubSeq(q, 1, Len(q) - 1)[i] = q[1 + i - 1]
    BY <1>1, <2>1, SubSeqProperties, 1 \in Int, Len(q) - 1 \in Int
  <2> QED
    BY <1>1, <2>2 DEF Front
<1>3. DOMAIN Front(q) = 1 .. Len(q) - 1
  BY <1>2, LenProperties
<1> QED
  BY <1>1, <1>2, <1>3 DEF ToSet, Last

\* Sets of naturals have a least member.
LEMMA LeastNatural ==
  ASSUME NEW I, I \subseteq Nat, I # {}
  PROVE  \E m \in I : \A y \in I : m <= y
<1> DEFINE R == {ss \in Nat \X Nat : ss[1] < ss[2]}
<1>1. IsWellFoundedOn(R, Nat)
  BY NatLessThanWellFounded, Zenon DEF OpToRel
<1> HIDE DEF R
<1>2. PICK m \in I : \A y \in I : <<y, m>> \notin R
  BY <1>1, WFMin
<1>3. \A y \in I : m <= y
  <2> SUFFICES ASSUME NEW y \in I, ~(m <= y) PROVE FALSE
    OBVIOUS
  <2>1. <<y, m>> \in R
    BY DEF R
  <2> QED
    BY <1>2, <2>1
<1> QED
  BY <1>3

\* Removing an element once keeps all the others (gdl_pop, dl_remove_block).
LEMMA RemoveFirstSet ==
  ASSUME NEW S, NEW q \in Seq(S), NEW e
  PROVE  /\ RemoveFirst(q, e) \in Seq(S)
         /\ ToSet(q) \ {e} \subseteq ToSet(RemoveFirst(q, e))
         /\ ToSet(RemoveFirst(q, e)) \subseteq ToSet(q)
<1>1. Len(q) \in Nat /\ DOMAIN q = 1 .. Len(q)
      /\ \A i \in 1 .. Len(q) : q[i] \in S
  BY LenProperties, ElementOfSeq
<1>2. CASE ~ \E i \in 1 .. Len(q) : q[i] = e
  BY <1>2 DEF RemoveFirst
<1>3. CASE \E i \in 1 .. Len(q) : q[i] = e
  <2> DEFINE I == {i \in 1 .. Len(q) : q[i] = e}
             k == Min(I)
             a == SubSeq(q, 1, k - 1)
             b == SubSeq(q, k + 1, Len(q))
  <2>1. k \in I /\ I # {}
    <3>1. I \subseteq Nat /\ I # {}
      BY <1>1, <1>3
    <3>2. PICK m \in I : \A y \in I : m <= y
      BY <3>1, LeastNatural
    <3> QED
      BY <3>1, <3>2 DEF Min
  <2>2. RemoveFirst(q, e) = a \o b
    BY <1>3, <2>1 DEF RemoveFirst, RemoveAt, SelectInSeq
  <2>3. k \in 1 .. Len(q) /\ q[k] = e
    BY <2>1
  <2> HIDE DEF k, I
  <2>4. /\ a \in Seq(S) /\ Len(a) = k - 1
        /\ \A i \in 1 .. k - 1 : a[i] = q[i]
    <3>1. \A i \in 1 .. k - 1 : q[i] \in S
      BY <1>1, <2>3
    <3> QED
      BY <1>1, <2>3, <3>1, SubSeqProperties, 1 \in Int, k - 1 \in Int
  <2>5. /\ b \in Seq(S) /\ Len(b) = Len(q) - k
        /\ \A i \in 1 .. Len(q) - k : b[i] = q[k + i]
    <3>1. \A i \in k + 1 .. Len(q) : q[i] \in S
      BY <1>1, <2>3
    <3> QED
      <4>1. k + 1 \in Int /\ Len(q) \in Int
        BY <1>1, <2>3
      <4>2. /\ b \in Seq(S)
            /\ Len(b) = IF k + 1 <= Len(q) THEN Len(q) - (k + 1) + 1 ELSE 0
            /\ \A i \in 1 .. Len(q) - (k + 1) + 1 : b[i] = q[k + 1 + i - 1]
        BY <3>1, <4>1, SubSeqProperties
      <4> HIDE DEF b
      <4> QED
        <5>1. Len(b) = Len(q) - k
          <6>1. CASE k = Len(q)
            BY <1>1, <2>3, <4>2, <6>1
          <6>2. CASE k + 1 <= Len(q)
            <7>1. Len(q) - (k + 1) + 1 = Len(q) - k
              BY <1>1, <2>3
            <7> QED
              BY <4>2, <6>2, <7>1
          <6>3. k = Len(q) \/ k + 1 <= Len(q)
            <7>1. k \in Nat /\ Len(q) \in Nat /\ k <= Len(q)
              BY <1>1, <2>3
            <7> QED
              BY ONLY <7>1
          <6> QED
            BY <6>1, <6>2, <6>3
        <5>2. ASSUME NEW i \in 1 .. Len(q) - k PROVE b[i] = q[k + i]
          <6>1. /\ i \in 1 .. Len(q) - (k + 1) + 1
                /\ k + 1 + i - 1 = k + i
            BY <1>1, <2>3
          <6> QED
            BY <4>2, <6>1
        <5> QED
          BY <4>2, <5>1, <5>2
  <2> HIDE DEF a, b
  <2>6. /\ a \o b \in Seq(S) /\ Len(a \o b) = Len(q) - 1
        /\ \A i \in 1 .. Len(q) - 1 :
             (a \o b)[i] = IF i < k THEN q[i] ELSE q[i + 1]
    <3>1. /\ a \o b \in Seq(S) /\ Len(a \o b) = Len(a) + Len(b)
          /\ \A i \in 1 .. Len(a) + Len(b) :
               (a \o b)[i] = IF i <= Len(a) THEN a[i] ELSE b[i - Len(a)]
      BY <2>4, <2>5, ConcatProperties
    <3>2. Len(a) + Len(b) = Len(q) - 1
      BY <1>1, <2>3, <2>4, <2>5
    <3>3. ASSUME NEW i \in 1 .. Len(q) - 1
          PROVE  (a \o b)[i] = IF i < k THEN q[i] ELSE q[i + 1]
      <4>1. CASE i < k
        BY <4>1, <1>1, <2>3, <2>4, <3>1, <3>2
      <4>2. CASE ~(i < k)
        <5>1. i - (k - 1) \in 1 .. Len(q) - k /\ k + (i - (k - 1)) = i + 1
          BY <4>2, <1>1, <2>3
        <5>2. (a \o b)[i] = b[i - (k - 1)]
          BY <4>2, <1>1, <2>3, <2>4, <3>1, <3>2
        <5> QED
          BY <5>1, <5>2, <2>5, <4>2
      <4> QED
        BY <4>1, <4>2
    <3> QED
      BY <3>1, <3>2, <3>3
  <2>7. DOMAIN (a \o b) = 1 .. Len(q) - 1
    BY <2>6, LenProperties
  <2> DEFINE r == a \o b
  <2> HIDE DEF r
  <2>8. \A i \in 1 .. Len(q) - 1 : r[i] = IF i < k THEN q[i] ELSE q[i + 1]
    BY <2>6 DEF r
  <2>9. DOMAIN r = 1 .. Len(q) - 1
    BY <2>7 DEF r
  <2>10. ToSet(r) \subseteq ToSet(q)
    <3> SUFFICES ASSUME NEW i \in 1 .. Len(q) - 1
                 PROVE  \E j \in 1 .. Len(q) : r[i] = q[j]
      BY <1>1, <2>9 DEF ToSet
    <3>1. i \in 1 .. Len(q) /\ i + 1 \in 1 .. Len(q)
      BY <1>1
    <3> QED
      BY <2>8, <3>1
  <2>11. ToSet(q) \ {e} \subseteq ToSet(r)
    <3> SUFFICES ASSUME NEW i \in 1 .. Len(q), i # k
                 PROVE  \E j \in 1 .. Len(q) - 1 : r[j] = q[i]
      BY <1>1, <2>3, <2>9 DEF ToSet
    <3>1. CASE i < k
      <4>1. i \in 1 .. Len(q) - 1 /\ r[i] = q[i]
        BY <3>1, <1>1, <2>3, <2>8
      <4> QED
        BY <4>1
    <3>2. CASE i > k
      <4>1. i - 1 \in 1 .. Len(q) - 1 /\ ~(i - 1 < k) /\ i - 1 + 1 = i
        BY <3>2, <1>1, <2>3
      <4>2. r[i - 1] = q[i]
        BY <4>1, <2>8
      <4> QED
        BY <4>1, <4>2
    <3> QED
      BY <3>1, <3>2, <2>3
  <2> QED
    BY <2>2, <2>6, <2>10, <2>11 DEF r
<1> QED
  BY <1>2, <1>3

-----------------------------------------------------------------------------
\* A slot in use holds an entry with a block, an inode and a page.
EntriesFull == \A s \in lru.live : cache[s].inum \in Inum /\ cache[s].data \in Content

\* cache_fsync works on an inode that has a dirty list.
FsyncHasList == phase = "fsync" => job \in Inum /\ dl[job] # NULL

\* The inductive invariant: the four structures agree, and the two kinds of
\* dirty list name slots and blocks that are in the cache.
CacheInv == /\ TypeOK /\ SlotAccounting /\ DirtyQueued
            /\ EntriesFull /\ ListedResident /\ FsyncHasList

LEMMA EmptyRingOK == RingOK(EmptyRing)
BY FS_EmptySet DEF EmptyRing, RingOK, RingType, Counted, Linked, OneCycle

LEMMA AllFreeFacts == /\ AllFree \in Seq(Slot) /\ IsInjective(AllFree)
                      /\ ToSet(AllFree) = Slot
<1>1. \A i \in 1 .. CacheSize : CacheSize - i \in Slot
  BY BlockCacheConstants DEF Slot
<1>2. AllFree \in Seq(Slot) /\ DOMAIN AllFree = 1 .. CacheSize
  BY <1>1, BlockCacheConstants DEF AllFree
<1>3. IsInjective(AllFree)
  BY <1>2, BlockCacheConstants DEF IsInjective, AllFree
<1>4. \A s \in Slot : CacheSize - s \in 1 .. CacheSize /\ s = CacheSize - (CacheSize - s)
  BY BlockCacheConstants DEF Slot
<1>5. \A s \in Slot : AllFree[CacheSize - s] = s
  BY <1>4 DEF AllFree
<1>6. \A i \in 1 .. CacheSize : AllFree[i] \in Slot
  BY <1>1 DEF AllFree
<1>7. ToSet(AllFree) = Slot
  BY <1>2, <1>4, <1>5, <1>6 DEF ToSet
<1> QED
  BY <1>2, <1>3, <1>7

\* Memory as alloc_cache leaves it satisfies the invariant: the initial state,
\* and the state after the process ends.
Blank == /\ cache = [s \in Slot |-> NoEntry]
         /\ pci = [b \in Block |-> NULL]
         /\ free = AllFree /\ lru = EmptyRing /\ gdl = <<>>
         /\ dl = [i \in Inum |-> NULL] /\ job = NULL

Ended == /\ Blank /\ phase \in {"up", "down", "dead"}
         /\ fault \in {"none", "lru", "dl"} /\ disk \in [Block -> Content]

LEMMA BlankInv == Ended => CacheInv
<1> SUFFICES ASSUME Ended PROVE CacheInv
  OBVIOUS
<1> USE DEF Ended, Blank
<1>1. TypeOK
  BY AllFreeFacts, EmptyRingOK DEF TypeOK, RingOK, NoEntry
<1>2. SlotAccounting
  BY AllFreeFacts, EmptyRingOK DEF SlotAccounting, EmptyRing, Resident
<1>3. DirtyQueued
  BY DEF DirtyQueued, NoEntry, ToSet
<1>4. EntriesFull /\ ListedResident /\ FsyncHasList
  BY DEF EntriesFull, EmptyRing, ListedResident, FsyncHasList
<1> QED
  BY <1>1, <1>2, <1>3, <1>4 DEF CacheInv

LEMMA CacheInit == Init => CacheInv
BY BlankInv DEF Init, Ended, Blank

\* The same of the state a step leads to.
LEMMA BlankInvNext == Ended' => CacheInv'
BY BlankInv, PTL

\* Every way to end the process leaves blank memory.
LEMMA ForgetInv ==
  ASSUME Forget, phase' \in {"down", "dead"}, fault' \in {"none", "lru", "dl"},
         disk' \in [Block -> Content]
  PROVE  CacheInv'
<1>1. Ended'
  BY DEF Forget, Ended, Blank
<1> QED
  BY <1>1, BlankInvNext
-----------------------------------------------------------------------------
EntryType == [dirty : BOOLEAN, block : Block \cup {NULL}, inum : Inum \cup {NULL},
              data : Content \cup {NULL}, gpos : BOOLEAN]

\* A resident block has a slot in use, and the slot the block.
LEMMA ResidentSlot ==
  ASSUME CacheInv, NEW b \in Block, Resident(b)
  PROVE  /\ pci[b] \in lru.live /\ pci[b] \in Slot
         /\ cache[pci[b]].block = b
         /\ cache[pci[b]].inum \in Inum /\ cache[pci[b]].data \in Content
BY RingFields DEF CacheInv, SlotAccounting, EntriesFull, Slot

\* The slot of a block nobody else looks up to.
LEMMA SlotHasOneBlock ==
  ASSUME CacheInv, NEW b \in Block, NEW c \in Block, Resident(b), pci[c] = pci[b]
  PROVE  c = b
BY ResidentSlot DEF Resident

\* The next free slot is not in use and not dirty.
LEMMA FreeSlot ==
  ASSUME CacheInv, free # <<>>
  PROVE  /\ Head(free) \in Slot \ lru.live /\ Head(free) \notin ToSet(gdl)
         /\ Tail(free) \in Seq(Slot) /\ IsInjective(Tail(free))
         /\ ToSet(Tail(free)) = Slot \ (lru.live \cup {Head(free)})
         /\ ~cache[Head(free)].dirty
<1>1. free \in Seq(Slot) /\ IsInjective(free) /\ ToSet(free) = Slot \ lru.live
  BY DEF CacheInv, TypeOK, SlotAccounting
<1>2. /\ Head(free) \in Slot \ lru.live
      /\ Tail(free) \in Seq(Slot) /\ IsInjective(Tail(free))
      /\ ToSet(Tail(free)) = Slot \ (lru.live \cup {Head(free)})
  BY <1>1, HeadTailSet
<1> QED
  BY <1>2 DEF CacheInv, DirtyQueued

\* A miss takes a free slot and puts it in all four structures.
LEMMA InstallStep ==
  ASSUME CacheInv, NEW b \in Block, NEW e \in EntryType,
         ~Resident(b), free # <<>>, Install(b, e),
         e.block = b, e.inum \in Inum, e.data \in Content
  PROVE  /\ SlotAccounting' /\ EntriesFull'
         /\ cache' \in [Slot -> EntryType] /\ pci' \in [Block -> Slot \cup {NULL}]
         /\ free' \in Seq(Slot) /\ lru' \in RingType
         /\ lru'.live = lru.live \cup {Head(free)}
         /\ cache' = [cache EXCEPT ![Head(free)] = e]
         /\ pci' = [pci EXCEPT ![b] = Head(free)]
<1> DEFINE s == Head(free)
<1>1. /\ s \in Slot \ lru.live /\ RingOK(lru)
      /\ cache \in [Slot -> EntryType] /\ pci \in [Block -> Slot \cup {NULL}]
  BY FreeSlot DEF CacheInv, TypeOK, SlotAccounting, EntryType
<1>2. /\ free' = Tail(free) /\ lru' = Push(lru, s)
      /\ cache' = [cache EXCEPT ![s] = e] /\ pci' = [pci EXCEPT ![b] = s]
  BY DEF Install
<1> HIDE DEF s
<1>3. RingOK(lru') /\ lru'.live = lru.live \cup {s} /\ lru' \in RingType
  <2>1. RingOK(lru')
    BY <1>1, <1>2, PushSound DEF Slot
  <2> QED
    BY <1>2, <2>1 DEF Push, RingOK
<1>4. free' \in Seq(Slot) /\ IsInjective(free') /\ ToSet(free') = Slot \ lru'.live
  BY <1>2, <1>3, FreeSlot DEF s
<1>5. cache' \in [Slot -> EntryType] /\ pci' \in [Block -> Slot \cup {NULL}]
  BY <1>1, <1>2
<1>6. ASSUME NEW t \in lru'.live
      PROVE  /\ cache'[t].block \in Block /\ pci'[cache'[t].block] = t
             /\ cache'[t].inum \in Inum /\ cache'[t].data \in Content
  <2>1. CASE t = s
    BY <2>1, <1>1, <1>2
  <2>2. CASE t # s
    <3>1. t \in lru.live /\ t \in Slot /\ cache'[t] = cache[t]
      BY <2>2, <1>1, <1>2, <1>3, RingFields DEF Slot
    <3>2. cache[t].block \in Block /\ pci[cache[t].block] = t
          /\ cache[t].inum \in Inum /\ cache[t].data \in Content
      BY <3>1 DEF CacheInv, SlotAccounting, EntriesFull
    <3>3. cache[t].block # b
      BY <3>1, <3>2, NullIsNoNode DEF Resident, Slot
    <3> QED
      BY <3>1, <3>2, <3>3, <1>1, <1>2
  <2> QED
    BY <2>1, <2>2
<1>7. ASSUME NEW c \in Block, pci'[c] # NULL
      PROVE  pci'[c] \in lru'.live /\ cache'[pci'[c]].block = c
  <2>1. CASE c = b
    BY <2>1, <1>1, <1>2, <1>3
  <2>2. CASE c # b
    <3>1. pci'[c] = pci[c] /\ Resident(c)
      BY <2>2, <1>1, <1>2, <1>7 DEF Resident
    <3>2. pci[c] \in lru.live /\ pci[c] \in Slot /\ cache[pci[c]].block = c
      BY <3>1, ResidentSlot
    <3> QED
      BY <3>1, <3>2, <1>1, <1>2, <1>3
  <2> QED
    BY <2>1, <2>2
<1> QED
  BY <1>2, <1>3, <1>4, <1>5, <1>6, <1>7
     DEF SlotAccounting, EntriesFull, Resident, s

LEMMA HitStep ==
  ASSUME CacheInv, NEW b \in Block, Hit(b)
  PROVE  CacheInv' /\ lru'.live = lru.live
<1> DEFINE n == pci[b]
           u == Unlink(lru, n)
<1>1. /\ n \in lru.live /\ n \in Node /\ RingOK(lru) /\ lru' = Push(u, n)
      /\ UNCHANGED <<phase, fault, disk, cache, pci, free, gdl, dl, job>>
  BY ResidentSlot DEF Hit, CacheInv, SlotAccounting, Slot
<1>2. RingOK(u) /\ u.live = lru.live \ {n}
  BY <1>1, UnlinkSound
<1>3. RingOK(lru')
  BY <1>1, <1>2, PushSound
<1>4. lru'.live = lru.live
  BY <1>1, <1>2 DEF Push
<1>5. SlotAccounting'
  BY <1>1, <1>3, <1>4 DEF CacheInv, SlotAccounting, Resident
<1>6. TypeOK'
  BY <1>1, <1>3 DEF CacheInv, TypeOK, RingOK
<1> QED
  BY <1>1, <1>4, <1>5, <1>6
     DEF CacheInv, DirtyQueued, EntriesFull, ListedResident, Resident, FsyncHasList

LEMMA MissStep ==
  ASSUME CacheInv, NEW i \in Inum, NEW b \in Block, Miss(i, b)
  PROVE  CacheInv'
<1> DEFINE e == [dirty |-> FALSE, block |-> b, inum |-> i, data |-> disk[b],
                 gpos |-> FALSE]
           s == Head(free)
<1>1. /\ ~Resident(b) /\ free # <<>> /\ Install(b, e)
      /\ UNCHANGED <<phase, fault, disk, gdl, dl, job>>
  BY DEF Miss
<1>2. e \in EntryType /\ e.block = b /\ e.inum \in Inum /\ e.data \in Content
  BY DEF CacheInv, TypeOK, EntryType
<1>3. /\ SlotAccounting' /\ EntriesFull'
      /\ cache' \in [Slot -> EntryType] /\ pci' \in [Block -> Slot \cup {NULL}]
      /\ free' \in Seq(Slot) /\ lru' \in RingType
      /\ lru'.live = lru.live \cup {s}
      /\ cache' = [cache EXCEPT ![s] = e] /\ pci' = [pci EXCEPT ![b] = s]
  BY <1>1, <1>2, InstallStep
<1>4. TypeOK'
  BY <1>1, <1>3 DEF CacheInv, TypeOK, EntryType
<1>5. DirtyQueued'
  <2>1. \A t \in Slot : t # s => cache'[t] = cache[t]
    BY <1>3 DEF CacheInv, TypeOK
  <2>2. cache'[s].dirty = FALSE /\ cache'[s].gpos = FALSE
    BY <1>1, <1>3, FreeSlot DEF CacheInv, TypeOK
  <2> QED
    BY <1>1, <1>3, <2>1, <2>2 DEF CacheInv, DirtyQueued
<1>6. ListedResident' /\ FsyncHasList'
  BY <1>1, <1>3, FreeSlot, NullIsNoNode
     DEF CacheInv, TypeOK, ListedResident, Resident, FsyncHasList, Slot
<1> QED
  BY <1>3, <1>4, <1>5, <1>6 DEF CacheInv
-----------------------------------------------------------------------------
DlType == [Inum -> {NULL} \cup [list : Seq(Block), wild : BOOLEAN]]

\* The blocks on an inode's dirty list, as a set.
Listed(d, i) == IF d[i] = NULL THEN {} ELSE ToSet(d[i].list)

\* A dirty list is a record, and NULL none.
LEMMA ListIsNotNull ==
  ASSUME NEW d \in DlType, NEW i \in Inum, d[i] # NULL
  PROVE  d[i].list \in Seq(Block) /\ d[i].wild \in BOOLEAN
BY DEF DlType

LEMMA InsertedFacts ==
  ASSUME CacheInv, NEW i \in Inum, NEW b \in Block, NEW d \in Inserted(i, b)
  PROVE  /\ d \in DlType
         /\ \A j \in Inum : Listed(d, j) \subseteq Listed(dl, j) \cup {b}
         /\ \A j \in Inum : Listed(dl, j) \subseteq Listed(d, j)
<1>1. dl \in DlType
  BY DEF CacheInv, TypeOK, DlType
<1>2. CASE dl[i] = NULL
  <2>1. PICK w \in BOOLEAN : d = [dl EXCEPT ![i] = [list |-> <<b>>, wild |-> w]]
    BY <1>2 DEF Inserted
  <2>2. <<b>> \in Seq(Block) /\ ToSet(<<b>>) = {b}
    BY DEF ToSet
  <2>3. d \in DlType
    BY <1>1, <2>1, <2>2 DEF DlType
  <2>4. d[i] = [list |-> <<b>>, wild |-> w] /\ \A j \in Inum \ {i} : d[j] = dl[j]
    BY <1>1, <2>1 DEF DlType
  <2>5. Listed(dl, i) = {} /\ Listed(d, i) \subseteq {b}
    BY <1>2, <2>2, <2>4 DEF Listed
  <2>6. \A j \in Inum \ {i} : Listed(d, j) = Listed(dl, j)
    BY <2>4 DEF Listed
  <2> QED
    BY <2>3, <2>5, <2>6
<1>3. CASE dl[i] # NULL /\ b \in ToSet(dl[i].list)
  BY <1>1, <1>3 DEF Inserted, Listed
<1>4. CASE dl[i] # NULL /\ b \notin ToSet(dl[i].list)
  <2> DEFINE q == dl[i].list
             r == <<b>> \o q
  <2>1. q \in Seq(Block) /\ dl[i].wild \in BOOLEAN
    BY <1>1, <1>4, ListIsNotNull
  <2>2. r \in Seq(Block) /\ ToSet(r) = {b} \cup ToSet(q)
    BY <2>1, ConsSet
  <2>3. d = [dl EXCEPT ![i].list = r]
    BY <1>4 DEF Inserted
  <2> HIDE DEF r
  <2>4. /\ d[i] = [dl[i] EXCEPT !.list = r]
        /\ \A j \in Inum \ {i} : d[j] = dl[j]
    BY <1>1, <2>3 DEF DlType
  <2>5. dl[i] \in [list : Seq(Block), wild : BOOLEAN]
    BY <1>1, <1>4 DEF DlType
  <2>6. d[i] \in [list : Seq(Block), wild : BOOLEAN] /\ d[i].list = r
    BY <2>2, <2>4, <2>5
  <2>7. d \in DlType
    BY <1>1, <2>3, <2>4, <2>6 DEF DlType
  <2>8. Listed(d, i) = Listed(dl, i) \cup {b}
    <3>1. d[i] # NULL
      BY <2>6, BlockCacheConstants
    <3>2. Listed(d, i) = ToSet(r) /\ Listed(dl, i) = ToSet(q)
      BY <1>4, <2>6, <3>1 DEF Listed
    <3> QED
      BY <2>2, <3>2
  <2> QED
    BY <2>4, <2>7, <2>8 DEF Listed
<1> QED
  BY <1>2, <1>3, <1>4

LEMMA RemovedFacts ==
  ASSUME CacheInv, NEW i \in Inum, NEW b \in Block
  PROVE  /\ Removed(i, b) \in DlType
         /\ \A j \in Inum : Listed(Removed(i, b), j) \subseteq Listed(dl, j)
         /\ \A j \in Inum : Listed(dl, j) \ {b} \subseteq Listed(Removed(i, b), j)
<1> DEFINE d == Removed(i, b)
           q == dl[i].list
           r == RemoveFirst(q, b)
<1>1. dl \in DlType
  BY DEF CacheInv, TypeOK, DlType
<1>2. CASE dl[i] = NULL \/ b \notin ToSet(q)
  BY <1>1, <1>2 DEF Removed
<1>3. CASE dl[i] # NULL /\ b \in ToSet(q)
  <2>1. q \in Seq(Block) /\ dl[i].wild \in BOOLEAN
        /\ dl[i] \in [list : Seq(Block), wild : BOOLEAN]
    BY <1>1, <1>3 DEF DlType
  <2>2. /\ r \in Seq(Block) /\ ToSet(r) \subseteq ToSet(q)
        /\ ToSet(q) \ {b} \subseteq ToSet(r)
    BY <2>1, RemoveFirstSet
  <2>3. (r = <<>> /\ d = [dl EXCEPT ![i] = NULL]) \/ d = [dl EXCEPT ![i].list = r]
    BY <1>3 DEF Removed
  <2> HIDE DEF r, d
  <2>4. CASE r = <<>> /\ d = [dl EXCEPT ![i] = NULL]
    <3>1. d \in DlType /\ d[i] = NULL /\ \A j \in Inum \ {i} : d[j] = dl[j]
      BY <2>4, <1>1 DEF DlType
    <3>2. ToSet(q) \ {b} = {}
      <4>1. ToSet(<<>>) = {}
        BY DEF ToSet
      <4> QED
        BY <2>2, <2>4, <4>1
    <3>3. Listed(dl, i) \ {b} = {} /\ Listed(d, i) = {}
      BY <1>3, <3>1, <3>2 DEF Listed
    <3> QED
      BY <3>1, <3>3 DEF Listed, d
  <2>5. CASE d = [dl EXCEPT ![i].list = r]
    <3>1. /\ d[i] = [dl[i] EXCEPT !.list = r]
          /\ \A j \in Inum \ {i} : d[j] = dl[j]
      BY <1>1, <2>5 DEF DlType
    <3>2. d[i] \in [list : Seq(Block), wild : BOOLEAN] /\ d[i].list = r
      BY <2>1, <2>2, <3>1
    <3>3. d \in DlType
      BY <1>1, <2>5, <3>1, <3>2 DEF DlType
    <3>4. Listed(d, i) \subseteq Listed(dl, i) /\ Listed(dl, i) \ {b} \subseteq Listed(d, i)
      <4>1. d[i] # NULL
        BY <3>2, BlockCacheConstants
      <4>2. Listed(d, i) = ToSet(r) /\ Listed(dl, i) = ToSet(q)
        BY <1>3, <3>2, <4>1 DEF Listed
      <4> QED
        BY <2>2, <4>2
    <3> QED
      BY <3>1, <3>3, <3>4 DEF Listed, d
  <2> QED
    BY <2>3, <2>4, <2>5 DEF d
<1> QED
  BY <1>2, <1>3

\* ListedResident in terms of Listed.
LEMMA ListedAre ==
  ListedResident <=> \A i \in Inum : \A b \in Listed(dl, i) : Resident(b)
BY DEF ListedResident, Listed

LEMMA ListedAreNext ==
  ListedResident' <=> \A i \in Inum : \A b \in Listed(dl', i) : pci'[b] # NULL
BY DEF ListedResident, Listed, Resident
-----------------------------------------------------------------------------
LEMMA WriteHitStep ==
  ASSUME CacheInv, NEW i \in Inum, NEW b \in Block, NEW c \in Content, WriteHit(i, b, c)
  PROVE  CacheInv'
<1> DEFINE s == pci[b]
<1>1. /\ Resident(b) /\ gdl' = <<s>> \o gdl
      /\ dl' = dl \/ dl' \in Inserted(i, b)
      /\ cache' = [cache EXCEPT ![s].dirty = TRUE, ![s].data = c, ![s].gpos = TRUE]
      /\ UNCHANGED <<phase, fault, disk, pci, free, lru, job>>
  BY DEF WriteHit
<1>2. s \in lru.live /\ s \in Slot
  BY <1>1, ResidentSlot
<1> HIDE DEF s
<1>3. dl' \in DlType /\ \A j \in Inum : Listed(dl', j) \subseteq Listed(dl, j) \cup {b}
  BY <1>1, InsertedFacts DEF CacheInv, TypeOK, DlType, Listed
<1>4. /\ cache \in [Slot -> EntryType] /\ gdl \in Seq(Slot)
  BY DEF CacheInv, TypeOK, EntryType
<1>5. gdl' \in Seq(Slot) /\ ToSet(gdl') = {s} \cup ToSet(gdl)
  BY <1>1, <1>2, <1>4, ConsSet
<1>6. /\ cache' \in [Slot -> EntryType]
      /\ \A t \in Slot : t # s => cache'[t] = cache[t]
      /\ cache'[s].dirty = TRUE /\ cache'[s].gpos = TRUE /\ cache'[s].data = c
      /\ \A t \in Slot : cache'[t].block = cache[t].block /\ cache'[t].inum = cache[t].inum
  <2> DEFINE e == [cache[s] EXCEPT !.dirty = TRUE, !.data = c, !.gpos = TRUE]
  <2>1. cache[s] \in EntryType
    BY <1>2, <1>4
  <2>2. /\ e \in EntryType /\ e.dirty = TRUE /\ e.gpos = TRUE /\ e.data = c
        /\ e.block = cache[s].block /\ e.inum = cache[s].inum
    BY <2>1 DEF EntryType
  <2>3. cache' = [cache EXCEPT ![s] = e]
    BY <1>1, <1>2, <1>4
  <2> HIDE DEF e
  <2>4. cache' \in [Slot -> EntryType] /\ \A t \in Slot : cache'[t] = IF t = s THEN e ELSE cache[t]
    BY <1>2, <1>4, <2>2, <2>3
  <2> QED
    BY <1>2, <2>2, <2>4
<1>7. TypeOK'
  BY <1>1, <1>3, <1>5, <1>6 DEF CacheInv, TypeOK, EntryType, DlType
<1>8. lru.live \subseteq Slot
  BY RingFields DEF CacheInv, SlotAccounting, Slot
<1>9. SlotAccounting'
  BY <1>1, <1>6, <1>8 DEF CacheInv, SlotAccounting, Resident
<1>10. DirtyQueued'
  BY <1>1, <1>2, <1>5, <1>6 DEF CacheInv, DirtyQueued
<1>11. EntriesFull'
  BY <1>1, <1>6, <1>8 DEF CacheInv, EntriesFull
<1>12. ListedResident'
  BY <1>1, <1>3, ListedAre, ListedAreNext DEF CacheInv, Resident
<1>13. FsyncHasList'
  BY <1>1 DEF FsyncHasList, WriteHit
<1> QED
  BY <1>7, <1>9, <1>10, <1>11, <1>12, <1>13 DEF CacheInv

LEMMA WriteMissStep ==
  ASSUME CacheInv, NEW i \in Inum, NEW b \in Block, NEW c \in Content, WriteMiss(i, b, c)
  PROVE  CacheInv'
<1> DEFINE e == [dirty |-> TRUE, block |-> b, inum |-> i, data |-> c, gpos |-> TRUE]
           s == Head(free)
<1>1. /\ ~Resident(b) /\ free # <<>> /\ Install(b, e) /\ gdl' = <<s>> \o gdl
      /\ dl' = dl \/ dl' \in Inserted(i, b)
      /\ phase = "up" /\ UNCHANGED <<phase, fault, disk, job>>
  BY DEF WriteMiss
<1>2. e \in EntryType /\ e.block = b /\ e.inum \in Inum /\ e.data \in Content
  BY DEF EntryType
<1>3. /\ SlotAccounting' /\ EntriesFull'
      /\ cache' \in [Slot -> EntryType] /\ pci' \in [Block -> Slot \cup {NULL}]
      /\ free' \in Seq(Slot) /\ lru' \in RingType
      /\ lru'.live = lru.live \cup {s}
      /\ cache' = [cache EXCEPT ![s] = e] /\ pci' = [pci EXCEPT ![b] = s]
  BY <1>1, <1>2, InstallStep
<1>4. dl' \in DlType /\ \A j \in Inum : Listed(dl', j) \subseteq Listed(dl, j) \cup {b}
  BY <1>1, InsertedFacts DEF CacheInv, TypeOK, DlType, Listed
<1>5. /\ s \in Slot /\ gdl \in Seq(Slot)
      /\ cache \in [Slot -> EntryType] /\ pci \in [Block -> Slot \cup {NULL}]
  BY <1>1, FreeSlot DEF CacheInv, TypeOK, EntryType
<1>6. gdl' \in Seq(Slot) /\ ToSet(gdl') = {s} \cup ToSet(gdl)
  BY <1>1, <1>5, ConsSet
<1> HIDE DEF s
<1>7. TypeOK'
  BY <1>1, <1>3, <1>4, <1>6 DEF CacheInv, TypeOK, EntryType, DlType
<1>8. DirtyQueued'
  <2>1. \A t \in Slot : t # s => cache'[t] = cache[t]
    BY <1>3, <1>5
  <2>2. cache'[s].dirty = TRUE /\ cache'[s].gpos = TRUE
    BY <1>3, <1>5
  <2> QED
    BY <1>3, <1>6, <2>1, <2>2 DEF CacheInv, DirtyQueued
<1>9. ListedResident'
  <2>1. \A x \in Block : Resident(x) \/ x = b => pci'[x] # NULL
    BY <1>3, <1>5, NullIsNoNode DEF Resident, Slot
  <2>2. \A j \in Inum : Listed(dl, j) \subseteq Block
    <3>1. ASSUME NEW j \in Inum, dl[j] # NULL
          PROVE  ToSet(dl[j].list) \subseteq Block
      <4>1. dl[j].list \in Seq(Block)
        BY <3>1, ListIsNotNull DEF CacheInv, TypeOK, DlType
      <4> QED
        BY <4>1, LenProperties, ElementOfSeq DEF ToSet
    <3> QED
      BY <3>1 DEF Listed
  <2> QED
    BY <1>4, <2>1, <2>2, ListedAre, ListedAreNext DEF CacheInv
<1>10. FsyncHasList'
  BY <1>1 DEF FsyncHasList
<1> QED
  BY <1>3, <1>7, <1>8, <1>9, <1>10 DEF CacheInv

LEMMA PokeStep ==
  ASSUME CacheInv, NEW b \in Block, NEW c \in Content, Poke(b, c)
  PROVE  CacheInv'
<1> DEFINE s == pci[b]
<1>1. /\ Resident(b) /\ cache' = [cache EXCEPT ![s].data = c]
      /\ UNCHANGED <<phase, fault, disk, pci, free, lru, gdl, dl, job>>
  BY DEF Poke
<1>2. s \in lru.live /\ s \in Slot /\ cache \in [Slot -> EntryType]
  BY <1>1, ResidentSlot DEF CacheInv, TypeOK, EntryType
<1> HIDE DEF s
<1>3. /\ cache' \in [Slot -> EntryType]
      /\ \A t \in Slot : t # s => cache'[t] = cache[t]
      /\ cache'[s].data = c
      /\ \A t \in Slot : /\ cache'[t].block = cache[t].block
                         /\ cache'[t].inum = cache[t].inum
                         /\ cache'[t].dirty = cache[t].dirty
                         /\ cache'[t].gpos = cache[t].gpos
  BY <1>1, <1>2 DEF EntryType
<1>4. lru.live \subseteq Slot
  BY RingFields DEF CacheInv, SlotAccounting, Slot
<1>5. TypeOK'
  BY <1>1, <1>3 DEF CacheInv, TypeOK, EntryType
<1>6. SlotAccounting'
  BY <1>1, <1>3, <1>4 DEF CacheInv, SlotAccounting, Resident
<1>7. DirtyQueued' /\ ListedResident' /\ FsyncHasList'
  BY <1>1, <1>3 DEF CacheInv, DirtyQueued, ListedResident, Resident, FsyncHasList
<1>8. EntriesFull'
  BY <1>1, <1>3, <1>4 DEF CacheInv, EntriesFull
<1> QED
  BY <1>5, <1>6, <1>7, <1>8 DEF CacheInv
-----------------------------------------------------------------------------
\* A page in use goes to its own block of the image.
LEMMA WriteBackType ==
  ASSUME CacheInv, NEW s \in lru.live
  PROVE  /\ WrittenBack(s) \in [Block -> Content]
         /\ cache[s].block \in Block /\ s \in Slot
BY RingFields
   DEF CacheInv, TypeOK, SlotAccounting, EntriesFull, WrittenBack, Slot

\* A slot that is written back and leaves one of its places on the global list.
LEMMA CleanedStep ==
  ASSUME CacheInv, NEW s \in lru.live,
         cache' = [cache EXCEPT ![s].dirty = FALSE, ![s].gpos = FALSE],
         disk' = WrittenBack(s),
         gdl' \in Seq(Slot), ToSet(gdl') \subseteq ToSet(gdl),
         ToSet(gdl) \ {s} \subseteq ToSet(gdl'),
         dl' \in DlType, UNCHANGED <<phase, fault, pci, free, lru, job>>
  PROVE  TypeOK' /\ SlotAccounting' /\ DirtyQueued' /\ EntriesFull'
<1>1. s \in Slot /\ cache \in [Slot -> EntryType] /\ disk' \in [Block -> Content]
  BY WriteBackType DEF CacheInv, TypeOK, EntryType
<1>2. /\ cache' \in [Slot -> EntryType]
      /\ \A t \in Slot : t # s => cache'[t] = cache[t]
      /\ cache'[s].dirty = FALSE /\ cache'[s].gpos = FALSE
      /\ \A t \in Slot : /\ cache'[t].block = cache[t].block
                         /\ cache'[t].inum = cache[t].inum
                         /\ cache'[t].data = cache[t].data
  BY <1>1 DEF EntryType
<1>3. lru.live \subseteq Slot
  BY RingFields DEF CacheInv, SlotAccounting, Slot
<1>4. TypeOK'
  BY <1>1, <1>2 DEF CacheInv, TypeOK, EntryType, DlType
<1>5. SlotAccounting'
  BY <1>2, <1>3 DEF CacheInv, SlotAccounting, Resident
<1>6. DirtyQueued'
  BY <1>2 DEF CacheInv, DirtyQueued
<1>7. EntriesFull'
  BY <1>2, <1>3 DEF CacheInv, EntriesFull
<1> QED
  BY <1>4, <1>5, <1>6, <1>7

\* The slot cache_fsync works on, and the list without its head.
LEMMA FsyncSlot ==
  ASSUME CacheInv, phase = "fsync", dl[job].list # <<>>
  PROVE  /\ job \in Inum /\ dl[job] # NULL
         /\ dl[job] \in [list : Seq(Block), wild : BOOLEAN]
         /\ Head(dl[job].list) \in Block /\ Resident(Head(dl[job].list))
         /\ pci[Head(dl[job].list)] \in lru.live
         /\ Tail(dl[job].list) \in Seq(Block)
         /\ ToSet(Tail(dl[job].list)) \subseteq ToSet(dl[job].list)
<1>1. /\ job \in Inum /\ dl[job] # NULL
      /\ dl[job] \in [list : Seq(Block), wild : BOOLEAN]
  BY DEF CacheInv, FsyncHasList, TypeOK
<1>2. /\ Head(dl[job].list) \in Block /\ Tail(dl[job].list) \in Seq(Block)
      /\ ToSet(dl[job].list) = {Head(dl[job].list)} \cup ToSet(Tail(dl[job].list))
  BY <1>1, HeadTailSet
<1>3. Resident(Head(dl[job].list))
  BY <1>1, <1>2 DEF CacheInv, ListedResident
<1> QED
  BY <1>1, <1>2, <1>3, ResidentSlot

LEMMA FsyncStepInv ==
  ASSUME CacheInv, FsyncStep
  PROVE  CacheInv'
<1> DEFINE q == dl[job].list
           s == pci[Head(q)]
<1>1. /\ phase = "fsync" /\ q # <<>>
      /\ disk' = WrittenBack(s)
      /\ cache' = [cache EXCEPT ![s].dirty = FALSE, ![s].gpos = FALSE]
      /\ gdl' = gdl \/ gdl' = RemoveFirst(gdl, s)
      /\ dl' = [dl EXCEPT ![job].list = Tail(q)]
      /\ UNCHANGED <<phase, fault, pci, free, lru, job>>
  BY DEF FsyncStep
<1>2. /\ job \in Inum /\ dl[job] # NULL
      /\ dl[job] \in [list : Seq(Block), wild : BOOLEAN]
      /\ s \in lru.live
      /\ Tail(q) \in Seq(Block) /\ ToSet(Tail(q)) \subseteq ToSet(q)
  BY <1>1, FsyncSlot
<1>3. /\ gdl' \in Seq(Slot) /\ ToSet(gdl') \subseteq ToSet(gdl)
      /\ ToSet(gdl) \ {s} \subseteq ToSet(gdl')
  <2> HIDE DEF s
  <2>1. gdl \in Seq(Slot)
    BY DEF CacheInv, TypeOK
  <2>2. CASE gdl' = gdl
    BY <2>1, <2>2
  <2>3. CASE gdl' = RemoveFirst(gdl, s)
    BY <2>1, <2>3, RemoveFirstSet
  <2> QED
    BY <1>1, <2>2, <2>3
<1> HIDE DEF s
<1>4. /\ dl' \in DlType /\ dl'[job].list = Tail(q)
      /\ dl'[job] \in [list : Seq(Block), wild : BOOLEAN]
      /\ \A j \in Inum \ {job} : dl'[j] = dl[j]
  <2>1. dl \in DlType
    BY DEF CacheInv, TypeOK, DlType
  <2> DEFINE t == Tail(q)
  <2> HIDE DEF t
  <2>2. dl' = [dl EXCEPT ![job].list = t] /\ t \in Seq(Block)
    BY <1>1, <1>2 DEF t
  <2>3. /\ dl'[job] = [dl[job] EXCEPT !.list = t]
        /\ \A j \in Inum \ {job} : dl'[j] = dl[j]
    BY <1>2, <2>1, <2>2 DEF DlType
  <2>4. dl'[job] \in [list : Seq(Block), wild : BOOLEAN] /\ dl'[job].list = t
    BY <1>2, <2>2, <2>3
  <2> QED
    BY <2>1, <2>2, <2>3, <2>4 DEF DlType, t
<1>5. TypeOK' /\ SlotAccounting' /\ DirtyQueued' /\ EntriesFull'
  BY <1>1, <1>2, <1>3, <1>4, CleanedStep
<1>6. ListedResident'
  <2>1. Listed(dl', job) \subseteq Listed(dl, job)
    BY <1>2, <1>4 DEF Listed
  <2>2. \A j \in Inum \ {job} : Listed(dl', j) = Listed(dl, j)
    BY <1>4 DEF Listed
  <2> QED
    BY <1>1, <2>1, <2>2, ListedAre, ListedAreNext DEF CacheInv, Resident
<1>7. FsyncHasList'
  BY <1>1, <1>2, <1>4, BlockCacheConstants DEF FsyncHasList
<1> QED
  BY <1>5, <1>6, <1>7 DEF CacheInv
LEMMA FsyncEndInv ==
  ASSUME CacheInv, FsyncEnd
  PROVE  CacheInv'
<1>1. /\ dl' = [dl EXCEPT ![job] = NULL] /\ phase' = "up" /\ job' = NULL
      /\ UNCHANGED <<fault, disk, cache, pci, free, lru, gdl>>
  BY DEF FsyncEnd
<1>2. TypeOK' /\ SlotAccounting' /\ DirtyQueued' /\ EntriesFull' /\ FsyncHasList'
  BY <1>1 DEF CacheInv, TypeOK, SlotAccounting, Resident, DirtyQueued,
              EntriesFull, FsyncHasList
<1>3. \A j \in Inum : dl'[j] # NULL => dl'[j] = dl[j]
  BY <1>1 DEF CacheInv, TypeOK
<1>4. ListedResident'
  BY <1>1, <1>3 DEF CacheInv, ListedResident, Resident
<1> QED
  BY <1>2, <1>4 DEF CacheInv

LEMMA SyncStepInv ==
  ASSUME CacheInv, SyncStep
  PROVE  CacheInv'
<1> DEFINE s == Last(gdl)
           data == cache[s].data \in DataContent
<1>1. /\ s \in lru.live /\ Front(gdl) \in Seq(Slot)
      /\ ToSet(gdl) \ {s} \subseteq ToSet(Front(gdl))
      /\ ToSet(Front(gdl)) \subseteq ToSet(gdl)
  BY FrontSet DEF SyncStep, CacheInv, TypeOK, DirtyQueued
<1>2. WrittenBack(s) \in [Block -> Content] /\ cache[s].block \in Block
      /\ cache[s].inum \in Inum
  BY <1>1, WriteBackType DEF CacheInv, EntriesFull
<1>3. /\ phase = "sync" /\ disk' = WrittenBack(s)
      /\ \/ Die("dl")
         \/ /\ cache' = [cache EXCEPT ![s].dirty = FALSE, ![s].gpos = FALSE]
            /\ gdl' = Front(gdl)
            /\ dl' = dl \/ dl' = Removed(cache[s].inum, cache[s].block)
            /\ UNCHANGED <<phase, fault, pci, free, lru, job>>
  BY DEF SyncStep
<1> HIDE DEF s
<1>4. CASE Die("dl")
  BY <1>2, <1>3, <1>4, ForgetInv DEF Die
<1>5. CASE ~Die("dl")
  <2>1. dl' \in DlType /\ \A j \in Inum : Listed(dl', j) \subseteq Listed(dl, j)
    <3>1. CASE dl' = dl
      BY <3>1 DEF CacheInv, TypeOK, DlType, Listed
    <3>2. CASE dl' = Removed(cache[s].inum, cache[s].block)
      BY <1>2, <3>2, RemovedFacts
    <3> QED
      BY <1>3, <1>5, <3>1, <3>2
  <2>2. TypeOK' /\ SlotAccounting' /\ DirtyQueued' /\ EntriesFull'
    BY <1>1, <1>3, <1>5, <2>1, CleanedStep
  <2>3. ListedResident'
    BY <1>3, <1>5, <2>1, ListedAre, ListedAreNext DEF CacheInv, Resident
  <2>4. FsyncHasList'
    BY <1>3, <1>5 DEF FsyncHasList
  <2> QED
    BY <2>2, <2>3, <2>4 DEF CacheInv
<1> QED
  BY <1>4, <1>5

\* A full cache has all its slots on the ring.
LEMMA FullCache ==
  ASSUME CacheInv, free = <<>>
  PROVE  /\ lru.live = Slot /\ RingOK(lru) /\ lru.size > 1
         /\ Victim \in lru.live
<1>1. RingOK(lru) /\ lru.live = Slot
  <2>1. ToSet(free) = {}
    BY DEF ToSet
  <2> QED
    BY <2>1, RingFields DEF CacheInv, SlotAccounting, Slot
<1>2. lru.size = CacheSize
  BY <1>1, FS_Interval, BlockCacheConstants DEF RingOK, Counted, Slot
<1>3. lru.head \in lru.live
  BY <1>1, <1>2, SizeIsHead, BlockCacheConstants
<1> QED
  BY <1>1, <1>2, <1>3, BlockCacheConstants DEF Victim, RingOK, Linked

LEMMA EvictStep ==
  ASSUME CacheInv, NEW b \in Block, Evict(b)
  PROVE  CacheInv'
<1>1. free = <<>> /\ Die("lru") /\ (disk' = disk \/ disk' = WrittenBack(Victim))
  BY DEF Evict
<1>2. disk' \in [Block -> Content]
  BY <1>1, FullCache, WriteBackType DEF CacheInv, TypeOK
<1> QED
  BY <1>1, <1>2, ForgetInv DEF Die

-----------------------------------------------------------------------------
\* Steps that change neither memory nor disk, but for the phase and the job.
LEMMA SamePages ==
  ASSUME CacheInv, UNCHANGED <<disk, cache, pci, free, lru, gdl, dl>>,
         phase' \in {"up", "fsync", "sync"}, fault' \in {"none", "lru", "dl"},
         job' \in Inum \cup {NULL},
         phase' = "fsync" => job' \in Inum /\ dl[job'] # NULL
  PROVE  CacheInv'
<1>1. TypeOK' /\ FsyncHasList'
  BY DEF CacheInv, TypeOK, FsyncHasList
<1>2. SlotAccounting' /\ DirtyQueued' /\ EntriesFull' /\ ListedResident'
  BY DEF CacheInv, SlotAccounting, Resident, DirtyQueued, EntriesFull, ListedResident
<1> QED
  BY <1>1, <1>2 DEF CacheInv

LEMMA CacheStep == CacheInv /\ [Next]_vars => CacheInv'
<1> SUFFICES ASSUME CacheInv, [Next]_vars PROVE CacheInv'
  OBVIOUS
<1> USE DEF CacheInv, TypeOK
<1>1. ASSUME NEW b \in Block, Hit(b) PROVE CacheInv'
  BY <1>1, HitStep
<1>2. ASSUME NEW b \in Block, Evict(b) PROVE CacheInv'
  BY <1>2, EvictStep
<1>3. ASSUME NEW b \in Block, NEW c \in Content, Poke(b, c) PROVE CacheInv'
  BY <1>3, PokeStep
<1>4. ASSUME NEW b \in Block, NEW i \in Inum, Miss(i, b) PROVE CacheInv'
  BY <1>4, MissStep
<1>5. ASSUME NEW b \in Block, NEW i \in Inum, WriteFaults(i, b) PROVE CacheInv'
  BY <1>5, ForgetInv DEF WriteFaults, Die
<1>6. ASSUME NEW b \in Block, NEW i \in Inum, NEW c \in Content, WriteHit(i, b, c)
      PROVE  CacheInv'
  BY <1>6, WriteHitStep
<1>7. ASSUME NEW b \in Block, NEW i \in Inum, NEW c \in Content, WriteMiss(i, b, c)
      PROVE  CacheInv'
  BY <1>7, WriteMissStep
<1>8. ASSUME NEW i \in Inum, StartFsync(i) PROVE CacheInv'
  BY <1>8, SamePages DEF StartFsync
<1>9. CASE FsyncStep
  BY <1>9, FsyncStepInv
<1>10. CASE FsyncEnd
  BY <1>10, FsyncEndInv
<1>11. CASE StartSync
  BY <1>11, SamePages DEF StartSync, mem
<1>12. CASE SyncStep
  BY <1>12, SyncStepInv
<1>13. CASE SyncEnd
  BY <1>13, ForgetInv DEF SyncEnd
<1>14. CASE Kill
  BY <1>14, ForgetInv DEF Kill, Die
<1>15. CASE Remount
  BY <1>15, SamePages DEF Remount, mem
<1>16. CASE UNCHANGED vars
  BY <1>16 DEF vars, mem, SlotAccounting, Resident, DirtyQueued, EntriesFull,
               ListedResident, FsyncHasList
<1> QED
  BY <1>1, <1>2, <1>3, <1>4, <1>5, <1>6, <1>7, <1>8, <1>9, <1>10, <1>11, <1>12,
     <1>13, <1>14, <1>15, <1>16 DEF Next

LEMMA CacheInvariant == Spec => []CacheInv
BY CacheInit, CacheStep, PTL DEF Spec

-----------------------------------------------------------------------------
\* Every variable keeps its type (cache.c, types.h:29-54).
THEOREM CacheTypeOK == Spec => []TypeOK
<1>1. CacheInv => TypeOK
  BY DEF CacheInv
<1> QED
  BY <1>1, CacheInvariant, PTL

\* Entry array, index, free list and LRU list agree between any two calls, for
\* a cache of any size (cache.c:45-70).
THEOREM CacheSlotAccounting == Spec => []SlotAccounting
<1>1. CacheInv => SlotAccounting
  BY DEF CacheInv
<1> QED
  BY <1>1, CacheInvariant, PTL

\* Every dirty page is on the global dirty list, so cache_sync reaches it, after
\* any sequence of writes and fsyncs (cache.c:86-182).
THEOREM CacheDirtyQueued == Spec => []DirtyQueued
<1>1. CacheInv => DirtyQueued
  BY DEF CacheInv
<1> QED
  BY <1>1, CacheInvariant, PTL

\* cache_fsync never uses -1 as an index: what a per-inode list names is in the
\* cache (cache.c:131-134).
THEOREM CacheListedResident == Spec => []ListedResident
<1>1. CacheInv => ListedResident
  BY DEF CacheInv
<1> QED
  BY <1>1, CacheInvariant, PTL

\* Evict's guard leaves nothing out: whatever the size of the cache, the push
\* of a miss in a full one faults (cache.c:30, lru.c:21, lru.c:67).
LEMMA EvictHasNoOtherOutcome ==
  ASSUME CacheInv, free = <<>>
  PROVE  PushFaults(PopAtTailLink(lru))
BY FullCache, EvictionFaults
-----------------------------------------------------------------------------
(***************************************************************************)
(* The cache implements the store of DurableBlocks: each step is a step of *)
(* the store on View, Owed and Stage, or changes none of the three.        *)
(***************************************************************************)
LEMMA StoreInit == Init => Store!Init
<1> SUFFICES ASSUME Init PROVE Store!Init
  OBVIOUS
<1>1. Stage = "up" /\ disk \in [Block -> Content]
  BY DEF Init, Stage
<1>2. View = disk
  BY <1>1 DEF Init, View, Resident
<1>3. Owed = {}
  BY DEF Init, Owed, NoEntry
<1> QED
  BY <1>1, <1>2, <1>3 DEF Store!Init

\* The end of the process, by whatever step.
LEMMA ForgottenView ==
  ASSUME Forget, disk' \in [Block -> Content]
  PROVE  View' = disk' /\ Owed' = {}
BY DEF Forget, View, Resident, Owed, NoEntry

LEMMA DieStep ==
  ASSUME CacheInv, NEW why, Die(why), phase \in {"up", "fsync", "sync"},
         disk' \in {disk} \cup {WrittenBack(s) : s \in lru.live}
  PROVE  Store!Next
<1>1. Stage \in {"up", "closing"} /\ Stage' = "dead"
  BY DEF Die, Stage
<1>2. ASSUME NEW s \in lru.live
      PROVE  /\ WrittenBack(s) \in [Block -> Content]
             /\ \E b \in Block : WrittenBack(s) = [disk EXCEPT ![b] = View[b]]
  <2>1. cache[s].block \in Block /\ pci[cache[s].block] = s /\ s \in Slot
    BY WriteBackType DEF CacheInv, SlotAccounting
  <2>2. View[cache[s].block] = cache[s].data
    BY <2>1, NullIsNoNode DEF View, Resident, Slot
  <2> QED
    BY <2>1, <2>2, WriteBackType DEF WrittenBack
<1>3. disk' \in [Block -> Content]
      /\ disk' \in {disk} \cup {[disk EXCEPT ![b] = View[b]] : b \in Block}
  BY <1>2 DEF CacheInv, TypeOK
<1>4. View' = disk' /\ Owed' = {}
  BY <1>3, ForgottenView DEF Die
<1> QED
  BY <1>1, <1>3, <1>4 DEF Store!Next, Store!Die, Store!Flushed

LEMMA HitRefines ==
  ASSUME CacheInv, NEW b \in Block, Hit(b)
  PROVE  UNCHANGED Store!vars
BY DEF Hit, Store!vars, View, Resident, Owed, Stage

\* The view, seen slot by slot, after a block has been put in a free slot.
LEMMA InstalledView ==
  ASSUME CacheInv, NEW b \in Block, NEW e \in EntryType,
         ~Resident(b), free # <<>>, Install(b, e),
         e.block = b, e.inum \in Inum, e.data \in Content, UNCHANGED disk
  PROVE  /\ View' = [View EXCEPT ![b] = e.data]
         /\ Owed' = IF e.dirty THEN Owed \cup {b} ELSE Owed
<1> DEFINE s == Head(free)
<1>1. /\ cache' = [cache EXCEPT ![s] = e] /\ pci' = [pci EXCEPT ![b] = s]
      /\ s \in Slot \ lru.live /\ ~cache[s].dirty
      /\ cache \in [Slot -> EntryType] /\ pci \in [Block -> Slot \cup {NULL}]
  BY InstallStep, FreeSlot DEF CacheInv, TypeOK, EntryType
<1> HIDE DEF s
<1>2. ASSUME NEW c \in Block
      PROVE  View'[c] = IF c = b THEN e.data ELSE View[c]
  <2>1. CASE c = b
    <3>1. pci'[b] = s /\ s # NULL /\ cache'[s] = e
      BY <1>1, NullIsNoNode DEF Slot
    <3> QED
      BY <2>1, <3>1 DEF View, Resident
  <2>2. CASE c # b /\ Resident(c)
    <3>1. pci'[c] = pci[c] /\ pci[c] \in lru.live /\ pci[c] \in Slot
      BY <1>1, <2>2, ResidentSlot
    <3>2. cache'[pci[c]] = cache[pci[c]]
      BY <1>1, <3>1
    <3> QED
      BY <2>2, <3>1, <3>2 DEF View, Resident
  <2>3. CASE c # b /\ ~Resident(c)
    BY <1>1, <2>3 DEF View, Resident
  <2> QED
    BY <2>1, <2>2, <2>3
<1>3. View' = [View EXCEPT ![b] = e.data]
  BY <1>2 DEF View
<1>4. Owed' = IF e.dirty THEN Owed \cup {b} ELSE Owed
  <2>1. \A t \in Slot : cache'[t] = IF t = s THEN e ELSE cache[t]
    BY <1>1
  <2>2. Owed' = {cache'[t].block : t \in {u \in Slot : cache'[u].dirty}}
    BY DEF Owed
  <2>3. CASE e.dirty
    BY <1>1, <2>1, <2>2, <2>3 DEF Owed
  <2>4. CASE ~e.dirty
    BY <1>1, <2>1, <2>2, <2>4 DEF Owed
  <2> QED
    BY <2>3, <2>4
<1> QED
  BY <1>3, <1>4

LEMMA MissRefines ==
  ASSUME CacheInv, NEW i \in Inum, NEW b \in Block, Miss(i, b)
  PROVE  UNCHANGED Store!vars
<1> DEFINE e == [dirty |-> FALSE, block |-> b, inum |-> i, data |-> disk[b],
                 gpos |-> FALSE]
<1>1. /\ ~Resident(b) /\ free # <<>> /\ Install(b, e) /\ UNCHANGED <<phase, disk>>
  BY DEF Miss
<1>2. e \in EntryType /\ e.block = b /\ e.inum \in Inum /\ e.data \in Content
      /\ ~e.dirty /\ e.data = disk[b]
  BY DEF CacheInv, TypeOK, EntryType
<1> HIDE DEF e
<1>3. View' = [View EXCEPT ![b] = disk[b]] /\ Owed' = Owed
  BY <1>1, <1>2, InstalledView
<1>4. View' = View
  BY <1>1, <1>3 DEF View, Resident
<1> QED
  BY <1>1, <1>3, <1>4 DEF Store!vars, Stage

LEMMA WriteMissRefines ==
  ASSUME CacheInv, NEW i \in Inum, NEW b \in Block, NEW c \in Content, WriteMiss(i, b, c)
  PROVE  Store!Next
<1> DEFINE e == [dirty |-> TRUE, block |-> b, inum |-> i, data |-> c, gpos |-> TRUE]
<1>1. /\ phase = "up" /\ phase' = "up" /\ ~Resident(b) /\ free # <<>>
      /\ Install(b, e) /\ UNCHANGED disk
  BY DEF WriteMiss
<1>2. e \in EntryType /\ e.block = b /\ e.inum \in Inum /\ e.data \in Content
      /\ e.dirty /\ e.data = c
  BY DEF EntryType
<1> HIDE DEF e
<1>3. View' = [View EXCEPT ![b] = c] /\ Owed' = Owed \cup {b}
  BY <1>1, <1>2, InstalledView
<1>4. Store!Write(b, c)
  BY <1>1, <1>3 DEF Store!Write, Stage
<1> QED
  BY <1>4 DEF Store!Next

\* A change of the page and the flags of one slot in use.
LEMMA ChangedView ==
  ASSUME CacheInv, NEW b \in Block, NEW e \in EntryType, Resident(b), e.block = b,
         cache' = [cache EXCEPT ![pci[b]] = e], UNCHANGED pci
  PROVE  /\ (disk' = disk \/ (e.data = disk'[b]
                                /\ \A d \in Block \ {b} : disk'[d] = disk[d]))
              => View' = [View EXCEPT ![b] = e.data]
         /\ Owed' = IF e.dirty THEN Owed \cup {b} ELSE Owed \ {b}
<1> DEFINE s == pci[b]
<1>1. /\ s \in lru.live /\ s \in Slot /\ cache[s].block = b
      /\ cache \in [Slot -> EntryType] /\ pci \in [Block -> Slot \cup {NULL}]
  BY ResidentSlot DEF CacheInv, TypeOK, EntryType
<1>2. \A t \in Slot : cache'[t] = IF t = s THEN e ELSE cache[t]
  BY <1>1
<1>3. ASSUME disk' = disk \/ (e.data = disk'[b]
                             /\ \A d \in Block \ {b} : disk'[d] = disk[d]),
             NEW c \in Block
      PROVE  View'[c] = IF c = b THEN e.data ELSE View[c]
  <2>1. CASE c = b
    BY <1>1, <1>2, <2>1 DEF View, Resident
  <2>2. CASE c # b /\ Resident(c)
    <3>1. pci[c] # s /\ pci[c] \in Slot
      BY <2>2, SlotHasOneBlock, ResidentSlot
    <3> QED
      BY <1>2, <2>2, <3>1 DEF View, Resident
  <2>3. CASE c # b /\ ~Resident(c)
    BY <1>3, <2>3 DEF View, Resident
  <2> QED
    BY <2>1, <2>2, <2>3
<1>4. disk' = disk \/ (e.data = disk'[b]
                      /\ \A d \in Block \ {b} : disk'[d] = disk[d])
        => View' = [View EXCEPT ![b] = e.data]
  <2> SUFFICES ASSUME disk' = disk \/ (e.data = disk'[b]
                              /\ \A d \in Block \ {b} : disk'[d] = disk[d])
               PROVE  View' = [View EXCEPT ![b] = e.data]
    OBVIOUS
  <2>1. View = [c \in Block |-> View[c]] /\ View' = [c \in Block |-> View'[c]]
    BY DEF View
  <2>2. \A c \in Block : View'[c] = IF c = b THEN e.data ELSE View[c]
    BY <1>3
  <2> QED
    BY <2>1, <2>2
<1>5. \A t \in Slot : cache[t].dirty /\ t # s => cache[t].block # b
  <2> SUFFICES ASSUME NEW t \in Slot, cache[t].dirty, cache[t].block = b PROVE t = s
    OBVIOUS
  <2>1. t \in lru.live
    BY DEF CacheInv, DirtyQueued
  <2> QED
    BY <2>1 DEF CacheInv, SlotAccounting
<1>6. Owed' = {cache'[t].block : t \in {u \in Slot : cache'[u].dirty}}
  BY DEF Owed
<1> HIDE DEF s
<1>7. Owed' = IF e.dirty THEN Owed \cup {b} ELSE Owed \ {b}
  <2>1. CASE e.dirty
    BY <1>1, <1>2, <1>6, <2>1 DEF Owed
  <2>2. CASE ~e.dirty
    BY <1>1, <1>2, <1>5, <1>6, <2>2 DEF Owed
  <2> QED
    BY <2>1, <2>2
<1> QED
  BY <1>4, <1>7
LEMMA WriteHitRefines ==
  ASSUME CacheInv, NEW i \in Inum, NEW b \in Block, NEW c \in Content, WriteHit(i, b, c)
  PROVE  Store!Next
<1> DEFINE s == pci[b]
           e == [cache[s] EXCEPT !.dirty = TRUE, !.data = c, !.gpos = TRUE]
<1>1. /\ phase = "up" /\ phase' = "up" /\ Resident(b) /\ UNCHANGED <<disk, pci>>
      /\ cache' = [cache EXCEPT ![s].dirty = TRUE, ![s].data = c, ![s].gpos = TRUE]
  BY DEF WriteHit
<1>2. s \in Slot /\ cache[s] \in EntryType /\ cache[s].block = b
  BY <1>1, ResidentSlot DEF CacheInv, TypeOK, EntryType
<1>3. e \in EntryType /\ e.block = b /\ e.dirty /\ e.data = c
  BY <1>2 DEF EntryType
<1>4. cache' = [cache EXCEPT ![s] = e]
  BY <1>1, <1>2 DEF CacheInv, TypeOK
<1> HIDE DEF e
<1>5. View' = [View EXCEPT ![b] = c] /\ Owed' = Owed \cup {b}
  BY <1>1, <1>3, <1>4, ChangedView
<1>6. Store!Write(b, c)
  BY <1>1, <1>5 DEF Store!Write, Stage
<1> QED
  BY <1>6 DEF Store!Next

LEMMA PokeRefines ==
  ASSUME CacheInv, NEW b \in Block, NEW c \in Content, Poke(b, c)
  PROVE  Store!Next
<1> DEFINE s == pci[b]
           e == [cache[s] EXCEPT !.data = c]
<1>1. /\ phase = "up" /\ phase' = "up" /\ Resident(b) /\ UNCHANGED <<disk, pci>>
      /\ cache' = [cache EXCEPT ![s].data = c]
  BY DEF Poke
<1>2. s \in Slot /\ cache[s] \in EntryType /\ cache[s].block = b
      /\ cache \in [Slot -> EntryType]
  BY <1>1, ResidentSlot DEF CacheInv, TypeOK, EntryType
<1>3. e \in EntryType /\ e.block = b /\ e.data = c
  BY <1>2 DEF EntryType
<1>4. cache' = [cache EXCEPT ![s] = e]
  BY <1>1, <1>2
<1>5. Owed' = Owed
  BY <1>1, <1>2 DEF Owed, EntryType
<1> HIDE DEF e
<1>6. View' = [View EXCEPT ![b] = c]
  BY <1>1, <1>3, <1>4, ChangedView
<1>7. Store!Poke(b, c)
  BY <1>1, <1>5, <1>6 DEF Store!Poke, Stage
<1> QED
  BY <1>7 DEF Store!Next

\* One turn of either write-back loop.
LEMMA CleanedRefines ==
  ASSUME CacheInv, NEW s \in lru.live,
         cache' = [cache EXCEPT ![s].dirty = FALSE, ![s].gpos = FALSE],
         disk' = WrittenBack(s), phase \in {"fsync", "sync"}, UNCHANGED <<phase, pci>>
  PROVE  Store!Next
<1> DEFINE b == cache[s].block
           e == [cache[s] EXCEPT !.dirty = FALSE, !.gpos = FALSE]
<1>1. /\ b \in Block /\ pci[b] = s /\ s \in Slot /\ Resident(b)
      /\ cache[s] \in EntryType /\ cache \in [Slot -> EntryType]
      /\ disk \in [Block -> Content]
  BY WriteBackType, NullIsNoNode
     DEF CacheInv, SlotAccounting, TypeOK, EntryType, Resident, Slot
<1>2. e \in EntryType /\ e.block = b /\ ~e.dirty /\ e.data = cache[s].data
  BY <1>1 DEF EntryType
<1>3. cache' = [cache EXCEPT ![pci[b]] = e]
  BY <1>1
<1>4. View[b] = cache[s].data
  BY <1>1 DEF View
<1>5. disk'[b] = e.data /\ \A c \in Block \ {b} : disk'[c] = disk[c]
  BY <1>1, <1>2 DEF WrittenBack
<1>6. disk' = [disk EXCEPT ![b] = View[b]]
  BY <1>4 DEF WrittenBack
<1> HIDE DEF b, e
<1>7. View' = [View EXCEPT ![b] = e.data] /\ Owed' = Owed \ {b}
  <2>1. UNCHANGED pci
    OBVIOUS
  <2>2. /\ View' = [View EXCEPT ![b] = e.data]
        /\ Owed' = IF e.dirty THEN Owed \cup {b} ELSE Owed \ {b}
    BY ONLY CacheInv, <1>1, <1>2, <1>3, <1>5, <2>1, ChangedView
  <2> QED
    BY <1>2, <2>2
<1>8. View' = View
  BY <1>2, <1>4, <1>7 DEF View
<1>9. Store!Flush(b)
  BY <1>6, <1>7, <1>8 DEF Store!Flush, Store!Flushed, Stage
<1> QED
  BY <1>1, <1>9 DEF Store!Next

LEMMA SyncStepRefines ==
  ASSUME CacheInv, SyncStep
  PROVE  Store!Next
<1> DEFINE s == Last(gdl)
<1>1. s \in lru.live
  BY FrontSet DEF SyncStep, CacheInv, TypeOK, DirtyQueued
<1>2. /\ phase = "sync" /\ disk' = WrittenBack(s)
      /\ \/ Die("dl")
         \/ /\ cache' = [cache EXCEPT ![s].dirty = FALSE, ![s].gpos = FALSE]
            /\ UNCHANGED <<phase, pci>>
  BY DEF SyncStep
<1> HIDE DEF s
<1>3. CASE Die("dl")
  BY <1>1, <1>2, <1>3, DieStep
<1> QED
  BY <1>1, <1>2, <1>3, CleanedRefines

LEMMA SyncEndRefines ==
  ASSUME CacheInv, SyncEnd
  PROVE  Store!Next
<1>1. Owed = {}
  BY DEF SyncEnd, CacheInv, DirtyQueued, Owed, ToSet
<1>2. View' = disk' /\ Owed' = {} /\ disk' = disk
  BY ForgottenView DEF SyncEnd, CacheInv, TypeOK
<1>3. Store!Closed
  BY <1>1, <1>2 DEF SyncEnd, Store!Closed, Stage
<1> QED
  BY <1>3 DEF Store!Next

LEMMA StoreStep == CacheInv /\ [Next]_vars => [Store!Next]_Store!vars
<1> SUFFICES ASSUME CacheInv, [Next]_vars PROVE Store!Next \/ UNCHANGED Store!vars
  OBVIOUS
<1>1. ASSUME NEW b \in Block, Hit(b) PROVE UNCHANGED Store!vars
  BY <1>1, HitRefines
<1>2. ASSUME NEW b \in Block, Evict(b) PROVE Store!Next
  BY <1>2, FullCache, DieStep DEF Evict
<1>3. ASSUME NEW b \in Block, NEW c \in Content, Poke(b, c) PROVE Store!Next
  BY <1>3, PokeRefines
<1>4. ASSUME NEW b \in Block, NEW i \in Inum, Miss(i, b) PROVE UNCHANGED Store!vars
  BY <1>4, MissRefines
<1>5. ASSUME NEW b \in Block, NEW i \in Inum, WriteFaults(i, b) PROVE Store!Next
  BY <1>5, DieStep DEF WriteFaults
<1>6. ASSUME NEW b \in Block, NEW i \in Inum, NEW c \in Content, WriteHit(i, b, c)
      PROVE  Store!Next
  BY <1>6, WriteHitRefines
<1>7. ASSUME NEW b \in Block, NEW i \in Inum, NEW c \in Content, WriteMiss(i, b, c)
      PROVE  Store!Next
  BY <1>7, WriteMissRefines
<1>8. ASSUME NEW i \in Inum, StartFsync(i) PROVE UNCHANGED Store!vars
  BY <1>8 DEF StartFsync, Store!vars, View, Resident, Owed, Stage
<1>9. CASE FsyncStep
  BY <1>9, FsyncSlot, CleanedRefines DEF FsyncStep
<1>10. CASE FsyncEnd
  BY <1>10 DEF FsyncEnd, Store!vars, View, Resident, Owed, Stage
<1>11. CASE StartSync
  <2>1. Store!Close
    BY <1>11 DEF StartSync, mem, Store!Close, View, Resident, Owed, Stage
  <2> QED
    BY <2>1 DEF Store!Next
<1>12. CASE SyncStep
  BY <1>12, SyncStepRefines
<1>13. CASE SyncEnd
  BY <1>13, SyncEndRefines
<1>14. CASE Kill
  BY <1>14, DieStep DEF Kill
<1>15. CASE Remount
  <2>1. Store!Remount
    BY <1>15 DEF Remount, mem, Store!Remount, View, Resident, Owed, Stage
  <2> QED
    BY <2>1 DEF Store!Next
<1>16. CASE UNCHANGED vars
  BY <1>16 DEF vars, mem, Store!vars, View, Resident, Owed, Stage
<1> QED
  BY <1>1, <1>2, <1>3, <1>4, <1>5, <1>6, <1>7, <1>8, <1>9, <1>10, <1>11, <1>12,
     <1>13, <1>14, <1>15, <1>16 DEF Next

\* The cache implements the store, for any cache size, blocks and inodes: what
\* is read is what was last put there, only a block's own content reaches the
\* disk, and an unmount that completes leaves no written block behind
\* (cache.c:16-182, fuse.c:454-465).
THEOREM CacheIsDurable == Spec => IsDurable
BY StoreInit, StoreStep, CacheInvariant, PTL DEF Spec, IsDurable, Store!Spec
-----------------------------------------------------------------------------
(***************************************************************************)
(* What a step may take off a per-inode dirty list.                        *)
(***************************************************************************)
\* ListKeepsDirty of one step, in terms of Listed.
KeepsDirty == \A i \in Inum : \A b \in Listed(dl, i) :
                b \in Listed(dl', i) \/ ~cache'[pci[b]].dirty

LEMMA KeepsDirtyIs ==
  ASSUME TypeOK, phase' \in {"up", "fsync", "sync"} => KeepsDirty
  PROVE  phase' \in {"up", "fsync", "sync"} =>
           \A i \in Inum, b \in Block :
             dl[i] # NULL /\ b \in ToSet(dl[i].list)
               => \/ dl'[i] # NULL /\ b \in ToSet(dl'[i].list)
                  \/ ~cache'[pci[b]].dirty
BY DEF KeepsDirty, Listed

\* A write only adds to the lists (dl.c:84-120).
LEMMA WriteKeeps ==
  ASSUME CacheInv, NEW i \in Inum, NEW b \in Block,
         dl' = dl \/ dl' \in Inserted(i, b)
  PROVE  KeepsDirty
<1>1. CASE dl' = dl
  BY <1>1 DEF KeepsDirty
<1>2. CASE dl' \in Inserted(i, b)
  BY <1>2, InsertedFacts DEF KeepsDirty
<1> QED
  BY <1>1, <1>2

\* cache_fsync takes the head off its list and leaves its block clean.
LEMMA FsyncStepKeeps ==
  ASSUME CacheInv, FsyncStep
  PROVE  KeepsDirty
<1> DEFINE q == dl[job].list
           t == Tail(q)
           s == pci[Head(q)]
<1>1. /\ job \in Inum /\ dl[job] # NULL
      /\ dl[job] \in [list : Seq(Block), wild : BOOLEAN]
      /\ s \in lru.live /\ t \in Seq(Block) /\ q # <<>>
  BY FsyncSlot DEF FsyncStep
<1>2. s \in Slot /\ cache \in [Slot -> EntryType] /\ dl \in DlType
  BY <1>1, WriteBackType DEF CacheInv, TypeOK, EntryType, DlType
<1>3. /\ cache' = [cache EXCEPT ![s].dirty = FALSE, ![s].gpos = FALSE]
      /\ dl' = [dl EXCEPT ![job].list = t]
  BY DEF FsyncStep
<1>4. ToSet(q) = {Head(q)} \cup ToSet(t)
  BY <1>1, HeadTailSet
<1>5. ~cache'[pci[Head(q)]].dirty
  BY <1>2, <1>3 DEF EntryType
<1> HIDE DEF t, s
<1>6. /\ dl'[job] = [dl[job] EXCEPT !.list = t]
      /\ \A j \in Inum \ {job} : dl'[j] = dl[j]
  BY <1>1, <1>2, <1>3 DEF DlType
<1>7. dl'[job] \in [list : Seq(Block), wild : BOOLEAN] /\ dl'[job].list = t
  BY <1>1, <1>6
<1>8. dl'[job] # NULL
  BY <1>7, BlockCacheConstants
<1>9. Listed(dl, job) = ToSet(q) /\ Listed(dl', job) = ToSet(t)
  BY <1>1, <1>7, <1>8 DEF Listed
<1>10. \A j \in Inum \ {job} : Listed(dl', j) = Listed(dl, j)
  BY <1>6 DEF Listed
<1> QED
  BY <1>4, <1>5, <1>9, <1>10 DEF KeepsDirty

\* The list cache_fsync deletes is empty.
LEMMA FsyncEndKeeps ==
  ASSUME CacheInv, FsyncEnd
  PROVE  KeepsDirty
<1>1. /\ job \in Inum /\ dl[job].list = <<>> /\ dl' = [dl EXCEPT ![job] = NULL]
      /\ dl \in DlType
  BY DEF FsyncEnd, CacheInv, TypeOK, DlType, FsyncHasList
<1>2. Listed(dl, job) = {}
  BY <1>1 DEF Listed, ToSet
<1>3. \A j \in Inum \ {job} : Listed(dl', j) = Listed(dl, j)
  BY <1>1 DEF Listed, DlType
<1> QED
  BY <1>2, <1>3 DEF KeepsDirty

\* cache_sync takes off a list the one block it has just written back.
LEMMA SyncStepKeeps ==
  ASSUME CacheInv, SyncStep, phase' \in {"up", "fsync", "sync"}
  PROVE  KeepsDirty
<1> DEFINE s == Last(gdl)
           b == cache[s].block
<1>1. s \in lru.live
  BY FrontSet DEF SyncStep, CacheInv, TypeOK, DirtyQueued
<1>2. /\ s \in Slot /\ b \in Block /\ pci[b] = s /\ cache[s].inum \in Inum
      /\ cache \in [Slot -> EntryType]
  BY <1>1, WriteBackType DEF CacheInv, SlotAccounting, EntriesFull, TypeOK, EntryType
<1>3. /\ cache' = [cache EXCEPT ![s].dirty = FALSE, ![s].gpos = FALSE]
      /\ dl' = dl \/ dl' = Removed(cache[s].inum, b)
  BY DEF SyncStep, Die
<1>4. ~cache'[pci[b]].dirty
  BY <1>2, <1>3 DEF EntryType
<1> HIDE DEF b, s
<1>5. \A j \in Inum : Listed(dl, j) \ {b} \subseteq Listed(dl', j)
  BY <1>2, <1>3, RemovedFacts
<1> QED
  BY <1>4, <1>5 DEF KeepsDirty

LEMMA KeepsDirtyStep ==
  ASSUME CacheInv, [Next]_vars, phase' \in {"up", "fsync", "sync"}
  PROVE  KeepsDirty
<1>1. ASSUME UNCHANGED dl PROVE KeepsDirty
  BY <1>1 DEF KeepsDirty
<1>2. ASSUME NEW b \in Block, NEW i \in Inum, NEW c \in Content,
             WriteHit(i, b, c) \/ WriteMiss(i, b, c)
      PROVE  KeepsDirty
  <2>1. dl' = dl \/ dl' \in Inserted(i, b)
    BY <1>2 DEF WriteHit, WriteMiss
  <2> QED
    BY <2>1, WriteKeeps
<1>3. CASE FsyncStep
  BY <1>3, FsyncStepKeeps
<1>4. CASE FsyncEnd
  BY <1>4, FsyncEndKeeps
<1>5. CASE SyncStep
  BY <1>5, SyncStepKeeps
<1>6. ASSUME NEW b \in Block, Hit(b) \/ Evict(b) PROVE UNCHANGED dl
  BY <1>6 DEF Hit, Evict, Die
<1>7. ASSUME NEW b \in Block, NEW c \in Content, Poke(b, c) PROVE UNCHANGED dl
  BY <1>7 DEF Poke
<1>8. ASSUME NEW b \in Block, NEW i \in Inum, Miss(i, b) \/ WriteFaults(i, b)
      PROVE  UNCHANGED dl
  BY <1>8 DEF Miss, WriteFaults, Die
<1>9. ASSUME NEW i \in Inum, StartFsync(i) PROVE UNCHANGED dl
  BY <1>9 DEF StartFsync
<1>10. CASE StartSync \/ SyncEnd \/ Kill \/ Remount \/ UNCHANGED vars
  BY <1>1, <1>10 DEF StartSync, SyncEnd, Kill, Die, Remount, mem, vars
<1> QED
  BY <1>1, <1>2, <1>3, <1>4, <1>5, <1>6, <1>7, <1>8, <1>9, <1>10 DEF Next

\* A block leaves an inode's dirty list only in a step that leaves the block
\* clean, or when the process ends: no fsync that is still to come misses one,
\* for any number of inodes, blocks and lists (dl.c:84-183, cache.c:124-147).
THEOREM CacheListKeepsDirty == Spec => ListKeepsDirty
<1> DEFINE A == phase' \in {"up", "fsync", "sync"} =>
                  \A i \in Inum, b \in Block :
                    dl[i] # NULL /\ b \in ToSet(dl[i].list)
                      => \/ dl'[i] # NULL /\ b \in ToSet(dl'[i].list)
                         \/ ~cache'[pci[b]].dirty
<1>1. CacheInv /\ [Next]_vars => [A]_vars
  BY KeepsDirtyStep, KeepsDirtyIs DEF CacheInv
<1>2. Spec => [][A]_vars
  BY <1>1, CacheInvariant, PTL DEF Spec
<1> QED
  BY <1>2 DEF ListKeepsDirty
-----------------------------------------------------------------------------
(***************************************************************************)
(* The order in which an unmount cleans blocks.                            *)
(***************************************************************************)
\* A block's oldest node is nearer to the end cache_sync takes than the nodes
\* of a block that was first written after it.
Fifo == \A i, j \in 1 .. Len(order) : i < j /\ Dirty(order[i]) =>
          \A q \in 1 .. Len(gdl) : gdl[q] = pci[order[j]] =>
            \E p \in 1 .. Len(gdl) : q < p /\ gdl[p] = pci[order[i]]

\* Before any fsync, while the file system is in use, nothing is cleaned: the
\* blocks written in this mount and the slots queued are all dirty.
AllDirty == /\ \A b \in ToSet(order) : Dirty(b)
            /\ \A s \in ToSet(gdl) : cache[s].dirty

\* The inductive invariant of the history.
OrderInv == /\ order \in Seq(Block)
            /\ phase = "fsync" => fsynced
            /\ phase \in {"down", "dead"} => order = <<>> /\ gdl = <<>>
            /\ phase = "up" /\ ~fsynced => AllDirty
            /\ ~fsynced => Fifo
            /\ SyncsInOrder

\* A block is dirty after the step.
DirtyNext(b) == pci'[b] # NULL /\ cache'[pci'[b]].dirty

\* What Recorded appends.
NewlyDirty == {b \in Block : DirtyNext(b) /\ ~Dirty(b)} \ ToSet(order)

LEMMA FewInSequence ==
  /\ SetToSeq({}) = <<>>
  /\ \A e : SetToSeq({e}) = <<e>>
<1>1. SetToSeq({}) = <<>>
  <2>1. Cardinality({}) = 0
    BY FS_EmptySet
  <2>2. ASSUME NEW f \in [1 .. 0 -> {}] PROVE f = <<>>
    OBVIOUS
  <2>3. <<>> \in [1 .. 0 -> {}] /\ IsInjective(<<>>)
    BY DEF IsInjective
  <2> QED
    BY <2>1, <2>2, <2>3 DEF SetToSeq
<1>2. ASSUME NEW e PROVE SetToSeq({e}) = <<e>>
  <2>1. Cardinality({e}) = 1
    BY FS_Singleton
  <2>2. ASSUME NEW f \in [1 .. 1 -> {e}] PROVE f = <<e>>
    OBVIOUS
  <2>3. <<e>> \in [1 .. 1 -> {e}] /\ IsInjective(<<e>>)
    BY DEF IsInjective
  <2> QED
    BY <2>1, <2>2, <2>3 DEF SetToSeq
<1> QED
  BY <1>1, <1>2

\* A step that makes no block dirty that was clean leaves the history alone.
LEMMA NothingRecorded ==
  ASSUME OrderNext, order \in Seq(Block), phase' \notin {"down", "dead"}, NewlyDirty = {}
  PROVE  order' = order
<1>1. order' = order \o SetToSeq(NewlyDirty)
  BY DEF OrderNext, Recorded, NewlyDirty, Dirty, DirtyNext, Resident
<1>2. order' = order \o <<>>
  BY <1>1, FewInSequence
<1> QED
  BY <1>2, ConcatEmptySeq

\* A block that becomes dirty comes last.
LEMMA OneRecorded ==
  ASSUME OrderNext, order \in Seq(Block), phase' \notin {"down", "dead"},
         NEW b \in Block, NewlyDirty = {b}
  PROVE  order' = Append(order, b)
<1>1. order' = order \o SetToSeq(NewlyDirty)
  BY DEF OrderNext, Recorded, NewlyDirty, Dirty, DirtyNext, Resident
<1>2. order' = order \o <<b>>
  BY <1>1, FewInSequence
<1> QED
  BY <1>2, AppendIsConcat

LEMMA OrderInitInv == OrderInit => OrderInv
<1> SUFFICES ASSUME OrderInit PROVE OrderInv
  OBVIOUS
<1>1. /\ order = <<>> /\ gdl = <<>> /\ phase = "up" /\ ~fsynced
  BY DEF OrderInit, Init
<1>2. Len(order) = 0 /\ ToSet(order) = {} /\ ToSet(gdl) = {} /\ order \in Seq(Block)
  BY <1>1 DEF ToSet
<1> QED
  BY <1>1, <1>2 DEF OrderInv, AllDirty, Fifo, SyncsInOrder

\* The end of the process.
LEMMA OrderEnds ==
  ASSUME OrderNext, Forget, phase' \in {"down", "dead"}
  PROVE  OrderInv'
<1>1. order' = <<>> /\ gdl' = <<>>
  BY DEF OrderNext, Recorded, Forget
<1>2. Len(order') = 0 /\ order' \in Seq(Block)
  BY <1>1
<1> QED
  BY <1>1, <1>2 DEF OrderInv, Fifo, SyncsInOrder

\* A step that cleans nothing, dirties nothing and queues nothing.
Quiet ==
  /\ UNCHANGED gdl /\ phase' \notin {"down", "dead"}
  /\ phase = "sync" => phase' = "sync"
  /\ \A b \in Block : DirtyNext(b) <=> Dirty(b)
  /\ \A b \in Block : Dirty(b) => pci'[b] = pci[b]
  /\ \A b \in Block : \A s \in ToSet(gdl) : pci'[b] = s => pci[b] = s
  /\ \A s \in ToSet(gdl) : cache'[s].dirty = cache[s].dirty

LEMMA OrderKept ==
  ASSUME CacheInv, OrderInv, OrderNext, Quiet
  PROVE  OrderInv'
<1> USE DEF Quiet
<1>1. order \in Seq(Block) /\ gdl \in Seq(Slot)
  BY DEF OrderInv, CacheInv, TypeOK
<1>2. order' = order
  BY <1>1, NothingRecorded DEF NewlyDirty
<1>3. /\ DOMAIN order = 1 .. Len(order) /\ DOMAIN gdl = 1 .. Len(gdl)
      /\ \A i \in 1 .. Len(order) : order[i] \in Block
      /\ \A i \in 1 .. Len(gdl) : gdl[i] \in ToSet(gdl)
  <2>1. /\ DOMAIN order = 1 .. Len(order) /\ DOMAIN gdl = 1 .. Len(gdl)
    BY <1>1, LenProperties
  <2>2. \A i \in 1 .. Len(order) : order[i] \in Block
    BY <1>1, ElementOfSeq
  <2> QED
    BY <2>1, <2>2 DEF ToSet
<1>4. fsynced => fsynced'
  BY DEF OrderNext
<1>5. CASE phase \in {"down", "dead"}
  <2>1. order' = <<>> /\ gdl' = <<>>
    BY <1>2, <1>5 DEF OrderInv
  <2>2. Len(order') = 0 /\ ToSet(order') = {} /\ ToSet(gdl') = {}
    BY <2>1 DEF ToSet
  <2> QED
    <3>1. AllDirty' /\ Fifo' /\ SyncsInOrder'
      BY <2>1, <2>2 DEF AllDirty, Fifo, SyncsInOrder
    <3> QED
      BY <1>1, <1>2, <2>1, <3>1 DEF OrderNext, OrderInv
<1>6. CASE phase \notin {"down", "dead"} /\ fsynced
  BY <1>1, <1>2, <1>4, <1>6 DEF OrderInv, OrderNext, SyncsInOrder
<1>7. CASE phase \notin {"down", "dead"} /\ ~fsynced
  <2>1. phase \in {"up", "sync"} /\ Fifo /\ SyncsInOrder
    BY <1>7 DEF OrderInv, CacheInv, TypeOK
  <2>2. phase' = "up" => phase = "up"
    BY <2>1
  <2>3. phase' = "up" => AllDirty'
    <3> SUFFICES ASSUME phase' = "up" PROVE AllDirty'
      OBVIOUS
    <3>1. AllDirty
      BY <1>7, <2>2 DEF OrderInv
    <3>2. \A b \in ToSet(order) : b \in Block
      BY <1>3 DEF ToSet
    <3> QED
      BY <1>2, <3>1, <3>2 DEF AllDirty, Dirty, DirtyNext, Resident
  <2>4. Fifo'
    <3> SUFFICES ASSUME NEW i \in 1 .. Len(order), NEW j \in 1 .. Len(order),
                        i < j, DirtyNext(order[i]),
                        NEW q \in 1 .. Len(gdl), gdl[q] = pci'[order[j]]
                 PROVE  \E p \in 1 .. Len(gdl) : q < p /\ gdl[p] = pci'[order[i]]
      BY <1>2 DEF Fifo, Dirty, DirtyNext, Resident
    <3>1. Dirty(order[i]) /\ pci'[order[i]] = pci[order[i]]
      BY <1>3
    <3>2. gdl[q] = pci[order[j]]
      BY <1>3
    <3> QED
      BY <2>1, <3>1, <3>2 DEF Fifo
  <2>5. SyncsInOrder'
    <3> SUFFICES ASSUME NEW i \in 1 .. Len(order), NEW j \in 1 .. Len(order),
                        i < j, DirtyNext(order[i])
                 PROVE  DirtyNext(order[j])
      BY <1>2 DEF SyncsInOrder, Dirty, DirtyNext, Resident
    <3> QED
      BY <1>3, <1>7, <2>1 DEF SyncsInOrder
  <2> QED
    BY <1>1, <1>2, <2>3, <2>4, <2>5 DEF OrderInv, OrderNext
<1> QED
  BY <1>5, <1>6, <1>7

\* The history as a sequence, with the places of its blocks and of the list's
\* slots.
LEMMA OrderPlaces ==
  ASSUME CacheInv, OrderInv
  PROVE  /\ Len(order) \in Nat /\ Len(gdl) \in Nat
         /\ DOMAIN order = 1 .. Len(order) /\ DOMAIN gdl = 1 .. Len(gdl)
         /\ \A i \in 1 .. Len(order) : order[i] \in Block /\ order[i] \in ToSet(order)
         /\ \A i \in 1 .. Len(gdl) : gdl[i] \in Slot /\ gdl[i] \in ToSet(gdl)
<1>1. order \in Seq(Block) /\ gdl \in Seq(Slot)
  BY DEF OrderInv, CacheInv, TypeOK
<1>2. /\ Len(order) \in Nat /\ Len(gdl) \in Nat
      /\ DOMAIN order = 1 .. Len(order) /\ DOMAIN gdl = 1 .. Len(gdl)
  BY <1>1, LenProperties
<1>3. /\ \A i \in 1 .. Len(order) : order[i] \in Block
      /\ \A i \in 1 .. Len(gdl) : gdl[i] \in Slot
  BY <1>1, ElementOfSeq
<1> QED
  BY <1>2, <1>3 DEF ToSet

\* Block b is written in slot s, which gets a new node at the head of the list.
Writes(b, s) ==
  /\ phase = "up" /\ phase' = "up" /\ gdl' = <<s>> \o gdl
  /\ pci'[b] = s /\ \A c \in Block \ {b} : pci'[c] = pci[c]
  /\ cache'[s].dirty /\ \A t \in Slot \ {s} : cache'[t].dirty = cache[t].dirty
  /\ \A c \in Block \ {b} : pci[c] # s
  /\ Resident(b) => pci[b] = s
  /\ s \in ToSet(gdl) => Resident(b)

LEMMA OrderWrites ==
  ASSUME CacheInv, OrderInv, OrderNext, NEW b \in Block, NEW s \in Slot, Writes(b, s)
  PROVE  OrderInv'
<1> USE DEF Writes
<1>1. order \in Seq(Block) /\ gdl \in Seq(Slot) /\ pci \in [Block -> Slot \cup {NULL}]
  BY DEF OrderInv, CacheInv, TypeOK
<1>2. s # NULL
  BY NullIsNoNode DEF Slot
<1>3. DirtyNext(b) /\ \A c \in Block \ {b} : DirtyNext(c) <=> Dirty(c)
  BY <1>1, <1>2 DEF DirtyNext, Dirty, Resident
<1>4. NewlyDirty = {b} \/ NewlyDirty = {}
  BY <1>3 DEF NewlyDirty
<1>5. order' = Append(order, b) \/ order' = order
  BY <1>1, <1>4, NothingRecorded, OneRecorded
<1>6. order' \in Seq(Block)
  <2>1. Append(order, b) \in Seq(Block)
    BY <1>1, AppendProperties
  <2> QED
    BY <1>1, <1>5, <2>1
<1>7. fsynced' <=> fsynced
  BY DEF OrderNext
<1>8. CASE fsynced
  BY <1>6, <1>7, <1>8 DEF OrderInv, SyncsInOrder
<1>9. CASE ~fsynced
  <2>1. AllDirty /\ Fifo
    BY <1>9 DEF OrderInv
  <2>2. ToSet(gdl') = {s} \cup ToSet(gdl)
    BY <1>1, ConsSet
  <2> DEFINE n == Len(order)
             m == Len(gdl)
  <2>3. /\ n \in Nat /\ m \in Nat
        /\ \A i \in 1 .. n : order[i] \in Block /\ order[i] \in ToSet(order)
        /\ \A q \in 1 .. m : gdl[q] \in Slot /\ gdl[q] \in ToSet(gdl)
        /\ DOMAIN order = 1 .. n /\ DOMAIN gdl = 1 .. m
    BY OrderPlaces
  <2>4. /\ Len(gdl') = m + 1 /\ gdl'[1] = s
        /\ \A q \in 2 .. m + 1 : gdl'[q] = gdl[q - 1]
    <3>1. /\ <<s>> \in Seq(Slot) /\ Len(<<s>>) = 1 /\ <<s>>[1] = s
      OBVIOUS
    <3>2. /\ Len(gdl') = 1 + m
          /\ \A q \in 1 .. 1 + m : gdl'[q] = IF q <= 1 THEN <<s>>[q] ELSE gdl[q - 1]
      BY <1>1, <3>1, ConcatProperties
    <3> QED
      BY <2>3, <3>1, <3>2
  <2>5. \A q \in 1 .. m : gdl'[q + 1] = gdl[q]
    BY <2>3, <2>4
  <2>6. \/ order' = order
        \/ /\ ~Dirty(b) /\ Len(order') = n + 1 /\ order'[n + 1] = b
           /\ \A i \in 1 .. n : order'[i] = order[i]
    <3>1. CASE Dirty(b)
      BY <1>1, <1>3, <3>1, NothingRecorded DEF NewlyDirty
    <3>2. CASE order' = Append(order, b) /\ ~Dirty(b)
      BY <1>1, <3>2, AppendProperties
    <3> QED
      BY <1>5, <3>1, <3>2
  <2>7. \A c \in ToSet(order) : /\ c \in Block /\ Dirty(c) /\ pci'[c] = pci[c]
                                /\ \E p \in 1 .. m : gdl[p] = pci[c]
    <3> SUFFICES ASSUME NEW c \in ToSet(order)
                 PROVE  /\ c \in Block /\ Dirty(c) /\ pci'[c] = pci[c]
                        /\ \E p \in 1 .. m : gdl[p] = pci[c]
      OBVIOUS
    <3>1. c \in Block /\ Dirty(c)
      BY <2>1, <2>3 DEF AllDirty, ToSet
    <3>2. pci'[c] = pci[c]
      BY <3>1 DEF Dirty
    <3>3. pci[c] \in ToSet(gdl)
      BY <1>1, <3>1 DEF CacheInv, DirtyQueued, Dirty, Resident
    <3> QED
      BY <2>3, <3>1, <3>2, <3>3 DEF ToSet
  <2> HIDE DEF n, m
  <2>8. \A c \in ToSet(order) : DirtyNext(c)
    BY <1>3, <2>7
  <2>9. \A i \in 1 .. Len(order') : \/ i \in 1 .. n /\ order'[i] = order[i]
                                    \/ i = n + 1 /\ order'[i] = b /\ ~Dirty(b)
    BY <2>3, <2>6 DEF n
  <2>10. /\ DOMAIN order' = 1 .. Len(order')
         /\ \A i \in 1 .. Len(order') : order'[i] \in Block /\ DirtyNext(order'[i])
    BY <1>3, <1>6, <2>3, <2>8, <2>9, LenProperties
  <2>11. AllDirty'
    <3>1. \A c \in ToSet(order') : c \in Block /\ DirtyNext(c)
      BY <2>10 DEF ToSet
    <3>2. \A t \in ToSet(gdl) : t \in Slot /\ cache[t].dirty
      BY <1>1, <2>1, <2>3 DEF AllDirty, ToSet
    <3>3. \A t \in ToSet(gdl') : cache'[t].dirty
      BY <2>2, <3>2
    <3> QED
      BY <3>1, <3>3 DEF AllDirty, Dirty, DirtyNext, Resident
  <2>12. SyncsInOrder'
    BY <2>10 DEF SyncsInOrder, Dirty, DirtyNext, Resident
  <2>13. Fifo'
    <3> SUFFICES ASSUME NEW i \in 1 .. Len(order'), NEW j \in 1 .. Len(order'), i < j,
                        NEW q \in 1 .. m + 1, gdl'[q] = pci'[order'[j]]
                 PROVE  \E p \in 1 .. m + 1 : q < p /\ gdl'[p] = pci'[order'[i]]
      <4>1. Fifo' <=> \A i, j \in 1 .. Len(order') :
                         i < j /\ DirtyNext(order'[i]) =>
                           \A q \in 1 .. Len(gdl') : gdl'[q] = pci'[order'[j]] =>
                             \E p \in 1 .. Len(gdl') : q < p /\ gdl'[p] = pci'[order'[i]]
        BY DEF Fifo, Dirty, DirtyNext, Resident
      <4> QED
        BY <2>4, <4>1
    <3>1. i \in 1 .. n /\ order'[i] = order[i]
      <4>1. Len(order') \in Nat
        BY <1>6, LenProperties
      <4> QED
        BY <4>1, <2>3, <2>9
    <3> DEFINE c == order[i]
    <3>2. /\ c \in ToSet(order) /\ pci'[c] = pci[c] /\ Dirty(c)
      BY <2>3, <2>7, <3>1
    <3> HIDE DEF c
    <3>3. PICK p0 \in 1 .. m : gdl[p0] = pci[c]
      BY <2>7, <3>2
    <3>4. CASE q = 1
      <4>1. p0 + 1 \in 1 .. m + 1 /\ q < p0 + 1 /\ gdl'[p0 + 1] = pci'[c]
        BY <2>3, <2>5, <3>2, <3>3, <3>4
      <4> QED
        BY <3>1, <4>1 DEF c
    <3>5. CASE q # 1
      <4> DEFINE r == q - 1
      <4>1. r \in 1 .. m /\ gdl'[q] = gdl[r] /\ q = r + 1
        <5>1. q \in 2 .. m + 1 /\ r \in 1 .. m /\ q = r + 1
          BY <2>3, <3>5
        <5> QED
          BY <2>4, <5>1
      <4> HIDE DEF r
      <4>2. gdl[r] \in ToSet(gdl) /\ gdl[r] \in Slot /\ cache[gdl[r]].dirty
        BY <2>1, <2>3, <4>1 DEF AllDirty
      <4>3. j \in 1 .. n /\ order'[j] = order[j]
        <5>1. SUFFICES ASSUME order'[j] = b, ~Dirty(b) PROVE FALSE
          BY <2>9
        <5>2. gdl[r] = s
          BY <4>1, <5>1
        <5>3. Resident(b) /\ pci[b] = s /\ cache[s].dirty
          BY <4>2, <5>2
        <5> QED
          BY <5>1, <5>3 DEF Dirty
      <4>4. gdl[r] = pci[order[j]]
        BY <2>3, <2>7, <4>1, <4>3
      <4>5. Dirty(order[i]) /\ i < j
        BY <3>2 DEF c
      <4>6. PICK p \in 1 .. m : r < p /\ gdl[p] = pci[order[i]]
        BY <2>1, <3>1, <4>1, <4>3, <4>4, <4>5 DEF Fifo, n, m
      <4>7. p + 1 \in 1 .. m + 1 /\ q < p + 1 /\ gdl'[p + 1] = pci'[c]
        BY <2>3, <2>5, <3>2, <4>1, <4>6 DEF c
      <4> QED
        BY <3>1, <4>7 DEF c
    <3> QED
      BY <3>4, <3>5
  <2> QED
    BY <1>6, <2>11, <2>12, <2>13 DEF OrderInv
<1> QED
  BY <1>8, <1>9

LEMMA OrderWriteHit ==
  ASSUME CacheInv, OrderInv, OrderNext,
         NEW i \in Inum, NEW b \in Block, NEW c \in Content, WriteHit(i, b, c)
  PROVE  OrderInv'
<1> DEFINE s == pci[b]
<1>1. /\ Resident(b) /\ gdl' = <<s>> \o gdl /\ phase = "up" /\ phase' = "up"
      /\ cache' = [cache EXCEPT ![s].dirty = TRUE, ![s].data = c, ![s].gpos = TRUE]
      /\ UNCHANGED pci
  BY DEF WriteHit
<1>2. s \in Slot /\ cache \in [Slot -> EntryType]
  BY <1>1, ResidentSlot DEF CacheInv, TypeOK, EntryType
<1>3. \A d \in Block \ {b} : pci[d] # s
  BY <1>1, SlotHasOneBlock
<1> HIDE DEF s
<1>4. cache'[s].dirty /\ \A t \in Slot \ {s} : cache'[t].dirty = cache[t].dirty
  BY <1>1, <1>2 DEF EntryType
<1>5. /\ pci'[b] = s
      /\ Resident(b) => pci[b] = s
      /\ \A d \in Block \ {b} : pci'[d] = pci[d]
      /\ s \in ToSet(gdl) => Resident(b)
  BY <1>1 DEF s
<1>6. Writes(b, s)
  BY <1>1, <1>3, <1>4, <1>5 DEF Writes
<1> QED
  BY <1>2, <1>6, OrderWrites

LEMMA OrderWriteMiss ==
  ASSUME CacheInv, OrderInv, OrderNext,
         NEW i \in Inum, NEW b \in Block, NEW c \in Content, WriteMiss(i, b, c)
  PROVE  OrderInv'
<1> DEFINE s == Head(free)
           e == [dirty |-> TRUE, block |-> b, inum |-> i, data |-> c, gpos |-> TRUE]
<1>1. /\ ~Resident(b) /\ free # <<>> /\ gdl' = <<s>> \o gdl
      /\ phase = "up" /\ phase' = "up"
      /\ cache' = [cache EXCEPT ![s] = e] /\ pci' = [pci EXCEPT ![b] = s]
  BY DEF WriteMiss, Install
<1>2. /\ s \in Slot \ lru.live /\ s \notin ToSet(gdl)
      /\ cache \in [Slot -> EntryType] /\ pci \in [Block -> Slot \cup {NULL}]
  BY <1>1, FreeSlot DEF CacheInv, TypeOK, EntryType
<1> HIDE DEF s
<1>3. cache'[s].dirty /\ \A t \in Slot \ {s} : cache'[t].dirty = cache[t].dirty
  BY <1>1, <1>2
<1>4. pci'[b] = s /\ \A d \in Block \ {b} : pci'[d] = pci[d]
  BY <1>1, <1>2
<1>5. \A d \in Block : pci[d] # s
  BY <1>2, NullIsNoNode, ResidentSlot DEF Resident, Slot
<1>6. /\ s \in Slot
      /\ Resident(b) => pci[b] = s
      /\ \A d \in Block \ {b} : pci[d] # s
      /\ s \in ToSet(gdl) => Resident(b)
  BY <1>1, <1>2, <1>5
<1>7. Writes(b, s)
  BY <1>1, <1>3, <1>4, <1>6 DEF Writes
<1> QED
  BY <1>6, <1>7, OrderWrites

\* cache_fsync cleans blocks out of order, and the history says so.
LEMMA OrderFsyncs ==
  ASSUME CacheInv, OrderInv, OrderNext, FsyncStep
  PROVE  OrderInv'
<1> DEFINE s == pci[Head(dl[job].list)]
<1>1. /\ phase = "fsync" /\ phase' = "fsync" /\ UNCHANGED pci
      /\ cache' = [cache EXCEPT ![s].dirty = FALSE, ![s].gpos = FALSE]
  BY DEF FsyncStep
<1>2. cache \in [Slot -> EntryType] /\ pci \in [Block -> Slot \cup {NULL}]
  BY DEF CacheInv, TypeOK, EntryType
<1> HIDE DEF s
<1>3. \A t \in Slot : cache'[t].dirty => cache[t].dirty
  BY <1>1, <1>2 DEF EntryType
<1>4. NewlyDirty = {}
  BY <1>1, <1>2, <1>3 DEF NewlyDirty, DirtyNext, Dirty, Resident
<1>5. order' = order
  BY <1>1, <1>4, NothingRecorded DEF OrderInv
<1> QED
  BY <1>1, <1>5 DEF OrderInv, OrderNext, SyncsInOrder

\* cache_sync cleans the oldest block of the list.
LEMMA OrderSyncs ==
  ASSUME CacheInv, OrderInv, OrderNext, SyncStep, phase' = "sync"
  PROVE  OrderInv'
<1> DEFINE s == Last(gdl)
           b == cache[s].block
           m == Len(gdl)
<1>1. s \in lru.live
  BY FrontSet DEF SyncStep, CacheInv, TypeOK, DirtyQueued
<1>2. /\ s \in Slot /\ b \in Block /\ pci[b] = s /\ Resident(b)
      /\ cache \in [Slot -> EntryType] /\ pci \in [Block -> Slot \cup {NULL}]
  BY <1>1, WriteBackType, NullIsNoNode
     DEF CacheInv, SlotAccounting, TypeOK, EntryType, Resident, Slot
<1>3. /\ phase = "sync" /\ gdl # <<>> /\ gdl' = Front(gdl) /\ UNCHANGED pci
      /\ cache' = [cache EXCEPT ![s].dirty = FALSE, ![s].gpos = FALSE]
  BY DEF SyncStep, Die
<1>4. \A d \in Block \ {b} : pci[d] # s
  BY <1>2, SlotHasOneBlock
<1> HIDE DEF b
<1>5. /\ m \in Nat \ {0} /\ gdl[m] = s /\ Len(gdl') = m - 1
      /\ \A q \in 1 .. m - 1 : gdl'[q] = gdl[q]
  <2>1. gdl \in Seq(Slot)
    BY DEF CacheInv, TypeOK
  <2>2. m \in Nat \ {0} /\ \A q \in 1 .. m : gdl[q] \in Slot
    BY <1>3, <2>1, EmptySeq, ElementOfSeq
  <2> DEFINE f == SubSeq(gdl, 1, m - 1)
  <2>3. \A q \in 1 .. m - 1 : gdl[q] \in Slot
    BY <2>2
  <2>4. /\ Len(f) = IF 1 <= m - 1 THEN m - 1 - 1 + 1 ELSE 0
        /\ \A q \in 1 .. m - 1 - 1 + 1 : f[q] = gdl[1 + q - 1]
    BY <2>2, <2>3, SubSeqProperties, 1 \in Int, m - 1 \in Int
  <2>5. gdl' = f
    BY <1>3 DEF Front
  <2> HIDE DEF f
  <2>6. Len(f) = m - 1 /\ \A q \in 1 .. m - 1 : f[q] = gdl[q]
    <3>1. Len(f) = m - 1
      <4> HIDE DEF f, m
      <4>1. CASE m = 1
        BY <2>4, <4>1
      <4>2. CASE m > 1
        <5>1. 1 <= m - 1 /\ m - 1 - 1 + 1 = m - 1
          BY <2>2, <4>2
        <5> QED
          BY <2>4, <5>1
      <4> QED
        BY <2>2, <4>1, <4>2
    <3>2. ASSUME NEW q \in 1 .. m - 1 PROVE f[q] = gdl[q]
      <4>1. q \in 1 .. m - 1 - 1 + 1 /\ 1 + q - 1 = q
        BY <2>2
      <4> QED
        BY <2>4, <4>1
    <3> QED
      BY <3>1, <3>2
  <2> QED
    BY <2>2, <2>5, <2>6 DEF Last
<1> HIDE DEF s, m
<1>6. ~cache'[s].dirty /\ \A t \in Slot \ {s} : cache'[t].dirty = cache[t].dirty
  BY <1>2, <1>3 DEF EntryType
<1>7. \A c \in Block : DirtyNext(c) <=> Dirty(c) /\ c # b
  BY <1>2, <1>3, <1>4, <1>6 DEF DirtyNext, Dirty, Resident
<1>8. order' = order
  <2>1. NewlyDirty = {}
    BY <1>7 DEF NewlyDirty
  <2> QED
    BY <2>1, NothingRecorded DEF OrderInv
<1>9. fsynced' <=> fsynced
  BY <1>3 DEF OrderNext
<1>10. CASE fsynced
  BY <1>8, <1>9, <1>10 DEF OrderInv, SyncsInOrder
<1>11. CASE ~fsynced
  <2> DEFINE n == Len(order)
  <2>1. n \in Nat /\ \A i \in 1 .. n : order[i] \in Block
    BY OrderPlaces
  <2>2. \A i, j \in 1 .. n : i < j /\ Dirty(order[i]) => Dirty(order[j])
    BY <1>3, <1>11 DEF OrderInv, SyncsInOrder
  <2>3. \A i, j \in 1 .. n : i < j /\ Dirty(order[i]) =>
          \A q \in 1 .. m : gdl[q] = pci[order[j]] =>
            \E p \in 1 .. m : q < p /\ gdl[p] = pci[order[i]]
    BY <1>11 DEF OrderInv, Fifo, m
  <2>4. Fifo'
    <3>1. Fifo' <=> \A i, j \in 1 .. n : i < j /\ DirtyNext(order[i]) =>
                      \A q \in 1 .. Len(gdl') : gdl'[q] = pci[order[j]] =>
                        \E p \in 1 .. Len(gdl') : q < p /\ gdl'[p] = pci[order[i]]
      BY <1>3, <1>8 DEF Fifo, Dirty, DirtyNext, Resident
    <3> HIDE DEF n
    <3> SUFFICES ASSUME NEW i \in 1 .. n, NEW j \in 1 .. n, i < j, DirtyNext(order[i]),
                        NEW q \in 1 .. m - 1, gdl[q] = pci[order[j]]
                 PROVE  \E p \in 1 .. m - 1 : q < p /\ gdl[p] = pci[order[i]]
      BY <1>5, <3>1
    <3>2. Dirty(order[i]) /\ order[i] # b /\ order[i] \in Block
      BY <1>7, <2>1
    <3>3. q \in 1 .. m
      BY <1>5
    <3>4. PICK p \in 1 .. m : q < p /\ gdl[p] = pci[order[i]]
      BY <2>3, <3>2, <3>3
    <3>5. p # m
      BY <1>4, <1>5, <3>2, <3>4
    <3> QED
      BY <1>5, <3>4, <3>5
  <2>5. SyncsInOrder'
    <3>1. SUFFICES ASSUME NEW i \in 1 .. n, NEW j \in 1 .. n, i < j, DirtyNext(order[i])
                   PROVE  DirtyNext(order[j])
      BY <1>8 DEF SyncsInOrder, Dirty, DirtyNext, Resident
    <3> HIDE DEF n
    <3>2. Dirty(order[i]) /\ order[i] # b
      BY <1>7, <2>1, <3>1
    <3>3. Dirty(order[j])
      BY <2>2, <3>1, <3>2
    <3>4. order[j] # b
      <4> SUFFICES ASSUME order[j] = b PROVE FALSE
        OBVIOUS
      <4>1. m \in 1 .. m /\ gdl[m] = pci[order[j]]
        BY <1>2, <1>5
      <4>2. PICK p \in 1 .. m : m < p
        BY <2>3, <3>1, <3>2, <4>1
      <4> QED
        BY <1>5, <4>2
    <3> QED
      BY <1>7, <2>1, <3>3, <3>4
  <2> QED
    BY <1>3, <1>8, <2>4, <2>5 DEF OrderInv
<1> QED
  BY <1>10, <1>11

\* The steps that move no block between slots and change no dirty flag.
LEMMA FlagsKept ==
  ASSUME CacheInv, UNCHANGED <<gdl, pci>>, phase' \notin {"down", "dead"},
         phase = "sync" => phase' = "sync",
         \A s \in Slot : cache'[s].dirty = cache[s].dirty
  PROVE  Quiet
<1>1. gdl \in Seq(Slot) /\ pci \in [Block -> Slot \cup {NULL}]
  BY DEF CacheInv, TypeOK
<1>2. \A s \in ToSet(gdl) : s \in Slot
  <2>1. DOMAIN gdl = 1 .. Len(gdl) /\ \A i \in 1 .. Len(gdl) : gdl[i] \in Slot
    BY <1>1, LenProperties, ElementOfSeq
  <2> QED
    BY <2>1 DEF ToSet
<1>3. \A b \in Block : DirtyNext(b) <=> Dirty(b)
  BY <1>1 DEF DirtyNext, Dirty, Resident
<1> QED
  BY <1>2, <1>3 DEF Quiet

\* A miss loads its block clean, into a slot that is not queued.
LEMMA MissIsQuiet ==
  ASSUME CacheInv, NEW i \in Inum, NEW b \in Block, Miss(i, b)
  PROVE  Quiet
<1> DEFINE s == Head(free)
           e == [dirty |-> FALSE, block |-> b, inum |-> i, data |-> disk[b],
                 gpos |-> FALSE]
<1>1. /\ ~Resident(b) /\ free # <<>> /\ UNCHANGED gdl /\ phase = "up" /\ phase' = "up"
      /\ cache' = [cache EXCEPT ![s] = e] /\ pci' = [pci EXCEPT ![b] = s]
  BY DEF Miss, Install
<1>2. /\ s \in Slot \ lru.live /\ s \notin ToSet(gdl)
      /\ cache \in [Slot -> EntryType] /\ pci \in [Block -> Slot \cup {NULL}]
  BY <1>1, FreeSlot DEF CacheInv, TypeOK, EntryType
<1> HIDE DEF s
<1>3. ~cache'[s].dirty /\ \A t \in Slot \ {s} : cache'[t] = cache[t]
  BY <1>1, <1>2
<1>4. pci'[b] = s /\ \A d \in Block \ {b} : pci'[d] = pci[d]
  BY <1>1, <1>2
<1>5. \A d \in Block : pci[d] # s
  BY <1>2, NullIsNoNode, ResidentSlot DEF Resident, Slot
<1>6. \A t \in ToSet(gdl) : t \in lru.live /\ t \in Slot /\ t # s
  BY <1>2, RingFields DEF CacheInv, DirtyQueued, SlotAccounting, Slot
<1>7. \A d \in Block : DirtyNext(d) <=> Dirty(d)
  BY <1>1, <1>2, <1>3, <1>4, <1>5 DEF DirtyNext, Dirty, Resident
<1> QED
  BY <1>1, <1>3, <1>4, <1>6, <1>7 DEF Quiet, Dirty

LEMMA PokeIsQuiet ==
  ASSUME CacheInv, NEW b \in Block, NEW c \in Content, Poke(b, c)
  PROVE  Quiet
<1> DEFINE s == pci[b]
<1>1. /\ Resident(b) /\ cache' = [cache EXCEPT ![s].data = c]
      /\ UNCHANGED <<gdl, pci>> /\ phase' = phase /\ phase = "up"
  BY DEF Poke
<1>2. s \in Slot /\ cache \in [Slot -> EntryType]
  BY <1>1, ResidentSlot DEF CacheInv, TypeOK, EntryType
<1> HIDE DEF s
<1>3. \A t \in Slot : cache'[t].dirty = cache[t].dirty
  BY <1>1, <1>2 DEF EntryType
<1> QED
  BY <1>1, <1>3, FlagsKept

LEMMA OrderStep == CacheInv /\ OrderInv /\ [OrderNext]_<<vars, order, fsynced>> => OrderInv'
<1> SUFFICES ASSUME CacheInv, OrderInv, [OrderNext]_<<vars, order, fsynced>>
             PROVE  OrderInv'
  OBVIOUS
<1>1. CASE UNCHANGED <<vars, order, fsynced>>
  BY <1>1 DEF vars, mem, OrderInv, AllDirty, Fifo, SyncsInOrder, Dirty, Resident
<1>2. CASE OrderNext
  <2>1. Next
    BY <1>2 DEF OrderNext
  <2>2. ASSUME NEW why, Die(why) PROVE OrderInv'
    BY <1>2, <2>2, OrderEnds DEF Die
  <2>3. ASSUME Quiet PROVE OrderInv'
    BY <1>2, <2>3, OrderKept
  <2>4. ASSUME UNCHANGED <<gdl, pci, cache>>, phase' \notin {"down", "dead"},
               phase = "sync" => phase' = "sync"
        PROVE  OrderInv'
    BY <2>3, <2>4, FlagsKept
  <2>5. ASSUME NEW b \in Block, Hit(b) PROVE OrderInv'
    BY <2>4, <2>5 DEF Hit
  <2>6. ASSUME NEW b \in Block, Evict(b) PROVE OrderInv'
    BY <2>2, <2>6 DEF Evict
  <2>7. ASSUME NEW b \in Block, NEW c \in Content, Poke(b, c) PROVE OrderInv'
    BY <2>3, <2>7, PokeIsQuiet
  <2>8. ASSUME NEW b \in Block, NEW i \in Inum, Miss(i, b) PROVE OrderInv'
    BY <2>3, <2>8, MissIsQuiet
  <2>9. ASSUME NEW b \in Block, NEW i \in Inum, WriteFaults(i, b) PROVE OrderInv'
    BY <2>2, <2>9 DEF WriteFaults
  <2>10. ASSUME NEW b \in Block, NEW i \in Inum, NEW c \in Content,
                WriteHit(i, b, c) \/ WriteMiss(i, b, c)
         PROVE  OrderInv'
    BY <1>2, <2>10, OrderWriteHit, OrderWriteMiss
  <2>11. ASSUME NEW i \in Inum, StartFsync(i) PROVE OrderInv'
    BY <2>4, <2>11 DEF StartFsync
  <2>12. CASE FsyncStep
    BY <1>2, <2>12, OrderFsyncs
  <2>13. CASE FsyncEnd
    BY <2>4, <2>13 DEF FsyncEnd
  <2>14. CASE StartSync
    BY <2>4, <2>14 DEF StartSync, mem
  <2>15. CASE SyncStep
    <3>1. Die("dl") \/ phase' = "sync"
      BY <2>15 DEF SyncStep
    <3> QED
      BY <1>2, <2>2, <2>15, <3>1, OrderSyncs
  <2>16. CASE SyncEnd
    BY <1>2, <2>16, OrderEnds DEF SyncEnd
  <2>17. CASE Kill
    BY <2>2, <2>17 DEF Kill
  <2>18. CASE Remount
    BY <2>4, <2>18 DEF Remount, mem
  <2> QED
    BY <2>1, <2>5, <2>6, <2>7, <2>8, <2>9, <2>10, <2>11, <2>12, <2>13, <2>14,
       <2>15, <2>16, <2>17, <2>18 DEF Next
<1> QED
  BY <1>1, <1>2

LEMMA OrderInvariant == OrderSpec => [](CacheInv /\ OrderInv)
<1>1. OrderInit => CacheInv /\ OrderInv
  BY CacheInit, OrderInitInv DEF OrderInit
<1>2. CacheInv /\ [OrderNext]_<<vars, order, fsynced>> => CacheInv'
  BY CacheStep DEF OrderNext
<1>3. CacheInv /\ OrderInv /\ [OrderNext]_<<vars, order, fsynced>>
        => (CacheInv /\ OrderInv)'
  BY <1>2, OrderStep
<1> QED
  BY <1>1, <1>3, PTL DEF OrderSpec

\* Without an fsync, an unmount that is killed leaves on disk a prefix of the
\* blocks in the order of their first writes, however often each was written
\* again, in a cache of any size (cache.c:86-115, 152-182).
THEOREM CacheSyncsInOrder == OrderSpec => []SyncsInOrder
<1>1. OrderInv => SyncsInOrder
  BY DEF OrderInv
<1> QED
  BY <1>1, OrderInvariant, PTL
=============================================================================
