--------------------------- MODULE InodeTableProofs ---------------------------
(***************************************************************************)
(* For an image of any size: a number that can be handed out names a blank *)
(* slot, numbers are only ever spent, and the unmount loses none.          *)
(* Bits and numbers correspond one to one, and the bit inode_free computes *)
(* lies outside every bitmap block.  What makes the rest inductive is that *)
(* a block that is not announced is the same in the cache and on disk, as  *)
(* far as the numbers with a slot go.                                       *)
(***************************************************************************)
EXTENDS InodeTable, TLAPS

LEMMA Division ==
  ASSUME NEW a \in Nat, NEW b \in Nat \ {0}
  PROVE  /\ a \div b \in Nat /\ a % b \in 0 .. b - 1
         /\ a = b * (a \div b) + (a % b)
OBVIOUS

LEMMA ProductOrder ==
  ASSUME NEW u \in Nat \ {0}, NEW q \in Nat, NEW c \in Nat, u * q < u * c
  PROVE  q < c
OBVIOUS

\* A number that is greater does not lie on an earlier block.
LEMMA DivisionMonotone ==
  ASSUME NEW m \in Nat, NEW n \in Nat, NEW b \in Nat \ {0}, m <= n
  PROVE  m \div b <= n \div b
<1> DEFINE q == m \div b
           r == n \div b
<1>1. /\ q \in Nat /\ m % b \in 0 .. b - 1 /\ m = b * q + (m % b)
      /\ r \in Nat /\ n % b \in 0 .. b - 1 /\ n = b * r + (n % b)
  BY Division
<1> HIDE DEF q, r
<1>2. b * q \in Nat /\ b * r \in Nat /\ b * (r + 1) = b * r + b
  BY <1>1
<1>3. b * q < b * (r + 1)
  BY <1>1, <1>2
<1>4. q < r + 1
  BY <1>1, <1>3, ProductOrder
<1>5. q <= r
  BY <1>1, <1>4
<1> QED
  BY <1>5 DEF q, r

\* The layout: a block or more lies between the superblock and the inode
\* bitmap.
LEMMA Layout ==
  /\ Usable \in Nat \ {0} /\ PerBlock \in Nat \ {0}
  /\ BitmapStart \in Nat /\ BitmapStart >= 2
  /\ BitmapSize \in Nat /\ TableStart = BitmapStart + BitmapSize
  /\ TableSize \in Nat
<1>1. Total \in Nat \ {0} /\ Usable \in Nat \ {0} /\ PerBlock \in Nat \ {0}
  BY InodeConstants
<1>2. ASSUME NEW u \in Nat \ {0}
      PROVE  CeilDiv(Total, u) \in Nat /\ CeilDiv(Total, u) >= 1
  <2> DEFINE d == Total \div u
  <2>1. d \in Nat /\ Total % u \in 0 .. u - 1 /\ Total = u * d + (Total % u)
    BY <1>1, Division
  <2>2. CASE Total % u # 0
    BY <2>1, <2>2 DEF CeilDiv
  <2>3. CASE Total % u = 0
    <3>1. CeilDiv(Total, u) = d
      BY <2>3 DEF CeilDiv
    <3> HIDE DEF d
    <3>2. d # 0
      BY <1>1, <2>1, <2>3
    <3> QED
      BY <2>1, <3>1, <3>2
  <2> QED
    BY <2>2, <2>3
<1>3. 4 * Usable \in Nat \ {0}
  BY <1>1
<1>4. Total \div 4 \in Nat /\ (Total \div 4) \div PerBlock \in Nat
  BY <1>1, Division
<1> QED
  BY <1>1, <1>2, <1>3, <1>4 DEF BitmapStart, BitmapSize, TableStart, TableSize

\* inode_allocate's block and bit lie in the inode bitmap (inode.c:73-80).
LEMMA BitInBitmap ==
  ASSUME NEW n \in Number
  PROVE  /\ n \in Nat /\ n \div Usable \in Nat
         /\ BitmapBlock(n) \in BitmapBlocks /\ BitmapBlock(n) = BitmapStart + n \div Usable
         /\ BitOf(n) \in 0 .. Usable - 1
         /\ n = Usable * (n \div Usable) + BitOf(n)
<1> DEFINE q == n \div Usable
<1>1. Usable * BitmapSize \in Nat /\ BitmapSize * Usable = Usable * BitmapSize
  BY Layout
<1>2. n \in Nat /\ n < Usable * BitmapSize
  BY <1>1 DEF Number
<1>3. q \in Nat /\ n % Usable \in 0 .. Usable - 1 /\ n = Usable * q + (n % Usable)
  BY <1>2, Layout, Division
<1>4. BitmapBlock(n) = BitmapStart + q /\ BitOf(n) = n - q * Usable
  BY <1>3, Layout DEF BitmapBlock, BitOf
<1> HIDE DEF q
<1>5. Usable * q \in Nat /\ q * Usable = Usable * q
  BY <1>3, Layout
<1>6. q < BitmapSize
  BY <1>1, <1>2, <1>3, <1>5, Layout, ProductOrder
<1>7. BitOf(n) = n % Usable
  BY <1>3, <1>4, <1>5
<1>8. BitmapBlock(n) \in BitmapBlocks
  BY <1>3, <1>4, <1>6, Layout DEF BitmapBlocks
<1> QED
  BY <1>2, <1>3, <1>4, <1>7, <1>8 DEF q

\* No two numbers share a bit.
LEMMA BitIsOneNumber ==
  ASSUME NEW m \in Number, NEW n \in Number,
         BitmapBlock(m) = BitmapBlock(n), BitOf(m) = BitOf(n)
  PROVE  m = n
<1>1. m \div Usable = n \div Usable
  BY BitInBitmap, Layout
<1> QED
  BY <1>1, BitInBitmap

\* inode_free clears no bit of the bitmap: the index it computes is negative,
\* because the inode bitmap never begins at block 1 (inode.c:120-122).
LEMMA FreeMisses ==
  ASSUME NEW n \in Number
  PROVE  FreeBit(n) \notin 0 .. Usable - 1
<1> DEFINE q == n \div Usable
           s == BitmapStart - 2
<1>1. /\ n \in Nat /\ q \in Nat /\ BitmapBlock(n) = BitmapStart + q
      /\ BitOf(n) \in 0 .. Usable - 1 /\ n = Usable * q + BitOf(n)
  BY BitInBitmap
<1>2. s \in Nat /\ BitmapStart + q - 1 = q + (s + 1) /\ Usable \in Nat \ {0}
  BY <1>1, Layout
<1> HIDE DEF q, s
<1>3. FreeBit(n) = n - (q + (s + 1)) * Usable
  <2>1. BitmapBlock(n) - 1 = q + (s + 1)
    BY <1>1, <1>2, Layout
  <2> QED
    BY <2>1 DEF FreeBit
<1>4. /\ (q + (s + 1)) * Usable = Usable * q + (Usable * s + Usable)
      /\ Usable * q \in Nat /\ Usable * s \in Nat
  BY <1>1, <1>2
<1>5. FreeBit(n) < 0
  BY <1>1, <1>2, <1>3, <1>4
<1> QED
  BY <1>5, Layout

LEMMA SlotIsNumber == \A n \in Slots : n \in Number /\ TableBlock(n) \in TableBlocks
  BY DEF Slots, HasSlot

\* Announcing a block adds it to the queue.
LEMMA AnnouncedAdds ==
  ASSUME NEW S, NEW q \in Seq(S), NEW b \in S
  PROVE  Announced(q, b) \in Seq(S) /\ ToSet(Announced(q, b)) = ToSet(q) \cup {b}
<1>1. CASE b \in ToSet(q)
  BY <1>1 DEF Announced
<1>2. CASE b \notin ToSet(q)
  <2> DEFINE r == Append(q, b)
  <2>1. Announced(q, b) = r /\ r \in Seq(S)
    BY <1>2 DEF Announced
  <2>2. Len(r) = Len(q) + 1 /\ r[Len(q) + 1] = b /\ \A i \in 1 .. Len(q) : r[i] = q[i]
    OBVIOUS
  <2>3. DOMAIN r = 1 .. Len(q) + 1 /\ DOMAIN q = 1 .. Len(q) /\ Len(q) \in Nat
    OBVIOUS
  <2> HIDE DEF r
  <2>4. ToSet(r) \subseteq ToSet(q) \cup {b}
    <3> SUFFICES ASSUME NEW i \in 1 .. Len(q) + 1
                 PROVE  r[i] \in ToSet(q) \cup {b}
      BY <2>3 DEF ToSet
    <3>1. i = Len(q) + 1 \/ i \in 1 .. Len(q)
      BY <2>3
    <3> QED
      BY <2>2, <2>3, <3>1 DEF ToSet
  <2>5. ToSet(q) \cup {b} \subseteq ToSet(r)
    <3>1. Len(q) + 1 \in DOMAIN r /\ \A i \in DOMAIN q : i \in DOMAIN r /\ r[i] = q[i]
      BY <2>2, <2>3
    <3> QED
      BY <2>2, <3>1 DEF ToSet
  <2> QED
    BY <2>1, <2>4, <2>5
<1> QED
  BY <1>1, <1>2

-----------------------------------------------------------------------------
\* Setting the bit of one number changes no other number's.
LEMMA MarkOne ==
  ASSUME bm \in BitmapType, NEW n \in Number
  PROVE  /\ Marked(n) \in BitmapType
         /\ \A m \in Number : Marked(n)[BitmapBlock(m)][BitOf(m)] = (m = n \/ Taken(m))
<1> DEFINE b == BitmapBlock(n)
           i == BitOf(n)
           new == Marked(n)
<1>1. b \in BitmapBlocks /\ i \in 0 .. Usable - 1
  BY BitInBitmap
<1>2. new = [bm EXCEPT ![b] = [bm[b] EXCEPT ![i] = TRUE]]
  BY DEF Marked
<1>3. bm[b] \in [0 .. Usable - 1 -> BOOLEAN]
  BY <1>1 DEF BitmapType
<1>4. new \in BitmapType
  BY <1>1, <1>2, <1>3 DEF BitmapType
<1>5. ASSUME NEW m \in Number
      PROVE  new[BitmapBlock(m)][BitOf(m)] = (m = n \/ Taken(m))
  <2>1. BitmapBlock(m) \in BitmapBlocks /\ BitOf(m) \in 0 .. Usable - 1
    BY BitInBitmap
  <2>2. bm[BitmapBlock(m)] \in [0 .. Usable - 1 -> BOOLEAN]
    BY <2>1 DEF BitmapType
  <2>3. CASE m = n
    <3>1. new[b][i] = TRUE
      BY <1>1, <1>2, <1>3 DEF BitmapType
    <3> QED
      BY <2>3, <3>1
  <2>4. CASE m # n /\ BitmapBlock(m) = b
    <3>1. BitOf(m) # i
      BY <2>4, BitIsOneNumber
    <3>2. new[b][BitOf(m)] = bm[b][BitOf(m)]
      BY <1>1, <1>2, <1>3, <2>1, <3>1 DEF BitmapType
    <3>3. bm[b][BitOf(m)] \in BOOLEAN
      BY <1>3, <2>1
    <3> QED
      BY <2>4, <3>2, <3>3 DEF Taken
  <2>5. CASE m # n /\ BitmapBlock(m) # b
    <3>1. new[BitmapBlock(m)] = bm[BitmapBlock(m)]
      BY <1>1, <1>2, <2>1, <2>5 DEF BitmapType
    <3>2. bm[BitmapBlock(m)][BitOf(m)] \in BOOLEAN
      BY <2>1, <2>2
    <3> QED
      BY <2>5, <3>1, <3>2 DEF Taken
  <2> QED
    BY <2>3, <2>4, <2>5
<1> QED
  BY <1>4, <1>5

TakenOnDisk(n) == disk.bm[BitmapBlock(n)][BitOf(n)]

\* What is not announced is on disk as it is in the cache, for the numbers that
\* have a slot.
OnDisk ==
  /\ \A n \in Slots : BitmapBlock(n) \notin ToSet(queue) => Taken(n) = TakenOnDisk(n)
  /\ \A n \in Slots : TableBlock(n) \notin ToSet(queue) => slot[n] = disk.slot[n]

\* FreshIsZero of the disk: a kill that writes nothing brings it back.
DiskIsFresh == ~torn => \A n \in Slots : ~TakenOnDisk(n) => disk.slot[n] = Blank

\* The inductive invariant.
TableInv == TypeOK /\ FreshIsZero /\ OnDisk /\ DiskIsFresh

Blocks == BitmapBlocks \cup TableBlocks

\* An erased inode, and one with its first reference.
LEMMA BlankIsInode ==
  Blank \in Inode /\ \A node \in Inode : [node EXCEPT !.refs = 1] \in Inode
<1>1. 0 \in 0 .. MaxRefs /\ 1 \in 0 .. MaxRefs
  BY InodeConstants
<1> QED
  BY <1>1 DEF Blank, Inode

LEMMA TableInvInit == Init => TableInv
<1> SUFFICES ASSUME Init PROVE TableInv
  OBVIOUS
<1>1. Blank \in Inode /\ [Blank EXCEPT !.refs = 1] \in Inode
  BY BlankIsInode
<1>2. bm \in BitmapType /\ slot \in TableType /\ queue \in Seq(Blocks) /\ ToSet(queue) = {}
  BY <1>1 DEF Init, BitmapType, TableType, ToSet
<1>3. disk.bm = bm /\ disk.slot = slot /\ disk \in [bm : BitmapType, slot : TableType]
  BY <1>2 DEF Init
<1>4. TypeOK
  BY <1>2, <1>3 DEF Init, TypeOK, Blocks
<1>5. ASSUME NEW n \in Slots, ~Taken(n) PROVE slot[n] = Blank
  <2>1. n \in Number /\ BitmapBlock(n) \in BitmapBlocks /\ BitOf(n) \in 0 .. Usable - 1
        /\ n = Usable * (n \div Usable) + BitOf(n)
        /\ BitmapBlock(n) = BitmapStart + n \div Usable
        /\ n \div Usable \in Nat
    BY SlotIsNumber, BitInBitmap
  <2>2. CASE n = 0
    <3> DEFINE q == n \div Usable
    <3> HIDE DEF q
    <3>1. q \in Nat /\ Usable \in Nat \ {0} /\ 0 = Usable * q + BitOf(n)
          /\ BitmapBlock(n) = BitmapStart + q
      BY <2>1, <2>2, Layout DEF q
    <3>2. Usable * q \in Nat
      BY <3>1
    <3>3. BitOf(n) = 0 /\ Usable * q = 0
      BY <2>1, <3>1, <3>2
    <3>4. q = 0
      BY <3>1, <3>3
    <3>5. BitmapBlock(n) = BitmapStart
      BY <3>1, <3>4, Layout
    <3>6. Taken(n)
      BY <2>1, <3>3, <3>5 DEF Init, Taken
    <3> QED
      BY <1>5, <3>6
  <2>3. CASE n # 0
    BY <2>3 DEF Init
  <2> QED
    BY <2>2, <2>3
<1>6. FreshIsZero /\ OnDisk /\ DiskIsFresh
  BY <1>3, <1>5 DEF FreshIsZero, OnDisk, DiskIsFresh, TakenOnDisk, Taken
<1> QED
  BY <1>4, <1>6 DEF TableInv
-----------------------------------------------------------------------------
\* A new mount sees what was written back.
LEMMA RestartView ==
  ASSUME TypeOK, NEW B, Restart(B)
  PROVE  /\ bm' = disk'.bm /\ slot' = disk'.slot
         /\ disk' \in [bm : BitmapType, slot : TableType]
         /\ queue' = <<>> /\ queue' \in Seq(Blocks) /\ ToSet(queue)' = {}
         /\ \A n \in Slots : /\ Taken(n)' = IF BitmapBlock(n) \in B THEN Taken(n)
                                            ELSE TakenOnDisk(n)
                             /\ slot'[n] = IF TableBlock(n) \in B THEN slot[n]
                                           ELSE disk.slot[n]
<1>1. bm \in BitmapType /\ slot \in TableType
      /\ disk.bm \in BitmapType /\ disk.slot \in TableType
  BY DEF TypeOK
<1>2. disk' = Flushed(B) /\ bm' = disk'.bm /\ slot' = disk'.slot /\ queue' = <<>>
  BY DEF Restart
<1>3. /\ bm' = [b \in BitmapBlocks |-> IF b \in B THEN bm[b] ELSE disk.bm[b]]
      /\ slot' = [n \in Slots |-> IF TableBlock(n) \in B THEN slot[n] ELSE disk.slot[n]]
      /\ disk' = [bm |-> bm', slot |-> slot']
  BY <1>2 DEF Flushed
<1>4. bm' \in BitmapType
  BY <1>1, <1>3 DEF BitmapType
<1>5. slot' \in TableType
  BY <1>1, <1>3 DEF TableType
<1>6. ASSUME NEW n \in Slots
      PROVE  Taken(n)' = IF BitmapBlock(n) \in B THEN Taken(n) ELSE TakenOnDisk(n)
  <2>1. BitmapBlock(n) \in BitmapBlocks
    BY SlotIsNumber, BitInBitmap
  <2> QED
    BY <1>3, <2>1 DEF Taken, TakenOnDisk
<1>7. queue' \in Seq(Blocks) /\ ToSet(queue)' = {}
  BY <1>2 DEF ToSet
<1> QED
  BY <1>2, <1>3, <1>4, <1>5, <1>6, <1>7

\* A complete write-back keeps every number that has a slot, and its slot.
LEMMA CompleteKeeps ==
  ASSUME TypeOK, OnDisk, Restart(ToSet(queue))
  PROVE  slot' = slot /\ \A n \in Slots : Taken(n)' = Taken(n)
<1>1. /\ \A n \in Slots : /\ Taken(n)' = IF BitmapBlock(n) \in ToSet(queue) THEN Taken(n)
                                         ELSE TakenOnDisk(n)
                          /\ slot'[n] = IF TableBlock(n) \in ToSet(queue) THEN slot[n]
                                        ELSE disk.slot[n]
      /\ slot' \in TableType /\ slot \in TableType
  BY RestartView DEF TypeOK
<1>2. \A n \in Slots : Taken(n)' = Taken(n) /\ slot'[n] = slot[n]
  BY <1>1 DEF OnDisk
<1> QED
  BY <1>1, <1>2 DEF TableType

\* A restart keeps the invariant if all or nothing was written back, or if the
\* state counts as torn.
LEMMA RestartInv ==
  ASSUME TableInv, NEW B, Restart(B), torn' \in BOOLEAN,
         ~torn' => ~torn /\ (B = {} \/ B = ToSet(queue))
  PROVE  TableInv'
<1>1. TypeOK /\ OnDisk /\ FreshIsZero /\ DiskIsFresh
  BY DEF TableInv
<1>2. /\ bm' = disk'.bm /\ slot' = disk'.slot
      /\ disk' \in [bm : BitmapType, slot : TableType]
      /\ queue' \in Seq(Blocks) /\ ToSet(queue)' = {}
  BY <1>1, RestartView
<1>3. TypeOK'
  BY <1>2 DEF TypeOK, Blocks
<1>4. ASSUME ~torn', NEW n \in Slots, ~Taken(n)'
      PROVE  slot'[n] = Blank
  <2>1. /\ Taken(n)' = IF BitmapBlock(n) \in B THEN Taken(n) ELSE TakenOnDisk(n)
        /\ slot'[n] = IF TableBlock(n) \in B THEN slot[n] ELSE disk.slot[n]
    BY <1>1, RestartView
  <2>2. CASE B = {}
    BY <1>1, <1>4, <2>1, <2>2 DEF DiskIsFresh
  <2>3. CASE B = ToSet(queue)
    <3>1. Taken(n)' = Taken(n) /\ slot' = slot
      BY <1>1, <2>3, CompleteKeeps
    <3> QED
      BY <1>1, <1>4, <3>1 DEF FreshIsZero
  <2> QED
    BY <1>4, <2>2, <2>3
<1>5. FreshIsZero'
  BY <1>4 DEF FreshIsZero
<1>6. \A n \in Slots : Taken(n)' = TakenOnDisk(n)'
  BY <1>2 DEF Taken, TakenOnDisk
<1>7. OnDisk' /\ DiskIsFresh'
  BY <1>2, <1>4, <1>6 DEF OnDisk, DiskIsFresh
<1> QED
  BY <1>3, <1>5, <1>7 DEF TableInv

\* A change in the cache keeps the invariant if bits are only set, a slot that
\* changes belongs to a number whose bit is set then, and the blocks of both
\* are announced.
LEMMA ChangeInv ==
  ASSUME TableInv, bm' \in BitmapType, slot' \in TableType, queue' \in Seq(Blocks),
         UNCHANGED <<disk, torn>>, ToSet(queue) \subseteq ToSet(queue)',
         \A n \in Slots : /\ Taken(n) => Taken(n)'
                          /\ Taken(n)' = Taken(n) \/ BitmapBlock(n) \in ToSet(queue)'
                          /\ \/ slot'[n] = slot[n]
                             \/ TableBlock(n) \in ToSet(queue)'
                                  /\ (Taken(n)' \/ slot'[n] = Blank)
  PROVE  TableInv'
<1>1. TypeOK /\ OnDisk /\ FreshIsZero /\ DiskIsFresh
  BY DEF TableInv
<1>2. TypeOK'
  BY <1>1 DEF TypeOK, Blocks
<1>3. FreshIsZero'
  BY <1>1 DEF FreshIsZero
<1>4. \A n \in Slots : TakenOnDisk(n)' = TakenOnDisk(n)
  BY DEF TakenOnDisk
<1>5. DiskIsFresh'
  BY <1>1, <1>4 DEF DiskIsFresh
<1>6. OnDisk'
  BY <1>1, <1>4 DEF OnDisk
<1> QED
  BY <1>2, <1>3, <1>5, <1>6 DEF TableInv
-----------------------------------------------------------------------------
LEMMA BlocksOfNumber ==
  ASSUME NEW n \in Number
  PROVE  BitmapBlock(n) \in Blocks /\ (HasSlot(n) => TableBlock(n) \in Blocks)
  BY BitInBitmap DEF Blocks, HasSlot

\* Both blocks of a number are announced, in either order of the calls.
LEMMA AnnouncedBoth ==
  ASSUME NEW n \in Slots, queue \in Seq(Blocks),
         queue' = Announced(Announced(queue, TableBlock(n)), BitmapBlock(n))
  PROVE  queue' \in Seq(Blocks)
         /\ ToSet(queue)' = ToSet(queue) \cup {TableBlock(n), BitmapBlock(n)}
<1>1. TableBlock(n) \in Blocks /\ BitmapBlock(n) \in Blocks
  BY SlotIsNumber, BlocksOfNumber DEF Blocks
<1>2. ASSUME NEW r \in Seq(Blocks), NEW b \in Blocks
      PROVE  Announced(r, b) \in Seq(Blocks) /\ ToSet(Announced(r, b)) = ToSet(r) \cup {b}
  BY AnnouncedAdds
<1>3. /\ Announced(queue, TableBlock(n)) \in Seq(Blocks)
      /\ ToSet(Announced(queue, TableBlock(n))) = ToSet(queue) \cup {TableBlock(n)}
  BY <1>1, <1>2
<1>4. /\ queue' \in Seq(Blocks)
      /\ ToSet(queue') = ToSet(Announced(queue, TableBlock(n))) \cup {BitmapBlock(n)}
  BY <1>1, <1>2, <1>3
<1> QED
  BY <1>3, <1>4

LEMMA TableInvNext == TableInv /\ [Next]_vars => TableInv'
<1> SUFFICES ASSUME TableInv, [Next]_vars
             PROVE  TableInv'
  OBVIOUS
<1>1. TypeOK /\ bm \in BitmapType /\ slot \in TableType /\ queue \in Seq(Blocks)
      /\ torn \in BOOLEAN
  BY DEF TableInv, TypeOK, Blocks
<1>2. Blank \in Inode /\ \A node \in Inode : [node EXCEPT !.refs = 1] \in Inode
  BY BlankIsInode
<1>3. ASSUME NEW n \in Number, inode_allocate(n)
      PROVE  TableInv'
  <2>1. n \in Slots
    BY <1>3 DEF inode_allocate, Slots
  <2>2. queue' \in Seq(Blocks)
        /\ ToSet(queue)' = ToSet(queue) \cup {TableBlock(n), BitmapBlock(n)}
    BY <1>1, <1>3, <2>1, AnnouncedBoth DEF inode_allocate
  <2>3. bm' \in BitmapType /\ \A m \in Number : Taken(m)' = (m = n \/ Taken(m))
    BY <1>1, <1>3, MarkOne DEF inode_allocate, Taken
  <2>4. slot' \in TableType /\ \A m \in Slots : m # n => slot'[m] = slot[m]
    BY <1>1, <1>2, <1>3, <2>1 DEF inode_allocate, Given, TableType
  <2>5. ToSet(queue) \subseteq ToSet(queue)' /\ UNCHANGED <<disk, torn>>
    BY <1>3, <2>2 DEF inode_allocate
  <2>6. ASSUME NEW m \in Slots
        PROVE  /\ Taken(m) => Taken(m)'
               /\ Taken(m)' = Taken(m) \/ BitmapBlock(m) \in ToSet(queue)'
               /\ \/ slot'[m] = slot[m]
                  \/ TableBlock(m) \in ToSet(queue)' /\ (Taken(m)' \/ slot'[m] = Blank)
    <3>1. m \in Number
      BY SlotIsNumber
    <3>2. CASE m = n
      BY <2>2, <2>3, <3>1, <3>2
    <3>3. CASE m # n
      <4>1. Taken(m) \in BOOLEAN
        <5>1. BitmapBlock(m) \in BitmapBlocks /\ BitOf(m) \in 0 .. Usable - 1
          BY <3>1, BitInBitmap
        <5> QED
          BY <1>1, <5>1 DEF Taken, BitmapType
      <4> QED
        BY <2>3, <2>4, <3>1, <3>3, <4>1
    <3> QED
      BY <3>2, <3>3
  <2> QED
    BY <1>1, <2>2, <2>3, <2>4, <2>5, <2>6, ChangeInv
<1>4. ASSUME NEW n \in Number, AllocateFails(n)
      PROVE  TableInv'
  <2>1. bm' \in BitmapType /\ \A m \in Number : Taken(m)' = (m = n \/ Taken(m))
    BY <1>1, <1>4, MarkOne DEF AllocateFails, Taken
  <2>2. \A m \in Slots : m \in Number /\ m # n
    BY <1>4 DEF AllocateFails, Slots
  <2>3. \A m \in Slots : Taken(m)' = Taken(m)
    <3>1. \A m \in Number : Taken(m) \in BOOLEAN
      <4> SUFFICES ASSUME NEW m \in Number PROVE Taken(m) \in BOOLEAN
        OBVIOUS
      <4>1. BitmapBlock(m) \in BitmapBlocks /\ BitOf(m) \in 0 .. Usable - 1
        BY BitInBitmap
      <4>2. bm[BitmapBlock(m)] \in [0 .. Usable - 1 -> BOOLEAN]
        BY <1>1, <4>1 DEF BitmapType
      <4> QED
        BY <4>1, <4>2 DEF Taken
    <3> QED
      BY <2>1, <2>2, <3>1
  <2> QED
    BY <1>1, <1>4, <2>1, <2>3, ChangeInv DEF AllocateFails
<1>5. ASSUME NEW n \in Number, NEW node \in Inode, inode_write(n, node)
      PROVE  TableInv'
  <2>1. n \in Slots /\ slot[n].refs > 0 /\ TableBlock(n) \in Blocks
    BY <1>5, SlotIsNumber DEF inode_write, InUse, Blocks
  <2>2. queue' \in Seq(Blocks) /\ ToSet(queue') = ToSet(queue) \cup {TableBlock(n)}
    BY <1>1, <1>5, <2>1, AnnouncedAdds DEF inode_write
  <2>3. slot' \in TableType /\ \A m \in Slots : m # n => slot'[m] = slot[m]
    BY <1>1, <1>5, <2>1 DEF inode_write, TableType
  <2>4. \A m \in Slots : Taken(m)' = Taken(m)
    BY <1>5 DEF inode_write, Taken
  <2>5. CASE torn
    <3>1. torn' /\ UNCHANGED <<bm, disk, torn>> /\ TypeOK' /\ OnDisk
      BY <1>1, <1>5, <2>2, <2>3, <2>5 DEF inode_write, TableInv, TypeOK, Blocks
    <3>2. \A m \in Slots : TakenOnDisk(m)' = TakenOnDisk(m)
      BY <3>1 DEF TakenOnDisk
    <3>3. OnDisk'
      BY <2>1, <2>2, <2>3, <2>4, <3>1, <3>2 DEF OnDisk
    <3> QED
      BY <3>1, <3>3 DEF TableInv, FreshIsZero, DiskIsFresh
  <2>6. CASE ~torn
    <3>1. Taken(n)
      BY <2>1, <2>6 DEF TableInv, FreshIsZero, Blank
    <3> QED
      BY <1>1, <1>5, <2>1, <2>2, <2>3, <2>4, <3>1, ChangeInv DEF inode_write
  <2> QED
    BY <1>1, <2>5, <2>6
<1>6. ASSUME NEW n \in Number, inode_free(n)
      PROVE  TableInv'
  <2>1. n \in Slots
    BY <1>6 DEF inode_free, InUse
  <2>2. queue' \in Seq(Blocks)
        /\ ToSet(queue)' = ToSet(queue) \cup {TableBlock(n), BitmapBlock(n)}
    BY <1>1, <1>6, <2>1, AnnouncedBoth DEF inode_free
  <2>3. bm' = bm
    BY <1>6, FreeMisses DEF inode_free
  <2>4. slot' \in TableType /\ slot'[n] = Blank
        /\ \A m \in Slots : m # n => slot'[m] = slot[m]
    BY <1>1, <1>2, <1>6, <2>1 DEF inode_free, Erased, TableType
  <2>5. \A m \in Slots : Taken(m)' = Taken(m)
    BY <2>3 DEF Taken
  <2> QED
    BY <1>1, <1>6, <2>1, <2>2, <2>3, <2>4, <2>5, ChangeInv DEF inode_free
<1>7. CASE Unmount
  BY <1>1, <1>7, RestartInv DEF Unmount
<1>8. CASE Kill
  <2>1. PICK B : Restart(B) /\ torn' = (torn \/ B \notin {{}, ToSet(queue)})
    BY <1>8 DEF Kill
  <2>2. torn' \in BOOLEAN /\ (~torn' => ~torn /\ (B = {} \/ B = ToSet(queue)))
    BY <1>1, <2>1
  <2> QED
    BY <2>1, <2>2, RestartInv
<1>9. CASE UNCHANGED vars
  BY <1>9 DEF vars, TableInv, TypeOK, FreshIsZero, OnDisk, DiskIsFresh, TakenOnDisk, Taken
<1> QED
  BY <1>3, <1>4, <1>5, <1>6, <1>7, <1>8, <1>9 DEF Next

LEMMA TableInvariant == Spec => []TableInv
  BY TableInvInit, TableInvNext, PTL DEF Spec
-----------------------------------------------------------------------------
\* Bits, slots and the queue keep their types for any size of the image
\* (inode.c:61-146).
THEOREM TableTypeOK == Spec => []TypeOK
<1>1. TableInv => TypeOK
  BY DEF TableInv
<1> QED
  BY <1>1, TableInvariant, PTL

\* On an image of any size a number that can be handed out names a blank slot
\* (inode.c:72-98, 115-141).
THEOREM TableFreshIsZero == Spec => []FreshIsZero
<1>1. TableInv => FreshIsZero
  BY DEF TableInv
<1> QED
  BY <1>1, TableInvariant, PTL

\* No call gives a number back, inode_free included, which means to: files are
\* never given the number of an earlier one while the mount lasts, nor after a
\* clean unmount (inode.c:122).
NumbersOnlySpent ==
  [][\A n \in Slots : Taken(n) /\ ~Taken(n)' => Kill]_vars

\* On an image of any size only a kill gives a number back.
THEOREM TableNumbersOnlySpent == Spec => NumbersOnlySpent
<1>1. TableInv /\ [Next]_vars => [\A n \in Slots : Taken(n) /\ ~Taken(n)' => Kill]_vars
  <2> SUFFICES ASSUME TableInv, Next, NEW m \in Slots, Taken(m), ~Kill
               PROVE  Taken(m)'
    BY DEF Next
  <2>1. TypeOK /\ OnDisk /\ bm \in BitmapType /\ m \in Number
    BY SlotIsNumber DEF TableInv, TypeOK
  <2>2. ASSUME NEW n \in Number, inode_allocate(n) \/ AllocateFails(n)
        PROVE  Taken(m)'
    <3>1. bm' = Marked(n)
      BY <2>2 DEF inode_allocate, AllocateFails
    <3> QED
      BY <2>1, <3>1, MarkOne DEF Taken
  <2>3. ASSUME NEW n \in Number, NEW node \in Inode, inode_write(n, node)
        PROVE  Taken(m)'
    BY <2>3 DEF inode_write, Taken
  <2>4. ASSUME NEW n \in Number, inode_free(n)
        PROVE  Taken(m)'
    BY <2>4, FreeMisses DEF inode_free, Taken
  <2>5. CASE Unmount
    BY <2>1, <2>5, CompleteKeeps DEF Unmount
  <2> QED
    BY <2>2, <2>3, <2>4, <2>5 DEF Next
<1> QED
  BY <1>1, TableInvariant, PTL DEF Spec, NumbersOnlySpent

\* A clean unmount keeps every slot and every number that has one
\* (inode.c:53, 98, 135-137).
THEOREM TableUnmountKeeps == Spec => UnmountKeeps
<1>1. TableInv /\ [Next]_vars
        => [Unmount => slot' = slot /\ \A n \in Slots : Taken(n)' = Taken(n)]_vars
  BY CompleteKeeps DEF TableInv, Unmount
<1> QED
  BY <1>1, TableInvariant, PTL DEF Spec, UnmountKeeps

\* inode_allocate fails only when every number that has a slot is spent: those
\* without one come last (inode.c:72-88).
THEOREM TableFailsOnlyWhenSpent == Spec => FailsOnlyWhenSpent
<1>1. [Next]_vars => [(\E n \in Number : AllocateFails(n)) => \A n \in Slots : Taken(n)]_vars
  <2> SUFFICES ASSUME NEW n \in Number, AllocateFails(n), NEW m \in Slots
               PROVE  Taken(m)
    OBVIOUS
  <2>1. FirstClear(n) /\ ~HasSlot(n) /\ m \in Number /\ HasSlot(m) /\ m \in Nat /\ n \in Nat
    BY SlotIsNumber, BitInBitmap DEF AllocateFails, HasSlot
  <2>2. m < n
    <3> DEFINE i == m \div PerBlock
               j == n \div PerBlock
    <3>1. i \in Nat /\ j \in Nat /\ (n <= m => j <= i)
      BY <2>1, Layout, Division, DivisionMonotone
    <3>2. TableStart + i \in TableBlocks /\ TableStart + j \notin TableBlocks
      BY <2>1 DEF HasSlot, TableBlock
    <3> HIDE DEF i, j
    <3>3. ~(j <= i)
      BY <3>1, <3>2, Layout DEF TableBlocks
    <3> QED
      BY <2>1, <3>1, <3>3
  <2>3. m \in 0 .. n - 1
    BY <2>1, <2>2
  <2> QED
    BY <2>1, <2>3 DEF FirstClear
<1> QED
  BY <1>1, PTL DEF Spec, FailsOnlyWhenSpent
=============================================================================
