-------------------------- MODULE BlockAllocProofs --------------------------
(***************************************************************************)
(* No page is in two hands, for any size of the image and of a bitmap      *)
(* block.  Pages and bits correspond one to one, so a page is as good as   *)
(* its bit; the rest is about the set InUse.                               *)
(***************************************************************************)
EXTENDS BlockAlloc, TLAPS

LEMMA Division ==
  ASSUME NEW a \in Nat, NEW b \in Nat \ {0}
  PROVE  /\ a \div b \in Nat /\ a % b \in 0 .. b - 1
         /\ a = b * (a \div b) + (a % b)
OBVIOUS

LEMMA ProductOrder ==
  ASSUME NEW u \in Nat \ {0}, NEW q \in Nat, NEW c \in Nat, u * q < u * c
  PROVE  q < c
OBVIOUS

\* bitmap_put and bitmap_get stay inside the bitmap blocks (bitmap.c:8-30).
LEMMA BitInBitmap ==
  ASSUME NEW p \in Page
  PROVE  BitmapBlock(p) \in 1 .. BlockBitmapSpace /\ BitOf(p) \in 0 .. Usable - 1
<1> DEFINE q == p \div Usable
           c == BlockBitmapSpace
<1>1. /\ p \in Nat /\ p < Total /\ Total \in Nat
      /\ Usable \in Nat \ {0}
  BY BlockAllocConstants DEF Page
<1>2. q \in Nat /\ p % Usable \in 0 .. Usable - 1 /\ p = Usable * q + (p % Usable)
  BY <1>1, Division
<1>3. c \in Nat /\ Usable * c >= Total
  <2>1. /\ Total \div Usable \in Nat /\ Total % Usable \in 0 .. Usable - 1
        /\ Total = Usable * (Total \div Usable) + (Total % Usable)
    BY <1>1, Division
  <2>2. CASE Total % Usable = 0
    <3>1. c = Total \div Usable
      BY <2>2 DEF BlockBitmapSpace, CeilDiv
    <3> QED
      BY <1>1, <2>1, <2>2, <3>1
  <2>3. CASE Total % Usable # 0
    <3> DEFINE d == Total \div Usable
    <3>1. c = d + 1
      BY <2>3 DEF BlockBitmapSpace, CeilDiv
    <3>2. d \in Nat /\ Total = Usable * d + (Total % Usable)
      BY <2>1
    <3> HIDE DEF c, d
    <3>3. Usable * (d + 1) = Usable * d + Usable
      BY <1>1, <3>2
    <3> QED
      BY <1>1, <2>1, <3>1, <3>2, <3>3
  <2> QED
    BY <2>2, <2>3
<1> HIDE DEF q, c
<1>4. Usable * q \in Nat /\ Usable * c \in Nat
  BY <1>1, <1>2, <1>3
<1>5. Usable * q < Usable * c
  BY <1>1, <1>2, <1>3, <1>4
<1>6. q < c
  BY <1>1, <1>2, <1>3, <1>5, ProductOrder
<1>7. BitmapBlock(p) = 1 + q /\ BitOf(p) = p - q * Usable
  BY <1>2 DEF BitmapBlock, BitOf, q
<1>8. q * Usable = Usable * q
  BY <1>1, <1>2
<1>9. BitOf(p) = p % Usable
  BY <1>1, <1>2, <1>4, <1>7, <1>8
<1> QED
  BY <1>2, <1>3, <1>6, <1>7, <1>9 DEF c

\* No two pages share a bit.
LEMMA BitIsOnePage ==
  ASSUME NEW p \in Page, NEW q \in Page,
         BitmapBlock(p) = BitmapBlock(q), BitOf(p) = BitOf(q)
  PROVE  p = q
<1> DEFINE d == (BitmapBlock(p) - 1) * Usable
<1>1. /\ p \in Int /\ q \in Int /\ d \in Int
      /\ BitOf(p) = p - d /\ BitOf(q) = q - d
  BY BitInBitmap, BlockAllocConstants DEF Page, BitOf
<1>2. p - d = q - d
  BY <1>1
<1> HIDE DEF d
<1> QED
  BY <1>1, <1>2
-----------------------------------------------------------------------------
Bits == [1 .. BlockBitmapSpace -> [0 .. Usable - 1 -> BOOLEAN]]

\* Setting or clearing the bit of one page changes no other page.
LEMMA PutOne ==
  ASSUME bm \in Bits, NEW p \in Page, NEW v \in BOOLEAN, bm' = bitmap_put(p, v)
  PROVE  /\ bm' \in Bits
         /\ InUse' = IF v THEN InUse \cup {p} ELSE InUse \ {p}
<1>1. BitmapBlock(p) \in 1 .. BlockBitmapSpace /\ BitOf(p) \in 0 .. Usable - 1
  BY BitInBitmap
<1>2. bm' = [bm EXCEPT ![BitmapBlock(p)] =
               [bm[BitmapBlock(p)] EXCEPT ![BitOf(p)] = v]]
  BY DEF bitmap_put
<1>3. bm[BitmapBlock(p)] \in [0 .. Usable - 1 -> BOOLEAN]
  BY <1>1 DEF Bits
<1>4. bm' \in Bits
  BY <1>1, <1>2, <1>3 DEF Bits
<1>5. ASSUME NEW q \in Page
      PROVE  bm'[BitmapBlock(q)][BitOf(q)] = IF q = p THEN v ELSE Used(q)
  <2>1. BitmapBlock(q) \in 1 .. BlockBitmapSpace /\ BitOf(q) \in 0 .. Usable - 1
    BY BitInBitmap
  <2>2. CASE q = p
    BY <1>1, <1>2, <1>3, <2>2 DEF Bits
  <2>3. CASE q # p /\ BitmapBlock(q) = BitmapBlock(p)
    <3>1. BitOf(q) # BitOf(p)
      BY <2>3, BitIsOnePage
    <3> QED
      BY <1>1, <1>2, <1>3, <2>1, <2>3, <3>1 DEF Bits, Used
  <2>4. CASE q # p /\ BitmapBlock(q) # BitmapBlock(p)
    BY <1>1, <1>2, <2>1, <2>4 DEF Bits, Used
  <2> QED
    BY <2>2, <2>3, <2>4
<1>6. InUse' = {q \in Page : bm'[BitmapBlock(q)][BitOf(q)]}
  BY DEF InUse, Used
<1>7. InUse' = IF v THEN InUse \cup {p} ELSE InUse \ {p}
  BY <1>5, <1>6 DEF InUse
<1> QED
  BY <1>4, <1>7

\* The pages disk_format has reserved so far.
Done == 0 .. Reserved - todo - 1

\* The inductive invariant.  The format's first allocation may fail without
\* notice, but then every page is in use and the next one fails too.
AllocInv ==
  /\ TypeOK /\ PagesHeld /\ NoPageLost
  /\ stage = "reserve" =>
       /\ owned = {}
       /\ Done \subseteq InUse \/ (todo = Reserved - 1 /\ Full)
       /\ fresh => InUse = Done
  /\ stage = "seal" =>
       /\ 0 .. Reserved - 1 \subseteq InUse
       /\ owned \subseteq InUse
       /\ owned \cap 0 .. Reserved - 1 = {}
       /\ fresh => InUse = 0 .. Reserved - 1 \cup owned

\* The layout has three pages or more: superblock and two bitmaps.
LEMMA ReservedSize == Reserved \in Nat /\ Reserved >= 3
<1>1. ASSUME NEW a \in Nat \ {0}, NEW b \in Nat \ {0}
      PROVE  CeilDiv(a, b) \in Nat \ {0}
  <2>1. /\ a \div b \in Nat /\ a % b \in 0 .. b - 1
        /\ a = b * (a \div b) + (a % b)
    BY Division
  <2>2. CASE a % b # 0
    BY <2>1, <2>2 DEF CeilDiv
  <2>3. CASE a % b = 0
    <3>1. a \div b # 0
      BY <2>1, <2>3
    <3> QED
      BY <2>1, <2>3, <3>1 DEF CeilDiv
  <2> QED
    BY <2>2, <2>3
<1>2. BlockBitmapSpace \in Nat \ {0}
  BY <1>1, BlockAllocConstants DEF BlockBitmapSpace
<1>3. InodeBitmapSize \in Nat \ {0}
  <2>1. 4 * Usable \in Nat \ {0}
    BY BlockAllocConstants
  <2> QED
    BY <1>1, <2>1, BlockAllocConstants DEF InodeBitmapSize
<1>4. InodeTableSize \in Nat
  <2>1. Total \div 4 \in Nat
    BY BlockAllocConstants
  <2> QED
    BY <2>1, Division, BlockAllocConstants DEF InodeTableSize
<1> QED
  BY <1>2, <1>3, <1>4 DEF Reserved

\* What every successful allocation does: it takes the lowest clear bit.
LEMMA TakeFacts ==
  ASSUME TypeOK, NEW p \in Page, Take(p)
  PROVE  /\ bm' \in Bits /\ nfree' \in 0 .. Word - 1
         /\ InUse' = InUse \cup {p} /\ p \notin InUse
         /\ \A n \in Nat : 0 .. n - 1 \subseteq InUse => n <= p
         /\ 0 .. p - 1 \subseteq InUse
<1>1. bm' = bitmap_put(p, TRUE) /\ bm \in Bits /\ FirstFree(p)
  BY DEF Take, TypeOK, Bits
<1>2. bm' \in Bits /\ InUse' = InUse \cup {p}
  BY <1>1, PutOne
<1>3. nfree' \in 0 .. Word - 1
  <2>1. nfree' = (nfree - 1) % Word /\ nfree - 1 \in Int /\ Word \in Nat \ {0}
    BY BlockAllocConstants DEF Take, Decrement, TypeOK
  <2> QED
    BY <2>1
<1>4. p \notin InUse /\ p \in Nat /\ p < Total /\ Total \in Nat
  BY <1>1, BlockAllocConstants DEF FirstFree, InUse, Page
<1>5. 0 .. p - 1 \subseteq InUse
  <2> SUFFICES ASSUME NEW q \in 0 .. p - 1 PROVE q \in InUse
    OBVIOUS
  <2>1. q \in Page /\ Used(q)
    BY <1>1, <1>4 DEF FirstFree, Page
  <2> QED
    BY <2>1 DEF InUse
<1>6. \A n \in Nat : 0 .. n - 1 \subseteq InUse => n <= p
  <2> SUFFICES ASSUME NEW n \in Nat, 0 .. n - 1 \subseteq InUse, ~(n <= p) PROVE FALSE
    OBVIOUS
  <2>1. p \in 0 .. n - 1
    BY <1>4
  <2> QED
    BY <1>4, <2>1
<1> QED
  BY <1>2, <1>3, <1>4, <1>5, <1>6

LEMMA AllocInit == Init => AllocInv
BY BlockAllocConstants, ReservedSize
   DEF Init, AllocInv, TypeOK, PagesHeld, NoPageLost, Page
\* The next page reserved is the next page of the layout.
LEMMA ReserveStep ==
  ASSUME AllocInv, Reserve
  PROVE  AllocInv'
<1>1. PICK p \in Page : Take(p)
  BY DEF Reserve
<1>2. /\ stage = "reserve" /\ todo > 0 /\ todo' = todo - 1
      /\ UNCHANGED <<local, stage, owned, fresh>>
  BY DEF Reserve
<1>3. /\ bm' \in Bits /\ nfree' \in 0 .. Word - 1
      /\ InUse' = InUse \cup {p} /\ p \notin InUse
      /\ \A n \in Nat : 0 .. n - 1 \subseteq InUse => n <= p
      /\ 0 .. p - 1 \subseteq InUse
  BY <1>1, TakeFacts DEF AllocInv
<1>4. /\ todo \in 1 .. Reserved /\ Reserved \in Nat /\ p \in Nat
      /\ owned = {} /\ (fresh => InUse = Done)
  BY <1>2, ReservedSize, BlockAllocConstants DEF AllocInv, TypeOK, Page
<1>5. Done \subseteq InUse
  BY <1>1, <1>2 DEF AllocInv, Take, FirstFree, Full
<1>6. Reserved - todo <= p
  BY <1>3, <1>4, <1>5 DEF Done
<1>7. Done' = 0 .. Reserved - todo
  BY <1>2, <1>4 DEF Done
<1>8. Done' \subseteq InUse'
  <2> SUFFICES ASSUME NEW x \in 0 .. Reserved - todo PROVE x \in InUse'
    BY <1>7
  <2>1. CASE x \in 0 .. Reserved - todo - 1
    BY <1>3, <1>5, <2>1 DEF Done
  <2>2. CASE x = p
    BY <1>3, <2>2
  <2>3. CASE x \in 0 .. p - 1
    BY <1>3, <2>3
  <2> QED
    BY <1>4, <1>6, <2>1, <2>2, <2>3
<1>9. fresh => InUse' = Done'
  <2> SUFFICES ASSUME fresh PROVE InUse' = Done'
    OBVIOUS
  <2>1. p = Reserved - todo
    BY <1>3, <1>4, <1>6 DEF Done
  <2> QED
    <3>1. 0 .. Reserved - todo = (0 .. Reserved - todo - 1) \cup {Reserved - todo}
      BY <1>4
    <3> QED
      BY <1>3, <1>4, <1>7, <2>1, <3>1 DEF Done
<1>10. TypeOK'
  BY <1>2, <1>3, <1>4 DEF AllocInv, TypeOK, Bits
<1> QED
  BY <1>2, <1>4, <1>8, <1>9, <1>10 DEF AllocInv, PagesHeld, NoPageLost

\* The root's page is none of the layout's.
LEMMA MakeRootStep ==
  ASSUME AllocInv, MakeRoot
  PROVE  AllocInv'
<1>1. PICK p \in Page : Take(p) /\ owned' = {p}
  BY DEF MakeRoot
<1>2. stage = "reserve" /\ todo = 0 /\ stage' = "seal" /\ UNCHANGED <<local, todo, fresh>>
  BY DEF MakeRoot
<1>3. /\ bm' \in Bits /\ nfree' \in 0 .. Word - 1
      /\ InUse' = InUse \cup {p} /\ p \notin InUse
  BY <1>1, TakeFacts DEF AllocInv
<1>4. 0 .. Reserved - 1 \subseteq InUse /\ (fresh => InUse = 0 .. Reserved - 1)
  BY <1>1, <1>2, ReservedSize DEF AllocInv, Done
<1>5. TypeOK'
  BY <1>1, <1>2, <1>3 DEF AllocInv, TypeOK, Bits
<1> QED
  BY <1>1, <1>2, <1>3, <1>4, <1>5 DEF AllocInv, PagesHeld, NoPageLost

LEMMA AllocPageStep ==
  ASSUME AllocInv, NEW p \in Page, alloc_page(p)
  PROVE  AllocInv'
<1>1. /\ Take(p) /\ stage = "ready" /\ owned' = owned \cup {p}
      /\ UNCHANGED <<local, stage, todo, fresh>>
  BY DEF alloc_page
<1>2. /\ bm' \in Bits /\ nfree' \in 0 .. Word - 1
      /\ InUse' = InUse \cup {p} /\ p \notin InUse
  BY <1>1, TakeFacts DEF AllocInv
<1>3. TypeOK'
  BY <1>1, <1>2 DEF AllocInv, TypeOK, Bits
<1> QED
  BY <1>1, <1>2, <1>3 DEF AllocInv, PagesHeld, NoPageLost

LEMMA FreePageStep ==
  ASSUME AllocInv, NEW p \in Page, free_page(p)
  PROVE  AllocInv'
<1>1. /\ stage = "ready" /\ p \in owned /\ bm' = bitmap_put(p, FALSE)
      /\ owned' = owned \ {p} /\ UNCHANGED <<local, stage, todo, fresh>>
  BY DEF free_page
<1>2. bm' \in Bits /\ InUse' = InUse \ {p}
  BY <1>1, PutOne DEF AllocInv, TypeOK, Bits
<1>3. nfree' \in 0 .. Word - 1
  <2>1. nfree' = (nfree - 1) % Word /\ nfree - 1 \in Int /\ Word \in Nat \ {0}
    BY BlockAllocConstants DEF free_page, Decrement, AllocInv, TypeOK
  <2> QED
    BY <2>1
<1>4. TypeOK'
  BY <1>1, <1>2, <1>3 DEF AllocInv, TypeOK, Bits
<1> QED
  BY <1>1, <1>2, <1>4 DEF AllocInv, PagesHeld, NoPageLost

LEMMA AllocStep == AllocInv /\ [Next]_vars => AllocInv'
<1> SUFFICES ASSUME AllocInv, [Next]_vars PROVE AllocInv'
  OBVIOUS
<1>1. CASE StartFormat
  <2>1. bm' = bm /\ InUse' = InUse
    BY <1>1 DEF StartFormat, InUse, Used
  <2>2. TypeOK'
    BY <1>1, ReservedSize, BlockAllocConstants DEF StartFormat, AllocInv, TypeOK
  <2>3. Done' = {}
    BY <1>1, ReservedSize DEF StartFormat, Done
  <2> QED
    BY <1>1, <2>1, <2>2, <2>3 DEF StartFormat, AllocInv, PagesHeld, NoPageLost
<1>2. CASE Reserve
  BY <1>2, ReserveStep
<1>3. CASE ReserveFails
  <2>1. /\ bm' = bm /\ InUse' = InUse /\ Full' /\ Full /\ InUse = Page
        /\ stage = "reserve" /\ todo > 0 /\ todo \in 0 .. Reserved
    BY <1>3 DEF ReserveFails, InUse, Used, Full, AllocInv, TypeOK
  <2>2. CASE todo = Reserved
    <3>1. todo' = Reserved - 1 /\ UNCHANGED <<nfree, local, stage, owned, fresh>>
      BY <1>3, <2>2 DEF ReserveFails
    <3>2. ~fresh
      <4>1. fresh => InUse = {}
        BY <2>1, <2>2, ReservedSize DEF AllocInv, Done
      <4> QED
        BY <2>1, <4>1, BlockAllocConstants DEF Page
    <3>3. TypeOK'
      BY <2>1, <3>1, ReservedSize DEF AllocInv, TypeOK
    <3> QED
      BY <2>1, <3>1, <3>2, <3>3 DEF AllocInv, PagesHeld, NoPageLost
  <2>3. CASE todo # Reserved
    <3>1. stage' = "failed" /\ UNCHANGED <<nfree, local, todo, owned, fresh>>
      BY <1>3, <2>3 DEF ReserveFails
    <3> QED
      BY <2>1, <3>1 DEF AllocInv, TypeOK, PagesHeld, NoPageLost
  <2> QED
    BY <2>2, <2>3
<1>4. CASE MakeRoot
  BY <1>4, MakeRootStep
<1>5. CASE RootFails
  BY <1>5 DEF RootFails, AllocInv, TypeOK, PagesHeld, NoPageLost
<1>6. CASE Seal
  <2>1. InUse' = InUse
    BY <1>6 DEF Seal, InUse, Used
  <2> QED
    BY <1>6, <2>1 DEF Seal, AllocInv, TypeOK, PagesHeld, NoPageLost
<1>7. ASSUME NEW p \in Page, alloc_page(p) PROVE AllocInv'
  BY <1>7, AllocPageStep
<1>8. ASSUME NEW p \in Page, free_page(p) PROVE AllocInv'
  BY <1>8, FreePageStep
<1>9. CASE UNCHANGED vars
  <2>1. InUse' = InUse /\ Done' = Done /\ (Full' <=> Full)
    BY <1>9 DEF vars, InUse, Used, Done, Full
  <2> QED
    BY <1>9, <2>1 DEF vars, AllocInv, TypeOK, PagesHeld, NoPageLost
<1> QED
  BY <1>1, <1>2, <1>3, <1>4, <1>5, <1>6, <1>7, <1>8, <1>9 DEF Next

LEMMA AllocInvariant == Spec => []AllocInv
BY AllocInit, AllocStep, PTL DEF Spec

\* The allocator's variables keep their types; the count of free blocks stays
\* in its word, wherever it wraps (superblock.h:11).
THEOREM AllocTypeOK == Spec => []TypeOK
<1>1. AllocInv => TypeOK
  BY DEF AllocInv
<1> QED
  BY <1>1, AllocInvariant, PTL

\* On an image of any size, alloc_page never returns a page of the layout or
\* one that is handed out already (disk.c:77-98).
THEOREM AllocPagesHeld == Spec => []PagesHeld
<1>1. AllocInv => PagesHeld
  BY DEF AllocInv
<1> QED
  BY <1>1, AllocInvariant, PTL

\* On an image that was blank when it was formatted, every set bit is the
\* layout's or that of a page handed out (disk.c:109-128).
THEOREM AllocNoPageLost == Spec => []NoPageLost
<1>1. AllocInv => NoPageLost
  BY DEF AllocInv
<1> QED
  BY <1>1, AllocInvariant, PTL
=============================================================================
