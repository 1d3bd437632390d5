--------------------------- MODULE RingListProofs ---------------------------
(***************************************************************************)
(* The LRU list and the global dirty list stay sound for any number of     *)
(* nodes, and the first eviction always ends the program.                  *)
(***************************************************************************)
EXTENDS RingList, RingProofs

\* The inductive invariant.  Inside free_cache the list is either abandoned
\* (NULL head) or still sound; that is what makes the next pop legal.
ListInv == /\ TypeOK
           /\ RingSound
           /\ phase = "run" => ring.size <= MaxNodes
           /\ phase = "drain" => ring.head = NULL \/ RingOK(ring)

LEMMA EmptySound == RingOK(EmptyRing)
BY FS_EmptySet DEF EmptyRing, RingOK, RingType, Counted, Linked, OneCycle

LEMMA ListInit == Init => ListInv
BY EmptySound, NodesAreEnough
   DEF Init, ListInv, TypeOK, RingSound, RingOK, EmptyRing

\* The tail of an insertion, from a sound ring with room for the node.
LEMMA PushOnStep ==
  ASSUME ListInv, NEW r, NEW n \in Node \ r.live, Running, PushOn(r, n),
         RingOK(r), r.size < MaxNodes
  PROVE  ListInv' /\ phase' = phase
<1>1. ring' = Push(r, n) /\ phase' = "run" /\ todo' = todo /\ phase = "run"
  BY PushIsSafe DEF PushOn, Running
<1>2. RingOK(ring')
  BY <1>1, PushSound
<1>3. ring'.size <= MaxNodes
  BY <1>1, RingFields, NodesAreEnough DEF Push
<1> QED
  BY <1>1, <1>2, <1>3 DEF ListInv, TypeOK, RingSound, RingOK

LEMMA InsertStep ==
  ASSUME ListInv, NEW n \in Node, Insert(n)
  PROVE  ListInv' /\ phase' = phase
BY PushOnStep DEF Insert, Running, ListInv, RingSound

\* Pops through a pointer outside the list.
LEMMA UnlinkStep ==
  ASSUME ListInv, phase = "run", NEW n \in ring.live, ring' = Unlink(ring, n),
         UNCHANGED <<phase, todo>>
  PROVE  ListInv'
<1>1. RingOK(ring') /\ ring'.size = ring.size - 1 /\ ring.size \in Nat
  BY UnlinkSound, RingFields DEF ListInv, RingSound
<1> QED
  BY <1>1, NodesAreEnough DEF ListInv, TypeOK, RingSound, RingOK

LEMMA TouchStep ==
  ASSUME ListInv, NEW n \in Node, Touch(n)
  PROVE  ListInv' /\ phase' = phase
<1> DEFINE r == Unlink(ring, n)
<1>1. phase = "run" /\ RingOK(ring) /\ n \in ring.live /\ Running
  BY DEF Touch, Running, ListInv, RingSound
<1>2. RingOK(r) /\ n \notin r.live /\ r.size < MaxNodes
  BY <1>1, UnlinkSound, RingFields, NodesAreEnough DEF ListInv
<1> QED
  BY <1>1, <1>2, PushOnStep DEF Touch

\* Every eviction dies on the link the pop has cleared.
LEMMA EvictStep ==
  ASSUME ListInv, NEW n \in Node, Evict(n)
  PROVE  ListInv' /\ phase' = "dead" /\ ring.size = MaxNodes
<1>1. phase = "run" /\ RingOK(ring) /\ ring.size = MaxNodes /\ ring.size > 1
  BY NodesAreEnough DEF Evict, Running, ListInv, RingSound
<1>2. PushFaults(PopAtTailLink(ring))
  BY <1>1, EvictionFaults
<1>3. phase' = "dead" /\ ring' = PopAtTailLink(ring) /\ todo' = todo
  BY <1>2 DEF Evict, Running, PushOn
<1>4. ring.head # NULL /\ ring.prev[ring.head] \in ring.live
  BY <1>1, SizeIsHead, RingFields DEF RingOK, Linked
<1>5. Unlink(ring, ring.prev[ring.head]) \in RingType
  BY <1>1, <1>4, UnlinkSound DEF RingOK
<1>6. PopAtTailLink(ring) \in RingType
  BY <1>5 DEF PopAtTailLink, RingType
<1> QED
  BY <1>1, <1>3, <1>6 DEF ListInv, TypeOK, RingSound

LEMMA DrainStepInv ==
  ASSUME ListInv, Drain
  PROVE  ListInv' /\ phase' # "dead"
<1>1. CASE StartDrain
  BY <1>1, RingFields DEF StartDrain, ListInv, TypeOK, RingSound
<1>2. CASE DrainStep
  <2>1. CASE ring.head = NULL
    BY <1>2, <2>1, NodesAreEnough DEF DrainStep, PopAtHead, ListInv, TypeOK, RingSound
  <2>2. CASE ring.head # NULL
    <3>1. RingOK(ring) /\ ring.head \in ring.live
      BY <1>2, <2>2, SizeIsHead DEF DrainStep, ListInv
    <3>2. Unlink(ring, ring.head) \in RingType
      BY <3>1, UnlinkSound DEF RingOK
    <3>3. ring' \in RingType /\ ring'.head = NULL
      BY <1>2, <2>2, <3>2 DEF DrainStep, PopAtHead, RingType
    <3> QED
      BY <1>2, <3>3, NodesAreEnough DEF DrainStep, ListInv, TypeOK, RingSound
  <2> QED
    BY <2>1, <2>2
<1>3. CASE DrainEnd
  BY <1>3 DEF DrainEnd, ListInv, TypeOK, RingSound
<1> QED
  BY <1>1, <1>2, <1>3 DEF Drain

LEMMA Stutter == ListInv /\ UNCHANGED vars => ListInv'
BY DEF ListInv, TypeOK, RingSound, vars

-----------------------------------------------------------------------------
LEMMA LruStep == ListInv /\ [LruNext]_vars => ListInv'
BY InsertStep, TouchStep, EvictStep, DrainStepInv, Stutter DEF LruNext

\* The LRU list never loses the type of its links or its loop count, through
\* insertions, hits, evictions and free_cache (lru.c, cache.c:279).
THEOREM LruTypeOK == LruSpec => []TypeOK
<1>1. ListInv => TypeOK
  BY DEF ListInv
<1> QED
  BY <1>1, ListInit, LruStep, PTL DEF LruSpec

\* Between calls the LRU list is one sound cycle of exactly the slots in use
\* (lru.c:8-76), for a cache of any size.
THEOREM LruRingSound == LruSpec => []RingSound
<1>1. ListInv => RingSound
  BY DEF ListInv
<1> QED
  BY <1>1, ListInit, LruStep, PTL DEF LruSpec

\* Insertions below the limit, hits and free_cache never fault (lru.c:21).
THEOREM LruOnlyEvictionDies == LruSpec => OnlyEvictionDies
<1>1. ListInv /\ [LruNext]_vars => [phase' = "dead" => ring.size = MaxNodes]_vars
  <2> SUFFICES ASSUME ListInv, LruNext, phase' = "dead"
               PROVE  ring.size = MaxNodes \/ UNCHANGED vars
    OBVIOUS
  <2>1. CASE Drain
    BY <2>1, DrainStepInv
  <2>2. ASSUME NEW n \in Node, Insert(n) \/ Touch(n) PROVE FALSE
    BY <2>2, InsertStep, TouchStep DEF Insert, Touch, Running
  <2>3. ASSUME NEW n \in Node, Evict(n) PROVE ring.size = MaxNodes
    BY <2>3 DEF Evict
  <2> QED
    BY <2>1, <2>2, <2>3 DEF LruNext
<1> QED
  BY <1>1, ListInit, LruStep, PTL DEF LruSpec, OnlyEvictionDies

\* The converse, and the defect: whatever the size of the cache, the first
\* get_block that finds no free slot dies (cache.c:30, lru.c:67 and 21).
THEOREM EveryEvictionDies ==
  LruSpec => [][\A n \in Node : Evict(n) => phase' = "dead"]_vars
<1>1. ListInv /\ [LruNext]_vars =>
        [\A n \in Node : Evict(n) => phase' = "dead"]_vars
  BY EvictStep
<1> QED
  BY <1>1, ListInit, LruStep, PTL DEF LruSpec

-----------------------------------------------------------------------------
LEMMA GdlStep ==
  ListInv /\ NeverDies /\ [GdlNext]_vars => ListInv' /\ NeverDies'
<1> SUFFICES ASSUME ListInv, NeverDies, [GdlNext]_vars
             PROVE  ListInv' /\ NeverDies'
  OBVIOUS
<1>1. CASE RemoveOldest
  <2>1. phase = "run" /\ ring.prev[ring.head] \in ring.live
    BY <1>1, SizeIsHead
       DEF RemoveOldest, Running, ListInv, RingSound, RingOK, Linked
  <2> QED
    BY <1>1, <2>1, UnlinkStep DEF RemoveOldest, Running, NeverDies
<1>2. ASSUME NEW n \in Node, Insert(n) PROVE ListInv' /\ NeverDies'
  BY <1>2, InsertStep DEF NeverDies
<1>3. ASSUME NEW n \in Node, Remove(n) PROVE ListInv' /\ NeverDies'
  BY <1>3, UnlinkStep DEF Remove, Running, NeverDies
<1>4. CASE UNCHANGED vars
  BY <1>4, Stutter DEF NeverDies, vars
<1> QED
  BY <1>1, <1>2, <1>3, <1>4 DEF GdlNext

\* The global dirty list stays one sound cycle, whichever of its nodes
\* cache_fsync and cache_sync take out of it (gdl.c:8-74).
THEOREM GdlRingSound == GdlSpec => []RingSound
<1>1. ListInv => RingSound
  BY DEF ListInv
<1>2. Init => NeverDies
  BY DEF Init, NeverDies
<1> QED
  BY <1>1, <1>2, ListInit, GdlStep, PTL DEF GdlSpec

\* No push on the global dirty list ever dereferences NULL (gdl.c:21).
THEOREM GdlNeverDies == GdlSpec => []NeverDies
<1>1. Init => NeverDies
  BY DEF Init, NeverDies
<1> QED
  BY <1>1, ListInit, GdlStep, PTL DEF GdlSpec
=============================================================================
