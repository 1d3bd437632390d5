------------------------------ MODULE RingList ------------------------------
(***************************************************************************)
(* The two lists of the cache at the level of their links, driven by the   *)
(* calls cache.c makes.  LruSpec is the life of cache->lru: entries are    *)
(* inserted, touched, popped for eviction, and drained by free_cache.      *)
(* GdlSpec is the life of cache->gdl: a node per write_block, removed by   *)
(* its entry's gdl_pos (cache_fsync) or from the tail (cache_sync); it is  *)
(* empty by the time free_cache runs.                                      *)
(***************************************************************************)
EXTENDS Ring

CONSTANT MaxNodes   \* most nodes the list may hold: the slots of the cache

ASSUME NodesAreEnough == /\ MaxNodes \in Nat /\ MaxNodes >= 2
                         /\ IsFiniteSet(Node) /\ Cardinality(Node) >= MaxNodes

VARIABLES
  ring,   \* the list
  phase,  \* "run", "drain" (inside free_cache), "freed", or "dead" (faulted)
  todo    \* iterations left in free_cache's loop

vars == <<ring, phase, todo>>

Init == ring = EmptyRing /\ phase = "run" /\ todo = 0

-----------------------------------------------------------------------------
Running == phase = "run" /\ UNCHANGED todo

\* The tail of every insertion: push, or die on the NULL link.
PushOn(r, n) == IF PushFaults(r) THEN ring' = r /\ phase' = "dead"
                                 ELSE ring' = Push(r, n) /\ UNCHANGED phase

\* get_block takes a free slot, or write_block makes an entry dirty.
Insert(n) == /\ Running
             /\ n \in Node \ ring.live
             /\ ring.size < MaxNodes
             /\ PushOn(ring, n)

\* A slip: the hit on the tail pops it through the head's link.
Touch_TailLink(n) ==
  /\ Running
  /\ n \in ring.live
  /\ ring.size > 1
  /\ PushOn(IF n = ring.prev[ring.head] THEN PopAtTailLink(ring)
                                        ELSE Unlink(ring, n), n)

\* A hit in get_block: the entry's node is popped and pushed again.
Touch(n) == /\ Running
            /\ n \in ring.live
            /\ ring.size > 1
            /\ PushOn(Unlink(ring, n), n)

\* get_block without a free slot: pop the tail through the head's own link,
\* load the block into the slot and push its node.
Evict(n) == /\ Running
            /\ n \in Node \ ring.live
            /\ ring.size = MaxNodes
            /\ PushOn(PopAtTailLink(ring), n)

\* gdl_pop(cache, &entry.gdl_pos).
Remove(n) == /\ Running
             /\ n \in ring.live
             /\ ring' = Unlink(ring, n)
             /\ UNCHANGED phase

\* A slip: cache_sync pops the tail through the head's link.
RemoveOldest_TailLink == /\ Running
                         /\ ring.size > 0 /\ ring.head # NULL
                         /\ ring' = PopAtTailLink(ring)
                         /\ UNCHANGED phase

\* cache_sync: the tail node by a local pointer.
RemoveOldest == /\ Running
                /\ ring.size > 0 /\ ring.head # NULL
                /\ ring' = Unlink(ring, ring.prev[ring.head])
                /\ UNCHANGED phase

\* free_cache: "for (int i=cache->lru_size; i>0; i--) lru_pop(&cache->lru)".
StartDrain == /\ phase = "run"
              /\ phase' = "drain"
              /\ todo' = ring.size
              /\ UNCHANGED ring

\* A slip: the loop's test is left out.
DrainStep_NoTest == /\ phase = "drain"
                    /\ ring' = PopAtHead(ring)
                    /\ todo' = todo - 1
                    /\ UNCHANGED phase

DrainStep == /\ phase = "drain" /\ todo > 0
             /\ ring' = PopAtHead(ring)
             /\ todo' = todo - 1
             /\ UNCHANGED phase

DrainEnd == /\ phase = "drain" /\ todo = 0
            /\ phase' = "freed"
            /\ UNCHANGED <<ring, todo>>

Drain == StartDrain \/ DrainStep \/ DrainEnd

LruNext == Drain \/ \E n \in Node : Insert(n) \/ Touch(n) \/ Evict(n)

GdlNext == \/ \E n \in Node : Insert(n)
           \/ \E n \in Node : Remove(n)
           \/ RemoveOldest

LruSpec == Init /\ [][LruNext]_vars
GdlSpec == Init /\ [][GdlNext]_vars

-----------------------------------------------------------------------------
\* Type invariant; in particular free_cache's loop counter never runs below
\* zero.
TypeOK == /\ ring \in RingType
          /\ phase \in {"run", "drain", "freed", "dead"}
          /\ todo \in 0 .. MaxNodes

\* Between calls the links of every live node agree in both directions, the
\* size field counts the nodes and all of them are on one cycle through the
\* head, so that no node a slot points to is unreachable (lru_push, lru_pop).
RingSound == phase = "run" => RingOK(ring)

\* The only call that can dereference the NULL link is the eviction: an
\* insertion below the limit or a hit never does (cache.c:66, 76-78).
OnlyEvictionDies == [][phase' = "dead" => ring.size = MaxNodes]_vars

\* The dirty list never faults: its nodes are only ever popped through
\* pointers that are not links of the list (cache.c:143, 162).
NeverDies == phase # "dead"

\* Seen along next from the head, the ring is the sequence the cache takes it
\* for: new and touched nodes in front, the tail node the oldest one.
Promise == INSTANCE ListSpec WITH
             list <- IF phase = "run" THEN Order(ring) ELSE <<>>,
             open <- phase = "run"

RingIsAList == Promise!Spec

-----------------------------------------------------------------------------
\* cache.c:27: "If no free cache slots, evict LRU entry".
EvictionSurvives == phase # "dead"
=============================================================================
