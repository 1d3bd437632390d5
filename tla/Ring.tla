-------------------------------- MODULE Ring --------------------------------
(***************************************************************************)
(* The circular doubly-linked list that lru.c and gdl.c both implement:    *)
(* lru_push and lru_pop, gdl_push and gdl_pop are the same code over two   *)
(* node types.  A ring is one record.  A node is named by a member of Node *)
(* and a C pointer by a node or NULL; "live" is the set of allocated nodes *)
(* (malloc to free), which the code does not store.  The links of a node   *)
(* that is not live are garbage nobody reads and are kept NULL.            *)
(***************************************************************************)
EXTENDS Naturals, FiniteSets

CONSTANTS Node,   \* the nodes malloc can return
          NULL    \* the null pointer

ASSUME NullIsNoNode == NULL \notin Node

EmptyRing == [head |-> NULL, size |-> 0, live |-> {},
              next |-> [n \in Node |-> NULL], prev |-> [n \in Node |-> NULL]]

RingType == [head : Node \cup {NULL}, size : Nat, live : SUBSET Node,
             next : [Node -> Node \cup {NULL}],
             prev : [Node -> Node \cup {NULL}]]

(***************************************************************************)
(* lru_push links the new node before the head and dereferences the head's *)
(* prev link (node->prev->next = node).  The push faults when it is NULL.  *)
(***************************************************************************)
PushFaults(r) == r.size > 0 /\ r.head # NULL /\ r.prev[r.head] = NULL

\* A slip the runs must notice: the old tail is not linked to the new node.
Push_TailKept(r, n) ==
  LET first == r.size = 0 \/ r.head = NULL
      t == r.prev[r.head]
  IN [head |-> n, size |-> r.size + 1, live |-> r.live \cup {n},
      next |-> [r.next EXCEPT ![n] = IF first THEN n ELSE r.head],
      prev |-> IF first THEN [r.prev EXCEPT ![n] = n]
               ELSE [r.prev EXCEPT ![n] = t, ![r.head] = n]]

\* The push of node n and the caller's assignment of the returned node to
\* the head (cache->lru = ..., cache->gdl = ...).
Push(r, n) ==
  LET links == IF r.size > 0 /\ r.head # NULL
               THEN LET t == r.prev[r.head] IN
                    [next |-> [r.next EXCEPT ![n] = r.head, ![t] = n],
                     prev |-> [r.prev EXCEPT ![n] = t, ![r.head] = n]]
               ELSE [next |-> [r.next EXCEPT ![n] = n],
                     prev |-> [r.prev EXCEPT ![n] = n]]
  IN [head |-> n, size |-> r.size + 1, live |-> r.live \cup {n},
      next |-> links.next, prev |-> links.prev]

\* A slip: popping the head makes the tail the head.
Unlink_HeadToTail(r, n) ==
  LET p == r.prev[n]
      q == r.next[n]
      last == r.size = 1
  IN [head |-> IF last THEN NULL ELSE IF n = r.head THEN p ELSE r.head,
      size |-> r.size - 1,
      live |-> r.live \ {n},
      next |-> [r.next EXCEPT ![p] = IF last THEN @ ELSE q, ![n] = NULL],
      prev |-> [r.prev EXCEPT ![q] = IF last THEN @ ELSE p, ![n] = NULL]]

(***************************************************************************)
(* lru_pop(cache, &p) with p = n, where the pointer cell p is not part of  *)
(* the list (an entry's lru_pos or gdl_pos, or a local variable), so that  *)
(* the final "*list = NULL" touches no link.                               *)
(***************************************************************************)
Unlink(r, n) ==
  LET p == r.prev[n]
      q == r.next[n]
      last == r.size = 1
  IN [head |-> IF last THEN NULL ELSE IF n = r.head THEN q ELSE r.head,
      size |-> r.size - 1,
      live |-> r.live \ {n},
      next |-> [r.next EXCEPT ![p] = IF last THEN @ ELSE q, ![n] = NULL],
      prev |-> [r.prev EXCEPT ![q] = IF last THEN @ ELSE p, ![n] = NULL]]

(***************************************************************************)
(* lru_pop(cache, &cache->lru->prev), the call of the eviction: the cell   *)
(* is the prev link of the head, and "*list = NULL" clears it after the    *)
(* relinking has set it.                                                   *)
(***************************************************************************)
PopAtTailLink(r) ==
  LET u == Unlink(r, r.prev[r.head])
  IN IF r.size = 1 THEN u ELSE [u EXCEPT !.prev[r.head] = NULL]

(***************************************************************************)
(* lru_pop(cache, &cache->lru), the call of free_cache: the cell is the    *)
(* list's own head pointer, and "*list = NULL" clears it after it was      *)
(* moved to the next node.  On a NULL head it returns -1.                  *)
(***************************************************************************)
PopAtHead(r) ==
  IF r.head = NULL THEN r ELSE [Unlink(r, r.head) EXCEPT !.head = NULL]

-----------------------------------------------------------------------------
(***************************************************************************)
(* What every caller relies on.                                            *)
(***************************************************************************)
Counted(r) == /\ IsFiniteSet(r.live)
              /\ r.size = Cardinality(r.live)
              /\ r.head = NULL <=> r.live = {}
              /\ r.head # NULL => r.head \in r.live

Linked(r) == \A n \in r.live : /\ r.next[n] \in r.live
                               /\ r.prev[n] \in r.live
                               /\ r.prev[r.next[n]] = n
                               /\ r.next[r.prev[n]] = n

\* The live nodes are one cycle: no proper part of them is closed under next.
OneCycle(r) == \A S \in SUBSET r.live :
                 S # {} /\ (\A n \in S : r.next[n] \in S) => S = r.live

RingOK(r) == r \in RingType /\ Counted(r) /\ Linked(r) /\ OneCycle(r)

\* The nodes from the head along next: what a traversal of the list sees.
Order(r) ==
  LET walk[i \in 1 .. r.size] == IF i = 1 THEN r.head
                                 ELSE r.next[walk[i - 1]]
  IN [i \in 1 .. r.size |-> walk[i]]
=============================================================================
