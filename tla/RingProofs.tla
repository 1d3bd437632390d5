----------------------------- MODULE RingProofs -----------------------------
(***************************************************************************)
(* Facts about the ring operations, for a ring of any size.                *)
(***************************************************************************)
EXTENDS Ring, FiniteSetTheorems, TLAPS

\* The parts of RingOK about single nodes, in the form the provers use.
LEMMA RingFields ==
  ASSUME NEW r, RingOK(r)
  PROVE  /\ r.head \in Node \cup {NULL}
         /\ r.size \in Nat
         /\ r.live \subseteq Node
         /\ r.next \in [Node -> Node \cup {NULL}]
         /\ r.prev \in [Node -> Node \cup {NULL}]
         /\ r = [head |-> r.head, size |-> r.size, live |-> r.live,
                 next |-> r.next, prev |-> r.prev]
BY DEF RingOK, RingType

\* size > 0 exactly when there is a head, so the tests of lru_push and
\* lru_pop (list != NULL, lru_size == 1) agree with the list.
LEMMA SizeIsHead ==
  ASSUME NEW r, RingOK(r)
  PROVE  /\ r.size = 0 <=> r.live = {}
         /\ r.size > 0 <=> r.head # NULL
         /\ r.head # NULL => r.head \in r.live
         /\ r.size = 1 <=> \E n \in Node : r.live = {n}
<1>1. IsFiniteSet(r.live) /\ r.size = Cardinality(r.live) /\ r.size \in Nat
      /\ r.live \subseteq Node
  BY RingFields DEF RingOK, Counted
<1>2. r.size = 0 <=> r.live = {}
  BY <1>1, FS_EmptySet
<1>3. r.size = 1 <=> \E n \in r.live : r.live = {n}
  BY <1>1, FS_Singleton
<1> QED
  BY <1>1, <1>2, <1>3 DEF RingOK, Counted

\* On a sound ring the push (lru.c:15-22) never dereferences NULL.
LEMMA PushIsSafe ==
  ASSUME NEW r, RingOK(r)
  PROVE  ~PushFaults(r)
BY SizeIsHead, NullIsNoNode, RingFields DEF PushFaults, RingOK, Linked

\* Only a ring of one node has a node that is its own neighbour.
LEMMA NoSelfLoop ==
  ASSUME NEW r, RingOK(r), NEW n \in r.live, r.next[n] = n \/ r.prev[n] = n
  PROVE  r.size = 1 /\ r.live = {n} /\ r.next[n] = n /\ r.prev[n] = n
<1>1. r.next[n] = n /\ r.prev[n] = n
  BY DEF RingOK, Linked
<1>2. {n} \in SUBSET r.live /\ {n} # {}
      /\ (\A m \in {n} : r.next[m] \in {n})
  BY <1>1
<1>3. r.live = {n}
  BY <1>2 DEF RingOK, OneCycle
<1> QED
  BY <1>1, <1>3, SizeIsHead, RingFields

-----------------------------------------------------------------------------
\* A push of a node that is not on the ring keeps the ring sound.
THEOREM PushSound ==
  ASSUME NEW r, RingOK(r), NEW n \in Node \ r.live
  PROVE  RingOK(Push(r, n))
<1> DEFINE s == Push(r, n)
           t == r.prev[r.head]
<1>1. CASE r.live = {}
  <2>1. r.size = 0 /\ r.head = NULL
    BY <1>1, SizeIsHead, RingFields
  <2>2. s = [head |-> n, size |-> 1, live |-> {n},
             next |-> [r.next EXCEPT ![n] = n],
             prev |-> [r.prev EXCEPT ![n] = n]]
    BY <2>1, <1>1 DEF Push
  <2>3. s \in RingType
    BY <2>2, RingFields DEF RingType
  <2>4. s.next[n] = n /\ s.prev[n] = n
    BY <2>2, RingFields
  <2>5. Counted(s)
    <3>1. IsFiniteSet({n}) /\ Cardinality({n}) = 1
      BY FS_Singleton
    <3>2. s.head = n /\ s.size = 1 /\ s.live = {n}
      BY <2>2
    <3> QED
      BY <3>1, <3>2, NullIsNoNode DEF Counted
  <2>6. Linked(s)
    BY <2>2, <2>4 DEF Linked
  <2>7. OneCycle(s)
    BY <2>2 DEF OneCycle
  <2> QED
    BY <2>3, <2>5, <2>6, <2>7 DEF RingOK
<1>2. CASE r.live # {}
  <2>1. /\ r.size > 0 /\ r.head # NULL /\ r.head \in r.live
        /\ t \in r.live /\ r.next[t] = r.head
        /\ n # t /\ n # r.head /\ t \in Node /\ r.head \in Node
    BY <1>2, SizeIsHead, RingFields DEF RingOK, Linked
  <2>2. /\ s.head = n /\ s.size = r.size + 1 /\ s.live = r.live \cup {n}
        /\ s.next = [r.next EXCEPT ![n] = r.head, ![t] = n]
        /\ s.prev = [r.prev EXCEPT ![n] = t, ![r.head] = n]
        /\ s = [head |-> s.head, size |-> s.size, live |-> s.live,
                next |-> s.next, prev |-> s.prev]
    BY <2>1 DEF Push
  <2>3. s \in RingType
    BY <2>1, <2>2, RingFields DEF RingType
  <2>4. /\ s.next[n] = r.head /\ s.next[t] = n
        /\ s.prev[n] = t /\ s.prev[r.head] = n
        /\ \A m \in r.live \ {t} : s.next[m] = r.next[m]
        /\ \A m \in r.live \ {r.head} : s.prev[m] = r.prev[m]
    BY <2>1, <2>2, RingFields
  <2>5. Counted(s)
    <3>1. IsFiniteSet(r.live) /\ r.size = Cardinality(r.live)
      BY DEF RingOK, Counted
    <3>2. IsFiniteSet(s.live) /\ Cardinality(s.live) = r.size + 1
      BY <3>1, <2>2, FS_AddElement
    <3> QED
      BY <3>2, <2>2, NullIsNoNode DEF Counted
  <2>6. Linked(s)
    <3> SUFFICES ASSUME NEW m \in s.live
                 PROVE  /\ s.next[m] \in s.live /\ s.prev[m] \in s.live
                        /\ s.prev[s.next[m]] = m /\ s.next[s.prev[m]] = m
      BY DEF Linked
    <3>1. CASE m = n
      BY <3>1, <2>1, <2>2, <2>4
    <3>2. CASE m # n
      <4>1. m \in r.live /\ r.next[m] \in r.live /\ r.prev[m] \in r.live
            /\ r.prev[r.next[m]] = m /\ r.next[r.prev[m]] = m
        BY <3>2, <2>2 DEF RingOK, Linked
      <4>2. m # t => r.next[m] # r.head
        BY <4>1, <2>1
      <4>3. m # r.head => r.prev[m] # t
        BY <4>1, <2>1
      <4> QED
        BY <4>1, <4>2, <4>3, <2>1, <2>2, <2>4
    <3> QED
      BY <3>1, <3>2
  <2>7. OneCycle(s)
    <3> SUFFICES ASSUME NEW S \in SUBSET s.live, S # {},
                        \A m \in S : s.next[m] \in S
                 PROVE  S = s.live
      BY DEF OneCycle
    <3> DEFINE R == S \ {n}
    <3>1. R \in SUBSET r.live
      BY <2>2
    <3>2. R # {}
      BY <2>1, <2>4
    <3>3. ASSUME NEW m \in R
          PROVE  r.next[m] \in R
      <4>1. m \in r.live /\ s.next[m] \in S /\ r.next[m] # n
        BY <3>1 DEF RingOK, Linked
      <4>2. CASE m = t
        <5>1. n \in S
          BY <4>1, <4>2, <2>4
        <5> QED
          BY <5>1, <4>1, <4>2, <2>1, <2>4
      <4>3. CASE m # t
        BY <4>1, <4>3, <2>4
      <4> QED
        BY <4>2, <4>3
    <3>4. R = r.live
      BY <3>1, <3>2, <3>3 DEF RingOK, OneCycle
    <3> QED
      BY <3>4, <2>1, <2>2, <2>4
  <2> QED
    BY <2>3, <2>5, <2>6, <2>7 DEF RingOK
<1> QED
  BY <1>1, <1>2

\* A pop through a pointer outside the list keeps the ring sound, whichever
\* node is popped: the head, the tail, or one between them.
THEOREM UnlinkSound ==
  ASSUME NEW r, RingOK(r), NEW n \in r.live
  PROVE  /\ RingOK(Unlink(r, n))
         /\ Unlink(r, n).live = r.live \ {n}
         /\ Unlink(r, n).size = r.size - 1
<1> DEFINE s == Unlink(r, n)
           p == r.prev[n]
           q == r.next[n]
<1>0. /\ n \in Node /\ p \in r.live /\ q \in r.live /\ p \in Node /\ q \in Node
      /\ r.next[p] = n /\ r.prev[q] = n
      /\ IsFiniteSet(r.live) /\ r.size = Cardinality(r.live)
  BY RingFields DEF RingOK, Linked, Counted
<1>a. s.live = r.live \ {n} /\ s.size = r.size - 1
  BY DEF Unlink
<1>b. IsFiniteSet(s.live) /\ Cardinality(s.live) = r.size - 1
  BY <1>0, <1>a, FS_RemoveElement
<1>c. s.size \in Nat
  BY <1>a, <1>b, FS_CardinalityType
<1>1. CASE r.size = 1
  <2>1. r.live = {n}
    BY <1>1, SizeIsHead
  <2>2. s.head = NULL /\ s.live = {}
    BY <1>1, <1>a, <2>1 DEF Unlink
  <2>3. s \in RingType
    BY <1>1, <1>0, <1>c, <2>2, RingFields DEF Unlink, RingType
  <2> QED
    BY <2>2, <2>3, <1>a, <1>b DEF RingOK, Counted, Linked, OneCycle
<1>2. CASE r.size # 1
  <2>1. p # n /\ q # n
    BY <1>2, NoSelfLoop
  <2>2. /\ s.head = IF n = r.head THEN q ELSE r.head
        /\ s.next = [r.next EXCEPT ![p] = q, ![n] = NULL]
        /\ s.prev = [r.prev EXCEPT ![q] = p, ![n] = NULL]
    BY <1>2, <1>0, <2>1, RingFields DEF Unlink
  <2>3. s \in RingType
    BY <1>2, <1>0, <1>c, <2>2, RingFields DEF Unlink, RingType
  <2>4. /\ s.next[p] = q /\ s.prev[q] = p
        /\ \A m \in s.live \ {p} : s.next[m] = r.next[m]
        /\ \A m \in s.live \ {q} : s.prev[m] = r.prev[m]
    BY <1>0, <1>a, <2>1, <2>2, RingFields
  <2>5. Counted(s)
    <3>1. r.head # NULL /\ r.head \in r.live
      BY <1>0, SizeIsHead DEF RingOK, Counted
    <3>2. s.head \in s.live
      BY <3>1, <2>1, <2>2, <1>0, <1>a
    <3>3. s.head # NULL
      BY <3>2, <2>3, NullIsNoNode DEF RingType
    <3> QED
      BY <3>2, <3>3, <1>a, <1>b DEF Counted
  <2>6. Linked(s)
    <3> SUFFICES ASSUME NEW m \in s.live
                 PROVE  /\ s.next[m] \in s.live /\ s.prev[m] \in s.live
                        /\ s.prev[s.next[m]] = m /\ s.next[s.prev[m]] = m
      BY DEF Linked
    <3>1. m \in r.live /\ m # n
          /\ r.next[m] \in r.live /\ r.prev[m] \in r.live
          /\ r.prev[r.next[m]] = m /\ r.next[r.prev[m]] = m
      BY <1>a DEF RingOK, Linked
    <3>2. m # p => r.next[m] # n /\ r.next[m] # q
      BY <3>1, <1>0
    <3>3. m # q => r.prev[m] # n /\ r.prev[m] # p
      BY <3>1, <1>0
    <3> QED
      BY <3>1, <3>2, <3>3, <2>1, <2>4, <1>0, <1>a
  <2>7. OneCycle(s)
    <3> SUFFICES ASSUME NEW S \in SUBSET s.live, S # {},
                        \A m \in S : s.next[m] \in S
                 PROVE  S = s.live
      BY DEF OneCycle
    <3>1. CASE p \in S
      <4> DEFINE R == S \cup {n}
      <4>1. q \in S
        BY <3>1, <2>4
      <4>2. R \in SUBSET r.live /\ R # {}
        BY <1>a
      <4>3. \A m \in R : r.next[m] \in R
        BY <3>1, <4>1, <2>4, <1>0, <1>a
      <4>4. R = r.live
        BY <4>2, <4>3 DEF RingOK, OneCycle
      <4> QED
        BY <4>4, <1>a
    <3>2. CASE p \notin S
      <4>1. S \in SUBSET r.live /\ n \notin S
        BY <1>a
      <4>2. \A m \in S : r.next[m] \in S
        BY <3>2, <2>4
      <4>3. S = r.live
        BY <4>1, <4>2 DEF RingOK, OneCycle
      <4> QED
        BY <4>1, <4>3
    <3> QED
      BY <3>1, <3>2
  <2> QED
    BY <2>3, <2>5, <2>6, <2>7, <1>a DEF RingOK
<1> QED
  BY <1>1, <1>2, <1>a

\* The eviction's pop (cache.c:30) on a ring of two or more nodes leaves a
\* list on which the next push faults: no list of a cache with two slots or
\* more survives its first eviction.
THEOREM EvictionFaults ==
  ASSUME NEW r, RingOK(r), r.size > 1
  PROVE  PushFaults(PopAtTailLink(r))
<1> DEFINE h == r.head
           t == r.prev[h]
<1>1. h # NULL /\ h \in r.live /\ h \in Node /\ t \in r.live /\ t \in Node
  BY SizeIsHead, RingFields DEF RingOK, Linked
<1>2. t # h /\ r.size # 1
  BY <1>1, NoSelfLoop
<1>3. Unlink(r, t).head = h /\ Unlink(r, t).size = r.size - 1
      /\ Unlink(r, t).prev \in [Node -> Node \cup {NULL}]
  BY <1>1, <1>2, UnlinkSound, RingFields DEF Unlink
<1>4. /\ PopAtTailLink(r).head = h
      /\ PopAtTailLink(r).size = r.size - 1
      /\ PopAtTailLink(r).prev[h] = NULL
  BY <1>1, <1>2, <1>3 DEF PopAtTailLink, Unlink
<1> QED
  BY <1>1, <1>4, RingFields DEF PushFaults
=============================================================================
