----------------------------- MODULE MCRingList -----------------------------
\* Five nodes, four of them in use at a time: rings of one node, of two, where
\* the head's two links meet, and longer ones, with a freed node to reuse.
\* One behaviour is the life of either list of the cache.
EXTENDS RingList

VARIABLE which   \* the list: "lru" or "gdl"

MCInit == Init /\ which \in {"lru", "gdl"}

MCNext == /\ \/ which = "lru" /\ LruNext
             \/ which = "gdl" /\ GdlNext
          /\ UNCHANGED which

MCSpec == MCInit /\ [][MCNext]_<<vars, which>>
=============================================================================
