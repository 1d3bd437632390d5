------------------------------- MODULE MCBTree -------------------------------
\* MAX_KEYS is 4, the value the comment of config.h gives, so that a root can
\* be filled and overfilled; four hashes, so that a key can belong before,
\* among and after a full root's keys, each of them held several times.
EXTENDS BTree

VARIABLE peak   \* the most entries the directory has ever had

MCInit == Init /\ peak = 0

MCNext == /\ Next
          /\ peak' = IF Entries' > peak THEN Entries' ELSE peak

MCSpec == MCInit /\ [][MCNext]_<<vars, peak>>

\* A directory that has never had more than MAX_KEYS entries finds exactly its
\* entries and holds exactly their pages, in every order of insertions and
\* deletions and with duplicates of a hash (btr.c:269-316, 400-447, 516-587).
SmallIsExact == peak <= MaxKeys => ExactIndex
=============================================================================
