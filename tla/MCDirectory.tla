----------------------------- MODULE MCDirectory -----------------------------
\* Three names in the root and one beneath the first of them, of the same name
\* as it, which lookup also finds on a file.  Two entries to a block:
\* directories get a second block, lose the first one's entries, are removed
\* with their contents, moved and replaced.
EXTENDS Directory

CONSTANTS a, b, c

MCPath == {<<a>>, <<b>>, <<c>>, <<a, a>>}
=============================================================================
