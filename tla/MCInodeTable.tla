----------------------------- MODULE MCInodeTable -----------------------------
\* Sixteen blocks with three bits to a bitmap block and two inodes to a table
\* block: numbers cross both kinds of block, and two of the six have a bit and
\* no slot.
EXTENDS InodeTable
=============================================================================
