----------------------------- MODULE MCBlockAlloc -----------------------------
\* Sixteen blocks with six bits to a bitmap block: three bitmap blocks, the
\* last one in part, so that page numbers cross both of their boundaries; six
\* pages of layout and ten to hand out, enough for one format over another.
\* Word is small enough for the free-block count to wrap.
EXTENDS BlockAlloc
=============================================================================
