------------------------------ MODULE MCFileData ------------------------------
\* Two files, two words to a page, one direct block and an indirect block of
\* two entries: writes begin and end within a page, cross pages, leave holes
\* and go past the direct block; the pages run out.
EXTENDS FileData, TLC

Symmetry == Permutations(File)
=============================================================================
