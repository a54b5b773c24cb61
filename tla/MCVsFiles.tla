------------------------------ MODULE MCVsFiles ------------------------------
EXTENDS VsFiles, TLC
CONSTANTS w1, w2, w3
MCWords == {w1, w2, w3}
Symmetry == Permutations(MCWords)    \* the words differ by nothing but their names
==============================================================================
