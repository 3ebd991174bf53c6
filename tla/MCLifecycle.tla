------------------------------ MODULE MCLifecycle ------------------------------
\* A small instance of Lifecycle for TLC.
EXTENDS Lifecycle, TLC
CONSTANTS w1, w2, f1, f2
Symmetry == Permutations(Widgets) \cup Permutations(Fonts)
================================================================================
