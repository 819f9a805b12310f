----------------------------- MODULE MCBlockLog -----------------------------
EXTENDS BlockLogRefinement, TLC

\* Threads differ only in name.
Symmetry == Permutations(Threads)
=============================================================================
