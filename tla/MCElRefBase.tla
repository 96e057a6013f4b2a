---------------------------- MODULE MCElRefBase ----------------------------
EXTENDS ElRefBase, TLC

\* Handles are interchangeable.
RefSymmetry == Permutations(Ref)
=============================================================================
