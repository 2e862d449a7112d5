------------------------------- MODULE MCDynRes -------------------------------
EXTENDS DynRes, TLC

MCSymmetry == Permutations(XThreads)
=============================================================================
