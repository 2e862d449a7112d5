---------------------------- MODULE MCOutputConfig ----------------------------
EXTENDS OutputConfig, TLC

MCSymmetry == Permutations(XThreads) \cup Permutations(Sizes)
=============================================================================
