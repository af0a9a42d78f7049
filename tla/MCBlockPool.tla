---------------------------- MODULE MCBlockPool ----------------------------
(* Instance of BlockPool for TLC.                                          *)
EXTENDS BlockPool, TLC
CONSTANTS t1, t2, t3
MCThreads == {t1, t2, t3}
MCSymmetry == Permutations(MCThreads)
=============================================================================
