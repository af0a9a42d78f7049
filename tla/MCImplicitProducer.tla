------------------------- MODULE MCImplicitProducer -------------------------
(* Instance of ImplicitProducer for TLC.                                   *)
EXTENDS ImplicitProducer, TLC
CONSTANTS c1, c2, b1, b2, b3
TwoConsumers == {c1, c2}
ThreeBlocks == {b1, b2, b3}
CanAlloc == {"CanAlloc"}
MCSymmetry == Permutations(Consumers) \cup Permutations(Blocks)
=============================================================================
