------------------------- MODULE MCExplicitProducer -------------------------
(* Instance of ExplicitProducer for TLC.                                   *)
EXTENDS ExplicitProducer, TLC
CONSTANTS c1, c2, b1, b2, b3
TwoConsumers == {c1, c2}
OneConsumer == {c1}
TwoBlocks == {b1, b2}
ThreeBlocks == {b1, b2, b3}
CanAlloc == {"CanAlloc"}
CannotAlloc == {"CannotAlloc"}
MCSymmetry == Permutations(Consumers) \cup Permutations(Blocks)
=============================================================================
