-------------------------- MODULE MCConsumerTokens --------------------------
(* Instance of ConsumerTokens for TLC.                                     *)
EXTENDS ConsumerTokens, TLC
CONSTANTS c1, c2
MCConsumers == {c1, c2}
Pair(a, b) == (c1 :> a @@ c2 :> b)
(* one token next to a consumer without one; no token at all               *)
MCScenarios ==
  {Pair({"token"}, {"sweep"}), Pair({"tokenBulk"}, {}), Pair({"plain"}, {"plain"})}
(* one token used for single and for bulk calls                            *)
MixedScenarios == {Pair({"token", "tokenBulk"}, {})}
=============================================================================
