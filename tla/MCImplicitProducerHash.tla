----------------------- MODULE MCImplicitProducerHash -----------------------
(* Instance of ImplicitProducerHash for TLC.                               *)
EXTENDS ImplicitProducerHash, TLC
CONSTANTS t1, t2, t3
MCThreads == {t1, t2, t3}
MCTokenNames == {"a", "b"}
Budget(tokens1, tokens2, calls1, calls2, calls3) ==
  (t1 :> [tokens |-> tokens1, calls |-> calls1] @@ t2 :> [tokens |-> tokens2, calls |-> calls2]
     @@ t3 :> [tokens |-> 0, calls |-> calls3])
(* either three threads enqueue without tokens, or two contend for tokens, *)
(* or one constructs tokens and another enqueues without one               *)
MCBudgets == {Budget(0, 0, 2, 1, 1), Budget(2, 1, 0, 0, 0), Budget(2, 0, 0, 1, 0)}
MCHashOf == (t1 :> 1 @@ t2 :> 1 @@ t3 :> 3)
=============================================================================
