------------------------ MODULE ConsumerTokensProofs ------------------------
(***************************************************************************)
(* Proofs about ConsumerTokens, for any consumers, any number of producers *)
(* and any quota: a try_dequeue*() that returns nothing has found every    *)
(* producer empty that was on the list when it was called.                 *)
(***************************************************************************)
EXTENDS ConsumerTokens, CountingLemmas

Pcs == {"idle", "rotate", "prodCount", "place", "take", "turn", "wrap", "search", "score", "best", "sweep"}

LocType ==
  [pc : Pcs, op : Ops \cup {""}, max : Nat, count : Nat, tail : Nat, ptr : Nat, prodCount : Nat,
   best : Nat, bestSize : Nat, nonEmptyCount : Nat, checked : SUBSET Nat, known : Nat]

TokenType ==
  [initialOffset : Int, lastKnownGlobalOffset : Int, itemsConsumedFromCurrent : Nat,
   currentProducer : Nat, desiredProducer : Nat]

Ranges ==
  /\ tail \in Nat /\ producerCount \in Nat /\ tail <= producerCount /\ producerCount <= MaxProducers
  /\ size \in [Producers -> 0 .. MaxSize]
  /\ globalExplicitConsumerOffset \in 0 .. Range32 - 1 /\ nextExplicitConsumerId \in Nat
  /\ loc \in [Consumers -> LocType] /\ token \in [Consumers -> TokenType]

(* A token k is placed at producers of the list, whose tail is t.          *)
TokenOK(k, t) ==
  /\ k.desiredProducer <= t /\ k.currentProducer <= t
  /\ k.desiredProducer = Null <=> k.currentProducer = Null

(* The producers between ptr and the token's place have been checked: down *)
(* from the place to ptr, or down to the end of the list and then from the *)
(* tail on which the search goes on.                                       *)
Searched(l, k) ==
  /\ l.ptr < k.currentProducer => l.ptr + 1 .. k.currentProducer \subseteq l.checked
  /\ l.ptr >= k.currentProducer =>
       1 .. k.currentProducer \subseteq l.checked /\ l.ptr + 1 .. l.tail \subseteq l.checked

(* What a call with locals l and token k knows in its phases: as long as   *)
(* it has found nothing, the producers it has passed have been checked.    *)
Finished(l) == l.op # "" /\ l.count = 0 => 1 .. l.known \subseteq l.checked

Placing(l, t) == l.tail \in 1 .. t /\ (l.pc = "place" => l.prodCount > 0)

Wrapping(l, k) == l.count = 0 => k.currentProducer \in l.checked

Searching(l, k, t) ==
  /\ l.known <= l.tail /\ l.tail <= t /\ k.currentProducer <= l.tail /\ l.ptr \in 1 .. l.tail
  /\ l.count = 0 => Searched(l, k)

Scoring(l, t) == l.ptr <= t /\ (l.nonEmptyCount = 0 => l.ptr + 1 .. l.known \subseteq l.checked)

Sweeping(l, t) == l.ptr <= t /\ (l.count = 0 => l.ptr + 1 .. l.known \subseteq l.checked)

CallOK(l, k, t) ==
  /\ l.known <= t
  /\ l.pc # "idle" => l.max > 0
  /\ l.pc = "idle" => Finished(l)
  /\ l.pc \in {"prodCount", "place"} => Placing(l, t)
  /\ l.pc \in {"take", "turn", "wrap", "search"} => k.currentProducer # Null
  /\ l.pc = "wrap" => Wrapping(l, k)
  /\ l.pc = "search" => Searching(l, k, t)
  /\ l.pc = "score" => Scoring(l, t)
  /\ l.pc = "sweep" => Sweeping(l, t)

CallsInv == \A c \in Consumers : TokenOK(token[c], tail) /\ CallOK(loc[c], token[c], tail)

TokensInv == Ranges /\ CallsInv

-----------------------------------------------------------------------------
(* Helpers                                                                 *)

LEMMA MinOfTwo ==
  ASSUME NEW a \in Int, NEW b \in Int
  PROVE  Min({a, b}) = IF a <= b THEN a ELSE b
  BY DEF Min

LEMMA MaxOfTwo ==
  ASSUME NEW a \in Int, NEW b \in Int
  PROVE  Max({a, b}) = IF a >= b THEN a ELSE b
  BY DEF Max

(* Producers on the list are producers.                                    *)
LEMMA OnList ==
  ASSUME Ranges, NEW p \in Nat, p # Null, p <= tail
  PROVE  p \in Producers /\ size[p] \in Nat
  BY QuotaAssumption DEF Ranges, Producers, Null

(* A growing list changes nothing for a call.                              *)
LEMMA ListGrows ==
  ASSUME NEW l \in LocType, NEW k \in TokenType, NEW t \in Nat, NEW u \in Nat, t <= u
  PROVE  /\ TokenOK(k, t) => TokenOK(k, u)
         /\ CallOK(l, k, t) => CallOK(l, k, u)
  <1>1. TokenOK(k, t) => TokenOK(k, u)
    BY DEF TokenOK, TokenType
  <1>2. l.known \in Nat /\ l.tail \in Nat /\ l.ptr \in Nat
    BY DEF LocType
  <1>3. l.known <= t => l.known <= u
    BY <1>2
  <1>4. Placing(l, t) => Placing(l, u)
    BY <1>2 DEF Placing
  <1>5. Searching(l, k, t) => Searching(l, k, u)
    BY <1>2 DEF Searching
  <1>6. Scoring(l, t) => Scoring(l, u)
    BY <1>2 DEF Scoring
  <1>7. Sweeping(l, t) => Sweeping(l, u)
    BY <1>2 DEF Sweeping
  <1>8. CallOK(l, k, t) => CallOK(l, k, u)
    BY <1>3, <1>4, <1>5, <1>6, <1>7 DEF CallOK
  <1> QED
    BY <1>1, <1>8

(* What the invariant says of one consumer.                                *)
LEMMA OfConsumer ==
  ASSUME TokensInv, NEW c \in Consumers
  PROVE  /\ loc[c] \in LocType /\ token[c] \in TokenType /\ tail \in Nat
         /\ TokenOK(token[c], tail) /\ CallOK(loc[c], token[c], tail)
  BY DEF TokensInv, Ranges, CallsInv

(* A step of one consumer preserves the invariant if its call and its      *)
(* token are as they should be afterwards.                                 *)
LEMMA OneConsumer ==
  ASSUME TokensInv, NEW c \in Consumers, NEW r \in LocType, NEW q \in TokenType, UNCHANGED listVars,
         size' \in [Producers -> 0 .. MaxSize],
         globalExplicitConsumerOffset' \in 0 .. Range32 - 1, nextExplicitConsumerId' \in Nat,
         loc' = [loc EXCEPT ![c] = r], token' = [token EXCEPT ![c] = q],
         TokenOK(q, tail), CallOK(r, q, tail)
  PROVE  TokensInv'
  <1>1. tail' = tail /\ producerCount' = producerCount
    BY DEF listVars
  <1>2. loc \in [Consumers -> LocType] /\ token \in [Consumers -> TokenType]
    BY DEF TokensInv, Ranges
  <1>3. loc' \in [Consumers -> LocType] /\ token' \in [Consumers -> TokenType]
    BY <1>2
  <1>4. Ranges'
    BY <1>1, <1>3 DEF TokensInv, Ranges
  <1>5. ASSUME NEW d \in Consumers PROVE TokenOK(token'[d], tail) /\ CallOK(loc'[d], token'[d], tail)
    <2>1. CASE d = c
      <3>1. loc'[d] = r /\ token'[d] = q
        BY <1>2, <2>1
      <3> QED
        BY <3>1
    <2>2. CASE d # c
      <3>1. loc'[d] = loc[d] /\ token'[d] = token[d]
        BY <1>2, <2>2
      <3> QED
        BY <3>1, OfConsumer
    <2> QED
      BY <2>1, <2>2
  <1>6. CallsInv'
    BY <1>1, <1>5 DEF CallsInv
  <1> QED
    BY <1>4, <1>6 DEF TokensInv

(* The same for a step that leaves the queue and the token alone.          *)
LEMMA OneCall ==
  ASSUME TokensInv, NEW c \in Consumers, NEW r \in LocType, UNCHANGED listVars,
         UNCHANGED <<size, globalExplicitConsumerOffset, nextExplicitConsumerId, token>>,
         loc' = [loc EXCEPT ![c] = r], CallOK(r, token[c], tail)
  PROVE  TokensInv'
  <1>1. token[c] \in TokenType /\ TokenOK(token[c], tail)
    BY OfConsumer
  <1>2. token' = [token EXCEPT ![c] = token[c]]
    BY DEF TokensInv, Ranges
  <1>3. /\ size' \in [Producers -> 0 .. MaxSize]
        /\ globalExplicitConsumerOffset' \in 0 .. Range32 - 1 /\ nextExplicitConsumerId' \in Nat
    BY DEF TokensInv, Ranges
  <1> QED
    BY <1>1, <1>2, <1>3, OneConsumer

(* The locals a call begins and ends with.                                 *)
Locals(pc, op, max, count, ptr, checked, known) ==
  [pc |-> pc, op |-> op, max |-> max, count |-> count, tail |-> 0, ptr |-> ptr, prodCount |-> 0,
   best |-> 0, bestSize |-> 0, nonEmptyCount |-> 0, checked |-> checked, known |-> known]

LEMMA LocalsType ==
  ASSUME NEW pc \in Pcs, NEW op \in Ops \cup {""}, NEW max \in Nat, NEW count \in Nat, NEW ptr \in Nat,
         NEW checked \in SUBSET Nat, NEW known \in Nat
  PROVE  Locals(pc, op, max, count, ptr, checked, known) \in LocType
  BY DEF LocType, Locals

Returned(l, checked, count) ==
  [Rest EXCEPT !.op = l.op, !.count = count, !.checked = checked, !.known = l.known]

(* A call that returns has found something or checked all it knew of.      *)
LEMMA Returns ==
  ASSUME NEW l, l.known \in Nat, l.op \in Ops \cup {""}, NEW k, NEW q, NEW t \in Nat, CallOK(l, k, t),
         NEW checked \in SUBSET Nat, NEW count \in Nat,
         count = 0 => 1 .. l.known \subseteq checked
  PROVE  Returned(l, checked, count) \in LocType /\ CallOK(Returned(l, checked, count), q, t)
  <1> PICK r : r = Returned(l, checked, count)
    OBVIOUS
  <1>2. l.known <= t
    BY DEF CallOK
  <1>3. r \in LocType
    <2>1. r = Locals("idle", l.op, 0, count, 0, checked, l.known)
      BY DEF Returned, Rest, Null, Locals
    <2> QED
      <3>1. "idle" \in Pcs /\ 0 \in Nat
        BY DEF Pcs
      <3>2. Locals("idle", l.op, 0, count, 0, checked, l.known) \in LocType
        BY <3>1, LocalsType
      <3> QED
        BY <2>1, <3>2, Zenon
  <1>4. r.pc = "idle" /\ r.count = count /\ r.checked = checked /\ r.known = l.known
    BY DEF Returned, Rest
  <1>5. Finished(r)
    BY <1>4 DEF Finished
  <1> QED
    BY <1>2, <1>3, <1>4, <1>5 DEF CallOK

(* k steps along the list end at a producer of it.                         *)
LEMMA WalkStays ==
  ASSUME NEW t \in Nat, NEW u \in Nat, NEW p \in 1 .. u, t # 0, t <= u, NEW k \in Nat
  PROVE  Walk(p, k, t) \in 1 .. u
  <1> DEFINE f[i \in 0 .. k] == IF i = 0 THEN p ELSE Wrapped(NextProd(f[i - 1]), t)
  <1>1. Walk(p, k, t) = f[k]
    BY DEF Walk
  <1>2. f = [i \in 0 .. k |-> IF i = 0 THEN p ELSE Wrapped(NextProd(f[i - 1]), t)]
    BY SMTT(60) DEF f
  <1> HIDE DEF f
  <1>3. f[0] \in 1 .. u
    BY <1>2
  <1>4. ASSUME NEW i \in 1 .. k, f[i - 1] \in 1 .. u PROVE f[i] \in 1 .. u
    <2>1. f[i] = Wrapped(NextProd(f[i - 1]), t)
      BY <1>2, <1>4
    <2> QED
      BY <1>4, <2>1 DEF Wrapped, NextProd, Null
  <1> DEFINE T == {i \in 0 .. k : f[i] \notin 1 .. u}
  <1>5. ASSUME T # {} PROVE FALSE
    <2>1. T \subseteq Nat
      OBVIOUS
    <2>2. PICK m \in T : \A j \in T : m <= j
      <3> HIDE DEF T
      <3> QED
        BY <1>5, <2>1, LeastNumber
    <2>3. m \in 1 .. k /\ m - 1 \in 0 .. k
      BY <1>3, <2>2
    <2>4. m - 1 \notin T
      BY <2>2, <2>3
    <2> QED
      BY <1>4, <2>2, <2>3, <2>4
  <1> QED
    BY <1>1, <1>5

-----------------------------------------------------------------------------
(* The steps                                                               *)

LEMMA StepCountProducer == TokensInv /\ CountProducer => TokensInv'
  <1> SUFFICES ASSUME TokensInv, CountProducer PROVE TokensInv'
    OBVIOUS
  <1>1. Ranges'
    BY QuotaAssumption DEF TokensInv, Ranges, CountProducer
  <1>2. CallsInv'
    BY DEF TokensInv, CallsInv, CountProducer
  <1> QED
    BY <1>1, <1>2 DEF TokensInv

LEMMA StepPushProducer == TokensInv /\ PushProducer => TokensInv'
  <1> SUFFICES ASSUME TokensInv, PushProducer PROVE TokensInv'
    OBVIOUS
  <1>1. Ranges'
    BY QuotaAssumption DEF TokensInv, Ranges, PushProducer
  <1>2. tail' \in Nat /\ tail <= tail' /\ loc' = loc /\ token' = token
    BY DEF TokensInv, Ranges, PushProducer
  <1>3. ASSUME NEW c \in Consumers PROVE TokenOK(token[c], tail') /\ CallOK(loc[c], token[c], tail')
    BY <1>2, OfConsumer, ListGrows
  <1>4. CallsInv'
    BY <1>2, <1>3 DEF CallsInv
  <1> QED
    BY <1>1, <1>4 DEF TokensInv

LEMMA StepEnqueue == ASSUME NEW p \in Producers PROVE TokensInv /\ Enqueue(p) => TokensInv'
  <1> SUFFICES ASSUME TokensInv, Enqueue(p) PROVE TokensInv'
    OBVIOUS
  <1>1. size' \in [Producers -> 0 .. MaxSize]
    BY QuotaAssumption DEF TokensInv, Ranges, Enqueue
  <1>2. Ranges'
    BY <1>1 DEF TokensInv, Ranges, Enqueue, listVars
  <1>3. CallsInv'
    BY DEF TokensInv, CallsInv, Enqueue, listVars
  <1> QED
    BY <1>2, <1>3 DEF TokensInv

LEMMA StepConstructToken == ASSUME NEW c \in Consumers PROVE TokensInv /\ ConstructToken(c) => TokensInv'
  <1> SUFFICES ASSUME TokensInv, ConstructToken(c) PROVE TokensInv'
    OBVIOUS
  <1> PICK k : k = token[c]
    OBVIOUS
  <1> PICK l : l = loc[c]
    OBVIOUS
  <1> PICK q : q = [k EXCEPT !.initialOffset = nextExplicitConsumerId]
    OBVIOUS
  <1>1. k \in TokenType /\ l \in LocType /\ TokenOK(k, tail) /\ CallOK(l, k, tail) /\ nextExplicitConsumerId \in Nat
    BY OfConsumer DEF TokensInv, Ranges
  <1>2. q \in TokenType /\ q.currentProducer = k.currentProducer /\ q.desiredProducer = k.desiredProducer
    BY <1>1 DEF TokenType
  <1>3. token' = [token EXCEPT ![c] = q] /\ loc' = [loc EXCEPT ![c] = l]
    BY DEF ConstructToken, TokensInv, Ranges
  <1>4. TokenOK(q, tail)
    BY <1>1, <1>2 DEF TokenOK
  <1>5. l.pc = "idle"
    BY DEF ConstructToken
  <1>6. CallOK(l, q, tail)
    BY <1>1, <1>5 DEF CallOK
  <1>7. /\ UNCHANGED listVars /\ size' \in [Producers -> 0 .. MaxSize]
        /\ globalExplicitConsumerOffset' \in 0 .. Range32 - 1 /\ nextExplicitConsumerId' \in Nat
    BY DEF ConstructToken, TokensInv, Ranges
  <1> QED
    BY <1>1, <1>2, <1>3, <1>4, <1>6, <1>7, OneConsumer

(* A call begins with nothing checked, at the tail if it has no token.     *)
LEMMA StepBegin ==
  ASSUME NEW c \in Consumers, NEW op \in Ops, NEW max \in Maxes \cup {1}
  PROVE  TokensInv /\ Begin(c, op, max) => TokensInv'
  <1> SUFFICES ASSUME TokensInv, Begin(c, op, max) PROVE TokensInv'
    OBVIOUS
  <1> PICK k : k = token[c]
    OBVIOUS
  <1> PICK pc : pc = CASE op = "plain" -> "score" [] op = "sweep" -> "sweep"
                       [] k.desiredProducer = Null \/ k.lastKnownGlobalOffset # globalExplicitConsumerOffset -> "rotate"
                       [] OTHER -> "take"
    OBVIOUS
  <1> PICK ptr : ptr = IF op \in {"plain", "sweep"} THEN tail ELSE Null
    OBVIOUS
  <1> PICK r : r = [Rest EXCEPT !.op = op, !.max = max, !.known = tail, !.pc = pc, !.ptr = ptr]
    OBVIOUS
  <1>1. k \in TokenType /\ tail \in Nat /\ TokenOK(k, tail)
    BY OfConsumer
  <1>2. max \in Nat /\ max > 0 /\ ptr \in Nat
    <2>1. max \in Nat /\ max > 0
      BY ScenarioAssumption
    <2>2. ptr \in Nat
      BY <1>1 DEF Null
    <2> QED
      BY <2>1, <2>2
  <1>3. /\ pc \in {"score", "sweep", "rotate", "take"}
        /\ pc = "take" => k.desiredProducer # Null
        /\ pc \in {"score", "sweep"} => ptr = tail
    BY DEF Ops, TokenOps
  <1>4. r = Locals(pc, op, max, 0, ptr, {}, tail)
    BY DEF Rest, Null, Locals
  <1>5. r \in LocType
    <2>1. pc \in Pcs
      BY <1>3 DEF Pcs
    <2>2. {} \in SUBSET Nat /\ 0 \in Nat /\ op \in Ops \cup {""}
      OBVIOUS
    <2>3. Locals(pc, op, max, 0, ptr, {}, tail) \in LocType
      BY <1>1, <1>2, <2>1, <2>2, LocalsType
    <2> QED
      BY <1>4, <2>3, Zenon
  <1>6. r.pc = pc /\ r.max = max /\ r.known = tail /\ r.ptr = ptr
    BY <1>4 DEF Locals
  <1>7. r.pc = "take" => k.currentProducer # Null
    BY <1>1, <1>3, <1>6 DEF TokenOK
  <1>8. r.pc \in {"score", "sweep"} => r.ptr <= tail /\ r.ptr + 1 .. r.known = {}
    BY <1>1, <1>3, <1>6
  <1>9. CallOK(r, k, tail)
    BY <1>1, <1>2, <1>3, <1>6, <1>7, <1>8 DEF CallOK, Scoring, Sweeping
  <1>10. loc' = [loc EXCEPT ![c] = r]
    BY DEF Begin
  <1>11. UNCHANGED listVars /\ UNCHANGED <<size, globalExplicitConsumerOffset, nextExplicitConsumerId, token>>
    BY DEF Begin
  <1> QED
    BY <1>5, <1>9, <1>10, <1>11, OneCall

(* A call that returns, as a step of its consumer.                         *)
LEMMA ReturnStep ==
  ASSUME TokensInv, NEW c \in Consumers, NEW q, NEW checked \in SUBSET Nat, NEW count \in Nat,
         count = 0 => 1 .. loc[c].known \subseteq checked, Return(c, checked, count)
  PROVE  \E r \in LocType : loc' = [loc EXCEPT ![c] = r] /\ CallOK(r, q, tail)
  <1> PICK l : l = loc[c]
    OBVIOUS
  <1> PICK r : r = Returned(l, checked, count)
    OBVIOUS
  <1>1. l \in LocType /\ tail \in Nat /\ CallOK(l, token[c], tail)
    BY OfConsumer
  <1>2. l.known \in Nat /\ l.op \in Ops \cup {""}
    BY <1>1 DEF LocType
  <1>3. r \in LocType /\ CallOK(r, q, tail)
    BY <1>1, <1>2, Returns
  <1>4. loc' = [loc EXCEPT ![c] = r]
    BY DEF Return, Returned
  <1> QED
    BY <1>3, <1>4

(* Nothing is known at the tail: a call that has checked nothing returns   *)
(* only if there was no producer.                                          *)
LEMMA StepRotate == ASSUME NEW c \in Consumers PROVE TokensInv /\ Rotate(c) => TokensInv'
  <1> SUFFICES ASSUME TokensInv, Rotate(c) PROVE TokensInv'
    OBVIOUS
  <1> PICK l : l = loc[c]
    OBVIOUS
  <1>1. /\ l \in LocType /\ token[c] \in TokenType /\ tail \in Nat
        /\ TokenOK(token[c], tail) /\ CallOK(l, token[c], tail)
    BY OfConsumer
  <1>2. UNCHANGED listVars /\ UNCHANGED <<size, globalExplicitConsumerOffset, nextExplicitConsumerId, token>>
    BY DEF Rotate
  <1>3. l.pc = "rotate" /\ l.known \in Nat /\ l.known <= tail /\ l.max > 0
    BY <1>1 DEF Rotate, CallOK, LocType
  <1>4. CASE tail = Null /\ Return(c, {}, 0)
    <2>1. 1 .. l.known \subseteq {}
      BY <1>3, <1>4 DEF Null
    <2>2. {} \in SUBSET Nat /\ 0 \in Nat
      OBVIOUS
    <2>3. PICK r \in LocType : loc' = [loc EXCEPT ![c] = r] /\ CallOK(r, token[c], tail)
      BY <1>4, <2>1, <2>2, ReturnStep
    <2> QED
      BY <1>2, <2>3, OneCall
  <1>5. CASE /\ token[c].desiredProducer # Null \/ tail # Null
             /\ loc' = [loc EXCEPT ![c].tail = tail, ![c].pc = "prodCount"]
    <2> PICK r : r = [l EXCEPT !.tail = tail, !.pc = "prodCount"]
      OBVIOUS
    <2>1. r \in LocType /\ r.pc = "prodCount" /\ r.tail = tail /\ r.known = l.known /\ r.max = l.max
      BY <1>1 DEF LocType, Pcs
    <2>2. loc' = [loc EXCEPT ![c] = r]
      BY <1>5 DEF TokensInv, Ranges
    <2>3. tail \in 1 .. tail
      <3>1. token[c].desiredProducer \in Nat /\ token[c].desiredProducer <= tail
        BY <1>1 DEF TokenOK, TokenType
      <3> QED
        BY <1>1, <1>5, <3>1 DEF Null
    <2>4. CallOK(r, token[c], tail)
      BY <1>3, <2>1, <2>3 DEF CallOK, Placing
    <2> QED
      BY <1>2, <2>1, <2>2, <2>4, OneCall
  <1> QED
    BY <1>4, <1>5 DEF Rotate

LEMMA StepLoadCount == ASSUME NEW c \in Consumers PROVE TokensInv /\ LoadCount(c) => TokensInv'
  <1> SUFFICES ASSUME TokensInv, LoadCount(c) PROVE TokensInv'
    OBVIOUS
  <1> PICK l : l = loc[c]
    OBVIOUS
  <1> PICK r : r = [l EXCEPT !.prodCount = producerCount, !.pc = "place"]
    OBVIOUS
  <1>1. l \in LocType /\ tail \in Nat /\ CallOK(l, token[c], tail)
    BY OfConsumer
  <1>2. producerCount \in Nat /\ tail <= producerCount
    BY DEF TokensInv, Ranges
  <1>3. l.pc = "prodCount" /\ l.known <= tail /\ l.max > 0 /\ l.tail \in 1 .. tail
    BY <1>1 DEF LoadCount, CallOK, Placing
  <1>4. /\ r \in LocType /\ r.pc = "place" /\ r.tail = l.tail /\ r.known = l.known /\ r.max = l.max
        /\ r.prodCount = producerCount
    BY <1>1, <1>2 DEF LocType, Pcs
  <1>5. loc' = [loc EXCEPT ![c] = r]
    BY DEF LoadCount, TokensInv, Ranges
  <1>6. producerCount > 0
    BY <1>1, <1>2, <1>3
  <1>7. CallOK(r, token[c], tail)
    BY <1>3, <1>4, <1>6 DEF CallOK, Placing
  <1>8. UNCHANGED listVars /\ UNCHANGED <<size, globalExplicitConsumerOffset, nextExplicitConsumerId, token>>
    BY DEF LoadCount
  <1> QED
    BY <1>4, <1>5, <1>7, <1>8, OneCall

(* The place counted out for a token is on the list.                       *)
LEMMA DesignatedOnList ==
  ASSUME TokensInv, NEW c \in Consumers, loc[c].pc = "place"
  PROVE  Designated(c) \in 1 .. tail
  <1>1. /\ loc[c] \in LocType /\ token[c] \in TokenType /\ tail \in Nat
        /\ TokenOK(token[c], tail) /\ CallOK(loc[c], token[c], tail)
    BY OfConsumer
  <1>2. PICK n : n = loc[c].prodCount
    OBVIOUS
  <1>3. PICK t : t = loc[c].tail
    OBVIOUS
  <1>4. PICK i : i = token[c].initialOffset
    OBVIOUS
  <1>5. PICK d : d = token[c].desiredProducer
    OBVIOUS
  <1>6. PICK delta : delta = (globalExplicitConsumerOffset - token[c].lastKnownGlobalOffset) % Range32
    OBVIOUS
  <1>7. i \in Int /\ d \in Nat /\ d <= tail
    BY <1>1, <1>4, <1>5 DEF TokenType, TokenOK
  <1>8. n \in Nat /\ n > 0 /\ t \in Nat /\ t \in 1 .. tail /\ t # 0 /\ t <= tail
    <2>1. Placing(loc[c], tail)
      BY <1>1 DEF CallOK
    <2>2. n > 0 /\ t \in 1 .. tail
      BY <1>2, <1>3, <2>1 DEF Placing
    <2>3. n \in Nat /\ t \in Nat
      BY <1>1, <1>2, <1>3 DEF LocType
    <2> QED
      BY <1>1, <2>2, <2>3
  <1>9. delta \in Nat
    <2>1. PICK e : e = globalExplicitConsumerOffset - token[c].lastKnownGlobalOffset
      OBVIOUS
    <2>2. e \in Int
      BY <1>1, <2>1, QuotaAssumption DEF TokensInv, Ranges, TokenType
    <2>3. (e % Range32) \in Nat
      BY <2>2, QuotaAssumption
    <2> QED
      BY <1>6, <2>1, <2>3
  <1>10. PICK first : first = n - 1 - (i % n)
    OBVIOUS
  <1>11. first \in Nat
    <2>1. (i % n) \in 0 .. n - 1
      BY <1>7, <1>8
    <2> QED
      BY <1>8, <1>10, <2>1
  <1>12. PICK steps : steps = IF delta >= n THEN delta % n ELSE delta
    OBVIOUS
  <1>13. steps \in Nat
    BY <1>8, <1>9, <1>12
  <1>14. Walk(t, first, t) \in 1 .. tail
    BY <1>1, <1>8, <1>11, WalkStays
  <1>15. PICK start : start = IF d = Null THEN Walk(t, first, t) ELSE d
    OBVIOUS
  <1>16. start \in 1 .. tail
    BY <1>7, <1>14, <1>15 DEF Null
  <1>17. Walk(start, steps, t) \in 1 .. tail
    BY <1>1, <1>8, <1>13, <1>16, WalkStays
  <1>18. Designated(c) = Walk(start, steps, t)
    BY <1>2, <1>3, <1>4, <1>5, <1>6, <1>10, <1>12, <1>15 DEF Designated
  <1> QED
    BY <1>17, <1>18

LEMMA StepPlace == ASSUME NEW c \in Consumers PROVE TokensInv /\ Place(c) => TokensInv'
  <1> SUFFICES ASSUME TokensInv, Place(c) PROVE TokensInv'
    OBVIOUS
  <1> PICK l : l = loc[c]
    OBVIOUS
  <1> PICK k : k = token[c]
    OBVIOUS
  <1> PICK p : p = Designated(c)
    OBVIOUS
  <1> PICK r : r = [l EXCEPT !.pc = "take"]
    OBVIOUS
  <1> PICK q : q = [k EXCEPT !.lastKnownGlobalOffset = globalExplicitConsumerOffset, !.desiredProducer = p,
                             !.currentProducer = p, !.itemsConsumedFromCurrent = 0]
    OBVIOUS
  <1>1. l \in LocType /\ k \in TokenType /\ tail \in Nat /\ CallOK(l, k, tail)
    BY OfConsumer
  <1>2. l.pc = "place" /\ l.known <= tail /\ l.max > 0
    BY <1>1 DEF Place, CallOK
  <1>3. p \in 1 .. tail
    BY <1>2, DesignatedOnList
  <1>4. globalExplicitConsumerOffset \in Int /\ p \in Nat
    BY <1>3 DEF TokensInv, Ranges
  <1>5. q \in TokenType /\ q.desiredProducer = p /\ q.currentProducer = p
    BY <1>1, <1>4 DEF TokenType
  <1>6. r \in LocType /\ r.pc = "take" /\ r.known = l.known /\ r.max = l.max
    BY <1>1 DEF LocType, Pcs
  <1>7. token' = [token EXCEPT ![c] = q]
    BY DEF Place, TokensInv, Ranges
  <1>8. loc' = [loc EXCEPT ![c] = r]
    BY DEF Place, Goto, TokensInv, Ranges
  <1>9. TokenOK(q, tail) /\ CallOK(r, q, tail)
    BY <1>1, <1>2, <1>3, <1>5, <1>6 DEF TokenOK, CallOK, Null
  <1>10. /\ UNCHANGED listVars /\ size' \in [Producers -> 0 .. MaxSize]
         /\ globalExplicitConsumerOffset' \in 0 .. Range32 - 1 /\ nextExplicitConsumerId' \in Nat
    BY DEF Place, TokensInv, Ranges
  <1> QED
    BY <1>5, <1>6, <1>7, <1>8, <1>9, <1>10, OneConsumer

(* What is taken of a producer is there.                                   *)
LEMMA TakesOf ==
  ASSUME TokensInv, NEW p \in Nat, p # Null, p <= tail, NEW m \in Nat
  PROVE  \A n \in Takes(p, m) : n \in Nat /\ n <= size[p] /\ n <= m
  <1>1. size[p] \in Nat
    BY OnList DEF TokensInv
  <1>2. Takes(p, m) = 0 .. IF size[p] <= m THEN size[p] ELSE m
    BY <1>1, MinOfTwo DEF Takes
  <1> QED
    BY <1>1, <1>2

LEMMA TakenSize ==
  ASSUME TokensInv, NEW c \in Consumers, NEW p, NEW n \in Nat, p \in Producers => n <= size[p], Taken(c, p, n)
  PROVE  size' \in [Producers -> 0 .. MaxSize]
  <1>1. size \in [Producers -> 0 .. MaxSize]
    BY DEF TokensInv, Ranges
  <1>2. p \in Producers => size[p] - n \in 0 .. MaxSize
    BY <1>1, QuotaAssumption
  <1>3. size' = [size EXCEPT ![p] = size[p] - n]
    BY DEF Taken
  <1> QED
    BY <1>1, <1>2, <1>3

LEMMA StepTake == ASSUME NEW c \in Consumers PROVE TokensInv /\ Take(c) => TokensInv'
  <1> SUFFICES ASSUME TokensInv, Take(c) PROVE TokensInv'
    OBVIOUS
  <1>1. PICK l : l = loc[c]
    OBVIOUS
  <1>2. PICK k : k = token[c]
    OBVIOUS
  <1>3. l \in LocType /\ k \in TokenType /\ tail \in Nat /\ TokenOK(k, tail) /\ CallOK(l, k, tail)
    BY <1>1, <1>2, OfConsumer
  <1>4. PICK p : p = k.currentProducer
    OBVIOUS
  <1>5. PICK n \in Takes(p, l.max) :
          /\ Taken(c, p, n)
          /\ token' = [token EXCEPT ![c].itemsConsumedFromCurrent = Min({k.itemsConsumedFromCurrent + n, QUOTA + 1})]
          /\ \/ Goto(c, "turn")
             \/ n = l.max /\ Return(c, {}, n)
             \/ /\ n < l.max
                /\ loc' = [loc EXCEPT ![c].pc = "wrap", ![c].max = @ - n, ![c].count = n, ![c].checked = {p}]
    BY <1>1, <1>2, <1>4 DEF Take
  <1>6. PICK items : items = Min({k.itemsConsumedFromCurrent + n, QUOTA + 1})
    OBVIOUS
  <1>7. PICK q : q = [k EXCEPT !.itemsConsumedFromCurrent = items]
    OBVIOUS
  <1>8. l.pc = "take"
    BY <1>1 DEF Take
  <1>9. l.max \in Nat /\ l.max > 0 /\ l.known \in Nat /\ l.known <= tail
    BY <1>3, <1>8 DEF CallOK, LocType
  <1>10. p \in Nat /\ p # Null /\ p <= tail
    BY <1>3, <1>4, <1>8 DEF CallOK, TokenOK, TokenType
  <1>11. n \in Nat /\ n <= size[p] /\ n <= l.max
    BY <1>5, <1>9, <1>10, TakesOf
  <1>12. items \in Nat
    <2>1. k.itemsConsumedFromCurrent + n \in Int /\ k.itemsConsumedFromCurrent + n >= 0 /\ QUOTA + 1 \in Nat
      BY <1>3, <1>11, QuotaAssumption DEF TokenType
    <2> QED
      BY <1>6, <2>1, MinOfTwo
  <1>13. q \in TokenType /\ q.currentProducer = p /\ q.desiredProducer = k.desiredProducer
    BY <1>3, <1>4, <1>7, <1>12 DEF TokenType
  <1>14. TokenOK(q, tail)
    BY <1>3, <1>4, <1>13 DEF TokenOK
  <1>15. token' = [token EXCEPT ![c] = q] /\ Taken(c, p, n)
    BY <1>2, <1>5, <1>6, <1>7 DEF TokensInv, Ranges
  <1>16. size' \in [Producers -> 0 .. MaxSize]
    BY <1>11, <1>15, TakenSize
  <1>17. /\ UNCHANGED listVars
         /\ globalExplicitConsumerOffset' \in 0 .. Range32 - 1 /\ nextExplicitConsumerId' \in Nat
    BY DEF Take, TokensInv, Ranges
  <1>18. \E r \in LocType : loc' = [loc EXCEPT ![c] = r] /\ CallOK(r, q, tail)
    <2>1. CASE Goto(c, "turn")
      <3>1. PICK r : r = [l EXCEPT !.pc = "turn"]
        OBVIOUS
      <3>2. r \in LocType /\ r.pc = "turn" /\ r.known = l.known /\ r.max = l.max
        BY <1>3, <3>1 DEF LocType, Pcs
      <3>3. loc' = [loc EXCEPT ![c] = r]
        BY <1>1, <2>1, <3>1 DEF Goto, TokensInv, Ranges
      <3>4. CallOK(r, q, tail)
        BY <1>9, <1>10, <1>13, <3>2 DEF CallOK
      <3> QED
        BY <3>2, <3>3, <3>4
    <2>2. CASE n = l.max /\ Return(c, {}, n)
      <3>1. {} \in SUBSET Nat /\ n # 0
        BY <1>9, <2>2
      <3> QED
        BY <1>11, <2>2, <3>1, ReturnStep
    <2>3. CASE /\ n < l.max
               /\ loc' = [loc EXCEPT ![c].pc = "wrap", ![c].max = @ - n, ![c].count = n, ![c].checked = {p}]
      <3>1. PICK r : r = [l EXCEPT !.pc = "wrap", !.max = l.max - n, !.count = n, !.checked = {p}]
        OBVIOUS
      <3>2. l.max - n \in Nat /\ l.max - n > 0 /\ {p} \in SUBSET Nat
        BY <1>9, <1>10, <1>11, <2>3
      <3>3. r \in LocType
        BY <1>3, <1>11, <3>1, <3>2 DEF LocType, Pcs
      <3>4. r.pc = "wrap" /\ r.known = l.known /\ r.max = l.max - n /\ r.checked = {p}
        BY <1>3, <3>1 DEF LocType
      <3>5. loc' = [loc EXCEPT ![c] = r]
        BY <1>1, <2>3, <3>1 DEF TokensInv, Ranges
      <3>6. CallOK(r, q, tail)
        BY <1>9, <1>10, <1>13, <3>2, <3>4 DEF CallOK, Wrapping
      <3> QED
        BY <3>3, <3>5, <3>6
    <2> QED
      BY <1>5, <2>1, <2>2, <2>3
  <1> QED
    BY <1>13, <1>14, <1>15, <1>16, <1>17, <1>18, OneConsumer

LEMMA StepTurn == ASSUME NEW c \in Consumers PROVE TokensInv /\ Turn(c) => TokensInv'
  <1> SUFFICES ASSUME TokensInv, Turn(c) PROVE TokensInv'
    OBVIOUS
  <1>1. /\ loc[c] \in LocType /\ token[c] \in TokenType /\ tail \in Nat
        /\ TokenOK(token[c], tail) /\ CallOK(loc[c], token[c], tail)
    BY OfConsumer
  <1>2. loc[c].pc = "turn" /\ loc[c].max \in Nat /\ loc[c].max # 0 /\ {} \in SUBSET Nat
    <2>1. loc[c].pc = "turn"
      BY DEF Turn
    <2>2. loc[c].max > 0
      BY <1>1, <2>1 DEF CallOK
    <2>3. loc[c].max \in Nat
      BY <1>1 DEF LocType
    <2> QED
      BY <2>1, <2>2, <2>3
  <1>3. Return(c, {}, loc[c].max)
    BY DEF Turn
  <1>4. PICK r \in LocType : loc' = [loc EXCEPT ![c] = r] /\ CallOK(r, token[c], tail)
    BY <1>2, <1>3, ReturnStep
  <1>5. token' = [token EXCEPT ![c] = token[c]]
    BY DEF Turn, TokensInv, Ranges
  <1>6. globalExplicitConsumerOffset' \in 0 .. Range32 - 1
    <2>1. globalExplicitConsumerOffset + 1 \in Int
      BY QuotaAssumption DEF TokensInv, Ranges
    <2>2. ((globalExplicitConsumerOffset + 1) % Range32) \in 0 .. Range32 - 1
      BY <2>1, QuotaAssumption
    <2> QED
      BY <2>2 DEF Turn
  <1>7. UNCHANGED listVars /\ size' \in [Producers -> 0 .. MaxSize] /\ nextExplicitConsumerId' \in Nat
    BY DEF Turn, TokensInv, Ranges
  <1> QED
    BY <1>1, <1>4, <1>5, <1>6, <1>7, OneConsumer

(* The search begins below the token's place, which has been checked.      *)
LEMMA StepWrap == ASSUME NEW c \in Consumers PROVE TokensInv /\ Wrap(c) => TokensInv'
  <1> SUFFICES ASSUME TokensInv, Wrap(c) PROVE TokensInv'
    OBVIOUS
  <1>1. PICK l : l = loc[c]
    OBVIOUS
  <1>2. PICK k : k = token[c]
    OBVIOUS
  <1>3. l \in LocType /\ k \in TokenType /\ tail \in Nat /\ TokenOK(k, tail) /\ CallOK(l, k, tail)
    BY <1>1, <1>2, OfConsumer
  <1>4. PICK p : p = k.currentProducer
    OBVIOUS
  <1>5. PICK ptr : ptr = Wrapped(NextProd(p), tail)
    OBVIOUS
  <1>6. PICK r : r = [l EXCEPT !.pc = "search", !.tail = tail, !.ptr = ptr]
    OBVIOUS
  <1>7. l.pc = "wrap"
    BY <1>1 DEF Wrap
  <1>8. l.max > 0 /\ l.known \in Nat /\ l.known <= tail /\ (l.count = 0 => p \in l.checked)
    BY <1>3, <1>4, <1>7 DEF CallOK, LocType, Wrapping
  <1>9. p \in Nat /\ p # 0 /\ p <= tail
    BY <1>3, <1>4, <1>7 DEF CallOK, TokenOK, TokenType, Null
  <1>10. ptr \in 1 .. tail /\ ptr = IF p = 1 THEN tail ELSE p - 1
    BY <1>3, <1>5, <1>9 DEF Wrapped, NextProd, Null
  <1>11. r \in LocType
    <2>1. ptr \in Nat
      BY <1>3, <1>10
    <2> QED
      BY <1>3, <1>6, <2>1 DEF LocType, Pcs
  <1>12. /\ r.pc = "search" /\ r.known = l.known /\ r.max = l.max /\ r.tail = tail /\ r.ptr = ptr
         /\ r.checked = l.checked /\ r.count = l.count
    BY <1>3, <1>6 DEF LocType
  <1>13. r.count = 0 => Searched(r, k)
    <2>1. p \in l.checked => /\ ptr < p => ptr + 1 .. p \subseteq l.checked
                             /\ ptr >= p => 1 .. p \subseteq l.checked /\ ptr + 1 .. tail \subseteq l.checked
      BY <1>3, <1>9, <1>10
    <2> QED
      BY <1>4, <1>8, <1>12, <2>1 DEF Searched
  <1>14. Searching(r, k, tail)
    BY <1>3, <1>4, <1>8, <1>9, <1>10, <1>12, <1>13 DEF Searching
  <1>15. CallOK(r, k, tail)
    BY <1>4, <1>8, <1>9, <1>12, <1>14 DEF CallOK, Null
  <1>16. loc' = [loc EXCEPT ![c] = r]
    BY <1>1, <1>2, <1>4, <1>5, <1>6 DEF Wrap, TokensInv, Ranges
  <1>17. UNCHANGED listVars /\ UNCHANGED <<size, globalExplicitConsumerOffset, nextExplicitConsumerId, token>>
    BY DEF Wrap
  <1> QED
    BY <1>2, <1>11, <1>15, <1>16, <1>17, OneCall

(* One turn of the search: the producer looked at has been checked too.    *)
LEMMA SearchGoesOn ==
  ASSUME NEW t \in Nat, NEW p \in 1 .. t, NEW place \in 1 .. t, p # place, NEW checked,
         NEW ptr, ptr = Wrapped(NextProd(p), t),
         p < place => p + 1 .. place \subseteq checked,
         p >= place => 1 .. place \subseteq checked /\ p + 1 .. t \subseteq checked
  PROVE  /\ ptr \in 1 .. t
         /\ ptr < place => ptr + 1 .. place \subseteq checked \cup {p}
         /\ ptr >= place => 1 .. place \subseteq checked \cup {p} /\ ptr + 1 .. t \subseteq checked \cup {p}
  <1>1. ptr = IF p = 1 THEN t ELSE p - 1
    BY DEF Wrapped, NextProd, Null
  <1>2. CASE p = 1
    BY <1>1, <1>2
  <1>3. CASE p # 1 /\ p < place
    BY <1>1, <1>3
  <1>4. CASE p # 1 /\ p > place
    BY <1>1, <1>4
  <1> QED
    BY <1>2, <1>3, <1>4

LEMMA StepSearch == ASSUME NEW c \in Consumers PROVE TokensInv /\ Search(c) => TokensInv'
  <1> SUFFICES ASSUME TokensInv, Search(c) PROVE TokensInv'
    OBVIOUS
  <1>1. PICK l : l = loc[c]
    OBVIOUS
  <1>2. PICK k : k = token[c]
    OBVIOUS
  <1>3. l \in LocType /\ k \in TokenType /\ tail \in Nat /\ TokenOK(k, tail) /\ CallOK(l, k, tail)
    BY <1>1, <1>2, OfConsumer
  <1>4. PICK p : p = l.ptr
    OBVIOUS
  <1>5. PICK place : place = k.currentProducer
    OBVIOUS
  <1>6. PICK ptr : ptr = Wrapped(NextProd(p), l.tail)
    OBVIOUS
  <1>7. l.pc = "search"
    BY <1>1 DEF Search
  <1>8. /\ l.max \in Nat /\ l.known \in Nat /\ l.count \in Nat /\ l.tail \in Nat /\ p \in Nat
        /\ place \in Nat /\ l.checked \in SUBSET Nat
    BY <1>3, <1>4, <1>5 DEF LocType, TokenType
  <1>9. l.max > 0 /\ l.known <= tail /\ place # 0 /\ Searching(l, k, tail)
    BY <1>3, <1>5, <1>7 DEF CallOK, Null
  <1>10. /\ l.known <= l.tail /\ l.tail <= tail /\ place \in 1 .. l.tail /\ p \in 1 .. l.tail
         /\ l.count = 0 => /\ p < place => p + 1 .. place \subseteq l.checked
                           /\ p >= place => 1 .. place \subseteq l.checked /\ p + 1 .. l.tail \subseteq l.checked
    BY <1>4, <1>5, <1>8, <1>9 DEF Searching, Searched
  <1>11. p # Null /\ p <= tail
    BY <1>3, <1>8, <1>10 DEF Null
  <1>12. /\ UNCHANGED listVars
         /\ globalExplicitConsumerOffset' \in 0 .. Range32 - 1 /\ nextExplicitConsumerId' \in Nat
    BY DEF Search, TokensInv, Ranges
  <1>13. CASE p = place /\ Return(c, l.checked, l.count) /\ UNCHANGED <<size, token, taken>>
    <2>1. l.count = 0 => 1 .. l.known \subseteq l.checked
      BY <1>8, <1>10, <1>13
    <2>2. PICK r \in LocType : loc' = [loc EXCEPT ![c] = r] /\ CallOK(r, k, tail)
      BY <1>1, <1>8, <1>13, <2>1, ReturnStep
    <2>3. UNCHANGED <<size, globalExplicitConsumerOffset, nextExplicitConsumerId, token>>
      BY <1>13 DEF Search
    <2> QED
      BY <1>2, <1>12, <2>2, <2>3, OneCall
  <1>14. ASSUME
              NEW n \in Takes(p, l.max),
              /\ p # place /\ Taken(c, p, n)
              /\ token' = IF n = 0 THEN token
                          ELSE [token EXCEPT ![c].currentProducer = p,
                                             ![c].itemsConsumedFromCurrent = Min({n, QUOTA + 1})]
              /\ \/ n = l.max /\ Return(c, {}, l.count + n)
                 \/ /\ n < l.max
                    /\ loc' = [loc EXCEPT ![c].ptr = ptr, ![c].max = @ - n,
                                          ![c].count = @ + n, ![c].checked = @ \cup {p}]
         PROVE  TokensInv'
    <2>1. n \in Nat /\ n <= size[p] /\ n <= l.max
      BY <1>8, <1>11, TakesOf
    <2>2. PICK q : q = IF n = 0 THEN k
                       ELSE [k EXCEPT !.currentProducer = p, !.itemsConsumedFromCurrent = Min({n, QUOTA + 1})]
      OBVIOUS
    <2>3. token' = [token EXCEPT ![c] = q]
      BY <1>2, <1>14, <2>2 DEF TokensInv, Ranges
    <2>4. Min({n, QUOTA + 1}) \in Nat
      <3>1. n \in Int /\ QUOTA + 1 \in Nat
        BY <2>1, QuotaAssumption
      <3> QED
        BY <2>1, <3>1, MinOfTwo
    <2>5. q \in TokenType /\ q.desiredProducer = k.desiredProducer /\ q.currentProducer = IF n = 0 THEN place ELSE p
      BY <1>3, <1>5, <1>8, <2>2, <2>4 DEF TokenType
    <2>6. TokenOK(q, tail) /\ q.currentProducer # Null
      BY <1>3, <1>5, <1>9, <1>11, <2>5 DEF TokenOK, Null
    <2>7. size' \in [Producers -> 0 .. MaxSize]
      BY <2>1, <1>14, TakenSize
    <2>8. \E r \in LocType : loc' = [loc EXCEPT ![c] = r] /\ CallOK(r, q, tail)
      <3>1. CASE n = l.max /\ Return(c, {}, l.count + n)
        <4>1. {} \in SUBSET Nat /\ l.count + n \in Nat /\ l.count + n # 0
          BY <1>8, <1>9, <2>1, <3>1
        <4> QED
          BY <3>1, <4>1, ReturnStep
      <3>2. CASE /\ n < l.max
                 /\ loc' = [loc EXCEPT ![c].ptr = ptr, ![c].max = @ - n,
                                       ![c].count = @ + n, ![c].checked = @ \cup {p}]
        <4>1. PICK r : r = [l EXCEPT !.ptr = ptr, !.max = l.max - n, !.count = l.count + n,
                                     !.checked = l.checked \cup {p}]
          OBVIOUS
        <4>2. /\ ptr \in 1 .. l.tail
              /\ l.count = 0 =>
                   /\ ptr < place => ptr + 1 .. place \subseteq l.checked \cup {p}
                   /\ ptr >= place => /\ 1 .. place \subseteq l.checked \cup {p}
                                      /\ ptr + 1 .. l.tail \subseteq l.checked \cup {p}
          <5>1. ptr \in 1 .. l.tail
            BY <1>6, <1>8, <1>10 DEF Wrapped, NextProd, Null
          <5>2. PICK t : t = l.tail
            OBVIOUS
          <5>3. PICK checked : checked = l.checked
            OBVIOUS
          <5>4. ASSUME l.count = 0
                PROVE  /\ ptr < place => ptr + 1 .. place \subseteq checked \cup {p}
                       /\ ptr >= place => 1 .. place \subseteq checked \cup {p} /\ ptr + 1 .. t \subseteq checked \cup {p}
            <6>1. /\ t \in Nat /\ p \in 1 .. t /\ place \in 1 .. t /\ p # place /\ ptr = Wrapped(NextProd(p), t)
                  /\ p < place => p + 1 .. place \subseteq checked
                  /\ p >= place => 1 .. place \subseteq checked /\ p + 1 .. t \subseteq checked
              BY <1>6, <1>8, <1>10, <1>14, <5>2, <5>3, <5>4
            <6> QED
              BY <6>1, SearchGoesOn
          <5> QED
            BY <5>1, <5>2, <5>3, <5>4
        <4>3. ptr \in Nat /\ l.max - n \in Nat /\ l.max - n > 0 /\ l.count + n \in Nat /\ l.checked \cup {p} \in SUBSET Nat
          BY <1>8, <2>1, <3>2, <4>2
        <4>4. r \in LocType
          BY <1>3, <4>1, <4>3 DEF LocType
        <4>5. /\ r.pc = "search" /\ r.known = l.known /\ r.max = l.max - n /\ r.tail = l.tail /\ r.ptr = ptr
              /\ r.checked = l.checked \cup {p} /\ r.count = l.count + n
          BY <1>3, <1>7, <4>1 DEF LocType
        <4>6. r.count = 0 => Searched(r, q)
          <5>1. r.count = 0 => l.count = 0 /\ n = 0
            BY <1>8, <2>1, <4>5
          <5> QED
            BY <2>5, <4>2, <4>5, <5>1 DEF Searched
        <4>7. q.currentProducer <= l.tail
          BY <1>8, <1>10, <2>5
        <4>8. Searching(r, q, tail)
          BY <1>10, <4>2, <4>5, <4>6, <4>7 DEF Searching
        <4>9. CallOK(r, q, tail)
          BY <1>9, <2>6, <4>3, <4>5, <4>8 DEF CallOK
        <4>10. loc' = [loc EXCEPT ![c] = r]
          BY <1>1, <3>2, <4>1 DEF TokensInv, Ranges
        <4> QED
          BY <4>4, <4>9, <4>10
      <3> QED
        BY <1>14, <3>1, <3>2
    <2> QED
      BY <1>12, <2>3, <2>5, <2>6, <2>7, <2>8, OneConsumer
  <1> QED
    BY <1>1, <1>2, <1>4, <1>5, <1>6, <1>13, <1>14 DEF Search

LEMMA StepScore == ASSUME NEW c \in Consumers PROVE TokensInv /\ Score(c) => TokensInv'
  <1> SUFFICES ASSUME TokensInv, Score(c) PROVE TokensInv'
    OBVIOUS
  <1>1. PICK l : l = loc[c]
    OBVIOUS
  <1>2. PICK k : k = token[c]
    OBVIOUS
  <1>3. l \in LocType /\ k \in TokenType /\ tail \in Nat /\ TokenOK(k, tail) /\ CallOK(l, k, tail)
    BY <1>1, <1>2, OfConsumer
  <1>4. l.pc = "score"
    BY <1>1 DEF Score
  <1>5. /\ l.max \in Nat /\ l.known \in Nat /\ l.ptr \in Nat /\ l.best \in Nat /\ l.bestSize \in Nat
        /\ l.nonEmptyCount \in Nat /\ l.checked \in SUBSET Nat
    BY <1>3 DEF LocType
  <1>6. l.max > 0 /\ l.known <= tail /\ Scoring(l, tail)
    BY <1>3, <1>4 DEF CallOK
  <1>7. l.ptr <= tail /\ (l.nonEmptyCount = 0 => l.ptr + 1 .. l.known \subseteq l.checked)
    BY <1>6 DEF Scoring
  <1>8. UNCHANGED listVars /\ UNCHANGED <<size, globalExplicitConsumerOffset, nextExplicitConsumerId, token>>
    BY DEF Score
  <1>9. SUFFICES \E r \in LocType : loc' = [loc EXCEPT ![c] = r] /\ CallOK(r, k, tail)
    BY <1>2, <1>8, OneCall
  <1>10. PICK s : s = size[l.ptr]
    OBVIOUS
  <1>11. CASE /\ l.ptr # Null
              /\ loc' = [loc EXCEPT ![c].ptr = NextProd(l.ptr),
                           ![c].nonEmptyCount = IF s > 0 THEN @ + 1 ELSE @,
                           ![c].bestSize = Max({s, l.bestSize}),
                           ![c].best = IF s > l.bestSize THEN l.ptr ELSE @,
                           ![c].checked = IF s > 0 THEN @ ELSE @ \cup {l.ptr}]
    <2>1. PICK ptr : ptr = NextProd(l.ptr)
      OBVIOUS
    <2>2. PICK nonEmptyCount : nonEmptyCount = IF s > 0 THEN l.nonEmptyCount + 1 ELSE l.nonEmptyCount
      OBVIOUS
    <2>3. PICK bestSize : bestSize = Max({s, l.bestSize})
      OBVIOUS
    <2>4. PICK best : best = IF s > l.bestSize THEN l.ptr ELSE l.best
      OBVIOUS
    <2>5. PICK checked : checked = IF s > 0 THEN l.checked ELSE l.checked \cup {l.ptr}
      OBVIOUS
    <2>6. PICK r : r = [l EXCEPT !.ptr = ptr, !.nonEmptyCount = nonEmptyCount, !.bestSize = bestSize,
                                 !.best = best, !.checked = checked]
      OBVIOUS
    <2>7. s \in Nat
      BY <1>5, <1>7, <1>10, <1>11, OnList DEF TokensInv
    <2>8. ptr \in Nat /\ ptr = l.ptr - 1 /\ ptr <= tail
      BY <1>3, <1>5, <1>7, <1>11, <2>1 DEF NextProd, Null
    <2>9. nonEmptyCount \in Nat /\ best \in Nat /\ checked \in SUBSET Nat
      BY <1>5, <2>2, <2>4, <2>5, <2>7
    <2>10. bestSize \in Nat
      BY <1>5, <2>3, <2>7, MaxOfTwo
    <2>11. r \in LocType
      BY <1>3, <2>6, <2>8, <2>9, <2>10 DEF LocType
    <2>12. /\ r.pc = "score" /\ r.max = l.max /\ r.known = l.known /\ r.ptr = ptr
           /\ r.nonEmptyCount = nonEmptyCount /\ r.checked = checked
      BY <1>3, <1>4, <2>6 DEF LocType
    <2>13. nonEmptyCount = 0 => ptr + 1 .. l.known \subseteq checked
      <3>1. nonEmptyCount = 0 => l.nonEmptyCount = 0 /\ checked = l.checked \cup {l.ptr}
        BY <1>5, <2>2, <2>5
      <3>2. ptr + 1 .. l.known \subseteq {l.ptr} \cup (l.ptr + 1 .. l.known)
        BY <1>5, <2>8
      <3> QED
        BY <1>7, <3>1, <3>2
    <2>14. Scoring(r, tail)
      BY <2>8, <2>12, <2>13 DEF Scoring
    <2>15. CallOK(r, k, tail)
      BY <1>6, <2>12, <2>14 DEF CallOK
    <2>16. loc' = [loc EXCEPT ![c] = r]
      BY <1>1, <1>11, <2>1, <2>2, <2>3, <2>4, <2>5, <2>6 DEF TokensInv, Ranges
    <2> QED
      BY <2>11, <2>15, <2>16
  <1>12. CASE Goto(c, "best")
    <2>1. PICK r : r = [l EXCEPT !.pc = "best"]
      OBVIOUS
    <2>2. r \in LocType /\ r.pc = "best" /\ r.known = l.known /\ r.max = l.max
      BY <1>3, <2>1 DEF LocType, Pcs
    <2>3. loc' = [loc EXCEPT ![c] = r]
      BY <1>1, <1>12, <2>1 DEF Goto, TokensInv, Ranges
    <2>4. CallOK(r, k, tail)
      BY <1>6, <2>2 DEF CallOK
    <2> QED
      BY <2>2, <2>3, <2>4
  <1>13. CASE l.nonEmptyCount = 0 /\ Return(c, l.checked, 0) /\ (l.nonEmptyCount = SCORED \/ l.ptr = Null)
    <2>1. l.ptr = 0
      BY <1>13, QuotaAssumption DEF Null
    <2>2. 1 .. l.known \subseteq l.checked
      BY <1>7, <1>13, <2>1
    <2>3. 0 \in Nat
      OBVIOUS
    <2> QED
      BY <1>1, <1>5, <1>13, <2>2, <2>3, ReturnStep
  <1> QED
    BY <1>1, <1>10, <1>11, <1>12, <1>13 DEF Score

LEMMA StepBest == ASSUME NEW c \in Consumers PROVE TokensInv /\ Best(c) => TokensInv'
  <1> SUFFICES ASSUME TokensInv, Best(c) PROVE TokensInv'
    OBVIOUS
  <1>1. PICK l : l = loc[c]
    OBVIOUS
  <1>2. PICK k : k = token[c]
    OBVIOUS
  <1>3. l \in LocType /\ k \in TokenType /\ tail \in Nat /\ TokenOK(k, tail) /\ CallOK(l, k, tail)
    BY <1>1, <1>2, OfConsumer
  <1>4. PICK n \in Takes(l.best, 1) :
          /\ Taken(c, l.best, n)
          /\ \/ n = 1 /\ Return(c, {}, 1)
             \/ n = 0 /\ loc' = [loc EXCEPT ![c].pc = "sweep", ![c].ptr = tail, ![c].checked = @ \cup {loc[c].best}]
    BY <1>1 DEF Best
  <1>5. l.pc = "best"
    BY <1>1 DEF Best
  <1>6. l.max > 0 /\ l.known \in Nat /\ l.known <= tail /\ l.best \in Nat /\ l.checked \in SUBSET Nat
    BY <1>3, <1>5 DEF CallOK, LocType
  <1>7. n \in {0, 1} /\ Taken(c, l.best, n)
    BY <1>4
  <1>8. size' \in [Producers -> 0 .. MaxSize]
    <2>1. l.best \in Producers => n <= size[l.best]
      <3>1. l.best \in Producers => size[l.best] \in Nat
        BY QuotaAssumption DEF TokensInv, Ranges
      <3>2. l.best \in Producers => Takes(l.best, 1) = 0 .. IF size[l.best] <= 1 THEN size[l.best] ELSE 1
        BY <3>1, MinOfTwo DEF Takes
      <3> QED
        BY <3>1, <3>2
    <2>2. n \in Nat
      BY <1>7
    <2> QED
      BY <1>7, <2>1, <2>2, TakenSize
  <1>9. /\ UNCHANGED listVars
        /\ globalExplicitConsumerOffset' \in 0 .. Range32 - 1 /\ nextExplicitConsumerId' \in Nat
    BY DEF Best, TokensInv, Ranges
  <1>10. token' = [token EXCEPT ![c] = k]
    BY <1>2 DEF Best, TokensInv, Ranges
  <1>11. SUFFICES \E r \in LocType : loc' = [loc EXCEPT ![c] = r] /\ CallOK(r, k, tail)
    BY <1>3, <1>8, <1>9, <1>10, OneConsumer
  <1>12. CASE Return(c, {}, 1)
    <2>1. {} \in SUBSET Nat /\ 1 \in Nat /\ 1 # 0
      OBVIOUS
    <2> QED
      BY <1>12, <2>1, ReturnStep
  <1>13. CASE loc' = [loc EXCEPT ![c].pc = "sweep", ![c].ptr = tail, ![c].checked = @ \cup {loc[c].best}]
    <2>1. PICK r : r = [l EXCEPT !.pc = "sweep", !.ptr = tail, !.checked = l.checked \cup {l.best}]
      OBVIOUS
    <2>2. l.checked \cup {l.best} \in SUBSET Nat
      BY <1>6
    <2>3. r \in LocType
      BY <1>3, <2>1, <2>2 DEF LocType, Pcs
    <2>4. r.pc = "sweep" /\ r.max = l.max /\ r.known = l.known /\ r.ptr = tail
      BY <1>3, <2>1 DEF LocType
    <2>5. tail + 1 .. l.known = {}
      BY <1>3, <1>6
    <2>6. Sweeping(r, tail)
      BY <1>3, <2>4, <2>5 DEF Sweeping
    <2>7. CallOK(r, k, tail)
      BY <1>6, <2>4, <2>6 DEF CallOK
    <2>8. loc' = [loc EXCEPT ![c] = r]
      BY <1>1, <1>13, <2>1 DEF TokensInv, Ranges
    <2> QED
      BY <2>3, <2>7, <2>8
  <1> QED
    BY <1>4, <1>12, <1>13

LEMMA StepSweep == ASSUME NEW c \in Consumers PROVE TokensInv /\ Sweep(c) => TokensInv'
  <1> SUFFICES ASSUME TokensInv, Sweep(c) PROVE TokensInv'
    OBVIOUS
  <1>1. PICK l : l = loc[c]
    OBVIOUS
  <1>2. PICK k : k = token[c]
    OBVIOUS
  <1>3. l \in LocType /\ k \in TokenType /\ tail \in Nat /\ TokenOK(k, tail) /\ CallOK(l, k, tail)
    BY <1>1, <1>2, OfConsumer
  <1>4. l.pc = "sweep"
    BY <1>1 DEF Sweep
  <1>5. l.max \in Nat /\ l.known \in Nat /\ l.ptr \in Nat /\ l.count \in Nat /\ l.checked \in SUBSET Nat
    BY <1>3 DEF LocType
  <1>6. l.max > 0 /\ l.known <= tail /\ Sweeping(l, tail)
    BY <1>3, <1>4 DEF CallOK
  <1>7. l.ptr <= tail /\ (l.count = 0 => l.ptr + 1 .. l.known \subseteq l.checked)
    BY <1>6 DEF Sweeping
  <1>8. /\ UNCHANGED listVars
        /\ globalExplicitConsumerOffset' \in 0 .. Range32 - 1 /\ nextExplicitConsumerId' \in Nat
    BY DEF Sweep, TokensInv, Ranges
  <1>9. token' = [token EXCEPT ![c] = k]
    BY <1>2 DEF Sweep, TokensInv, Ranges
  <1>10. CASE l.ptr = Null /\ Return(c, l.checked, l.count) /\ UNCHANGED <<size, taken>>
    <2>1. l.count = 0 => 1 .. l.known \subseteq l.checked
      BY <1>7, <1>10 DEF Null
    <2>2. PICK r \in LocType : loc' = [loc EXCEPT ![c] = r] /\ CallOK(r, k, tail)
      BY <1>1, <1>5, <1>10, <2>1, ReturnStep
    <2>3. size' \in [Producers -> 0 .. MaxSize]
      BY <1>10 DEF TokensInv, Ranges
    <2> QED
      BY <1>3, <1>8, <1>9, <2>2, <2>3, OneConsumer
  <1>11. ASSUME
              NEW n \in IF l.ptr = l.best THEN {0} ELSE Takes(l.ptr, l.max),
              /\ l.ptr # Null /\ Taken(c, l.ptr, n)
              /\ \/ n = l.max /\ Return(c, {}, l.count + n)
                 \/ /\ n < l.max
                    /\ loc' = [loc EXCEPT ![c].ptr = NextProd(l.ptr), ![c].max = @ - n, ![c].count = @ + n,
                                          ![c].checked = @ \cup {l.ptr}]
         PROVE  TokensInv'
    <2>1. n \in Nat /\ n <= size[l.ptr] /\ n <= l.max
      <3>1. size[l.ptr] \in Nat
        BY <1>5, <1>7, <1>11, OnList DEF TokensInv
      <3>2. \A m \in Takes(l.ptr, l.max) : m \in Nat /\ m <= size[l.ptr] /\ m <= l.max
        BY <1>5, <1>7, <1>11, TakesOf
      <3> QED
        BY <1>5, <3>1, <3>2
    <2>2. size' \in [Producers -> 0 .. MaxSize]
      BY <1>11, <2>1, TakenSize
    <2>3. SUFFICES \E r \in LocType : loc' = [loc EXCEPT ![c] = r] /\ CallOK(r, k, tail)
      BY <1>3, <1>8, <1>9, <2>2, OneConsumer
    <2>4. CASE n = l.max /\ Return(c, {}, l.count + n)
      <3>1. {} \in SUBSET Nat /\ l.count + n \in Nat /\ l.count + n # 0
        BY <1>5, <1>6, <2>4
      <3> QED
        BY <2>4, <3>1, ReturnStep
    <2>5. CASE /\ n < l.max
               /\ loc' = [loc EXCEPT ![c].ptr = NextProd(l.ptr), ![c].max = @ - n, ![c].count = @ + n,
                                     ![c].checked = @ \cup {l.ptr}]
      <3>1. PICK ptr : ptr = NextProd(l.ptr)
        OBVIOUS
      <3>2. PICK r : r = [l EXCEPT !.ptr = ptr, !.max = l.max - n, !.count = l.count + n,
                                   !.checked = l.checked \cup {l.ptr}]
        OBVIOUS
      <3>3. ptr \in Nat /\ ptr = l.ptr - 1 /\ ptr <= tail
        BY <1>3, <1>5, <1>7, <1>11, <3>1 DEF NextProd, Null
      <3>4. l.max - n \in Nat /\ l.max - n > 0 /\ l.count + n \in Nat /\ l.checked \cup {l.ptr} \in SUBSET Nat
        BY <1>5, <2>1, <2>5
      <3>5. r \in LocType
        BY <1>3, <3>2, <3>3, <3>4 DEF LocType
      <3>6. /\ r.pc = "sweep" /\ r.max = l.max - n /\ r.known = l.known /\ r.ptr = ptr
            /\ r.count = l.count + n /\ r.checked = l.checked \cup {l.ptr}
        BY <1>3, <1>4, <3>2 DEF LocType
      <3>7. l.count + n = 0 => ptr + 1 .. l.known \subseteq l.checked \cup {l.ptr}
        <4>1. l.count + n = 0 => l.count = 0
          BY <1>5, <2>1
        <4>2. ptr + 1 .. l.known \subseteq {l.ptr} \cup (l.ptr + 1 .. l.known)
          BY <1>5, <3>3
        <4> QED
          BY <1>7, <4>1, <4>2
      <3>8. Sweeping(r, tail)
        BY <3>3, <3>6, <3>7 DEF Sweeping
      <3>9. CallOK(r, k, tail)
        BY <1>6, <3>4, <3>6, <3>8 DEF CallOK
      <3>10. loc' = [loc EXCEPT ![c] = r]
        BY <1>1, <2>5, <3>1, <3>2 DEF TokensInv, Ranges
      <3> QED
        BY <3>5, <3>9, <3>10
    <2> QED
      BY <1>11, <2>4, <2>5
  <1> QED
    BY <1>1, <1>10, <1>11 DEF Sweep

-----------------------------------------------------------------------------
(* The invariant                                                           *)

LEMMA Initially == Init => TokensInv
  <1> SUFFICES ASSUME Init PROVE TokensInv
    OBVIOUS
  <1>1. Rest = Locals("idle", "", 0, 0, 0, {}, 0)
    BY DEF Rest, Null, Locals
  <1>2. Locals("idle", "", 0, 0, 0, {}, 0) \in LocType
    <2>1. "idle" \in Pcs /\ "" \in Ops \cup {""} /\ 0 \in Nat /\ {} \in SUBSET Nat
      BY DEF Pcs
    <2> QED
      BY <2>1, LocalsType
  <1>3. Rest \in LocType
    BY <1>1, <1>2, Zenon
  <1>4. NoConsumerToken \in TokenType
    BY QuotaAssumption DEF NoConsumerToken, TokenType, Null
  <1>5. Ranges
    <2>1. loc \in [Consumers -> LocType] /\ token \in [Consumers -> TokenType]
      BY <1>3, <1>4 DEF Init
    <2>2. size \in [Producers -> 0 .. MaxSize]
      BY QuotaAssumption DEF Init
    <2> QED
      BY <2>1, <2>2, QuotaAssumption DEF Init, Ranges, Null
  <1>6. Rest.pc = "idle" /\ Rest.op = "" /\ Rest.known = 0
    BY DEF Rest, Null
  <1>7. NoConsumerToken.desiredProducer = 0 /\ NoConsumerToken.currentProducer = 0
    BY DEF NoConsumerToken, Null
  <1>8. TokenOK(NoConsumerToken, 0) /\ CallOK(Rest, NoConsumerToken, 0)
    <2>1. TokenOK(NoConsumerToken, 0)
      BY <1>7 DEF TokenOK, Null
    <2>2. Finished(Rest)
      BY <1>6 DEF Finished
    <2>3. Rest.known <= 0
      BY DEF Rest, Null
    <2>4. CallOK(Rest, NoConsumerToken, 0)
      BY <1>6, <2>2, <2>3 DEF CallOK
    <2> QED
      BY <2>1, <2>4
  <1>9. CallsInv
    BY <1>8 DEF Init, CallsInv, Null
  <1> QED
    BY <1>5, <1>9 DEF TokensInv

LEMMA StepCall == ASSUME NEW c \in Consumers PROVE TokensInv /\ Call(c) => TokensInv'
  BY StepBegin DEF Call

LEMMA StepOfCall == ASSUME NEW c \in Consumers PROVE TokensInv /\ Step(c) => TokensInv'
  BY StepRotate, StepLoadCount, StepPlace, StepTake, StepTurn, StepWrap, StepSearch, StepScore, StepBest, StepSweep
  DEF Step

LEMMA Steps == TokensInv /\ [Next]_vars => TokensInv'
  <1> SUFFICES ASSUME TokensInv, [Next]_vars PROVE TokensInv'
    OBVIOUS
  <1>1. CASE UNCHANGED vars
    <2>1. /\ tail' = tail /\ producerCount' = producerCount /\ size' = size /\ loc' = loc /\ token' = token
          /\ globalExplicitConsumerOffset' = globalExplicitConsumerOffset
          /\ nextExplicitConsumerId' = nextExplicitConsumerId
      BY <1>1 DEF vars, listVars
    <2>2. Ranges'
      BY <2>1 DEF TokensInv, Ranges
    <2>3. CallsInv'
      BY <2>1 DEF TokensInv, CallsInv
    <2> QED
      BY <2>2, <2>3 DEF TokensInv
  <1>2. CASE Next
    BY <1>2, StepCountProducer, StepPushProducer, StepEnqueue, StepConstructToken, StepCall, StepOfCall DEF Next
  <1> QED
    BY <1>1, <1>2

LEMMA InvariantHolds == Spec => []TokensInv
  BY Initially, Steps, PTL DEF Spec

(* Type correctness: the tail is never ahead of producerCount, sizes and   *)
(* the global offset stay in their ranges, and the places of a token,      *)
(* however the rotation counts them out, are producers of the list.        *)
THEOREM TypeCorrect == Spec => []TypeOK
  <1>1. TokensInv => TypeOK
    <2> SUFFICES ASSUME TokensInv PROVE TypeOK
      OBVIOUS
    <2>1. /\ tail \in 0 .. producerCount /\ producerCount \in 0 .. MaxProducers
          /\ size \in [Producers -> 0 .. MaxSize] /\ globalExplicitConsumerOffset \in 0 .. Range32 - 1
      BY DEF TokensInv, Ranges
    <2>2. ASSUME NEW c \in Consumers
          PROVE  token[c].currentProducer \in 0 .. tail /\ token[c].desiredProducer \in 0 .. tail
      <3>1. token[c] \in TokenType /\ tail \in Nat /\ TokenOK(token[c], tail)
        BY OfConsumer
      <3> QED
        BY <3>1 DEF TokenType, TokenOK
    <2> QED
      BY <2>1, <2>2 DEF TypeOK
  <1> QED
    BY <1>1, InvariantHolds, PTL

(* try_dequeue*() that returns nothing has found each of the producers     *)
(* that were on the list when it was called empty once, with a token and   *)
(* without, for any number of consumers and producers: the search from the *)
(* token's place down and on from the tail leaves none out although the    *)
(* list grows and the other consumers move elements and rotate the tokens. *)
THEOREM NothingMeansEmpty == Spec => []NothingMeansAllChecked
  <1>1. TokensInv => NothingMeansAllChecked
    BY OfConsumer DEF CallOK, Finished, NothingMeansAllChecked
  <1> QED
    BY <1>1, InvariantHolds, PTL
=============================================================================
