--------------------------- MODULE ConsumerTokens ---------------------------
(***************************************************************************)
(* How ConcurrentQueue chooses the producers it dequeues from              *)
(* (include/concurrentqueue.h): the try_dequeue* calls with and without a  *)
(* ConsumerToken, and the rotation of the tokens over the producers.       *)
(*                                                                         *)
(* Producers are numbered in the order in which add_producer() pushed them *)
(* on the list: the tail is the highest number pushed and next_prod() of p *)
(* is p - 1.  producerCount is incremented before the push.  Of a          *)
(* producer's queue only the number of elements is kept, and dequeue() and *)
(* dequeue_bulk() are one step that may find less than there is:           *)
(* ProducerBase and the modules above it model what happens inside.        *)
(***************************************************************************)
EXTENDS Integers, FiniteSetsExt

CONSTANTS Consumers,
          QUOTA,          \* EXPLICIT_CONSUMER_CONSUMPTION_QUOTA_BEFORE_ROTATE
          SCORED,         \* how many non-empty producers try_dequeue() scores: 3
          Range32,        \* number of values of std::uint32_t
          Scenarios,      \* of every consumer, the operations it uses; one is chosen
          Maxes,          \* the max given to try_dequeue_bulk
          MaxProducers, MaxSize    \* bounds: producers, elements in one of them

ASSUME QuotaAssumption ==
  /\ QUOTA \in Nat /\ Range32 \in Nat /\ SCORED \in Nat /\ 0 < SCORED /\ 1 < QUOTA /\ 0 < Range32
  /\ MaxProducers \in Nat /\ MaxSize \in Nat

Null == 0
Producers == 1 .. MaxProducers
TokenOps == {"token", "tokenBulk"}
Ops == TokenOps \cup {"plain", "sweep"}
ASSUME ScenarioAssumption == Scenarios \subseteq [Consumers -> SUBSET Ops] /\ Maxes \subseteq Nat \ {0}

VARIABLES
  tail, producerCount,
  size,                           \* of every producer
  globalExplicitConsumerOffset, nextExplicitConsumerId,
  ops,                            \* the scenario
  token,                          \* of every consumer
  loc,                            \* of every consumer, the locals of its call
  taken                           \* history: of every consumer, what it took from its producer
                                  \* since it last moved or rotated

TooMany == QUOTA + Max(Maxes \cup {1})    \* taken is not counted beyond

listVars == <<tail, producerCount>>
vars == <<listVars, size, globalExplicitConsumerOffset, nextExplicitConsumerId, ops, token, loc, taken>>

NextProd(p) == p - 1
Wrapped(p, t) == IF p = Null THEN t ELSE p
(* k steps from p along the list, from its end back to t                   *)
Walk(p, k, t) ==
  LET f[i \in 0 .. k] == IF i = 0 THEN p ELSE Wrapped(NextProd(f[i - 1]), t) IN f[k]

NoConsumerToken == [initialOffset |-> -1, lastKnownGlobalOffset |-> Range32 - 1, itemsConsumedFromCurrent |-> 0,
                    currentProducer |-> Null, desiredProducer |-> Null]

(* checked and known are of history: producers that had less than this     *)
(* call asked them for, and the tail when it began                         *)
Rest == [pc |-> "idle", op |-> "", max |-> 0, count |-> 0, tail |-> Null, ptr |-> Null, prodCount |-> 0,
         best |-> Null, bestSize |-> 0, nonEmptyCount |-> 0, checked |-> {}, known |-> Null]

Init ==
  /\ tail = Null /\ producerCount = 0
  /\ size = [p \in Producers |-> 0]
  /\ globalExplicitConsumerOffset = 0 /\ nextExplicitConsumerId = 0
  /\ ops \in Scenarios
  /\ token = [c \in Consumers |-> NoConsumerToken]
  /\ loc = [c \in Consumers |-> Rest]
  /\ taken = [c \in Consumers |-> 0]

-----------------------------------------------------------------------------
(* The producers                                                           *)

(* add_producer(): the count, then the push                                *)
CountProducer ==
  /\ producerCount < MaxProducers
  /\ producerCount' = producerCount + 1
  /\ UNCHANGED <<tail, size, globalExplicitConsumerOffset, nextExplicitConsumerId, ops, token, loc, taken>>

PushProducer ==
  /\ tail < producerCount
  /\ tail' = tail + 1
  /\ UNCHANGED <<producerCount, size, globalExplicitConsumerOffset, nextExplicitConsumerId, ops, token, loc, taken>>

Enqueue(p) ==
  /\ p <= tail /\ size[p] < MaxSize
  /\ size' = [size EXCEPT ![p] = @ + 1]
  /\ UNCHANGED <<listVars, globalExplicitConsumerOffset, nextExplicitConsumerId, ops, token, loc, taken>>

-----------------------------------------------------------------------------
(* Steps of the consumers                                                  *)

Goto(c, l) == loc' = [loc EXCEPT ![c].pc = l]

(* the call returns; what it checked is kept until the next one            *)
Return(c, checked, count) ==
  loc' = [loc EXCEPT ![c] = [Rest EXCEPT !.op = loc[c].op, !.count = count, !.checked = checked, !.known = loc[c].known]]

(* What dequeue() and dequeue_bulk() of p may take for a call that still   *)
(* wants n elements.  They may find less than there is, for ever if others *)
(* dequeue as well: the tail or dequeueOvercommit that they have loaded is *)
(* old, or they commit to more than there is and take that back (1888-1930 *)
(* in dequeue()).                                                          *)
Takes(p, n) == 0 .. Min({size[p], n})

(* n elements of p are taken by c                                          *)
Taken(c, p, n) ==
  /\ size' = [size EXCEPT ![p] = @ - n]
  /\ taken' = [taken EXCEPT ![c] =
       CASE ops[c] \cap TokenOps = {} -> 0
         [] p = token[c].currentProducer -> Min({@ + n, TooMany})
         [] OTHER -> IF n = 0 THEN @ ELSE n]

(* ConsumerToken(queue)                                                    *)
ConstructToken(c) ==
  /\ loc[c].pc = "idle" /\ token[c].initialOffset = -1 /\ ops[c] \cap TokenOps # {}
  /\ token' = [token EXCEPT ![c].initialOffset = nextExplicitConsumerId]
  /\ nextExplicitConsumerId' = nextExplicitConsumerId + 1
  /\ UNCHANGED <<listVars, size, globalExplicitConsumerOffset, ops, loc, taken>>

(* the call begins: with a token, its position is looked at first          *)
Begin(c, op, max) ==
  /\ loc[c].pc = "idle" /\ op \in ops[c]
  /\ op \in TokenOps => token[c].initialOffset # -1
  /\ loc' = [loc EXCEPT ![c] = [Rest EXCEPT !.op = op, !.max = max, !.known = tail,
       !.pc = CASE op = "plain" -> "score" [] op = "sweep" -> "sweep"
                [] token[c].desiredProducer = Null
                     \/ token[c].lastKnownGlobalOffset # globalExplicitConsumerOffset -> "rotate"
                [] OTHER -> "take",
       !.ptr = IF op \in {"plain", "sweep"} THEN tail ELSE Null]]
  /\ UNCHANGED <<listVars, size, globalExplicitConsumerOffset, nextExplicitConsumerId, ops, token, taken>>

(* update_current_producer_after_rotation(): tail is loaded ...            *)
Rotate(c) ==
  /\ loc[c].pc = "rotate"
  /\ \/ /\ token[c].desiredProducer = Null /\ tail = Null /\ Return(c, {}, 0)
     \/ /\ token[c].desiredProducer # Null \/ tail # Null
        /\ loc' = [loc EXCEPT ![c].tail = tail, ![c].pc = "prodCount"]
  /\ UNCHANGED <<listVars, size, globalExplicitConsumerOffset, nextExplicitConsumerId, ops, token, taken>>

(* ... then producerCount ...                                              *)
LoadCount(c) ==
  /\ loc[c].pc = "prodCount"
  /\ loc' = [loc EXCEPT ![c].prodCount = producerCount, ![c].pc = "place"]
  /\ UNCHANGED <<listVars, size, globalExplicitConsumerOffset, nextExplicitConsumerId, ops, token, taken>>

(* the producer at which the token belongs.  The first time it is counted  *)
(* from the oldest producer.                                               *)
Designated(c) ==
  LET t == token[c]
      n == loc[c].prodCount
      first == Walk(loc[c].tail, n - 1 - (t.initialOffset % n), loc[c].tail)
      delta == (globalExplicitConsumerOffset - t.lastKnownGlobalOffset) % Range32
  IN  Walk(IF t.desiredProducer = Null THEN first ELSE t.desiredProducer,
           IF delta >= n THEN delta % n ELSE delta, loc[c].tail)

(* the count of consumed items goes on                                     *)
MutPlace(c) ==
  /\ loc[c].pc = "place"
  /\ token' = [token EXCEPT ![c].lastKnownGlobalOffset = globalExplicitConsumerOffset,
                            ![c].desiredProducer = Designated(c), ![c].currentProducer = Designated(c)]
  /\ taken' = [taken EXCEPT ![c] = 0]
  /\ Goto(c, "take")
  /\ UNCHANGED <<listVars, size, globalExplicitConsumerOffset, nextExplicitConsumerId, ops>>

(* ... and the global offset: the token goes where it belongs              *)
Place(c) ==
  /\ loc[c].pc = "place"
  /\ token' = [token EXCEPT ![c].lastKnownGlobalOffset = globalExplicitConsumerOffset,
                            ![c].desiredProducer = Designated(c), ![c].currentProducer = Designated(c),
                            ![c].itemsConsumedFromCurrent = 0]
  /\ taken' = [taken EXCEPT ![c] = 0]
  /\ Goto(c, "take")
  /\ UNCHANGED <<listVars, size, globalExplicitConsumerOffset, nextExplicitConsumerId, ops>>

(* The current producer is tried.  The count of items is not kept beyond   *)
(* QUOTA + 1, from where it would have to wrap around to matter.           *)
Take(c) ==
  /\ loc[c].pc = "take"
  /\ \E n \in Takes(token[c].currentProducer, loc[c].max) :
       LET p == token[c].currentProducer
           items == Min({token[c].itemsConsumedFromCurrent + n, QUOTA + 1})
           turn == IF loc[c].op = "token" THEN items = QUOTA ELSE items >= QUOTA
       IN  /\ Taken(c, p, n)
           /\ token' = [token EXCEPT ![c].itemsConsumedFromCurrent = items]
           /\ \/ n = loc[c].max /\ turn /\ Goto(c, "turn")
              \/ n = loc[c].max /\ ~turn /\ Return(c, {}, n)
              \/ /\ n < loc[c].max
                 /\ loc' = [loc EXCEPT ![c].pc = "wrap", ![c].max = @ - n, ![c].count = n, ![c].checked = {p}]
  /\ UNCHANGED <<listVars, globalExplicitConsumerOffset, nextExplicitConsumerId, ops>>

(* globalExplicitConsumerOffset.fetch_add(1)                               *)
Turn(c) ==
  /\ loc[c].pc = "turn"
  /\ globalExplicitConsumerOffset' = (globalExplicitConsumerOffset + 1) % Range32
  /\ taken' = [taken EXCEPT ![c] = 0]
  /\ Return(c, {}, loc[c].max)
  /\ UNCHANGED <<listVars, size, nextExplicitConsumerId, ops, token>>

(* the search does not start over                                          *)
MutWrapNot(c) ==
  /\ loc[c].pc = "wrap"
  /\ LET t == token[c]
     IN  loc' = [loc EXCEPT ![c].pc = "search", ![c].tail = tail,
                            ![c].ptr = Wrapped(NextProd(t.currentProducer), t.currentProducer)]
  /\ UNCHANGED <<listVars, size, globalExplicitConsumerOffset, nextExplicitConsumerId, ops, token, taken>>

(* the search over the others begins: tail is loaded, and stays the place  *)
(* from which the search goes on after the last producer                   *)
Wrap(c) ==
  /\ loc[c].pc = "wrap"
  /\ loc' = [loc EXCEPT ![c].pc = "search", ![c].tail = tail,
                        ![c].ptr = Wrapped(NextProd(token[c].currentProducer), tail)]
  /\ UNCHANGED <<listVars, size, globalExplicitConsumerOffset, nextExplicitConsumerId, ops, token, taken>>

(* the search starts over at the token's place, not at the tail            *)
MutSearch(c) ==
  /\ loc[c].pc = "search"
  /\ LET p == loc[c].ptr
     IN  \/ p = token[c].currentProducer /\ Return(c, loc[c].checked, loc[c].count) /\ UNCHANGED <<size, token, taken>>
         \/ /\ p # token[c].currentProducer
            /\ \E n \in Takes(p, loc[c].max) :
                 /\ Taken(c, p, n)
                 /\ token' = IF n = 0 THEN token
                             ELSE [token EXCEPT ![c].currentProducer = p,
                                                ![c].itemsConsumedFromCurrent = Min({n, QUOTA + 1})]
                 /\ \/ n = loc[c].max /\ Return(c, {}, loc[c].count + n)
                    \/ /\ n < loc[c].max
                       /\ loc' = [loc EXCEPT ![c].ptr = Wrapped(NextProd(p), token[c].desiredProducer), ![c].max = @ - n,
                                             ![c].count = @ + n, ![c].checked = @ \cup {p}]
  /\ UNCHANGED <<listVars, globalExplicitConsumerOffset, nextExplicitConsumerId, ops>>

(* one turn of the loop: it ends at the current producer, which moves with *)
(* every success                                                           *)
Search(c) ==
  /\ loc[c].pc = "search"
  /\ LET p == loc[c].ptr
     IN  \/ p = token[c].currentProducer /\ Return(c, loc[c].checked, loc[c].count) /\ UNCHANGED <<size, token, taken>>
         \/ /\ p # token[c].currentProducer
            /\ \E n \in Takes(p, loc[c].max) :
                 /\ Taken(c, p, n)
                 /\ token' = IF n = 0 THEN token
                             ELSE [token EXCEPT ![c].currentProducer = p,
                                                ![c].itemsConsumedFromCurrent = Min({n, QUOTA + 1})]
                 /\ \/ n = loc[c].max /\ Return(c, {}, loc[c].count + n)
                    \/ /\ n < loc[c].max
                       /\ loc' = [loc EXCEPT ![c].ptr = Wrapped(NextProd(p), loc[c].tail), ![c].max = @ - n,
                                             ![c].count = @ + n, ![c].checked = @ \cup {p}]
  /\ UNCHANGED <<listVars, globalExplicitConsumerOffset, nextExplicitConsumerId, ops>>

-----------------------------------------------------------------------------
(* The calls without a token                                               *)

(* try_dequeue(): size_approx() of one producer after the other, until     *)
(* SCORED have been seen that are not empty                                *)
Score(c) ==
  /\ loc[c].pc = "score"
  /\ LET l == loc[c]
     IN  \/ /\ l.nonEmptyCount < SCORED /\ l.ptr # Null
            /\ LET s == size[l.ptr]
               IN  loc' = [loc EXCEPT ![c].ptr = NextProd(l.ptr),
                             ![c].nonEmptyCount = IF s > 0 THEN @ + 1 ELSE @,
                             ![c].bestSize = Max({s, l.bestSize}),
                             ![c].best = IF s > l.bestSize THEN l.ptr ELSE @,
                             ![c].checked = IF s > 0 THEN @ ELSE @ \cup {l.ptr}]
         \/ /\ l.nonEmptyCount = SCORED \/ l.ptr = Null
            /\ \/ l.nonEmptyCount > 0 /\ Goto(c, "best")
               \/ l.nonEmptyCount = 0 /\ Return(c, l.checked, 0)
  /\ UNCHANGED <<listVars, size, globalExplicitConsumerOffset, nextExplicitConsumerId, ops, token, taken>>

Best(c) ==
  /\ loc[c].pc = "best"
  /\ \E n \in Takes(loc[c].best, 1) :
       /\ Taken(c, loc[c].best, n)
       /\ \/ n = 1 /\ Return(c, {}, 1)
          \/ n = 0 /\ loc' = [loc EXCEPT ![c].pc = "sweep", ![c].ptr = tail, ![c].checked = @ \cup {loc[c].best}]
  /\ UNCHANGED <<listVars, globalExplicitConsumerOffset, nextExplicitConsumerId, ops, token>>

(* the loop over all producers: the second one of try_dequeue(), and       *)
(* try_dequeue_non_interleaved() and try_dequeue_bulk()                    *)
Sweep(c) ==
  /\ loc[c].pc = "sweep"
  /\ LET l == loc[c]
     IN  \/ l.ptr = Null /\ Return(c, l.checked, l.count) /\ UNCHANGED <<size, taken>>
         \/ /\ l.ptr # Null
            /\ \E n \in IF l.ptr = l.best THEN {0} ELSE Takes(l.ptr, l.max) :
                 /\ Taken(c, l.ptr, n)
                 /\ \/ n = l.max /\ Return(c, {}, l.count + n)
                    \/ /\ n < l.max
                       /\ loc' = [loc EXCEPT ![c].ptr = NextProd(l.ptr), ![c].max = @ - n, ![c].count = @ + n,
                                             ![c].checked = @ \cup {l.ptr}]
  /\ UNCHANGED <<listVars, globalExplicitConsumerOffset, nextExplicitConsumerId, ops, token>>

-----------------------------------------------------------------------------
Call(c) == \E op \in Ops, max \in Maxes \cup {1} : (op \in {"plain", "token"} => max = 1) /\ Begin(c, op, max)

Step(c) ==
  \/ Rotate(c) \/ LoadCount(c) \/ Place(c) \/ Take(c) \/ Turn(c) \/ Wrap(c) \/ Search(c)
  \/ Score(c) \/ Best(c) \/ Sweep(c)

Next ==
  \/ CountProducer \/ PushProducer
  \/ \E p \in Producers : Enqueue(p)
  \/ \E c \in Consumers : ConstructToken(c) \/ Call(c) \/ Step(c)

(* Every consumer calls again and again, and its calls go on.              *)
Fairness == \A c \in Consumers : WF_vars(ConstructToken(c) \/ Call(c) \/ Step(c))

Spec == Init /\ [][Next]_vars /\ Fairness

-----------------------------------------------------------------------------
TypeOK ==
  /\ tail \in 0 .. producerCount /\ producerCount \in 0 .. MaxProducers
  /\ size \in [Producers -> 0 .. MaxSize]
  /\ globalExplicitConsumerOffset \in 0 .. Range32 - 1
  /\ \A c \in Consumers :
       token[c].currentProducer \in 0 .. tail /\ token[c].desiredProducer \in 0 .. tail

(* "Returns false if all producer streams appeared empty at the time they  *)
(* were checked" (1095): a call that found nothing has asked each of the   *)
(* producers that were in the list when it began, although the list grows, *)
(* the other consumers move elements and the token rotates meanwhile.      *)
NothingMeansAllChecked ==
  \A c \in Consumers :
    loc[c].pc = "idle" /\ loc[c].op # "" /\ loc[c].count = 0 => 1 .. loc[c].known \subseteq loc[c].checked

(* "Every 256 items from one producer, make everyone rotate" (1102): a     *)
(* consumer takes at most QUOTA items, and what a bulk call takes on top,  *)
(* from one producer before everyone has rotated or it has moved.          *)
RotatesEveryQuota == \A c \in Consumers : taken[c] < TooMany

(* Every call returns: the searches end although the list grows.           *)
CallsReturn == \A c \in Consumers : loc[c].pc # "idle" ~> loc[c].pc = "idle"

(* c is about to dequeue from p                                            *)
Asks(c, p) ==
  \/ loc[c].pc = "take" /\ token[c].currentProducer = p
  \/ loc[c].pc = "search" /\ loc[c].ptr = p /\ token[c].currentProducer # p

(* What the rotation is for: the consumer with the only token, using it    *)
(* for single or for bulk calls, asks every producer of the list again and *)
(* again.  It neither stays with producers that always have something for  *)
(* it nor passes one by for ever, whatever consumers without a token do    *)
(* and however often its dequeues come back with less than there is.       *)
EveryProducerAsked ==
  \A c \in Consumers, p \in Producers :
    /\ ops[c] \in {{"token"}, {"tokenBulk"}}
    /\ \A d \in Consumers \ {c} : ops[d] \cap TokenOps = {}
    /\ p <= tail
    ~> Asks(c, p)
=============================================================================
