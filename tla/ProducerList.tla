---------------------------- MODULE ProducerList ----------------------------
(***************************************************************************)
(* ConcurrentQueue's list of producers (include/concurrentqueue.h):        *)
(* recycle_or_create_producer(), add_producer() and the ProducerTokens,    *)
(* whose construction takes a producer off duty or makes a new one and     *)
(* whose destruction puts it off duty.  Producers are numbered in the      *)
(* order in which they are created; they are never deleted.                *)
(*                                                                         *)
(* A thread's program counter is "idle" outside the calls modelled here.   *)
(* Accesses are taken to be sequentially consistent.                       *)
(***************************************************************************)
EXTENDS Naturals, FiniteSets

CONSTANTS Threads,
          TokenNames,      \* every thread may construct one token of each name
          MaxProducers,    \* bound: producers created
          MaxFailures,     \* bound: failed allocations
          Budgets          \* bound: of every thread, how many tokens it constructs
                           \* and how often it enqueues without one; one is chosen

ASSUME BoundAssumption ==
  /\ MaxProducers \in Nat /\ MaxFailures \in Nat
  /\ Budgets \subseteq [Threads -> [tokens : Nat, calls : Nat]]

Null == 0
Producers == 1 .. MaxProducers
TokensOf(t) == {t} \X TokenNames    \* a token is used by one thread
Tokens == Threads \X TokenNames
NoToken == <<>>

VARIABLES
  producerListTail, producerCount,
  next,          \* of every producer
  isExplicit,    \* of every producer, fixed when it is created
  inactive,      \* of every producer
  tokenOf,       \* of every producer, its field token
  producerOf,    \* of every token, its field producer
  created,       \* producers created so far
  budget,        \* of every thread, what it may still do
  failures,      \* allocations that have failed so far
  pc,            \* of every thread
  ptr,           \* of every thread, the producer it looks at or adds
  want           \* of every thread, isExplicit; the token under construction

listVars == <<producerListTail, producerCount, next, isExplicit, inactive, created>>
tokenVars == <<tokenOf, producerOf>>
walkVars == <<ptr, want>>

ListInit ==
  /\ producerListTail = Null /\ producerCount = 0 /\ created = 0 /\ failures = 0
  /\ next = [p \in Producers |-> Null]
  /\ isExplicit = [p \in Producers |-> FALSE]
  /\ inactive = [p \in Producers |-> FALSE]
  /\ tokenOf = [p \in Producers |-> NoToken]
  /\ producerOf = [k \in Tokens |-> Null]
  /\ budget \in Budgets
  /\ pc = [t \in Threads |-> "idle"]
  /\ ptr = [t \in Threads |-> Null]
  /\ want = [t \in Threads |-> NoToken]

Goto(t, l) == pc' = [pc EXCEPT ![t] = l]

(* the producers a walk over the list from p meets: the smallest set with  *)
(* p that next does not leave                                              *)
Closed(S) == \A r \in S : next[r] \in S \cup {Null}
From(p) == {q \in Producers : \A S \in SUBSET Producers : p \in S \cup {Null} /\ Closed(S) => q \in S}

List == From(producerListTail)

-----------------------------------------------------------------------------
(* recycle_or_create_producer(isExplicit): want[t] is the token for which  *)
(* an explicit producer is wanted, NoToken for an implicit one.            *)

Recycle(t, k) ==
  /\ ptr' = [ptr EXCEPT ![t] = producerListTail]
  /\ want' = [want EXCEPT ![t] = k]
  /\ Goto(t, "visit")

Wanted(t, p) == inactive[p] /\ isExplicit[p] = (want[t] # NoToken)

(* ptr is visited: it is wanted, or the walk goes on                       *)
Visit(t) ==
  /\ pc[t] = "visit" /\ ptr[t] # Null
  /\ \/ Wanted(t, ptr[t]) /\ Goto(t, "catch") /\ UNCHANGED ptr
     \/ ~Wanted(t, ptr[t]) /\ ptr' = [ptr EXCEPT ![t] = next[ptr[t]]] /\ UNCHANGED pc
  /\ UNCHANGED <<listVars, tokenVars, want, failures, budget>>

(* the producer is taken without looking at inactive again                 *)
MutCatch(t) ==
  /\ pc[t] = "catch"
  /\ inactive' = [inactive EXCEPT ![ptr[t]] = FALSE] /\ Goto(t, "got") /\ UNCHANGED ptr
  /\ UNCHANGED <<producerListTail, producerCount, next, isExplicit, created, tokenVars, want, failures, budget>>

(* inactive.compare_exchange_strong(true, false)                           *)
Catch(t) ==
  /\ pc[t] = "catch"
  /\ \/ /\ inactive[ptr[t]]
        /\ inactive' = [inactive EXCEPT ![ptr[t]] = FALSE] /\ Goto(t, "got") /\ UNCHANGED ptr
     \/ /\ ~inactive[ptr[t]]
        /\ ptr' = [ptr EXCEPT ![t] = next[ptr[t]]] /\ Goto(t, "visit") /\ UNCHANGED inactive
  /\ UNCHANGED <<producerListTail, producerCount, next, isExplicit, created, tokenVars, want, failures, budget>>

(* create<...Producer>() and producerCount.fetch_add(1)                    *)
Create(t) ==
  /\ pc[t] = "visit" /\ ptr[t] = Null /\ created < MaxProducers
  /\ created' = created + 1
  /\ isExplicit' = [isExplicit EXCEPT ![created'] = (want[t] # NoToken)]
  /\ ptr' = [ptr EXCEPT ![t] = created']
  /\ producerCount' = producerCount + 1
  /\ Goto(t, "load")
  /\ UNCHANGED <<producerListTail, next, inactive, tokenVars, want, failures, budget>>

(* create<...Producer>() finds no memory                                   *)
CreateFails(t) ==
  /\ pc[t] = "visit" /\ ptr[t] = Null /\ failures < MaxFailures
  /\ failures' = failures + 1 /\ Goto(t, "got")
  /\ UNCHANGED <<listVars, tokenVars, walkVars, budget>>

(* prevTail = producerListTail.load(); producer->next = prevTail           *)
LoadTail(t) ==
  /\ pc[t] = "load"
  /\ next' = [next EXCEPT ![ptr[t]] = producerListTail] /\ Goto(t, "push")
  /\ UNCHANGED <<producerListTail, producerCount, isExplicit, inactive, created, tokenVars, walkVars, failures, budget>>

(* a plain store instead of the exchange: a push in between is lost        *)
MutPush(t) ==
  /\ pc[t] = "push"
  /\ producerListTail' = ptr[t] /\ Goto(t, "got")
  /\ UNCHANGED <<producerCount, next, isExplicit, inactive, created, tokenVars, walkVars, failures, budget>>

(* producerListTail.compare_exchange_weak(prevTail, producer); a failure   *)
(* loads prevTail again                                                    *)
Push(t) ==
  /\ pc[t] = "push"
  /\ \/ /\ producerListTail = next[ptr[t]]
        /\ producerListTail' = ptr[t] /\ Goto(t, "got") /\ UNCHANGED next
     \/ /\ producerListTail # next[ptr[t]]
        /\ next' = [next EXCEPT ![ptr[t]] = producerListTail] /\ UNCHANGED <<pc, producerListTail>>
  /\ UNCHANGED <<producerCount, isExplicit, inactive, created, tokenVars, walkVars, failures, budget>>

-----------------------------------------------------------------------------
(* ProducerToken                                                           *)

ConstructToken(t, k) ==
  /\ pc[t] = "idle" /\ producerOf[k] = Null /\ budget[t].tokens > 0
  /\ budget' = [budget EXCEPT ![t].tokens = @ - 1]
  /\ Recycle(t, k)
  /\ UNCHANGED <<listVars, tokenVars, failures>>

(* the rest of the constructor; producer may be nullptr                    *)
TokenConstructed(t) ==
  /\ pc[t] = "got" /\ want[t] # NoToken
  /\ producerOf' = [producerOf EXCEPT ![want[t]] = ptr[t]]
  /\ tokenOf' = [p \in Producers |-> IF p = ptr[t] THEN want[t] ELSE tokenOf[p]]
  /\ ptr' = [ptr EXCEPT ![t] = Null] /\ want' = [want EXCEPT ![t] = NoToken]
  /\ Goto(t, "idle")
  /\ UNCHANGED <<listVars, failures, budget>>

(* swap(), move assignment, and the move constructor when j is a new token *)
SwapTokens(t, k, j) ==
  /\ pc[t] = "idle" /\ k # j
  /\ producerOf' = [producerOf EXCEPT ![k] = producerOf[j], ![j] = producerOf[k]]
  /\ tokenOf' = [p \in Producers |-> CASE p = producerOf'[k] -> k
                                       [] p = producerOf'[j] -> j
                                       [] OTHER -> tokenOf[p]]
  /\ UNCHANGED <<listVars, pc, walkVars, failures, budget>>

(* ~ProducerToken(): producer->token = nullptr ...                         *)
DestroyToken(t, k) ==
  /\ pc[t] = "idle" /\ producerOf[k] # Null
  /\ tokenOf' = [tokenOf EXCEPT ![producerOf[k]] = NoToken]
  /\ producerOf' = [producerOf EXCEPT ![k] = Null]
  /\ ptr' = [ptr EXCEPT ![t] = producerOf[k]]
  /\ Goto(t, "release")
  /\ UNCHANGED <<listVars, want, failures, budget>>

(* ... and inactive.store(true)                                            *)
ReleaseToken(t) ==
  /\ pc[t] = "release"
  /\ inactive' = [inactive EXCEPT ![ptr[t]] = TRUE]
  /\ ptr' = [ptr EXCEPT ![t] = Null] /\ Goto(t, "idle")
  /\ UNCHANGED <<producerListTail, producerCount, next, isExplicit, created, tokenVars, want, failures, budget>>

=============================================================================
