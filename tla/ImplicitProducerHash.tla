------------------------ MODULE ImplicitProducerHash ------------------------
(***************************************************************************)
(* ConcurrentQueue's registry of producers (include/concurrentqueue.h):    *)
(* the list of ProducerList and the hash table in which a thread that      *)
(* enqueues without a token finds its implicit producer again.  A table    *)
(* that becomes half full is replaced by a larger one; the older tables    *)
(* are kept behind it, and ids are moved forward when they are looked up.  *)
(*                                                                         *)
(* Keys are never removed, and an id is inserted by its own thread only:   *)
(* a lookup and a probe for an empty slot are one step each.  Implicit     *)
(* producers never become inactive: the code that would make them so is    *)
(* compiled with MOODYCAMEL_CPP11_THREAD_LOCAL_SUPPORTED only, which the   *)
(* header leaves undefined.                                                *)
(***************************************************************************)
EXTENDS ProducerList, Sequences, FiniteSetsExt

CONSTANTS InitialSize,    \* INITIAL_IMPLICIT_PRODUCER_HASH_SIZE
          HashOf          \* hash_thread_id of every thread

ASSUME HashAssumption ==
  /\ InitialSize \in Nat \ {0}        \* a power of two, for which & (capacity - 1) is % capacity
  /\ HashOf \in [Threads -> Nat]
  /\ IsFiniteSet(Threads) /\ "invalid_thread_id" \notin Threads

VARIABLES
  tables,                \* every hash table made, [capacity, entries, prev]
  implicitProducerHash,  \* the main table
  implicitProducerHashCount,
  resizeInProgress,      \* implicitProducerHashResizeInProgress
  mainHash, newCount,    \* locals of every thread
  got,                   \* history: of every thread, what its calls returned
  alive                  \* the queue is not destroyed

hashVars == <<tables, implicitProducerHash, implicitProducerHashCount, resizeInProgress>>
localVars == <<mainHash, newCount, got, alive>>
vars == <<listVars, tokenVars, pc, walkVars, failures, budget, hashVars, localVars>>

Empty == [key |-> "invalid_thread_id", value |-> Null]
NewTable(capacity, prev) ==
  [capacity |-> capacity, entries |-> [i \in 0 .. capacity - 1 |-> Empty], prev |-> prev]

Init ==
  /\ ListInit
  /\ tables = <<NewTable(InitialSize, 0)>>
  /\ implicitProducerHash = 1
  /\ implicitProducerHashCount = 0
  /\ resizeInProgress = FALSE
  /\ mainHash = [t \in Threads |-> 0] /\ newCount = [t \in Threads |-> 0]
  /\ got = [t \in Threads |-> {}]
  /\ alive = TRUE

-----------------------------------------------------------------------------
(* Tables                                                                  *)

(* the slot at which a probe of table h for t's id ends: one with the id   *)
(* or an empty one                                                         *)
Slot(h, t) ==
  LET slot(k) == (HashOf[t] + k) % tables[h].capacity
  IN  slot(Min({k \in 0 .. tables[h].capacity - 1 : tables[h].entries[slot(k)].key \in {t, Empty.key}}))

Has(h, t) == tables[h].entries[Slot(h, t)].key = t

(* the tables met from h on                                                *)
Behind(h) ==
  {g \in DOMAIN tables :
     \A S \in SUBSET DOMAIN tables : h \in S /\ (\A f \in S : tables[f].prev \in S \cup {0}) => g \in S}

Holders(h, t) == {g \in Behind(h) : Has(g, t)}
Value(h, t) == LET g == Max(Holders(h, t)) IN tables[g].entries[Slot(g, t)].value

PutIn(h, t, v) == tables' = [tables EXCEPT ![h].entries[Slot(h, t)] = [key |-> t, value |-> v]]

HalfFull(t) == newCount[t] >= tables[mainHash[t]].capacity \div 2

(* the table may become full                                               *)
MutFits(t) == newCount[t] <= tables[mainHash[t]].capacity

Fits(t) == newCount[t] < tables[mainHash[t]].capacity \div 2 + tables[mainHash[t]].capacity \div 4

-----------------------------------------------------------------------------
(* get_or_add_implicit_producer()                                          *)

Return(t, p) ==
  /\ got' = [got EXCEPT ![t] = IF p = Null THEN @ ELSE @ \cup {p}]
  /\ mainHash' = [mainHash EXCEPT ![t] = 0]
  /\ newCount' = [newCount EXCEPT ![t] = 0]

(* The id is looked for in the main table and in all previous ones.        *)
Lookup(t) ==
  /\ pc[t] = "idle" /\ alive /\ budget[t].calls > 0
  /\ budget' = [budget EXCEPT ![t].calls = @ - 1]
  /\ LET found == Holders(implicitProducerHash, t)
     IN  \/ /\ implicitProducerHash \in found
            /\ got' = [got EXCEPT ![t] = @ \cup {Value(implicitProducerHash, t)}]
            /\ UNCHANGED <<pc, mainHash, ptr>>
         \/ /\ found # {} /\ implicitProducerHash \notin found
            /\ mainHash' = [mainHash EXCEPT ![t] = implicitProducerHash]
            /\ ptr' = [ptr EXCEPT ![t] = Value(implicitProducerHash, t)]
            /\ Goto(t, "forward") /\ UNCHANGED got
         \/ /\ found = {}
            /\ mainHash' = [mainHash EXCEPT ![t] = implicitProducerHash]
            /\ Goto(t, "count") /\ UNCHANGED <<got, ptr>>
  /\ UNCHANGED <<listVars, tokenVars, want, failures, hashVars, newCount, alive>>

(* found in an older table: lazily added to mainHash                       *)
Forward(t) ==
  /\ pc[t] = "forward"
  /\ PutIn(mainHash[t], t, ptr[t])
  /\ Return(t, ptr[t]) /\ ptr' = [ptr EXCEPT ![t] = Null] /\ Goto(t, "idle")
  /\ UNCHANGED <<listVars, tokenVars, want, failures, budget, implicitProducerHash, implicitProducerHashCount,
                 resizeInProgress, alive>>

Count(t) ==
  /\ pc[t] = "count"
  /\ implicitProducerHashCount' = implicitProducerHashCount + 1
  /\ newCount' = [newCount EXCEPT ![t] = implicitProducerHashCount']
  /\ Goto(t, "loop")
  /\ UNCHANGED <<listVars, tokenVars, walkVars, failures, budget, tables, implicitProducerHash, resizeInProgress,
                 mainHash, got, alive>>

(* Nothing to resize, or somebody else does: into mainHash when it is less *)
(* than three-quarters full, otherwise wait for the new table.             *)
Decide(t) ==
  \/ Fits(t) /\ Recycle(t, NoToken)
  \/ ~Fits(t) /\ Goto(t, "reload") /\ UNCHANGED walkVars

(* the head of the loop: test_and_set of the flag, which is the lock under *)
(* which the main table is loaded again and replaced                       *)
Loop(t) ==
  /\ pc[t] = "loop"
  /\ \/ /\ HalfFull(t) /\ ~resizeInProgress
        /\ resizeInProgress' = TRUE
        /\ mainHash' = [mainHash EXCEPT ![t] = implicitProducerHash]
        /\ Goto(t, "resize") /\ UNCHANGED walkVars
     \/ /\ ~HalfFull(t) \/ resizeInProgress
        /\ Decide(t) /\ UNCHANGED <<mainHash, resizeInProgress>>
  /\ UNCHANGED <<listVars, tokenVars, failures, budget, tables, implicitProducerHash, implicitProducerHashCount,
                 newCount, got, alive>>

(* 1 shifted by i bits                                                     *)
PowerOfTwo[i \in Nat] == IF i = 0 THEN 1 ELSE 2 * PowerOfTwo[i - 1]

(* doubled until newCount is below half of it                              *)
NewCapacity(t) ==
  Min({c \in {tables[mainHash[t]].capacity * PowerOfTwo[i] : i \in 1 .. newCount[t] + 1} : newCount[t] < c \div 2})

(* the new table is published without the ones before it                   *)
MutResize(t) ==
  /\ pc[t] = "resize" /\ HalfFull(t)
  /\ tables' = Append(tables, NewTable(NewCapacity(t), 0))
  /\ implicitProducerHash' = Len(tables')
  /\ mainHash' = [mainHash EXCEPT ![t] = Len(tables')]
  /\ Goto(t, "unlock")
  /\ UNCHANGED <<listVars, tokenVars, walkVars, failures, budget, implicitProducerHashCount, resizeInProgress,
                 newCount, got, alive>>

(* the new table is published                                              *)
Resize(t) ==
  /\ pc[t] = "resize" /\ HalfFull(t)
  /\ tables' = Append(tables, NewTable(NewCapacity(t), mainHash[t]))
  /\ implicitProducerHash' = Len(tables')
  /\ mainHash' = [mainHash EXCEPT ![t] = Len(tables')]
  /\ Goto(t, "unlock")
  /\ UNCHANGED <<listVars, tokenVars, walkVars, failures, budget, implicitProducerHashCount, resizeInProgress,
                 newCount, got, alive>>

(* the flag is cleared, after the publication or because there is nothing  *)
(* to resize any more                                                      *)
Unlock(t) ==
  /\ \/ pc[t] = "unlock"
     \/ pc[t] = "resize" /\ ~HalfFull(t)
  /\ resizeInProgress' = FALSE
  /\ Decide(t)
  /\ UNCHANGED <<listVars, tokenVars, failures, budget, tables, implicitProducerHash, implicitProducerHashCount, localVars>>

(* the flag stays set                                                      *)
MutResizeFails(t) ==
  /\ pc[t] = "resize" /\ HalfFull(t) /\ failures < MaxFailures
  /\ failures' = failures + 1
  /\ implicitProducerHashCount' = implicitProducerHashCount - 1
  /\ Return(t, Null) /\ Goto(t, "idle")
  /\ UNCHANGED <<listVars, tokenVars, walkVars, budget, tables, implicitProducerHash, resizeInProgress, alive>>

(* no memory for the new table: nullptr is returned.  The count is taken   *)
(* back before the flag is cleared.                                        *)
ResizeFails(t) ==
  /\ pc[t] = "resize" /\ HalfFull(t) /\ failures < MaxFailures
  /\ failures' = failures + 1
  /\ implicitProducerHashCount' = implicitProducerHashCount - 1
  /\ Return(t, Null) /\ Goto(t, "giveUp")
  /\ UNCHANGED <<listVars, tokenVars, walkVars, budget, tables, implicitProducerHash, resizeInProgress, alive>>

GiveUp(t) ==
  /\ pc[t] = "giveUp"
  /\ resizeInProgress' = FALSE /\ Goto(t, "idle")
  /\ UNCHANGED <<listVars, tokenVars, walkVars, failures, budget, tables, implicitProducerHash, implicitProducerHashCount,
                 localVars>>

Reload(t) ==
  /\ pc[t] = "reload"
  /\ mainHash' = [mainHash EXCEPT ![t] = implicitProducerHash]
  /\ Goto(t, "loop")
  /\ UNCHANGED <<listVars, tokenVars, walkVars, failures, budget, hashVars, newCount, got, alive>>

(* recycle_or_create_producer(false) has returned: the id goes into        *)
(* mainHash, or the count is taken back                                    *)
Insert(t) ==
  /\ pc[t] = "got" /\ want[t] = NoToken
  /\ \/ /\ ptr[t] # Null /\ PutIn(mainHash[t], t, ptr[t])
        /\ UNCHANGED implicitProducerHashCount
     \/ /\ ptr[t] = Null /\ implicitProducerHashCount' = implicitProducerHashCount - 1
        /\ UNCHANGED tables
  /\ Return(t, ptr[t]) /\ ptr' = [ptr EXCEPT ![t] = Null] /\ Goto(t, "idle")
  /\ UNCHANGED <<listVars, tokenVars, want, failures, budget, implicitProducerHash, resizeInProgress, alive>>

-----------------------------------------------------------------------------
(* ~ConcurrentQueue(), when nobody uses the queue: every producer met in   *)
(* the list tells its token that it is gone                                *)
DestroyQueue ==
  /\ alive /\ \A t \in Threads : pc[t] = "idle"
  /\ alive' = FALSE
  /\ producerOf' = [k \in Tokens |-> IF \E p \in List : tokenOf[p] = k THEN Null ELSE producerOf[k]]
  /\ UNCHANGED <<listVars, tokenOf, pc, walkVars, failures, budget, hashVars, mainHash, newCount, got>>

TokenStep(t) ==
  \/ \E k, j \in TokensOf(t) : alive /\ SwapTokens(t, k, j)
  \/ \E k \in TokensOf(t) : (alive /\ ConstructToken(t, k)) \/ DestroyToken(t, k)
  \/ TokenConstructed(t)
  \/ ReleaseToken(t)

ListStep(t) ==
  \/ Visit(t) \/ Catch(t) \/ Create(t) \/ CreateFails(t) \/ LoadTail(t) \/ Push(t)

HashStep(t) ==
  \/ Forward(t) \/ Count(t) \/ Loop(t) \/ Resize(t) \/ Unlock(t) \/ ResizeFails(t) \/ GiveUp(t)
  \/ Reload(t) \/ Insert(t)

Next ==
  \/ \E t \in Threads :
       \/ (TokenStep(t) \/ ListStep(t)) /\ UNCHANGED <<hashVars, localVars>>
       \/ Lookup(t) \/ HashStep(t)
  \/ DestroyQueue

(* A thread inside a call goes on.  A call may be made or not.             *)
Fairness ==
  \A t \in Threads :
    WF_vars(HashStep(t) \/ ((ListStep(t) \/ TokenConstructed(t) \/ ReleaseToken(t)) /\ UNCHANGED <<hashVars, localVars>>))

Spec == Init /\ [][Next]_vars /\ Fairness

-----------------------------------------------------------------------------
(* Every hash table always has an empty slot, however many threads insert  *)
(* themselves in old and new tables at once and lazily move their ids      *)
(* forward: the probes at 3317, 3330 and 3418 end only for that reason.    *)
TablesHaveRoom ==
  \A h \in DOMAIN tables : \E i \in DOMAIN tables[h].entries : tables[h].entries[i] = Empty

(* A thread that enqueues without a token gets the same producer in every  *)
(* call, and no other thread gets it, whatever tables were made in         *)
(* between: an implicit producer is a single-producer queue.               *)
ImplicitProducersOwned ==
  /\ \A t \in Threads : Cardinality(got[t]) <= 1
  /\ \A t, u \in Threads : t # u => got[t] \cap got[u] = {}
  /\ UNION {got[t] : t \in Threads} \subseteq {p \in List : ~isExplicit[p]}

(* who has explicit producer p on duty: a token, or a thread on the way    *)
(* from one or to one                                                      *)
Holding(p) ==
  {k \in Tokens : producerOf[k] = p} \cup {<<t>> : t \in {u \in Threads : pc[u] \in {"got", "release"} /\ ptr[u] = p}}

(* A producer that a token has is in the list, points back at that token   *)
(* (what ~ConcurrentQueue relies on to leave no token with a deleted       *)
(* producer), is not inactive and is no other token's: two threads         *)
(* constructing a token at once never share a producer.                    *)
TokensExclusive ==
  LET explicits == {p \in List : isExplicit[p]}
  IN  /\ \A k \in Tokens : producerOf[k] # Null => producerOf[k] \in explicits /\ tokenOf[producerOf[k]] = k
      /\ \A p \in explicits : Cardinality(Holding(p)) = IF inactive[p] \/ ~alive THEN 0 ELSE 1

(* Every producer whose add_producer() has returned is reachable from the  *)
(* tail, and producerCount is never below the length of the list, which    *)
(* consumers divide by it.                                                 *)
ListComplete ==
  LET list == List
  IN  /\ Cardinality(list) <= producerCount
      /\ (\A t \in Threads : pc[t] = "idle") => list = 1 .. created /\ producerCount = created

(* A thread that enqueues without a token gets its producer or an error:   *)
(* it never waits for a new table that nobody makes.                       *)
CallsReturn == \A t \in Threads : pc[t] # "idle" ~> pc[t] = "idle"

=============================================================================
