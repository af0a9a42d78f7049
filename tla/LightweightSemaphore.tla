----------------------- MODULE LightweightSemaphore ------------------------
(***************************************************************************)
(* moodycamel::details::mpmc_sema::LightweightSemaphore                    *)
(* (include/blockingconcurrentqueue.h): an atomic count in front of a      *)
(* kernel semaphore.  A negative m_count is the number of threads that     *)
(* have announced that they sleep on m_sema.                               *)
(*                                                                         *)
(* wait(), wait(timeout) and tryWait() are waitMany and tryWaitMany with   *)
(* max = 1: the code computes the same counts.  Every load, CAS, fetch_sub,*)
(* fetch_add and kernel call is a step of its own.  The 10000 rounds of    *)
(* spinning are any number of rounds.                                      *)
(***************************************************************************)
EXTENDS Integers, FiniteSets, Tally

CONSTANTS Waiters,      \* threads that acquire
          Signallers,   \* threads that signal (a thread may do both)
          Initial,      \* initialCount
          Requests,     \* the values of max callers pass
          Signals,      \* the counts callers signal
          MaxCount      \* bound: no signal takes m_count beyond it

ASSUME InitialAssumption == Initial \in Nat       \* assert(initialCount >= 0)
ASSUME RequestsAssumption == Requests \subseteq Nat      \* assert(max >= 0)
ASSUME SignalsAssumption == Signals \subseteq Nat        \* assert(count >= 0)
ASSUME ThreadsAssumption == IsFiniteSet(Waiters) /\ IsFiniteSet(Signallers)

Threads == Waiters \cup Signallers

VARIABLES
  m_count,   \* units available, or minus the number of announced sleepers
  m_sema,    \* value of the kernel semaphore
  pc,        \* idle, try, spin, spinCas, block, adjust, adjusted, more, post
  kind,      \* the call: try, wait (no timeout), timed
  max,       \* its argument
  old,       \* oldCount
  got,       \* units acquired by the current call; its result when idle
  toPost     \* posts left in Semaphore::signal(count)

vars == <<m_count, m_sema, pc, kind, max, old, got, toPost>>

Init ==
  /\ m_count = Initial /\ m_sema = 0
  /\ pc = [t \in Threads |-> "idle"]
  /\ kind = [t \in Threads |-> "try"]
  /\ max = [t \in Threads |-> 0]
  /\ old = [t \in Threads |-> 0]
  /\ got = [t \in Threads |-> 0]
  /\ toPost = [t \in Threads |-> 0]

Goto(t, l) == pc' = [pc EXCEPT ![t] = l]

(* newCount: what a greedy acquisition leaves                              *)
NewCount(c, m) == IF c > m THEN c - m ELSE 0

-----------------------------------------------------------------------------
(* A call begins: the first load of tryWait or tryWaitMany.                *)
Call(t, k, m) ==
  /\ pc[t] = "idle"
  /\ Goto(t, "try")
  /\ kind' = [kind EXCEPT ![t] = k]
  /\ max' = [max EXCEPT ![t] = m]
  /\ got' = [got EXCEPT ![t] = 0]
  /\ old' = [old EXCEPT ![t] = m_count]
  /\ UNCHANGED <<m_count, m_sema, toPost>>

(* waitMany returns tryWaitMany's result without looking at it             *)
MutTryEnds(t) ==
  /\ pc[t] = "try" /\ old[t] <= 0
  /\ Goto(t, "idle")
  /\ UNCHANGED <<m_count, m_sema, kind, max, old, got, toPost>>

(* while (oldCount > 0) ends: the call returns, or goes on to wait unless  *)
(* it only tries or has its first unit already.                            *)
TryEnds(t) ==
  /\ pc[t] = "try" /\ old[t] <= 0
  /\ Goto(t, IF kind[t] = "try" \/ max[t] = 0 \/ got[t] > 0 THEN "idle" ELSE "spin")
  /\ UNCHANGED <<m_count, m_sema, kind, max, old, got, toPost>>

(* compare_exchange_weak succeeds; tryWaitMany was given max, or max - 1   *)
(* after a first unit                                                      *)
TryCas(t) ==
  /\ pc[t] = "try" /\ old[t] > 0 /\ m_count = old[t]
  /\ m_count' = NewCount(old[t], max[t] - got[t])
  /\ got' = [got EXCEPT ![t] = @ + old[t] - NewCount(old[t], max[t] - got[t])]
  /\ Goto(t, "idle")
  /\ UNCHANGED <<m_sema, kind, max, old, toPost>>

(* compare_exchange_weak fails (also spuriously) and reloads oldCount      *)
TryCasFails(t) ==
  /\ pc[t] = "try" /\ old[t] > 0
  /\ old' = [old EXCEPT ![t] = m_count]
  /\ UNCHANGED <<m_count, m_sema, pc, kind, max, got, toPost>>

-----------------------------------------------------------------------------
(* waitWithPartialSpinning, waitManyWithPartialSpinning                    *)

SpinLoad(t) ==
  /\ pc[t] = "spin"
  /\ old' = [old EXCEPT ![t] = m_count]
  /\ Goto(t, IF m_count > 0 THEN "spinCas" ELSE "spin")
  /\ UNCHANGED <<m_count, m_sema, kind, max, got, toPost>>

SpinCas(t) ==
  /\ pc[t] = "spinCas"
  /\ IF m_count = old[t]
     THEN /\ m_count' = NewCount(old[t], max[t])
          /\ got' = [got EXCEPT ![t] = old[t] - NewCount(old[t], max[t])]
          /\ Goto(t, "idle")
     ELSE /\ Goto(t, "spin")
          /\ UNCHANGED <<m_count, got>>
  /\ UNCHANGED <<m_sema, kind, max, old, toPost>>

(* The first unit is there: return 1, or 1 + tryWaitMany(max - 1).         *)
FirstUnit(t) ==
  /\ got' = [got EXCEPT ![t] = 1]
  /\ Goto(t, IF max[t] > 1 THEN "more" ELSE "idle")

(* the test of the old count is off by one                                 *)
MutFetchSub(t) ==
  /\ pc[t] = "spin"
  /\ m_count' = m_count - 1
  /\ IF m_count >= 0 THEN FirstUnit(t) ELSE Goto(t, "block") /\ UNCHANGED got
  /\ UNCHANGED <<m_sema, kind, max, old, toPost>>

(* spinning ends: fetch_sub(1), and sleep unless there was a unit          *)
FetchSub(t) ==
  /\ pc[t] = "spin"
  /\ m_count' = m_count - 1
  /\ IF m_count > 0 THEN FirstUnit(t) ELSE Goto(t, "block") /\ UNCHANGED got
  /\ UNCHANGED <<m_sema, kind, max, old, toPost>>

(* m_sema.wait() or timed_wait() gets a post                               *)
SemaWait(t) ==
  /\ pc[t] = "block" /\ m_sema > 0
  /\ m_sema' = m_sema - 1
  /\ FirstUnit(t)
  /\ UNCHANGED <<m_count, kind, max, old, toPost>>

(* timed_wait() gives up: the count is still decremented                   *)
Timeout(t) ==
  /\ pc[t] = "block" /\ kind[t] = "timed"
  /\ Goto(t, "adjust")
  /\ UNCHANGED <<m_count, m_sema, kind, max, old, got, toPost>>

AdjustLoad(t) ==
  /\ pc[t] = "adjust"
  /\ old' = [old EXCEPT ![t] = m_count]
  /\ Goto(t, "adjusted")
  /\ UNCHANGED <<m_count, m_sema, kind, max, got, toPost>>

(* oldCount >= 0: a post is there or under way; m_sema.try_wait()          *)
AdjustTryWait(t) ==
  /\ pc[t] = "adjusted" /\ old[t] >= 0
  /\ IF m_sema > 0 THEN m_sema' = m_sema - 1 /\ FirstUnit(t)
                   ELSE Goto(t, "adjust") /\ UNCHANGED <<m_sema, got>>
  /\ UNCHANGED <<m_count, kind, max, old, toPost>>

(* the decrement is taken back whatever the count has become               *)
MutAdjustUndo(t) ==
  /\ pc[t] = "adjusted" /\ old[t] < 0
  /\ m_count' = m_count + 1 /\ Goto(t, "idle")
  /\ UNCHANGED <<m_sema, kind, max, old, got, toPost>>

(* oldCount < 0: take the decrement back if the count is still that        *)
AdjustUndo(t) ==
  /\ pc[t] = "adjusted" /\ old[t] < 0
  /\ IF m_count = old[t] THEN m_count' = m_count + 1 /\ Goto(t, "idle")
                         ELSE Goto(t, "adjust") /\ UNCHANGED m_count
  /\ UNCHANGED <<m_sema, kind, max, old, got, toPost>>

(* 1 + tryWaitMany(max - 1): its first load                                *)
More(t) ==
  /\ pc[t] = "more"
  /\ Goto(t, "try")
  /\ old' = [old EXCEPT ![t] = m_count]
  /\ UNCHANGED <<m_count, m_sema, kind, max, got, toPost>>

-----------------------------------------------------------------------------
(* one sleeper too few is woken                                            *)
MutToRelease(c, n) == IF -c < n THEN -c - 1 ELSE n

(* toRelease of signal(n) when the count was c                             *)
ToRelease(c, n) == IF -c < n THEN -c ELSE n

(* signal(n): fetch_add, then the kernel posts one by one                  *)
Signal(t, n) ==
  /\ pc[t] = "idle" /\ m_count + n <= MaxCount
  /\ m_count' = m_count + n
  /\ IF ToRelease(m_count, n) > 0
     THEN Goto(t, "post") /\ toPost' = [toPost EXCEPT ![t] = ToRelease(m_count, n)]
     ELSE UNCHANGED <<pc, toPost>>
  /\ UNCHANGED <<m_sema, kind, max, old, got>>

(* one round of Semaphore::signal(count)                                   *)
Post(t) ==
  /\ pc[t] = "post"
  /\ m_sema' = m_sema + 1
  /\ toPost' = [toPost EXCEPT ![t] = @ - 1]
  /\ Goto(t, IF toPost[t] = 1 THEN "idle" ELSE "post")
  /\ UNCHANGED <<m_count, kind, max, old, got>>

-----------------------------------------------------------------------------
(* The steps of a call once it has begun                                   *)
Step(t) ==
  \/ TryEnds(t) \/ TryCas(t) \/ TryCasFails(t)
  \/ SpinLoad(t) \/ SpinCas(t) \/ FetchSub(t)
  \/ SemaWait(t) \/ Timeout(t)
  \/ AdjustLoad(t) \/ AdjustTryWait(t) \/ AdjustUndo(t)
  \/ More(t) \/ Post(t)

Next ==
  \/ \E t \in Waiters, k \in {"try", "wait", "timed"}, m \in Requests : Call(t, k, m)
  \/ \E t \in Signallers, n \in Signals : Signal(t, n)
  \/ \E t \in Threads : Step(t)

Spec == Init /\ [][Next]_vars

(* A thread inside a call keeps running, the 10000 rounds of spinning end, *)
(* and a timed wait ends; nobody is obliged to call.                       *)
Fairness == \A t \in Threads :
  /\ WF_vars(TryEnds(t) \/ TryCas(t) \/ TryCasFails(t) \/ SpinCas(t) \/ More(t) \/ Post(t))
  /\ WF_vars(FetchSub(t))
  /\ WF_vars(SemaWait(t))
  /\ WF_vars(Timeout(t))
  /\ WF_vars(AdjustLoad(t) \/ AdjustTryWait(t) \/ AdjustUndo(t))

FairSpec == Spec /\ Fairness

-----------------------------------------------------------------------------
(* The threads that have decremented m_count without having a unit yet     *)
Sleepers == {t \in Threads : pc[t] \in {"block", "adjust", "adjusted"}}

(* Posts of Semaphore::signal that have not been made yet                  *)
Owed == Total(toPost, Threads)

(* Every variable stays within its range; in particular a semaphore value  *)
(* or a number of posts left never goes below zero.                        *)
TypeOK ==
  /\ m_count \in Int /\ m_sema \in Nat
  /\ pc \in [Threads -> {"idle", "try", "spin", "spinCas", "block", "adjust",
                         "adjusted", "more", "post"}]
  /\ kind \in [Threads -> {"try", "wait", "timed"}]
  /\ max \in [Threads -> Nat]
  /\ old \in [Threads -> Int]
  /\ got \in [Threads -> Nat]
  /\ toPost \in [Threads -> Nat]

(* Kernel posts, made or owed, match the sleepers that are not accounted   *)
(* for by a negative count: a timed-out wait neither leaves a stray post   *)
(* behind nor takes one meant for somebody else.                           *)
PostsMatchSleepers ==
  m_sema + Owed = Cardinality(Sleepers) - (IF m_count < 0 THEN -m_count ELSE 0)

(* assert(result > 0) in waitMany(max): a wait without a timeout returns   *)
(* with at least one unit.                                                 *)
WaitManyAssert == \A t \in Threads : pc[t] = "idle" /\ kind[t] = "wait" => got[t] > 0

(* While a thread sleeps without a timeout and units remain available for  *)
(* ever, calls keep acquiring: the posts that signal() owes do arrive, and *)
(* no timed-out wait keeps them from being used.                           *)
SleepersServed ==
  <>[](/\ \E t \in Waiters : pc[t] = "block" /\ kind[t] = "wait"
       /\ m_count + Cardinality(Sleepers) > 0)
    => []<><<\E t \in Waiters : got'[t] > got[t]>>_vars

(* The two counts together implement a counting semaphore; the units       *)
(* available are m_count with the sleepers' decrements taken back.         *)
Sem == INSTANCE CountingSemaphore WITH avail <- m_count + Cardinality(Sleepers)
ImplementsSemaphore == Sem!Spec
=============================================================================
