------------------- MODULE BlockingConcurrentQueueProofs -------------------
(***************************************************************************)
(* Proofs about LightweightSemaphore and BlockingConcurrentQueue, which is *)
(* built on it.                                                            *)
(*                                                                         *)
(* LightweightSemaphore, for any finite sets of threads, any initial count *)
(* and any arguments: the kernel posts match the sleepers, waitMany keeps  *)
(* its assertion, and the semaphore implements CountingSemaphore.          *)
(*                                                                         *)
(* BlockingConcurrentQueue, on a CountingSemaphore, for any finite sets of *)
(* producers and consumers and any sizes of the bulk operations: the loop  *)
(* around inner.try_dequeue*() always has an element to find, and          *)
(* size_approx() is exact at rest if only single elements are ever lost to *)
(* an exception.                                                           *)
(***************************************************************************)
EXTENDS MCBlockingConcurrentQueue, CountingLemmas

-----------------------------------------------------------------------------
(* LightweightSemaphore                                                    *)

Asleep == {"block", "adjust", "adjusted"}

(* What every thread knows at the places of its call: posts are owed only  *)
(* inside signal(), no call has more than it asked for, one that waits has *)
(* nothing yet and wants something.                                        *)
CallInv ==
  \A t \in Threads :
    /\ pc[t] = "post" <=> toPost[t] > 0
    /\ pc[t] \notin {"idle", "post"} => max[t] \in Requests
    /\ pc[t] = "try" => got[t] <= max[t]
    /\ pc[t] \in {"spin", "spinCas"} \cup Asleep => got[t] = 0 /\ max[t] > 0
    /\ pc[t] = "spinCas" => old[t] > 0
    /\ pc[t] = "more" => got[t] = 1 /\ max[t] > 1

SemaInv == TypeOK /\ CallInv /\ PostsMatchSleepers

-----------------------------------------------------------------------------
(* The sets and sums that PostsMatchSleepers counts                        *)

(* A thread's step changes the number of sleepers by what it does itself.  *)
LEMMA SleepersChange ==
  ASSUME NEW t \in Threads, \A u \in Threads \ {t} : pc'[u] = pc[u]
  PROVE  /\ Cardinality(Sleepers) \in Nat /\ Cardinality(Sleepers') \in Nat
         /\ Cardinality(Sleepers') = Cardinality(Sleepers)
              + (IF pc'[t] \in Asleep THEN 1 ELSE 0) - (IF pc[t] \in Asleep THEN 1 ELSE 0)
  <1>1. IsFiniteSet(Sleepers)
    <2>1. IsFiniteSet(Threads)
      BY ThreadsAssumption, FS_Union DEF Threads
    <2>2. Sleepers \in SUBSET Threads
      BY DEF Sleepers
    <2> QED
      BY <2>1, <2>2, FS_Subset
  <1>2. Sleepers' \ {t} = Sleepers \ {t}
    BY DEF Sleepers
  <1>3. (t \in Sleepers <=> pc[t] \in Asleep) /\ (t \in Sleepers' <=> pc'[t] \in Asleep)
    BY DEF Sleepers, Asleep
  <1> QED
    BY <1>1, <1>2, <1>3, OneElement

(* The posts owed are a number, and a thread changes it by what it owes.   *)
LEMMA OwedChange ==
  ASSUME TypeOK, toPost' \in [Threads -> Nat], NEW t \in Threads,
         \A u \in Threads \ {t} : toPost'[u] = toPost[u]
  PROVE  Owed \in Nat /\ Owed' \in Nat /\ Owed' = Owed - toPost[t] + toPost'[t]
  <1>1. IsFiniteSet(Threads)
    BY ThreadsAssumption, FS_Union DEF Threads
  <1> QED
    BY <1>1, TotalType, TotalUpdate DEF Owed, TypeOK

(* What a greedy acquisition of at most m leaves and takes.                *)
LEMMA NewCountTakes ==
  ASSUME NEW c \in Int, NEW m \in Nat, c > 0
  PROVE  /\ NewCount(c, m) \in Nat /\ c - NewCount(c, m) \in Nat
         /\ c - NewCount(c, m) <= m /\ (m > 0 => c - NewCount(c, m) > 0)
  BY DEF NewCount

-----------------------------------------------------------------------------
(* SemaInv is inductive.                                                   *)

(* A new semaphore has its initial count and nobody asleep.                *)
LEMMA InitSema == Init => SemaInv
  <1> SUFFICES ASSUME Init PROVE SemaInv
    OBVIOUS
  <1>1. TypeOK /\ CallInv
    BY InitialAssumption DEF Init, TypeOK, CallInv, Asleep
  <1>2. IsFiniteSet(Threads)
    BY ThreadsAssumption, FS_Union DEF Threads
  <1>3. Owed = 0
    BY <1>1, <1>2, TotalZero DEF Init, Owed, TypeOK
  <1>4. Sleepers = {}
    BY DEF Init, Sleepers
  <1> QED
    BY <1>1, <1>3, <1>4, FS_EmptySet, InitialAssumption DEF Init, SemaInv, PostsMatchSleepers

(* A step that leaves the posts alone and takes nobody to sleep or out of  *)
(* it keeps the balance, if it changes the count above zero only.          *)
LEMMA BalanceKept ==
  ASSUME SemaInv, NEW t \in Threads, UNCHANGED <<m_sema, toPost>>,
         m_count' = m_count \/ (m_count > 0 /\ m_count' >= 0 /\ m_count' \in Int),
         \A u \in Threads \ {t} : pc'[u] = pc[u], pc[t] \notin Asleep, pc'[t] \notin Asleep
  PROVE  PostsMatchSleepers'
  <1>1. Cardinality(Sleepers') = Cardinality(Sleepers) /\ Cardinality(Sleepers) \in Nat
    BY SleepersChange
  <1>2. Owed' = Owed
    BY DEF Owed
  <1> QED
    BY <1>1, <1>2 DEF SemaInv, PostsMatchSleepers, TypeOK

(* A call begins.                                                          *)
LEMMA CallSema ==
  ASSUME SemaInv, NEW t \in Waiters, NEW k \in {"try", "wait", "timed"}, NEW m \in Requests, Call(t, k, m)
  PROVE  SemaInv'
  <1>0. t \in Threads /\ m \in Nat
    BY RequestsAssumption DEF Threads
  <1>1. TypeOK'
    BY <1>0 DEF SemaInv, TypeOK, Call, Goto
  <1>2. CallInv'
    BY <1>0 DEF SemaInv, TypeOK, CallInv, Call, Goto, Asleep
  <1>3. PostsMatchSleepers'
    <2>1. /\ pc[t] \notin Asleep /\ pc'[t] \notin Asleep /\ \A u \in Threads \ {t} : pc'[u] = pc[u]
          /\ UNCHANGED <<m_count, m_sema, toPost>>
      BY <1>0 DEF SemaInv, TypeOK, Call, Goto, Asleep
    <2> QED
      BY <1>0, <2>1, BalanceKept
  <1> QED
    BY <1>1, <1>2, <1>3 DEF SemaInv

(* signal(n) owes a post for every sleeper it takes off a negative count.  *)
LEMMA SignalSema ==
  ASSUME SemaInv, NEW t \in Signallers, NEW n \in Signals, Signal(t, n)
  PROVE  SemaInv'
  <1>0. t \in Threads /\ n \in Nat
    BY SignalsAssumption DEF Threads
  <1>1. /\ pc[t] = "idle" /\ toPost[t] = 0 /\ m_count' = m_count + n /\ m_count \in Int
        /\ UNCHANGED <<m_sema, kind, max, old, got>>
    BY <1>0 DEF SemaInv, TypeOK, CallInv, Signal
  <1> DEFINE r == ToRelease(m_count, n)
  <1>2. r \in Int /\ (m_count >= 0 => r <= 0) /\ (m_count < 0 => r >= 0)
        /\ (m_count < 0 => r = IF m_count + n < 0 THEN n ELSE -m_count)
    BY <1>0, <1>1 DEF ToRelease
  <1> HIDE DEF r
  <1>3. CASE r > 0
    <2>1. pc' = [pc EXCEPT ![t] = "post"] /\ toPost' = [toPost EXCEPT ![t] = r]
      BY <1>3 DEF Signal, Goto, r
    <2>2. TypeOK'
      BY <1>0, <1>1, <1>2, <1>3, <2>1 DEF SemaInv, TypeOK
    <2>3. CallInv'
      BY <1>0, <1>1, <1>2, <1>3, <2>1 DEF SemaInv, TypeOK, CallInv, Asleep
    <2>4. /\ pc'[t] = "post" /\ toPost'[t] = r
          /\ \A u \in Threads \ {t} : pc'[u] = pc[u] /\ toPost'[u] = toPost[u]
      BY <1>0, <2>1 DEF SemaInv, TypeOK
    <2>5. Cardinality(Sleepers') = Cardinality(Sleepers) /\ Cardinality(Sleepers) \in Nat
      BY <1>0, <1>1, <2>4, SleepersChange DEF Asleep
    <2>6. Owed' = Owed + r /\ Owed \in Nat
      BY <1>0, <1>1, <1>2, <2>2, <2>4, OwedChange DEF SemaInv, TypeOK
    <2>7. PostsMatchSleepers'
      BY <1>0, <1>1, <1>2, <1>3, <2>5, <2>6 DEF SemaInv, PostsMatchSleepers, TypeOK
    <2> QED
      BY <2>2, <2>3, <2>7 DEF SemaInv
  <1>4. CASE ~(r > 0)
    <2>1. UNCHANGED <<pc, toPost>>
      BY <1>4 DEF Signal, r
    <2>2. TypeOK' /\ CallInv'
      BY <1>0, <1>1, <2>1 DEF SemaInv, TypeOK, CallInv
    <2>3. Sleepers' = Sleepers /\ Owed' = Owed
      BY <2>1 DEF Sleepers, Owed
    <2>4. m_count < 0 => n = 0
      BY <1>0, <1>1, <1>2, <1>4
    <2>5. PostsMatchSleepers'
      BY <1>0, <1>1, <2>3, <2>4 DEF SemaInv, PostsMatchSleepers, TypeOK
    <2> QED
      BY <2>2, <2>5 DEF SemaInv
  <1> QED
    BY <1>3, <1>4

(* The first unit, with or without the call of tryWaitMany for more.       *)
LEMMA FirstUnitMeans ==
  ASSUME TypeOK, NEW t \in Threads, FirstUnit(t)
  PROVE  /\ got' = [got EXCEPT ![t] = 1]
         /\ \E l \in {"more", "idle"} : pc' = [pc EXCEPT ![t] = l] /\ (l = "more" => max[t] > 1)
  BY DEF FirstUnit, Goto

(* The steps of tryWait and tryWaitMany.                                   *)
LEMMA TrySema ==
  ASSUME SemaInv, NEW t \in Threads, TryEnds(t) \/ TryCas(t) \/ TryCasFails(t) \/ More(t)
  PROVE  SemaInv'
  <1> USE DEF SemaInv, TypeOK
  <1>1. CASE TryEnds(t)
    <2>1. \E l \in {"idle", "spin"} : pc' = [pc EXCEPT ![t] = l] /\ (l = "spin" => max[t] # 0 /\ ~(got[t] > 0))
      BY <1>1 DEF TryEnds, Goto
    <2>2. pc[t] = "try" /\ UNCHANGED <<m_count, m_sema, kind, max, old, got, toPost>>
      BY <1>1 DEF TryEnds
    <2>3. TypeOK'
      BY <2>1, <2>2
    <2>4. CallInv'
      BY <2>1, <2>2 DEF CallInv, Asleep
    <2>5. PostsMatchSleepers'
      BY <2>1, <2>2, BalanceKept DEF Asleep
    <2> QED
      BY <2>3, <2>4, <2>5
  <1>2. CASE TryCas(t)
    <2>1. /\ pc[t] = "try" /\ old[t] > 0 /\ m_count = old[t] /\ max[t] - got[t] \in Nat
          /\ UNCHANGED <<m_sema, kind, max, old, toPost>> /\ pc' = [pc EXCEPT ![t] = "idle"]
      BY <1>2 DEF TryCas, CallInv, Goto
    <2> DEFINE n == NewCount(old[t], max[t] - got[t])
    <2>2. n \in Nat /\ old[t] - n \in Nat
      BY <2>1, NewCountTakes
    <2> HIDE DEF n
    <2>3. m_count' = n /\ got' = [got EXCEPT ![t] = @ + old[t] - n]
      BY <1>2 DEF TryCas, n
    <2>4. TypeOK'
      BY <2>1, <2>2, <2>3
    <2>5. CallInv'
      BY <2>1, <2>3 DEF CallInv, Asleep
    <2>6. PostsMatchSleepers'
      BY <2>1, <2>2, <2>3, BalanceKept DEF Asleep
    <2> QED
      BY <2>4, <2>5, <2>6
  <1>3. CASE TryCasFails(t)
    <2>1. UNCHANGED <<m_count, m_sema, pc, kind, max, got, toPost>> /\ old' = [old EXCEPT ![t] = m_count]
      BY <1>3 DEF TryCasFails
    <2>2. pc[t] = "try"
      BY <1>3 DEF TryCasFails
    <2>3. TypeOK' /\ CallInv'
      BY <2>1, <2>2 DEF CallInv, Asleep
    <2>4. PostsMatchSleepers'
      BY <2>1, <2>2, BalanceKept DEF Asleep
    <2> QED
      BY <2>3, <2>4
  <1>4. CASE More(t)
    <2>1. /\ pc[t] = "more" /\ pc' = [pc EXCEPT ![t] = "try"] /\ old' = [old EXCEPT ![t] = m_count]
          /\ UNCHANGED <<m_count, m_sema, kind, max, got, toPost>>
      BY <1>4 DEF More, Goto
    <2>2. TypeOK' /\ CallInv'
      BY <2>1 DEF CallInv, Asleep
    <2>3. PostsMatchSleepers'
      BY <2>1, BalanceKept DEF Asleep
    <2> QED
      BY <2>2, <2>3
  <1> QED
    BY <1>1, <1>2, <1>3, <1>4

(* Spinning, and the step from it into the kernel.                         *)
LEMMA SpinSema ==
  ASSUME SemaInv, NEW t \in Threads, SpinLoad(t) \/ SpinCas(t) \/ FetchSub(t)
  PROVE  SemaInv'
  <1> USE DEF SemaInv, TypeOK
  <1>1. CASE SpinLoad(t)
    <2>1. /\ pc[t] = "spin" /\ old' = [old EXCEPT ![t] = m_count]
          /\ pc' = [pc EXCEPT ![t] = IF m_count > 0 THEN "spinCas" ELSE "spin"]
          /\ UNCHANGED <<m_count, m_sema, kind, max, got, toPost>>
      BY <1>1 DEF SpinLoad, Goto
    <2>2. TypeOK' /\ CallInv'
      BY <2>1 DEF CallInv, Asleep
    <2>3. PostsMatchSleepers'
      BY <2>1, BalanceKept DEF Asleep
    <2> QED
      BY <2>2, <2>3
  <1>2. CASE SpinCas(t)
    <2>1. pc[t] = "spinCas" /\ UNCHANGED <<m_sema, kind, max, old, toPost>> /\ old[t] > 0 /\ got[t] = 0
      BY <1>2 DEF SpinCas, CallInv
    <2> DEFINE n == NewCount(old[t], max[t])
    <2>2. n \in Nat /\ old[t] - n \in Nat
      BY <2>1, NewCountTakes
    <2> HIDE DEF n
    <2>3. CASE m_count = old[t]
      <3>1. m_count' = n /\ got' = [got EXCEPT ![t] = old[t] - n] /\ pc' = [pc EXCEPT ![t] = "idle"]
        BY <1>2, <2>3 DEF SpinCas, Goto, n
      <3>2. TypeOK' /\ CallInv'
        BY <2>1, <2>2, <3>1 DEF CallInv, Asleep
      <3>3. PostsMatchSleepers'
        BY <2>1, <2>2, <2>3, <3>1, BalanceKept DEF Asleep
      <3> QED
        BY <3>2, <3>3
    <2>4. CASE m_count # old[t]
      <3>1. UNCHANGED <<m_count, got>> /\ pc' = [pc EXCEPT ![t] = "spin"]
        BY <1>2, <2>4 DEF SpinCas, Goto
      <3>2. TypeOK' /\ CallInv'
        BY <2>1, <3>1 DEF CallInv, Asleep
      <3>3. PostsMatchSleepers'
        BY <2>1, <3>1, BalanceKept DEF Asleep
      <3> QED
        BY <3>2, <3>3
    <2> QED
      BY <2>3, <2>4
  <1>3. CASE FetchSub(t)
    <2>1. /\ pc[t] = "spin" /\ m_count' = m_count - 1 /\ got[t] = 0 /\ max[t] > 0
          /\ UNCHANGED <<m_sema, kind, max, old, toPost>>
      BY <1>3 DEF FetchSub, CallInv
    <2>2. CASE m_count > 0
      <3>1. PICK l \in {"more", "idle"} : pc' = [pc EXCEPT ![t] = l] /\ (l = "more" => max[t] > 1)
        BY <1>3, <2>2, FirstUnitMeans DEF FetchSub
      <3>2. got' = [got EXCEPT ![t] = 1]
        BY <1>3, <2>2, FirstUnitMeans DEF FetchSub
      <3>3. TypeOK' /\ CallInv'
        BY <2>1, <3>1, <3>2 DEF CallInv, Asleep
      <3>4. PostsMatchSleepers'
        BY <2>1, <2>2, <3>1, BalanceKept DEF Asleep
      <3> QED
        BY <3>3, <3>4
    <2>3. CASE ~(m_count > 0)
      <3>1. pc' = [pc EXCEPT ![t] = "block"] /\ got' = got
        BY <1>3, <2>3 DEF FetchSub, Goto
      <3>2. TypeOK' /\ CallInv'
        BY <2>1, <3>1 DEF CallInv, Asleep
      <3>3. Cardinality(Sleepers') = Cardinality(Sleepers) + 1 /\ Cardinality(Sleepers) \in Nat /\ Owed' = Owed
        BY <2>1, <3>1, SleepersChange DEF Asleep, Owed
      <3>4. PostsMatchSleepers'
        BY <2>1, <2>3, <3>3 DEF PostsMatchSleepers
      <3> QED
        BY <3>2, <3>4
    <2> QED
      BY <2>2, <2>3
  <1> QED
    BY <1>1, <1>2, <1>3

(* A thread gets a kernel post: a sleeper less for a post less.            *)
LEMMA PostTaken ==
  ASSUME SemaInv, NEW t \in Threads, pc[t] \in Asleep, m_sema > 0, m_sema' = m_sema - 1, FirstUnit(t),
         UNCHANGED <<m_count, kind, max, old, toPost>>
  PROVE  SemaInv'
  <1> USE DEF SemaInv, TypeOK
  <1>1. PICK l \in {"more", "idle"} : pc' = [pc EXCEPT ![t] = l] /\ (l = "more" => max[t] > 1)
    BY FirstUnitMeans
  <1>2. got' = [got EXCEPT ![t] = 1] /\ max[t] > 0 /\ pc[t] \notin {"idle", "post"}
    BY FirstUnitMeans DEF CallInv, Asleep
  <1>3. TypeOK' /\ CallInv'
    BY <1>1, <1>2 DEF CallInv, Asleep
  <1>4. Cardinality(Sleepers') = Cardinality(Sleepers) - 1 /\ Cardinality(Sleepers) \in Nat /\ Owed' = Owed
    BY <1>1, SleepersChange DEF Asleep, Owed
  <1>5. PostsMatchSleepers'
    <2>1. Owed \in Nat
      BY OwedChange
    <2> QED
      BY <1>4, <2>1 DEF PostsMatchSleepers
  <1> QED
    BY <1>3, <1>5

(* Sleeping, giving up, and taking the decrement back.                     *)
LEMMA SleepSema ==
  ASSUME SemaInv, NEW t \in Threads,
         SemaWait(t) \/ Timeout(t) \/ AdjustLoad(t) \/ AdjustTryWait(t) \/ AdjustUndo(t)
  PROVE  SemaInv'
  <1> USE DEF SemaInv, TypeOK
  <1>0. ASSUME pc[t] \in Asleep, NEW l \in Asleep, pc' = [pc EXCEPT ![t] = l],
               old' \in [Threads -> Int], \A u \in Threads \ {t} : old'[u] = old[u],
               UNCHANGED <<m_count, m_sema, kind, max, got, toPost>>
        PROVE  SemaInv'
    <2>1. TypeOK' /\ CallInv'
      BY <1>0 DEF CallInv, Asleep
    <2>2. Cardinality(Sleepers') = Cardinality(Sleepers) /\ Owed' = Owed
      BY <1>0, SleepersChange DEF Asleep, Owed
    <2> QED
      BY <1>0, <2>1, <2>2 DEF PostsMatchSleepers
  <1>1. CASE SemaWait(t)
    BY <1>1, PostTaken DEF SemaWait, Asleep
  <1>2. CASE Timeout(t)
    BY <1>0, <1>2 DEF Timeout, Goto, Asleep
  <1>3. CASE AdjustLoad(t)
    BY <1>0, <1>3 DEF AdjustLoad, Goto, Asleep
  <1>4. CASE AdjustTryWait(t)
    <2>1. CASE m_sema > 0
      BY <1>4, <2>1, PostTaken DEF AdjustTryWait, Asleep
    <2>2. CASE ~(m_sema > 0)
      BY <1>0, <1>4, <2>2 DEF AdjustTryWait, Goto, Asleep
    <2> QED
      BY <2>1, <2>2
  <1>5. CASE AdjustUndo(t)
    <2>1. CASE m_count = old[t]
      <3>1. /\ pc[t] = "adjusted" /\ m_count < 0 /\ m_count' = m_count + 1 /\ pc' = [pc EXCEPT ![t] = "idle"]
            /\ UNCHANGED <<m_sema, kind, max, old, got, toPost>>
        BY <1>5, <2>1 DEF AdjustUndo, Goto
      <3>2. TypeOK' /\ CallInv'
        BY <3>1 DEF CallInv, Asleep
      <3>3. Cardinality(Sleepers') = Cardinality(Sleepers) - 1 /\ Cardinality(Sleepers) \in Nat /\ Owed' = Owed
        BY <3>1, SleepersChange DEF Asleep, Owed
      <3>4. PostsMatchSleepers'
        BY <3>1, <3>3 DEF PostsMatchSleepers
      <3> QED
        BY <3>2, <3>4
    <2>2. CASE m_count # old[t]
      BY <1>0, <1>5, <2>2 DEF AdjustUndo, Goto, Asleep
    <2> QED
      BY <2>1, <2>2
  <1> QED
    BY <1>1, <1>2, <1>3, <1>4, <1>5

(* One round of Semaphore::signal(count): a post made for a post owed.     *)
LEMMA PostSema ==
  ASSUME SemaInv, NEW t \in Threads, Post(t)
  PROVE  SemaInv'
  <1> USE DEF SemaInv, TypeOK
  <1>1. /\ pc[t] = "post" /\ toPost[t] > 0 /\ m_sema' = m_sema + 1
        /\ toPost' = [toPost EXCEPT ![t] = toPost[t] - 1]
        /\ pc' = [pc EXCEPT ![t] = IF toPost[t] = 1 THEN "idle" ELSE "post"]
        /\ UNCHANGED <<m_count, kind, max, old, got>>
    BY DEF Post, Goto, CallInv
  <1>2. TypeOK'
    BY <1>1
  <1>3. CallInv'
    BY <1>1 DEF CallInv, Asleep
  <1>4. Cardinality(Sleepers') = Cardinality(Sleepers) /\ Cardinality(Sleepers) \in Nat
    BY <1>1, SleepersChange DEF Asleep
  <1>5. Owed' = Owed - 1 /\ Owed \in Nat
    BY <1>1, <1>2, OwedChange
  <1>6. PostsMatchSleepers'
    BY <1>1, <1>4, <1>5 DEF PostsMatchSleepers
  <1> QED
    BY <1>2, <1>3, <1>6

(* Every step of every thread preserves the invariant.                     *)
LEMMA NextSema == SemaInv /\ [Next]_vars => SemaInv'
  <1> SUFFICES ASSUME SemaInv, [Next]_vars PROVE SemaInv'
    OBVIOUS
  <1>1. CASE UNCHANGED vars
    BY <1>1 DEF vars, SemaInv, TypeOK, CallInv, PostsMatchSleepers, Owed, Sleepers
  <1>2. ASSUME NEW t \in Threads, Step(t) PROVE SemaInv'
    BY <1>2, TrySema, SpinSema, SleepSema, PostSema DEF Step
  <1> QED
    BY <1>1, <1>2, CallSema, SignalSema DEF Next

-----------------------------------------------------------------------------
(* Every variable of the semaphore stays within its range; in particular   *)
(* the value of the kernel semaphore and the posts left never go below     *)
(* zero.                                                                   *)
THEOREM TypeCorrect == Spec => []TypeOK
  <1>1. SemaInv => TypeOK
    BY DEF SemaInv
  <1> QED
    BY <1>1, InitSema, NextSema, PTL DEF Spec

(* However waits time out and race signals, the kernel posts made or owed  *)
(* match the sleepers that a negative count does not account for.          *)
THEOREM PostsMatch == Spec => []PostsMatchSleepers
  <1>1. SemaInv => PostsMatchSleepers
    BY DEF SemaInv
  <1> QED
    BY <1>1, InitSema, NextSema, PTL DEF Spec

-----------------------------------------------------------------------------
(* The assertion of waitMany                                               *)

(* A call that has returned, or signals since, has got something if it was *)
(* a wait without a timeout; only a wait with one gives up.                *)
WaitInv ==
  \A t \in Threads :
    /\ pc[t] \in {"idle", "post"} /\ kind[t] = "wait" => got[t] > 0
    /\ pc[t] \in {"adjust", "adjusted"} => kind[t] = "timed"

(* Every step preserves it when nobody asks for nothing.                   *)
LEMMA NextWait ==
  ASSUME 0 \notin Requests, SemaInv, WaitInv, [Next]_vars
  PROVE  WaitInv'
  <1> USE DEF SemaInv, TypeOK
  <1>1. CASE UNCHANGED vars
    BY <1>1 DEF vars, WaitInv
  <1>2. ASSUME NEW t \in Waiters, NEW k \in {"try", "wait", "timed"}, NEW m \in Requests, Call(t, k, m)
        PROVE  WaitInv'
    BY <1>2 DEF Call, Goto, WaitInv, Threads
  <1>3. ASSUME NEW t \in Signallers, NEW n \in Signals, Signal(t, n) PROVE WaitInv'
    BY <1>3 DEF Signal, Goto, WaitInv, Threads
  <1>4. ASSUME NEW t \in Threads, Step(t) PROVE WaitInv'
    <2>1. ASSUME NEW l, pc' = [pc EXCEPT ![t] = l], UNCHANGED kind, \A u \in Threads \ {t} : got'[u] = got[u],
                 l \in {"idle", "post"} /\ kind[t] = "wait" => got'[t] > 0,
                 l \in {"adjust", "adjusted"} => kind[t] = "timed"
          PROVE  WaitInv'
      BY <2>1 DEF WaitInv
    <2>2. ASSUME FirstUnit(t), UNCHANGED kind PROVE WaitInv'
      <3>1. PICK l \in {"more", "idle"} : pc' = [pc EXCEPT ![t] = l]
        BY <2>2, FirstUnitMeans
      <3>2. got' = [got EXCEPT ![t] = 1]
        BY <2>2, FirstUnitMeans
      <3>3. got'[t] > 0 /\ \A u \in Threads \ {t} : got'[u] = got[u]
        BY <3>2
      <3> QED
        BY <2>2, <3>1, <3>3 DEF WaitInv
    <2>3. CASE TryEnds(t)
      <3>1. max[t] # 0
        BY <2>3 DEF TryEnds, CallInv
      <3> QED
        BY <2>3, <3>1 DEF TryEnds, Goto, WaitInv
    <2>4. CASE TryCas(t)
      <3>1. /\ old[t] > 0 /\ got[t] <= max[t] /\ max[t] # 0 /\ pc' = [pc EXCEPT ![t] = "idle"]
            /\ UNCHANGED <<kind>>
            /\ got' = [got EXCEPT ![t] = got[t] + old[t] - NewCount(old[t], max[t] - got[t])]
        BY <2>4 DEF TryCas, Goto, CallInv
      <3>2. got'[t] > 0
        BY <3>1, NewCountTakes DEF NewCount
      <3> QED
        BY <2>1, <3>1, <3>2
    <2>5. CASE SpinCas(t)
      <3>1. old[t] > 0 /\ max[t] > 0 /\ UNCHANGED kind
        BY <2>5 DEF SpinCas, CallInv
      <3>2. CASE m_count = old[t]
        <4>1. pc' = [pc EXCEPT ![t] = "idle"] /\ got' = [got EXCEPT ![t] = old[t] - NewCount(old[t], max[t])]
          BY <2>5, <3>2 DEF SpinCas, Goto
        <4>2. got'[t] > 0
          BY <3>1, <4>1, NewCountTakes
        <4> QED
          BY <2>1, <3>1, <4>1, <4>2
      <3>3. CASE m_count # old[t]
        BY <2>1, <2>5, <3>3 DEF SpinCas, Goto
      <3> QED
        BY <3>2, <3>3
    <2>6. CASE FetchSub(t)
      <3>1. CASE m_count > 0
        BY <2>2, <2>6, <3>1 DEF FetchSub
      <3>2. CASE ~(m_count > 0)
        BY <2>1, <2>6, <3>2 DEF FetchSub, Goto
      <3> QED
        BY <3>1, <3>2
    <2>7. CASE SemaWait(t)
      BY <2>2, <2>7 DEF SemaWait
    <2>8. CASE AdjustTryWait(t)
      <3>1. CASE m_sema > 0
        BY <2>2, <2>8, <3>1 DEF AdjustTryWait
      <3>2. CASE ~(m_sema > 0)
        BY <2>8, <3>2 DEF AdjustTryWait, Goto, WaitInv
      <3> QED
        BY <3>1, <3>2
    <2>9. CASE AdjustUndo(t)
      BY <2>9 DEF AdjustUndo, Goto, WaitInv
    <2>10. CASE TryCasFails(t)
      BY <2>10 DEF TryCasFails, WaitInv
    <2>11. CASE SpinLoad(t) \/ Timeout(t) \/ AdjustLoad(t) \/ More(t)
      BY <2>11 DEF SpinLoad, Timeout, AdjustLoad, More, Goto, WaitInv
    <2>12. CASE Post(t)
      BY <2>12 DEF Post, Goto, WaitInv
    <2> QED
      BY <1>4, <2>3, <2>4, <2>5, <2>6, <2>7, <2>8, <2>9, <2>10, <2>11, <2>12 DEF Step
  <1> QED
    BY <1>1, <1>2, <1>3, <1>4 DEF Next

(* waitMany(max) with max > 0 returns with at least one unit, so that its  *)
(* assertion holds.                                                        *)
THEOREM WaitManyReturnsUnits ==
  ASSUME 0 \notin Requests
  PROVE  Spec => []WaitManyAssert
  <1>1. Init => WaitInv
    BY DEF Init, WaitInv
  <1>2. WaitInv => WaitManyAssert
    BY DEF WaitInv, WaitManyAssert
  <1>3. SemaInv /\ WaitInv /\ [Next]_vars => WaitInv'
    BY NextWait
  <1> QED
    BY <1>1, <1>2, <1>3, InitSema, NextSema, PTL DEF Spec

-----------------------------------------------------------------------------
(* The refinement of CountingSemaphore                                     *)

(* Units available are never negative: every sleeper's decrement that is   *)
(* taken back stands for a sleeper.                                        *)
LEMMA AvailableType ==
  SemaInv => /\ m_count \in Int /\ Cardinality(Sleepers) \in Nat /\ m_count + Cardinality(Sleepers) \in Nat
             /\ m_sema > 0 => m_count + Cardinality(Sleepers) > 0
  <1> SUFFICES ASSUME SemaInv
               PROVE  /\ m_count \in Int /\ Cardinality(Sleepers) \in Nat
                      /\ m_count + Cardinality(Sleepers) \in Nat
                      /\ m_sema > 0 => m_count + Cardinality(Sleepers) > 0
    OBVIOUS
  <1>1. IsFiniteSet(Threads)
    BY ThreadsAssumption, FS_Union DEF Threads
  <1>2. Cardinality(Sleepers) \in Nat
    <2>1. Sleepers \in SUBSET Threads
      BY DEF Sleepers
    <2> QED
      BY <1>1, <2>1, FS_Subset, FS_CardinalityType
  <1>3. Owed \in Nat
    BY <1>1, TotalType DEF Owed, SemaInv, TypeOK
  <1> QED
    BY <1>2, <1>3 DEF SemaInv, PostsMatchSleepers, TypeOK

(* A thread acquires n units.                                              *)
LEMMA AcquireStep ==
  ASSUME SemaInv, SemaInv', NEW t \in Threads, NEW n \in Nat,
         m_count' + Cardinality(Sleepers') = m_count + Cardinality(Sleepers) - n,
         got' = [got EXCEPT ![t] = got[t] + n], got[t] + n <= max[t], UNCHANGED max
  PROVE  Sem!Acquire(t)
  <1>1. (SemaInv => /\ m_count \in Int /\ Cardinality(Sleepers) \in Nat /\ m_count + Cardinality(Sleepers) \in Nat
                    /\ m_sema > 0 => m_count + Cardinality(Sleepers) > 0)'
    BY AvailableType, PTL
  <1> DEFINE a == m_count + Cardinality(Sleepers)
             b == m_count' + Cardinality(Sleepers')
  <1>2. a \in Nat /\ b \in Nat /\ b = a - n
    BY <1>1, AvailableType
  <1> HIDE DEF a, b
  <1>3. b \in 0 .. a /\ got[t] + n = got[t] + a - b /\ got[t] \in Nat
    BY <1>2 DEF SemaInv, TypeOK
  <1> QED
    BY <1>3 DEF Sem!Acquire, SemaInv, TypeOK, a, b

(* A step that leaves the units and the results alone is a stutter.        *)
Stutters == /\ m_count' + Cardinality(Sleepers') = m_count + Cardinality(Sleepers)
            /\ UNCHANGED <<max, got>>

(* The first unit of a call, taken from the count or from a kernel post.   *)
LEMMA FirstUnitAcquires ==
  ASSUME SemaInv, SemaInv', NEW t \in Threads, pc[t] \in {"spin"} \cup Asleep, FirstUnit(t), UNCHANGED max,
         m_count' = IF pc[t] = "spin" THEN m_count - 1 ELSE m_count
  PROVE  Sem!Acquire(t)
  <1>1. PICK l \in {"more", "idle"} : pc' = [pc EXCEPT ![t] = l]
    BY FirstUnitMeans DEF SemaInv
  <1>2. got' = [got EXCEPT ![t] = 1] /\ got[t] = 0 /\ max[t] > 0 /\ max[t] \in Nat
    BY FirstUnitMeans DEF SemaInv, TypeOK, CallInv
  <1>3. pc'[t] \notin Asleep /\ \A u \in Threads \ {t} : pc'[u] = pc[u]
    BY <1>1 DEF Asleep, SemaInv, TypeOK
  <1>4. /\ Cardinality(Sleepers) \in Nat /\ Cardinality(Sleepers') \in Nat
        /\ Cardinality(Sleepers') = Cardinality(Sleepers) + 0 - (IF pc[t] \in Asleep THEN 1 ELSE 0)
    BY <1>3, SleepersChange
  <1>5. m_count' + Cardinality(Sleepers') = m_count + Cardinality(Sleepers) - 1
    BY <1>4 DEF SemaInv, TypeOK, Asleep
  <1>6. got' = [got EXCEPT ![t] = got[t] + 1] /\ got[t] + 1 <= max[t]
    BY <1>2
  <1>7. 1 \in Nat
    OBVIOUS
  <1> QED
    BY <1>5, <1>6, <1>7, AcquireStep

(* tryWaitMany and the spinning CAS take what the count has, greedily.     *)
LEMMA GreedyAcquires ==
  ASSUME SemaInv, SemaInv', NEW t \in Threads, pc[t] \in {"try", "spinCas"}, old[t] > 0, m_count = old[t],
         UNCHANGED max, pc' = [pc EXCEPT ![t] = "idle"],
         m_count' = NewCount(old[t], max[t] - got[t]),
         got' = [got EXCEPT ![t] = got[t] + old[t] - NewCount(old[t], max[t] - got[t])]
  PROVE  Sem!Acquire(t)
  <1>1. got[t] \in Nat /\ max[t] \in Nat /\ old[t] \in Int /\ max[t] - got[t] \in Nat
    BY DEF SemaInv, TypeOK, CallInv
  <1> DEFINE n == NewCount(old[t], max[t] - got[t])
             k == old[t] - n
  <1>2. n \in Nat /\ k \in Nat /\ k <= max[t] - got[t]
    BY <1>1, NewCountTakes
  <1>3. Cardinality(Sleepers') = Cardinality(Sleepers) /\ Cardinality(Sleepers) \in Nat
    BY SleepersChange DEF SemaInv, TypeOK, Asleep
  <1>4. m_count' = n /\ got' = [got EXCEPT ![t] = got[t] + old[t] - n]
    OBVIOUS
  <1>5. n = old[t] - k
    BY <1>1, <1>2
  <1> HIDE DEF n, k
  <1>6. got[t] + old[t] - n = got[t] + k /\ got[t] + k <= max[t]
    BY <1>1, <1>2, <1>5
  <1>7. m_count' + Cardinality(Sleepers') = m_count + Cardinality(Sleepers) - k
    BY <1>1, <1>2, <1>3, <1>4, <1>5
  <1> QED
    BY <1>2, <1>4, <1>6, <1>7, AcquireStep

(* Every step of a call is an acquisition or a stutter.                    *)
LEMMA StepImplements ==
  ASSUME SemaInv, SemaInv', NEW t \in Threads, Step(t)
  PROVE  Sem!Acquire(t) \/ Stutters
  <1> USE DEF SemaInv, TypeOK
  <1>1. ASSUME NEW l, pc' = [pc EXCEPT ![t] = l], l \in Asleep <=> pc[t] \in Asleep, UNCHANGED <<m_count, max, got>>
        PROVE  Stutters
    <2>1. Cardinality(Sleepers') = Cardinality(Sleepers)
      BY <1>1, SleepersChange
    <2> QED
      BY <1>1, <2>1 DEF Stutters
  <1>2. CASE TryEnds(t)
    <2>1. PICK l \in {"idle", "spin"} : pc' = [pc EXCEPT ![t] = l]
      BY <1>2 DEF TryEnds, Goto
    <2> QED
      BY <1>1, <1>2, <2>1 DEF TryEnds, Asleep
  <1>3. CASE TryCas(t)
    BY <1>3, GreedyAcquires DEF TryCas, Goto
  <1>4. CASE TryCasFails(t)
    BY <1>4 DEF TryCasFails, Stutters, Sleepers
  <1>5. CASE SpinLoad(t)
    <2>1. PICK l \in {"spinCas", "spin"} : pc' = [pc EXCEPT ![t] = l]
      BY <1>5 DEF SpinLoad, Goto
    <2> QED
      BY <1>1, <1>5, <2>1 DEF SpinLoad, Asleep
  <1>6. CASE SpinCas(t)
    <2>1. CASE m_count = old[t]
      <3>1. got[t] = 0 /\ old[t] > 0 /\ max[t] - got[t] = max[t] /\ got[t] + old[t] = old[t]
        BY <1>6 DEF SpinCas, CallInv
      <3> QED
        BY <1>6, <2>1, <3>1, GreedyAcquires DEF SpinCas, Goto
    <2>2. CASE m_count # old[t]
      BY <1>1, <1>6, <2>2 DEF SpinCas, Goto, Asleep
    <2> QED
      BY <2>1, <2>2
  <1>7. CASE FetchSub(t)
    <2>1. CASE m_count > 0
      BY <1>7, <2>1, FirstUnitAcquires DEF FetchSub
    <2>2. CASE ~(m_count > 0)
      <3>1. pc' = [pc EXCEPT ![t] = "block"] /\ UNCHANGED <<max, got>> /\ m_count' = m_count - 1 /\ pc[t] = "spin"
        BY <1>7, <2>2 DEF FetchSub, Goto
      <3>2. Cardinality(Sleepers') = Cardinality(Sleepers) + 1 /\ Cardinality(Sleepers) \in Nat
        BY <3>1, SleepersChange DEF Asleep
      <3> QED
        BY <3>1, <3>2 DEF Stutters
    <2> QED
      BY <2>1, <2>2
  <1>8. CASE SemaWait(t)
    BY <1>8, FirstUnitAcquires DEF SemaWait, Asleep
  <1>9. CASE Timeout(t)
    BY <1>1, <1>9 DEF Timeout, Goto, Asleep
  <1>10. CASE AdjustLoad(t)
    BY <1>1, <1>10 DEF AdjustLoad, Goto, Asleep
  <1>11. CASE AdjustTryWait(t)
    <2>1. CASE m_sema > 0
      BY <1>11, <2>1, FirstUnitAcquires DEF AdjustTryWait, Asleep
    <2>2. CASE ~(m_sema > 0)
      BY <1>1, <1>11, <2>2 DEF AdjustTryWait, Goto, Asleep
    <2> QED
      BY <2>1, <2>2
  <1>12. CASE AdjustUndo(t)
    <2>1. CASE m_count = old[t]
      <3>1. pc[t] = "adjusted" /\ pc' = [pc EXCEPT ![t] = "idle"] /\ UNCHANGED <<max, got>> /\ m_count' = m_count + 1
        BY <1>12, <2>1 DEF AdjustUndo, Goto
      <3>2. Cardinality(Sleepers') = Cardinality(Sleepers) - 1 /\ Cardinality(Sleepers) \in Nat
        BY <3>1, SleepersChange DEF Asleep
      <3> QED
        BY <3>1, <3>2 DEF Stutters
    <2>2. CASE m_count # old[t]
      BY <1>1, <1>12, <2>2 DEF AdjustUndo, Goto, Asleep
    <2> QED
      BY <2>1, <2>2
  <1>13. CASE More(t)
    BY <1>1, <1>13 DEF More, Goto, Asleep
  <1>14. CASE Post(t)
    <2>1. PICK l \in {"idle", "post"} : pc' = [pc EXCEPT ![t] = l]
      BY <1>14 DEF Post, Goto
    <2> QED
      BY <1>1, <1>14, <2>1 DEF Post, Asleep
  <1> QED
    BY <1>2, <1>3, <1>4, <1>5, <1>6, <1>7, <1>8, <1>9, <1>10, <1>11, <1>12, <1>13, <1>14 DEF Step

(* signal(n) adds units at once: the posts it owes are on their way to     *)
(* sleepers that have theirs.                                              *)
LEMMA SignalImplements ==
  ASSUME SemaInv, SemaInv', NEW t \in Signallers, NEW n \in Signals, Signal(t, n)
  PROVE  Sem!Signal \/ Stutters
  <1>1. n \in Nat /\ t \in Threads /\ m_count' = m_count + n /\ UNCHANGED <<max, got>> /\ pc[t] = "idle"
    BY SignalsAssumption DEF Signal, Threads
  <1>2. Cardinality(Sleepers') = Cardinality(Sleepers) /\ Cardinality(Sleepers) \in Nat
    <2>1. pc' = pc \/ pc' = [pc EXCEPT ![t] = "post"]
      BY DEF Signal, Goto
    <2> QED
      BY <1>1, <2>1, SleepersChange DEF Asleep, SemaInv, TypeOK
  <1>3. m_count + Cardinality(Sleepers) \in Nat /\ m_count \in Int
    BY AvailableType
  <1>4. CASE n = 0
    BY <1>1, <1>2, <1>3, <1>4 DEF Stutters
  <1>5. CASE n > 0
    BY <1>1, <1>2, <1>3, <1>5 DEF Sem!Signal
  <1> QED
    BY <1>1, <1>4, <1>5

(* Every step of the semaphore is a step of the counting semaphore.        *)
LEMMA SemStep == SemaInv /\ SemaInv' /\ [Next]_vars => [Sem!Next]_(Sem!semVars)
  <1> SUFFICES ASSUME SemaInv, SemaInv', [Next]_vars PROVE [Sem!Next]_(Sem!semVars)
    OBVIOUS
  <1>1. ASSUME Stutters PROVE UNCHANGED Sem!semVars
    BY <1>1 DEF Stutters, Sem!semVars
  <1>2. CASE UNCHANGED vars
    BY <1>2 DEF vars, Sem!semVars, Sleepers
  <1>3. ASSUME NEW t \in Waiters, NEW k \in {"try", "wait", "timed"}, NEW m \in Requests, Call(t, k, m)
        PROVE  Sem!Begin(t)
    <2>1. /\ m \in Nat /\ t \in Threads /\ pc[t] = "idle" /\ pc' = [pc EXCEPT ![t] = "try"]
          /\ UNCHANGED m_count /\ max' = [max EXCEPT ![t] = m] /\ got' = [got EXCEPT ![t] = 0]
      BY <1>3, RequestsAssumption DEF Call, Goto, Threads
    <2>2. Cardinality(Sleepers') = Cardinality(Sleepers)
      BY <2>1, SleepersChange DEF Asleep, SemaInv, TypeOK
    <2>3. max' \in [Threads -> Nat] /\ \A u \in Threads \ {t} : max'[u] = max[u]
      BY <2>1 DEF SemaInv, TypeOK
    <2> QED
      BY <2>1, <2>2, <2>3 DEF Sem!Begin
  <1>4. ASSUME NEW t \in Waiters PROVE t \in Threads
    BY DEF Threads
  <1> QED
    BY <1>1, <1>2, <1>3, <1>4, SignalImplements, StepImplements DEF Next, Sem!Next

(* LightweightSemaphore is a counting semaphore: no unit is ever acquired  *)
(* twice or lost between the count and the kernel, whatever times out.     *)
THEOREM SemaphoreImplemented == Spec => ImplementsSemaphore
  <1>1. Init => Sem!Init
    <2> SUFFICES ASSUME Init PROVE Sem!Init
      OBVIOUS
    <2>1. Sleepers = {}
      BY DEF Init, Sleepers
    <2> QED
      BY <2>1, FS_EmptySet, InitialAssumption DEF Init, Sem!Init
  <1> QED
    BY <1>1, InitSema, NextSema, SemStep, PTL DEF Spec, ImplementsSemaphore, Sem!Spec

-----------------------------------------------------------------------------
(* BlockingConcurrentQueue                                                 *)

(* The sums the queue speaks of are those of CountingLemmas.               *)
LEMMA SameTotal == \A f, S : Queue!Total(f, S) = Total(f, S)
  BY DEF Queue!Total, Queue!Units, Queue!Row, Queue!Cardinality, Total, Units, Row, Cardinality

(* Units that producers have yet to signal                                 *)
Pending == Total(pend, Producers)

(* Elements for which there is no unit anywhere: none, unless a bulk       *)
(* dequeue has ended with an exception                                     *)
Surplus == Queue!Elements - avail - Queue!Owed - Pending

QueueRangeInv ==
  /\ inner \in [Producers -> Nat] /\ Queue!Elements <= MaxEnqueued
  /\ pend \in [Producers -> {0} \cup Counts]
  /\ avail \in Nat
  /\ asked \in [Consumers -> Nat] /\ given \in [Consumers -> Nat] /\ taken \in [Consumers -> Nat]
  /\ call \in [Consumers -> {"idle", "try", "wait", "timed", "take"}]

(* A consumer that has not got its units has nothing, one that looks for   *)
(* elements lacks some, and nobody gets more than was asked for.           *)
QueueCallInv ==
  \A c \in Consumers :
    /\ taken[c] <= given[c] /\ given[c] <= asked[c]
    /\ call[c] \in {"try", "wait", "timed"} => given[c] = 0
    /\ call[c] = "take" => taken[c] < given[c]

QueueInv == QueueRangeInv /\ QueueCallInv /\ Surplus >= 0

-----------------------------------------------------------------------------
(* The sums and how the steps change them                                  *)

(* The smaller of two numbers, as the library defines it.                  *)
LEMMA MinOfTwo ==
  ASSUME NEW a \in Int, NEW b \in Int
  PROVE  Queue!Min({a, b}) = IF a <= b THEN a ELSE b
  BY DEF Queue!Min

(* The numbers of the balance are natural numbers.                         *)
LEMMA SumsType ==
  ASSUME QueueRangeInv, QueueCallInv
  PROVE  /\ Queue!Elements \in Nat /\ Pending \in Nat /\ Queue!Owed \in Nat
         /\ pend \in [Producers -> Nat] /\ Queue!Looking \in [Consumers -> Nat]
  <1>1. pend \in [Producers -> Nat]
    BY BlockingAssumption DEF QueueRangeInv
  <1>2. Queue!Looking \in [Consumers -> Nat]
    BY DEF Queue!Looking, Queue!Wanted, QueueRangeInv, QueueCallInv
  <1>3. inner \in [Producers -> Nat] /\ IsFiniteSet(Producers) /\ IsFiniteSet(Consumers)
    BY BlockingAssumption DEF QueueRangeInv
  <1> QED
    BY <1>1, <1>2, <1>3, TotalType, SameTotal DEF Queue!Elements, Pending, Queue!Owed

(* So the surplus is an integer.                                           *)
LEMMA SurplusType == QueueRangeInv /\ QueueCallInv => Surplus \in Int
  BY SumsType DEF Surplus, QueueRangeInv

(* A step on one sub-queue changes the elements by what it does there.     *)
LEMMA ElementsMove ==
  ASSUME inner \in [Producers -> Nat], inner' \in [Producers -> Nat], NEW p \in Producers,
         \A q \in Producers \ {p} : inner'[q] = inner[q]
  PROVE  Queue!Elements' = Queue!Elements - inner[p] + inner'[p]
  <1>1. Total(inner', Producers) = Total(inner, Producers) - inner[p] + inner'[p]
    BY TotalUpdate, SameTotal, BlockingAssumption
  <1> QED
    BY <1>1, SameTotal DEF Queue!Elements

LEMMA ElementsChange ==
  ASSUME QueueRangeInv, NEW p \in Producers, NEW n \in Nat, inner' = [inner EXCEPT ![p] = n]
  PROVE  inner' \in [Producers -> Nat] /\ Queue!Elements' = Queue!Elements - inner[p] + n
  <1>1. /\ inner \in [Producers -> Nat] /\ inner' \in [Producers -> Nat]
        /\ inner'[p] = n /\ \A q \in Producers \ {p} : inner'[q] = inner[q]
    BY BlockingAssumption DEF QueueRangeInv
  <1>2. Queue!Elements' = Queue!Elements - inner[p] + inner'[p]
    BY <1>1, ElementsMove
  <1> QED
    BY <1>1, <1>2

(* A step of one producer changes the units pending by what it does.       *)
LEMMA PendingMove ==
  ASSUME pend \in [Producers -> Nat], pend' \in [Producers -> Nat], NEW p \in Producers,
         \A q \in Producers \ {p} : pend'[q] = pend[q]
  PROVE  Pending' = Pending - pend[p] + pend'[p]
  <1>1. Total(pend', Producers) = Total(pend, Producers) - pend[p] + pend'[p]
    BY TotalUpdate, SameTotal, BlockingAssumption
  <1> QED
    BY <1>1 DEF Pending

LEMMA PendingChange ==
  ASSUME QueueRangeInv, NEW p \in Producers, NEW n \in {0} \cup Counts, pend' = [pend EXCEPT ![p] = n]
  PROVE  Pending' = Pending - pend[p] + n
  <1>1. /\ pend \in [Producers -> Nat] /\ pend' \in [Producers -> Nat]
        /\ pend'[p] = n /\ \A q \in Producers \ {p} : pend'[q] = pend[q]
    BY BlockingAssumption DEF QueueRangeInv
  <1>2. Pending' = Pending - pend[p] + pend'[p]
    BY <1>1, PendingMove
  <1> QED
    BY <1>1, <1>2

(* A step of one consumer changes the elements looked for by what it does. *)
LEMMA LookingChange ==
  ASSUME QueueRangeInv, QueueCallInv, QueueRangeInv', QueueCallInv', NEW c \in Consumers,
         \A d \in Consumers \ {c} : call'[d] = call[d] /\ given'[d] = given[d] /\ taken'[d] = taken[d]
  PROVE  Queue!Owed' = Queue!Owed - (IF call[c] = "take" THEN given[c] - taken[c] ELSE 0)
                      + (IF call'[c] = "take" THEN given'[c] - taken'[c] ELSE 0)
  <1>1. Queue!Looking \in [Consumers -> Nat] /\ Queue!Looking' \in [Consumers -> Nat] /\ IsFiniteSet(Consumers)
    BY BlockingAssumption DEF Queue!Looking, Queue!Wanted, QueueRangeInv, QueueCallInv
  <1>2. \A d \in Consumers \ {c} : Queue!Looking'[d] = Queue!Looking[d]
    BY DEF Queue!Looking, Queue!Wanted
  <1>3. /\ Queue!Looking[c] = IF call[c] = "take" THEN given[c] - taken[c] ELSE 0
        /\ Queue!Looking'[c] = IF call'[c] = "take" THEN given'[c] - taken'[c] ELSE 0
    BY DEF Queue!Looking, Queue!Wanted
  <1> QED
    BY <1>1, <1>2, <1>3, TotalUpdate, SameTotal DEF Queue!Owed

-----------------------------------------------------------------------------
(* What every step does to the invariant and to the surplus: only an       *)
(* exception in a bulk dequeue can increase it.                            *)
Keeps ==
  /\ QueueRangeInv' /\ QueueCallInv'
  /\ Surplus' >= Surplus
  /\ Throwing \subseteq {1} => Surplus' = Surplus

(* inner.enqueue*() brings elements, and as many units to signal.          *)
LEMMA EnqueueKeeps ==
  ASSUME QueueInv, NEW p \in Producers, NEW n \in Counts, Queue!InnerEnqueue(p, n)
  PROVE  Keeps
  <1>1. /\ pend[p] = 0 /\ Queue!Elements + n <= MaxEnqueued /\ n \in Nat
        /\ inner' = [inner EXCEPT ![p] = inner[p] + n] /\ pend' = [pend EXCEPT ![p] = n]
        /\ UNCHANGED <<avail, asked, given, call, taken>>
    BY BlockingAssumption DEF Queue!InnerEnqueue
  <1>2. Queue!Elements \in Nat /\ Pending \in Nat /\ Queue!Owed \in Nat /\ avail \in Nat /\ inner[p] \in Nat
    BY SumsType DEF QueueInv, QueueRangeInv
  <1>3. inner[p] + n \in Nat
    BY <1>1, <1>2
  <1>4. inner' \in [Producers -> Nat] /\ Queue!Elements' = Queue!Elements - inner[p] + (inner[p] + n)
    BY <1>1, <1>3, ElementsChange DEF QueueInv
  <1>5. Pending' = Pending - pend[p] + n
    BY <1>1, PendingChange DEF QueueInv
  <1>6. Queue!Owed' = Queue!Owed
    BY <1>1 DEF Queue!Owed, Queue!Looking, Queue!Wanted
  <1>7. Queue!Elements' = Queue!Elements + n /\ Pending' = Pending + n
    BY <1>1, <1>2, <1>4, <1>5
  <1>8. QueueRangeInv'
    BY <1>1, <1>4, <1>7 DEF QueueInv, QueueRangeInv
  <1>9. QueueCallInv'
    BY <1>1 DEF QueueInv, QueueCallInv
  <1> QED
    BY <1>1, <1>2, <1>6, <1>7, <1>8, <1>9 DEF Keeps, Surplus

(* sema->signal(count) makes the pending units available.                  *)
LEMMA SignalKeeps ==
  ASSUME QueueInv, NEW p \in Producers, Queue!Signal(p)
  PROVE  Keeps
  <1>1. /\ avail' = avail + pend[p] /\ pend' = [pend EXCEPT ![p] = 0]
        /\ UNCHANGED <<inner, asked, given, call, taken>>
    BY DEF Queue!Signal, Queue!Sem!Signal
  <1>2. /\ Queue!Elements \in Nat /\ Pending \in Nat /\ Queue!Owed \in Nat /\ avail \in Nat /\ pend[p] \in Nat
    BY SumsType DEF QueueInv, QueueRangeInv
  <1>3. Pending' = Pending - pend[p] + 0
    BY <1>1, PendingChange DEF QueueInv
  <1>4. Queue!Owed' = Queue!Owed /\ Queue!Elements' = Queue!Elements
    BY <1>1 DEF Queue!Owed, Queue!Looking, Queue!Wanted, Queue!Elements
  <1>5. QueueRangeInv'
    BY <1>1, <1>2, <1>4 DEF QueueInv, QueueRangeInv
  <1>6. QueueCallInv'
    BY <1>1 DEF QueueInv, QueueCallInv
  <1> QED
    BY <1>1, <1>2, <1>3, <1>4, <1>5, <1>6 DEF Keeps, Surplus

(* A step of a consumer that leaves the sub-queues and the producers alone *)
(* keeps the surplus if it takes from the available what it then looks     *)
(* for.                                                                    *)
LEMMA ConsumerKeeps ==
  ASSUME QueueInv, QueueRangeInv', QueueCallInv', NEW c \in Consumers, UNCHANGED <<inner, pend>>,
         \A d \in Consumers \ {c} : call'[d] = call[d] /\ given'[d] = given[d] /\ taken'[d] = taken[d],
         call[c] # "take",
         avail' = avail - (IF call'[c] = "take" THEN given'[c] - taken'[c] ELSE 0)
  PROVE  Keeps
  <1>1. Queue!Elements \in Nat /\ Pending \in Nat /\ Queue!Owed \in Nat /\ avail \in Nat
    BY SumsType DEF QueueInv, QueueRangeInv
  <1>2. Queue!Elements' = Queue!Elements /\ Pending' = Pending
    BY DEF Queue!Elements, Pending
  <1> DEFINE k == IF call'[c] = "take" THEN given'[c] - taken'[c] ELSE 0
  <1>3. Queue!Owed' = Queue!Owed - 0 + k
    BY LookingChange DEF QueueInv
  <1>4. k \in Int
    BY DEF QueueRangeInv
  <1>5. avail' = avail - k
    OBVIOUS
  <1> HIDE DEF k
  <1> QED
    BY <1>1, <1>2, <1>3, <1>4, <1>5 DEF Keeps, Surplus

(* A call begins.                                                          *)
LEMMA CallKeeps ==
  ASSUME QueueInv, NEW c \in Consumers, NEW k \in {"try", "wait", "timed"}, NEW m \in Maxes, Queue!Call(c, k, m)
  PROVE  Keeps
  <1>1. /\ call[c] = "idle" /\ call' = [call EXCEPT ![c] = k] /\ taken' = [taken EXCEPT ![c] = 0]
        /\ asked' = [asked EXCEPT ![c] = m] /\ given' = [given EXCEPT ![c] = 0] /\ UNCHANGED <<inner, pend, avail>>
    BY DEF Queue!Call, Queue!Sem!Begin
  <1>2. m \in Nat
    BY BlockingAssumption
  <1>3. QueueRangeInv'
    BY <1>1, <1>2 DEF QueueInv, QueueRangeInv, Queue!Elements
  <1>4. QueueCallInv'
    BY <1>1, <1>2 DEF QueueInv, QueueRangeInv, QueueCallInv
  <1>5. call'[c] = k /\ \A d \in Consumers \ {c} : call'[d] = call[d] /\ given'[d] = given[d] /\ taken'[d] = taken[d]
    BY <1>1 DEF QueueInv, QueueRangeInv
  <1>6. avail' = avail - 0
    BY <1>1 DEF QueueInv, QueueRangeInv
  <1> QED
    BY <1>1, <1>3, <1>4, <1>5, <1>6, ConsumerKeeps

(* A call ends without a unit.                                             *)
LEMMA MissKeeps ==
  ASSUME QueueInv, NEW c \in Consumers, Queue!Miss(c)
  PROVE  Keeps
  <1>1. /\ call[c] # "take" /\ call' = [call EXCEPT ![c] = "idle"]
        /\ UNCHANGED <<inner, pend, avail, asked, given, taken>>
    BY DEF Queue!Miss
  <1>2. QueueRangeInv'
    BY <1>1 DEF QueueInv, QueueRangeInv, Queue!Elements
  <1>3. QueueCallInv'
    BY <1>1 DEF QueueInv, QueueRangeInv, QueueCallInv
  <1>4. call'[c] = "idle" /\ \A d \in Consumers \ {c} : call'[d] = call[d] /\ given'[d] = given[d] /\ taken'[d] = taken[d]
    BY <1>1 DEF QueueInv, QueueRangeInv
  <1>5. avail' = avail - 0
    BY <1>1 DEF QueueInv, QueueRangeInv
  <1> QED
    BY <1>1, <1>2, <1>3, <1>4, <1>5, ConsumerKeeps

(* The semaphore gives units: the consumer now looks for as many elements. *)
LEMMA AcquireKeeps ==
  ASSUME QueueInv, NEW c \in Consumers, Queue!Acquire(c)
  PROVE  Keeps
  <1>1. /\ call[c] \in {"try", "wait", "timed"} /\ call' = [call EXCEPT ![c] = "take"]
        /\ given' = [given EXCEPT ![c] = given[c] + avail - avail'] /\ given'[c] <= asked[c]
        /\ UNCHANGED <<inner, pend, asked, taken>>
    BY DEF Queue!Acquire, Queue!Sem!Acquire
  <1>2. given[c] = 0 /\ taken[c] = 0 /\ avail \in Nat
    BY <1>1 DEF QueueInv, QueueRangeInv, QueueCallInv
  <1>3. PICK n \in 1 .. Queue!Min({avail, asked[c]}) : avail' = avail - n
    BY DEF Queue!Acquire
  <1>4. n \in Nat /\ n > 0 /\ avail' \in Nat
    <2>1. avail \in Int /\ asked[c] \in Int
      BY DEF QueueInv, QueueRangeInv
    <2>2. Queue!Min({avail, asked[c]}) \in Int /\ Queue!Min({avail, asked[c]}) <= avail
      BY <2>1, MinOfTwo
    <2> QED
      BY <1>2, <1>3, <2>2
  <1>5. given' = [given EXCEPT ![c] = n]
    BY <1>1, <1>2, <1>3, <1>4
  <1>6. QueueRangeInv'
    BY <1>1, <1>4, <1>5 DEF QueueInv, QueueRangeInv, Queue!Elements
  <1>7. QueueCallInv'
    BY <1>1, <1>2, <1>4, <1>5 DEF QueueInv, QueueRangeInv, QueueCallInv
  <1>8. /\ call'[c] = "take" /\ given'[c] = n /\ taken'[c] = 0
        /\ \A d \in Consumers \ {c} : call'[d] = call[d] /\ given'[d] = given[d] /\ taken'[d] = taken[d]
    BY <1>1, <1>2, <1>5 DEF QueueInv, QueueRangeInv
  <1>9. avail' = avail - (given'[c] - taken'[c])
    BY <1>3, <1>4, <1>8
  <1> QED
    BY <1>1, <1>6, <1>7, <1>8, <1>9, ConsumerKeeps

(* The consumer leaves k elements fewer in a sub-queue and then looks for  *)
(* j fewer: the surplus grows by the difference.                           *)
LEMMA TakingChanges ==
  ASSUME QueueInv, QueueRangeInv', QueueCallInv', NEW c \in Consumers, UNCHANGED <<pend, avail>>, call[c] = "take",
         \A d \in Consumers \ {c} : call'[d] = call[d] /\ given'[d] = given[d] /\ taken'[d] = taken[d],
         NEW k \in Nat, Queue!Elements' = Queue!Elements - k,
         NEW j \in Nat, (IF call'[c] = "take" THEN given'[c] - taken'[c] ELSE 0) = given[c] - taken[c] - j
  PROVE  Surplus \in Int /\ Surplus' = Surplus + j - k
  <1>1. Queue!Elements \in Nat /\ Pending \in Nat /\ Queue!Owed \in Nat /\ avail \in Nat /\ given[c] \in Nat /\ taken[c] \in Nat
    BY SumsType DEF QueueInv, QueueRangeInv
  <1>2. Pending' = Pending
    BY DEF Pending
  <1>3. Queue!Owed' = Queue!Owed - (given[c] - taken[c]) + (given[c] - taken[c] - j)
    BY LookingChange DEF QueueInv
  <1> QED
    BY <1>1, <1>2, <1>3 DEF Surplus

(* inner.try_dequeue*() takes n elements.                                  *)
LEMMA TakeKeeps ==
  ASSUME QueueInv, NEW c \in Consumers, NEW p \in Producers, NEW n \in 1 .. MaxEnqueued, Queue!Take(c, p, n)
  PROVE  Keeps
  <1>1. /\ call[c] = "take" /\ inner' = [inner EXCEPT ![p] = inner[p] - n]
        /\ taken' = [taken EXCEPT ![c] = taken[c] + n]
        /\ call' = [call EXCEPT ![c] = IF taken'[c] = given[c] THEN "idle" ELSE "take"]
        /\ UNCHANGED <<pend, avail, asked, given>>
    BY DEF Queue!Take
  <1>2. /\ n \in Nat /\ n > 0 /\ inner[p] \in Nat /\ given[c] \in Nat /\ taken[c] \in Nat
        /\ taken[c] < given[c] /\ Queue!Elements \in Nat
    BY <1>1, SumsType, BlockingAssumption DEF QueueInv, QueueRangeInv, QueueCallInv
  <1>3. n <= inner[p] /\ n <= given[c] - taken[c]
    <2>1. n <= Queue!Min({inner[p], given[c] - taken[c]})
      BY DEF Queue!Take, Queue!Wanted
    <2>2. inner[p] \in Int /\ given[c] - taken[c] \in Int
      BY <1>2
    <2>3. Queue!Min({inner[p], given[c] - taken[c]})
            = IF inner[p] <= given[c] - taken[c] THEN inner[p] ELSE given[c] - taken[c]
      BY <2>2, MinOfTwo
    <2> QED
      BY <1>2, <2>1, <2>3
  <1>4. inner[p] - n \in Nat
    BY <1>2, <1>3
  <1>5. inner' \in [Producers -> Nat] /\ Queue!Elements' = Queue!Elements - inner[p] + (inner[p] - n)
    BY <1>1, <1>4, ElementsChange DEF QueueInv
  <1>6. Queue!Elements' = Queue!Elements - n
    BY <1>2, <1>5
  <1>7. taken'[c] = taken[c] + n
    BY <1>1 DEF QueueInv, QueueRangeInv
  <1>8. QueueRangeInv'
    BY <1>1, <1>2, <1>5, <1>6, BlockingAssumption DEF QueueInv, QueueRangeInv
  <1>9. QueueCallInv'
    BY <1>1, <1>2, <1>3, <1>7 DEF QueueInv, QueueRangeInv, QueueCallInv
  <1>10. /\ \A d \in Consumers \ {c} : call'[d] = call[d] /\ given'[d] = given[d] /\ taken'[d] = taken[d]
         /\ call'[c] = IF taken'[c] = given[c] THEN "idle" ELSE "take"
    BY <1>1 DEF QueueInv, QueueRangeInv
  <1>11. (IF call'[c] = "take" THEN given'[c] - taken'[c] ELSE 0) = given[c] - taken[c] - n
    BY <1>1, <1>2, <1>7, <1>10
  <1>12. Surplus \in Int /\ Surplus' = Surplus + n - n
    BY <1>1, <1>2, <1>6, <1>8, <1>9, <1>10, <1>11, TakingChanges
  <1> QED
    BY <1>2, <1>8, <1>9, <1>12 DEF Keeps

(* An exception ends the dequeue: what was claimed of the sub-queue, at    *)
(* most what was wanted, is gone, and the rest of the units with it.       *)
LEMMA ThrowKeeps ==
  ASSUME QueueInv, NEW c \in Consumers, NEW p \in Producers, Queue!TakeThrows(c, p)
  PROVE  Keeps
  <1> DEFINE w == given[c] - taken[c]
             k == IF inner[p] <= w THEN inner[p] ELSE w
  <1>1. /\ inner[p] \in Nat /\ given[c] \in Nat /\ taken[c] \in Nat /\ inner[p] > 0 /\ asked[c] \in Throwing
        /\ taken[c] < given[c] /\ given[c] <= asked[c] /\ asked[c] \in Nat /\ Queue!Elements \in Nat /\ call[c] = "take"
    BY SumsType DEF Queue!TakeThrows, QueueInv, QueueRangeInv, QueueCallInv
  <1>2. Queue!Min({inner[p], Queue!Wanted(c)}) = k
    BY <1>1, MinOfTwo DEF Queue!Wanted
  <1>3. k \in Nat /\ k <= w /\ k <= inner[p] /\ w \in Nat /\ (asked[c] = 1 => k = w) /\ inner[p] - k \in Nat
    BY <1>1
  <1> HIDE DEF k
  <1>4. /\ inner' = [inner EXCEPT ![p] = inner[p] - k] /\ call' = [call EXCEPT ![c] = "idle"]
        /\ UNCHANGED <<pend, avail, asked, given, taken>>
    BY <1>2 DEF Queue!TakeThrows
  <1>5. inner' \in [Producers -> Nat] /\ Queue!Elements' = Queue!Elements - inner[p] + (inner[p] - k)
    BY <1>3, <1>4, ElementsChange DEF QueueInv
  <1>6. Queue!Elements' = Queue!Elements - k
    BY <1>1, <1>3, <1>5
  <1>7. QueueRangeInv'
    BY <1>1, <1>3, <1>4, <1>5, <1>6, BlockingAssumption DEF QueueInv, QueueRangeInv
  <1>8. QueueCallInv'
    BY <1>4 DEF QueueInv, QueueRangeInv, QueueCallInv
  <1>9. call'[c] = "idle" /\ \A d \in Consumers \ {c} : call'[d] = call[d] /\ given'[d] = given[d] /\ taken'[d] = taken[d]
    BY <1>4 DEF QueueInv, QueueRangeInv
  <1>10. 0 = given[c] - taken[c] - w
    BY <1>1
  <1>11. Surplus \in Int /\ Surplus' = Surplus + w - k
    <2> HIDE DEF w
    <2> QED
      BY <1>1, <1>3, <1>4, <1>6, <1>7, <1>8, <1>9, <1>10, TakingChanges
  <1>12. Throwing \subseteq {1} => asked[c] = 1
    BY <1>1
  <1> QED
    BY <1>3, <1>7, <1>8, <1>11, <1>12 DEF Keeps

(* Every step.                                                             *)
LEMMA NextKeeps ==
  ASSUME QueueInv, [Queue!Next]_(Queue!vars)
  PROVE  Keeps
  <1>1. CASE UNCHANGED Queue!vars
    <2>1. QueueRangeInv' /\ QueueCallInv' /\ Surplus' = Surplus
      BY <1>1 DEF Queue!vars, QueueInv, QueueRangeInv, QueueCallInv, Surplus, Queue!Elements, Queue!Owed, Queue!Looking, Queue!Wanted, Pending
    <2>2. Surplus \in Int
      BY SurplusType DEF QueueInv
    <2> QED
      BY <2>1, <2>2 DEF Keeps
  <1> QED
    BY <1>1, EnqueueKeeps, SignalKeeps, CallKeeps, MissKeeps, AcquireKeeps, TakeKeeps, ThrowKeeps DEF Queue!Next

(* A new queue is empty and nobody calls.                                  *)
LEMMA InitQueue == Queue!Init => QueueInv /\ Surplus = 0
  <1> SUFFICES ASSUME Queue!Init PROVE QueueInv /\ Surplus = 0
    OBVIOUS
  <1>1. /\ inner \in [Producers -> Nat] /\ pend \in [Producers -> Nat] /\ Queue!Looking \in [Consumers -> Nat]
        /\ \A p \in Producers : inner[p] = 0 /\ pend[p] = 0
        /\ \A c \in Consumers : Queue!Looking[c] = 0
    BY DEF Queue!Init, Queue!Looking
  <1>2. Queue!Elements = 0 /\ Pending = 0 /\ Queue!Owed = 0
    BY <1>1, TotalZero, SameTotal, BlockingAssumption DEF Queue!Elements, Pending, Queue!Owed
  <1>3. avail = 0 /\ asked = [c \in Consumers |-> 0] /\ given = [c \in Consumers |-> 0]
    BY DEF Queue!Init, Queue!Sem!Init
  <1>4. QueueRangeInv /\ QueueCallInv
    BY <1>2, <1>3, BlockingAssumption DEF Queue!Init, QueueRangeInv, QueueCallInv
  <1> QED
    BY <1>2, <1>3, <1>4 DEF QueueInv, Surplus

-----------------------------------------------------------------------------
(* Every step preserves the invariant.                                     *)
LEMMA NextQueue == QueueInv /\ [Queue!Next]_(Queue!vars) => QueueInv'
  <1> SUFFICES ASSUME QueueInv, [Queue!Next]_(Queue!vars) PROVE QueueInv'
    OBVIOUS
  <1>1. QueueRangeInv' /\ QueueCallInv' /\ Surplus' >= Surplus
    BY NextKeeps DEF Keeps
  <1>2. Surplus \in Int
    BY SurplusType DEF QueueInv
  <1>3. (QueueRangeInv /\ QueueCallInv => Surplus \in Int)'
    BY SurplusType, PTL
  <1> QED
    BY <1>1, <1>2, <1>3 DEF QueueInv

(* Every variable stays within its range: a sub-queue, a producer's units  *)
(* and the semaphore never go below zero or above what was enqueued.       *)
THEOREM QueueTypeCorrect == Queue!Spec => []Queue!TypeOK
  <1>1. QueueInv => Queue!TypeOK
    <2> SUFFICES ASSUME QueueInv PROVE Queue!TypeOK
      OBVIOUS
    <2>1. Queue!Elements \in Nat /\ Pending \in Nat /\ Queue!Owed \in Nat /\ avail \in Nat /\ Queue!Elements <= MaxEnqueued
      BY SumsType DEF QueueInv, QueueRangeInv
    <2>2. avail <= MaxEnqueued
      BY <2>1, BlockingAssumption DEF QueueInv, Surplus
    <2>3. \A p \in Producers : inner[p] \in Nat /\ inner[p] <= Queue!Elements
      BY TotalAtLeast, SameTotal, BlockingAssumption DEF QueueInv, QueueRangeInv, Queue!Elements
    <2>4. inner \in [Producers -> 0 .. MaxEnqueued]
      BY <2>1, <2>3, BlockingAssumption DEF QueueInv, QueueRangeInv
    <2> QED
      BY <2>1, <2>2, <2>4, BlockingAssumption DEF QueueInv, QueueRangeInv, QueueCallInv, Queue!TypeOK
  <1> QED
    BY <1>1, InitQueue, NextQueue, PTL DEF Queue!Spec

(* `while (!inner.try_dequeue(item)) continue;' never runs on an empty     *)
(* queue: whatever races and throws, there is an element for every unit    *)
(* available or held.                                                      *)
THEOREM EveryUnitBacked == Queue!Spec => []UnitsBacked
  <1>1. QueueInv => UnitsBacked
    <2> SUFFICES ASSUME QueueInv PROVE UnitsBacked
      OBVIOUS
    <2>1. Queue!Elements \in Nat /\ Pending \in Nat /\ Queue!Owed \in Nat /\ avail \in Nat
      BY SumsType DEF QueueInv, QueueRangeInv
    <2> QED
      BY <2>1 DEF QueueInv, Surplus, UnitsBacked, Queue!UnitsBacked
  <1> QED
    BY <1>1, InitQueue, NextQueue, PTL DEF Queue!Spec

(* size_approx() is exact at rest, and no element is out of reach, if      *)
(* assignments throw at most in dequeues of a single element.              *)
THEOREM SizeIsAccurate ==
  ASSUME Throwing \subseteq {1}
  PROVE  Queue!Spec => []SizeAccurate
  <1>1. QueueInv /\ Surplus = 0 => SizeAccurate
    <2> SUFFICES ASSUME QueueInv, Surplus = 0, \A p \in Producers : pend[p] = 0,
                        \A c \in Consumers : call[c] # "take"
                 PROVE  avail = Queue!Elements
      BY DEF SizeAccurate, Queue!SizeAccurate
    <2>1. Queue!Elements \in Nat /\ avail \in Nat /\ pend \in [Producers -> Nat] /\ Queue!Looking \in [Consumers -> Nat]
      BY SumsType DEF QueueInv, QueueRangeInv
    <2>2. Pending = 0
      BY <2>1, TotalZero, SameTotal, BlockingAssumption DEF Pending
    <2>3. \A c \in Consumers : Queue!Looking[c] = 0
      BY DEF Queue!Looking
    <2>4. Queue!Owed = 0
      BY <2>1, <2>3, TotalZero, SameTotal, BlockingAssumption DEF Queue!Owed
    <2> QED
      BY <2>1, <2>2, <2>4 DEF Surplus
  <1>2. QueueInv /\ Surplus = 0 /\ [Queue!Next]_(Queue!vars) => (Surplus = 0)'
    <2> SUFFICES ASSUME QueueInv, Surplus = 0, [Queue!Next]_(Queue!vars) PROVE Surplus' = 0
      OBVIOUS
    <2> QED
      BY NextKeeps DEF Keeps
  <1> QED
    BY <1>1, <1>2, InitQueue, NextQueue, PTL DEF Queue!Spec
=============================================================================
