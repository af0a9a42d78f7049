---------------------- MODULE BlockingConcurrentQueue ----------------------
(***************************************************************************)
(* BlockingConcurrentQueue (include/blockingconcurrentqueue.h): a          *)
(* ConcurrentQueue, inner, together with a semaphore, sema, that counts    *)
(* its elements.  Producers enqueue and then signal; consumers acquire     *)
(* units and then repeat inner.try_dequeue*() until they have as many      *)
(* elements.                                                               *)
(*                                                                         *)
(* The semaphore is CountingSemaphore, which LightweightSemaphore          *)
(* implements.  Of inner only the number of elements in the sub-queue of   *)
(* every producer matters; a call of try_dequeue*() may take elements of   *)
(* any sub-queue, and may fail while other calls are under way, which      *)
(* changes nothing and is not a step.  A failed enqueue is none either.    *)
(***************************************************************************)
EXTENDS Integers, FiniteSets, FiniteSetsExt, Tally

CONSTANTS Producers, Consumers,
          Counts,         \* elements per call of enqueue_bulk; 1 is enqueue
          Maxes,          \* the max given to *_dequeue_bulk; 1 is *_dequeue
          Throwing,       \* those of Maxes with calls whose assignment may throw
          MaxEnqueued     \* bound: elements in the queue

VARIABLES inner,    \* elements in the sub-queue of every producer
          pend,     \* units every producer is about to signal
          avail, max, got,      \* the semaphore
          call,     \* every consumer's kind of call, or "take"
          taken     \* elements it has got from inner in this call

vars == <<inner, pend, avail, max, got, call, taken>>

Sem == INSTANCE CountingSemaphore WITH Threads <- Consumers, Initial <- 0

Elements == Total(inner, Producers)

Init ==
  /\ inner = [p \in Producers |-> 0]
  /\ pend = [p \in Producers |-> 0]
  /\ Sem!Init
  /\ call = [c \in Consumers |-> "idle"]
  /\ taken = [c \in Consumers |-> 0]

-----------------------------------------------------------------------------
(* units are signalled also for elements that were refused                 *)
MutInnerEnqueue(p, n) ==
  /\ pend[p] = 0 /\ Elements + n <= MaxEnqueued
  /\ inner' \in {inner, [inner EXCEPT ![p] = @ + n]}
  /\ pend' = [pend EXCEPT ![p] = n]
  /\ UNCHANGED <<avail, max, got, call, taken>>

(* enqueue*, try_enqueue*: inner.enqueue*() has succeeded                  *)
InnerEnqueue(p, n) ==
  /\ pend[p] = 0 /\ Elements + n <= MaxEnqueued
  /\ inner' = [inner EXCEPT ![p] = @ + n]
  /\ pend' = [pend EXCEPT ![p] = n]
  /\ UNCHANGED <<avail, max, got, call, taken>>

(* one unit, whatever the count                                            *)
MutSignal(p) ==
  /\ pend[p] > 0
  /\ avail' = avail + 1 /\ Sem!Signal
  /\ pend' = [pend EXCEPT ![p] = 0]
  /\ UNCHANGED <<inner, call, taken>>

(* sema->signal(count)                                                     *)
Signal(p) ==
  /\ pend[p] > 0
  /\ avail' = avail + pend[p] /\ Sem!Signal
  /\ pend' = [pend EXCEPT ![p] = 0]
  /\ UNCHANGED <<inner, call, taken>>

(* try_dequeue*, wait_dequeue*, wait_dequeue*_timed                        *)
Call(c, kind, m) ==
  /\ call[c] = "idle"
  /\ call' = [call EXCEPT ![c] = kind]
  /\ taken' = [taken EXCEPT ![c] = 0]
  /\ max' = [max EXCEPT ![c] = m] /\ Sem!Begin(c)
  /\ UNCHANGED <<inner, pend>>

(* tryWait*() finds no unit, or wait*() times out                          *)
Miss(c) ==
  /\ call[c] \in {"try", "timed"}
  /\ call' = [call EXCEPT ![c] = "idle"]
  /\ UNCHANGED <<inner, pend, avail, max, got, taken>>

(* tryWait*(), wait*() return some units                                   *)
Acquire(c) ==
  /\ call[c] \in {"try", "wait", "timed"}
  /\ \E n \in 1 .. Min({avail, max[c]}) : avail' = avail - n
  /\ Sem!Acquire(c)
  /\ call' = [call EXCEPT ![c] = "take"]
  /\ UNCHANGED <<inner, pend, taken>>

(* max - count                                                             *)
Wanted(c) == got[c] - taken[c]

(* inner.try_dequeue*() takes n elements of the sub-queue of p; fewer than *)
(* there are if consumers under way have counted too many of them          *)
Take(c, p, n) ==
  /\ call[c] = "take" /\ n <= Min({inner[p], Wanted(c)})
  /\ inner' = [inner EXCEPT ![p] = @ - n]
  /\ taken' = [taken EXCEPT ![c] = @ + n]
  /\ call' = [call EXCEPT ![c] = IF taken'[c] = got[c] THEN "idle" ELSE "take"]
  /\ UNCHANGED <<pend, avail, max, got>>

(* An assignment throws: the sub-queue destroys what was claimed of it and *)
(* the exception leaves the call.                                          *)
TakeThrows(c, p) ==
  /\ call[c] = "take" /\ max[c] \in Throwing /\ inner[p] > 0
  /\ inner' = [inner EXCEPT ![p] = @ - Min({@, Wanted(c)})]
  /\ call' = [call EXCEPT ![c] = "idle"]
  /\ UNCHANGED <<pend, avail, max, got, taken>>

Next ==
  \/ \E p \in Producers : Signal(p) \/ \E n \in Counts : InnerEnqueue(p, n)
  \/ \E c \in Consumers :
       \/ \E kind \in {"try", "wait", "timed"}, m \in Maxes : Call(c, kind, m)
       \/ Miss(c) \/ Acquire(c)
       \/ \E p \in Producers, n \in 1 .. MaxEnqueued : Take(c, p, n)
       \/ \E p \in Producers : TakeThrows(c, p)

Spec == Init /\ [][Next]_vars

-----------------------------------------------------------------------------
(* Every variable stays within its range.                                  *)
TypeOK ==
  /\ inner \in [Producers -> 0 .. MaxEnqueued]
  /\ pend \in [Producers -> {0} \cup Counts]
  /\ avail \in 0 .. MaxEnqueued
  /\ call \in [Consumers -> {"idle", "try", "wait", "timed", "take"}]
  /\ \A c \in Consumers : 0 <= taken[c] /\ taken[c] <= got[c] /\ got[c] <= max[c]

(* The elements every consumer has units for and still looks for           *)
Looking == [c \in Consumers |-> IF call[c] = "take" THEN Wanted(c) ELSE 0]
Owed == Total(Looking, Consumers)

(* `while (!inner.try_dequeue(item)) continue;' always can end: there is   *)
(* an element for every unit available or held by a consumer, so that      *)
(* no consumer looks for an element that is not there, however others      *)
(* race it to the sub-queues.                                              *)
UnitsBacked == Elements >= avail + Owed

(* size_approx() is exact once all enqueue and dequeue operations have     *)
(* completed, as its comment says; so no element is left that try_dequeue  *)
(* would not return and wait_dequeue would sleep on.                       *)
SizeAccurate ==
  (\A p \in Producers : pend[p] = 0) /\ (\A c \in Consumers : call[c] # "take") => avail = Elements
=============================================================================
