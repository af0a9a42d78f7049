--------------------- MODULE MCBlockingConcurrentQueue ---------------------
(* LightweightSemaphore and, on the CountingSemaphore that it implements,  *)
(* BlockingConcurrentQueue, instantiated for TLC side by side.             *)
EXTENDS LightweightSemaphore, TLC

CONSTANTS Producers, Consumers, Counts, Maxes, Throwing, MaxEnqueued     \* BlockingConcurrentQueue

(* The sizes given to the bulk operations; enqueue and dequeue are 1.      *)
ASSUME BlockingAssumption ==
  /\ IsFiniteSet(Producers) /\ IsFiniteSet(Consumers)
  /\ Counts \cup Maxes \subseteq Nat \ {0} /\ Throwing \subseteq Maxes /\ MaxEnqueued \in Nat

VARIABLES inner, pend, avail, asked, given, call, taken

queueVars == <<inner, pend, avail, asked, given, call, taken>>

(* asked and given are max and got of the semaphore that the queue sees    *)
Queue == INSTANCE BlockingConcurrentQueue WITH max <- asked, got <- given

MCInit == Init /\ Queue!Init

SemaphoreNext == Next /\ UNCHANGED queueVars
QueueNext == Queue!Next /\ UNCHANGED vars

(* One of the two runs, the other one stays as it was made.                *)
EitherNext ==
  \/ Queue!Init /\ SemaphoreNext
  \/ Init /\ QueueNext

EitherSpec == MCInit /\ [][EitherNext]_<<vars, queueVars>>
QueueSpec == MCInit /\ [][QueueNext]_<<vars, queueVars>>
SemaphoreSpec == MCInit /\ [][SemaphoreNext]_<<vars, queueVars>> /\ Fairness

(* The loop around inner.try_dequeue*() always can end: there is an        *)
(* element for every unit available or held by a consumer.                 *)
UnitsBacked == Queue!UnitsBacked

(* size_approx() is exact once all operations have completed.              *)
SizeAccurate == Queue!SizeAccurate

CONSTANTS t1, t2, t3, p1, p2, c1, c2, c3
MCWaiters == {t1, t2}
MCSignallers == {t2, t3}
TwoProducers == {p1, p2}
ThreeConsumers == {c1, c2, c3}
MCSymmetry == Permutations(Producers) \cup Permutations(Consumers)
=============================================================================
