-------------------------- MODULE ThreadSafeQueue --------------------------
(***************************************************************************)
(* ThreadSafeQueue (include/thread_safe_queue.h): a std::queue under a     *)
(* mutex, with a condition variable on which pop() waits for an element.   *)
(*                                                                         *)
(* The mutex is held from the beginning of a call to its end or to its     *)
(* wait: each of these is one step.  A thread that is told of an element   *)
(* leaves the wait at once, but it is the mutex that decides when it goes  *)
(* on, and others may have been there first.                               *)
(*                                                                         *)
(* Copying an element may throw.  In push(), in try_pop() and in a pop()   *)
(* that has not slept this changes nothing; a thread that was woken for an *)
(* element leaves it behind.                                               *)
(***************************************************************************)
EXTENDS Integers, Sequences, FiniteSets

CONSTANTS Threads, Values,
          MaxQueued      \* bound: elements in the queue

VARIABLES queue_,
          waiting,       \* threads asleep in cond_var_.wait
          woken,         \* threads that left it and want the mutex
          abandoned      \* history: how many of these threw since the queue was last empty

vars == <<queue_, waiting, woken, abandoned>>

Init == queue_ = <<>> /\ waiting = {} /\ woken = {} /\ abandoned = 0

Idle == Threads \ (waiting \cup woken)

(* external: std::condition_variable wakes one of the waiting, if any is   *)
notify_one ==
  \/ \E t \in waiting : waiting' = waiting \ {t} /\ woken' = woken \cup {t}
  \/ waiting = {} /\ UNCHANGED <<waiting, woken>>

(* notify_one only if the queue was empty                                  *)
MutPush(v) ==
  /\ Idle # {} /\ Len(queue_) < MaxQueued
  /\ queue_' = Append(queue_, v)
  /\ IF queue_ = <<>> THEN notify_one ELSE UNCHANGED <<waiting, woken>>
  /\ UNCHANGED abandoned

push(v) ==
  /\ Idle # {} /\ Len(queue_) < MaxQueued
  /\ queue_' = Append(queue_, v)
  /\ notify_one
  /\ UNCHANGED abandoned

(* value = queue_.front(); queue_.pop()                                    *)
Take ==
  /\ queue_ # <<>>
  /\ queue_' = Tail(queue_)
  /\ abandoned' = IF queue_' = <<>> THEN 0 ELSE abandoned

(* the predicate of the wait: the front is taken, or the thread sleeps     *)
TakeOrWait(t) ==
  \/ Take /\ UNCHANGED waiting
  \/ queue_ = <<>> /\ waiting' = waiting \cup {t} /\ UNCHANGED <<queue_, abandoned>>

pop(t) ==
  /\ t \in Idle
  /\ TakeOrWait(t)
  /\ UNCHANGED woken

(* a woken thread has the mutex again                                      *)
Resume(t) ==
  /\ t \in woken
  /\ woken' = woken \ {t}
  /\ TakeOrWait(t)

(* value = queue_.front() throws: the thread leaves pop(), the element     *)
(* stays and nobody is told                                                *)
ResumeThrows(t) ==
  /\ t \in woken /\ queue_ # <<>>
  /\ woken' = woken \ {t}
  /\ abandoned' = abandoned + 1
  /\ UNCHANGED <<queue_, waiting>>

(* external: a thread may leave the wait for no reason                     *)
WakeSpuriously(t) ==
  /\ t \in waiting
  /\ waiting' = waiting \ {t} /\ woken' = woken \cup {t}
  /\ UNCHANGED <<queue_, abandoned>>

(* returns false, and changes nothing, when the queue is empty             *)
try_pop ==
  /\ Idle # {} /\ Take
  /\ UNCHANGED <<waiting, woken>>

Next ==
  \/ \E v \in Values : push(v)
  \/ \E t \in Threads : pop(t) \/ Resume(t) \/ ResumeThrows(t) \/ WakeSpuriously(t)
  \/ try_pop

Spec == Init /\ [][Next]_vars

-----------------------------------------------------------------------------
(* While a thread sleeps in pop(), every element in the queue has a thread *)
(* on its way to it, but for one element for each woken thread whose       *)
(* assignment threw: pushes in a row, waiters that find their element gone *)
(* and wake-ups without a reason leave nobody asleep beside an element,    *)
(* and an exception strands one element, until the queue has been empty.   *)
OnlyAbandonedWait == waiting # {} => Len(queue_) <= Cardinality(woken) + abandoned

(* What a waiting pop() is for: nobody sleeps beside an element that has   *)
(* no thread on its way to it.  An exception in pop() breaks it.           *)
NobodySleepsBesideAnElement == waiting # {} => Len(queue_) <= Cardinality(woken)
=============================================================================
