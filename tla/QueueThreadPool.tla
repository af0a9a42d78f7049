-------------------------- MODULE QueueThreadPool --------------------------
(***************************************************************************)
(* CDMQueueThreadPool (include/queuethreadpool.hpp) and the CDMQueues it   *)
(* is made of.  Worker id takes tasks from queue id and hands them on to   *)
(* queue id + 1 until the next queue holds more than Q / N tasks; PushTask *)
(* feeds queue 0.  So every queue has one thread that pushes (the owner of *)
(* the pool, or the worker before it) and one that pops, and their plain   *)
(* reads and writes of its fields interleave.                              *)
(*                                                                         *)
(* The accesses are data races.  StoreOrders are the orders in which the   *)
(* two stores of PushBack may become visible: program order on x86, either *)
(* order on a machine with weaker memory.                                  *)
(***************************************************************************)
EXTENDS DMQueue, FiniteSets, Sequences

CONSTANTS N, Q,          \* the template's arguments
          StoreOrders,   \* subset of {ProgramOrder, <<"tail", "pointer">>}
          MaxTasks       \* bound: PushTask calls

ASSUME PoolAssumption ==
  N \in Nat \ {0} /\ Q \in Nat \ {0} /\ MaxTasks \in Nat

ProgramOrder == <<"pointer", "tail">>
ASSUME OrderAssumption == StoreOrders \subseteq {ProgramOrder, <<"tail", "pointer">>}

Ids == 0 .. N - 1
Tasks == 1 .. MaxTasks

VARIABLES
  queues, running,
  push,       \* of every queue, the PushBack under way: [pc, task, at, stores left]
  pop,        \* of every worker, where it is in its loop, and its task
  derived,    \* the class that overrides OnProcessTask still exists
  created,    \* tasks given to PushTask so far
  accepted,   \* history: tasks for which PushTask returned true
  done,       \* history: how often OnProcessTask was called for every task
  ignored,    \* history: how often the base class's was called, which does nothing
  refused     \* history: tasks for which a PushBack by a worker returned false

history == <<accepted, done, ignored, refused>>
vars == <<queues, running, push, pop, derived, created, history>>

NoPush == [pc |-> "none", task |-> NullPtr, at |-> 0, stores |-> <<>>]
NewPush(task) == [NoPush EXCEPT !.pc = "check", !.task = task]
AtLoop == [pc |-> "loop", task |-> NullPtr]

Init ==
  /\ queues = [i \in Ids |-> Ring(Q)]
  /\ running = TRUE /\ derived = TRUE
  /\ push = [i \in Ids |-> NoPush]
  /\ pop = [i \in Ids |-> AtLoop]
  /\ created = 0 /\ accepted = {} /\ refused = {}
  /\ done = [k \in Tasks |-> 0] /\ ignored = [k \in Tasks |-> 0]

-----------------------------------------------------------------------------
(* CDMQueue::PushBack on queue i, one shared access at a time              *)

(* how a PushBack ends: for PushTask, or for the worker that handed on     *)
PushEnds(i, ok) ==
  /\ push' = [push EXCEPT ![i] = NoPush]
  /\ IF i = 0
     THEN /\ accepted' = IF ok THEN accepted \cup {push[i].task} ELSE accepted
          /\ UNCHANGED <<pop, refused>>
     ELSE /\ pop' = [pop EXCEPT ![i - 1] = AtLoop]
          /\ refused' = IF ok THEN refused ELSE refused \cup {push[i].task}
          /\ UNCHANGED accepted

(* m_nHead is read and the free space checked                              *)
PushCheck(i) ==
  /\ push[i].pc = "check"
  /\ \/ Full(queues[i]) /\ PushEnds(i, FALSE)
     \/ /\ ~Full(queues[i])
        /\ \E order \in StoreOrders :
             push' = [push EXCEPT ![i] = [pc |-> "store", task |-> @.task, at |-> queues[i].m_nTail, stores |-> order]]
        /\ UNCHANGED <<pop, accepted, refused>>
  /\ UNCHANGED <<queues, running, derived, created, done, ignored>>

(* one of the two stores                                                   *)
PushStore(i) ==
  /\ push[i].pc = "store"
  /\ queues' = [queues EXCEPT ![i] = IF Head(push[i].stores) = "pointer" THEN Stored(@, push[i].at, push[i].task)
                                     ELSE TailAdvanced(@)]
  /\ \/ /\ Len(push[i].stores) = 2
        /\ push' = [push EXCEPT ![i].stores = Tail(@)] /\ UNCHANGED <<pop, accepted, refused>>
     \/ Len(push[i].stores) = 1 /\ PushEnds(i, TRUE)
  /\ UNCHANGED <<running, derived, created, done, ignored>>

-----------------------------------------------------------------------------
(* ThreadFunction(id)                                                      *)

Goto(i, l) == pop' = [pop EXCEPT ![i].pc = l]

(* while (running)                                                         *)
Loop(i) ==
  /\ pop[i].pc = "loop"
  /\ Goto(i, IF running THEN "empty" ELSE "exited")
  /\ UNCHANGED <<queues, running, push, derived, created, history>>

(* a queue of one task is taken to be empty                                *)
MutPopCheck(i) ==
  /\ pop[i].pc = "empty"
  /\ Goto(i, IF Used(queues[i]) <= 1 THEN "loop" ELSE "read")
  /\ UNCHANGED <<queues, running, push, derived, created, history>>

(* an idle worker tries again at once                                      *)
MutPopAgain(i) ==
  /\ pop[i].pc = "empty"
  /\ Goto(i, IF Used(queues[i]) = 0 THEN "empty" ELSE "read")
  /\ UNCHANGED <<queues, running, push, derived, created, history>>

(* PopFront: m_nTail is read; nullptr sends the worker to sleep and back   *)
PopCheck(i) ==
  /\ pop[i].pc = "empty"
  /\ Goto(i, IF Used(queues[i]) = 0 THEN "loop" ELSE "read")
  /\ UNCHANGED <<queues, running, push, derived, created, history>>

PopRead(i) ==
  /\ pop[i].pc = "read"
  /\ pop' = [pop EXCEPT ![i].pc = "head", ![i].task = Front(queues[i])]
  /\ UNCHANGED <<queues, running, push, derived, created, history>>

PopHead(i) ==
  /\ pop[i].pc = "head"
  /\ queues' = [queues EXCEPT ![i] = HeadAdvanced(@)]
  /\ Goto(i, IF pop[i].task = NullPtr THEN "loop" ELSE "process")
  /\ UNCHANGED <<running, push, derived, created, history>>

(* as if a queue could hold all the tasks it is given                      *)
MutShouldBalanceLoad(i) == FALSE

shouldBalanceLoad(i) == Used(queues[i]) > Q \div N

HandsOn(i) == i < N - 1 /\ ~shouldBalanceLoad(i + 1)

(* ProcessTask: handed on to the next queue ...                            *)
HandOn(i) ==
  /\ pop[i].pc = "process" /\ HandsOn(i)
  /\ push' = [push EXCEPT ![i + 1] = NewPush(pop[i].task)]
  /\ pop' = [pop EXCEPT ![i] = [pc |-> "pushing", task |-> NullPtr]]
  /\ UNCHANGED <<queues, running, derived, created, history>>

(* ... or processed, by the class that exists at that moment               *)
OnProcessTask(i) ==
  /\ pop[i].pc = "process" /\ ~HandsOn(i)
  /\ IF derived
     THEN done' = [done EXCEPT ![pop[i].task] = @ + 1] /\ UNCHANGED ignored
     ELSE ignored' = [ignored EXCEPT ![pop[i].task] = @ + 1] /\ UNCHANGED done
  /\ pop' = [pop EXCEPT ![i] = AtLoop]
  /\ UNCHANGED <<queues, running, push, derived, created, accepted, refused>>

-----------------------------------------------------------------------------
(* The owner of the pool                                                   *)

PushTask ==
  /\ derived /\ push[0].pc = "none" /\ created < MaxTasks
  /\ created' = created + 1
  /\ push' = [push EXCEPT ![0] = NewPush(created')]
  /\ UNCHANGED <<queues, running, pop, derived, history>>

(* The destructor of the derived class runs first ...                      *)
DestroyDerived ==
  /\ derived /\ push[0].pc = "none"
  /\ derived' = FALSE
  /\ UNCHANGED <<queues, running, push, pop, created, history>>

(* ... then ~CDMQueueThreadPool(), which waits for the workers             *)
Stop ==
  /\ ~derived /\ running
  /\ running' = FALSE
  /\ UNCHANGED <<queues, push, pop, derived, created, history>>

Worker(i) ==
  \/ Loop(i) \/ PopCheck(i) \/ PopRead(i) \/ PopHead(i) \/ HandOn(i) \/ OnProcessTask(i)

Pusher(i) == PushCheck(i) \/ PushStore(i)

Next ==
  \/ \E i \in Ids : Worker(i) \/ Pusher(i)
  \/ PushTask \/ DestroyDerived \/ Stop

(* Threads run; the owner finishes what it has begun and may or may not    *)
(* push and destroy.                                                       *)
Fairness ==
  /\ \A i \in Ids : WF_vars(Worker(i)) /\ WF_vars(Pusher(i))
  /\ WF_vars(Stop)

Spec == Init /\ [][Next]_vars /\ Fairness

-----------------------------------------------------------------------------
(* where task k is: in a queue (as long as the head is not past it), in    *)
(* the hands of a worker, or on its way into the next queue                *)
InQueues(k) == {x \in Ids \X (0 .. Q) : x[2] \in Held(queues[x[1]]) /\ queues[x[1]].m_pArray[x[2]] = k}
InHands(k) == {i \in Ids : pop[i].pc = "process" /\ pop[i].task = k}
OnItsWay(k) == {i \in Ids : push[i].task = k}

(* An accepted task is at exactly one place at every moment, or it has     *)
(* been processed exactly once: no worker loses it, takes it twice or      *)
(* overwrites it, although the indices of the rings are plain variables    *)
(* that two threads use.  After the destructor it may be left in a queue   *)
(* or be ignored by the base class.                                        *)
TasksExact ==
  \A k \in accepted :
    Cardinality(InQueues(k)) + Cardinality(InHands(k)) + Cardinality(OnItsWay(k)) + done[k] + ignored[k] = 1

(* A worker ignores what PushBack returns when it hands a task on: the     *)
(* queue never is full then, because nobody else pushes there.             *)
HandOnSucceeds == refused = {}

(* A task that PushTask accepted is processed sooner or later, unless the  *)
(* pool is destroyed before: what the pool's test waits for.               *)
TasksProcessed == \A k \in Tasks : k \in accepted ~> done[k] = 1 \/ ~derived

(* The destructor returns: every worker leaves its loop.                   *)
DestructorReturns == ~derived ~> \A i \in Ids : pop[i].pc = "exited"

=============================================================================
