----------------------- MODULE QueueThreadPoolProofs -----------------------
(***************************************************************************)
(* Proofs about QueueThreadPool, for any number of workers, any size of    *)
(* their queues and any number of tasks: a worker that hands a task on     *)
(* never finds the next queue full, and with the stores of PushBack        *)
(* visible in program order no accepted task is lost or doubled.           *)
(***************************************************************************)
EXTENDS QueueThreadPool, CountingLemmas

-----------------------------------------------------------------------------
(* CDMQueue: the ring of one queue                                         *)

Rings == [m_nSize : {Q + 1}, m_nHead : 0 .. Q, m_nTail : 0 .. Q, m_pArray : [0 .. Q -> 0 .. MaxTasks]]

(* Wrapping an index that is less than one round too large.                *)
LEMMA Wrapped ==
  ASSUME NEW x \in 0 .. 2 * Q + 1
  PROVE  x % (Q + 1) = IF x <= Q THEN x ELSE x - (Q + 1)
  <1> DEFINE n == Q + 1
  <1>1. n \in Nat \ {0} /\ x \in Int /\ 0 <= x /\ x < 2 * n /\ (x <= Q <=> x < n)
    BY PoolAssumption
  <1> HIDE DEF n
  <1>2. CASE x < n
    BY <1>1, <1>2, ModSmall DEF n
  <1>3. CASE ~(x < n)
    <2>1. n <= x
      BY <1>1, <1>3
    <2> QED
      BY <1>1, <2>1, ModOver DEF n
  <1> QED
    BY <1>2, <1>3

(* Init(nSize) makes an empty ring.                                        *)
LEMMA RingMade == Ring(Q) \in Rings /\ Used(Ring(Q)) = 0
  BY PoolAssumption DEF Ring, Rings, Used, NullPtr

(* GetUsedSize() is a number of tasks that fits.                           *)
LEMMA UsedType ==
  ASSUME NEW q \in Rings
  PROVE  Used(q) \in 0 .. Q
  BY PoolAssumption DEF Used, Rings

(* A pushed task is one task more, unless the ring is full.                *)
LEMMA TailAdvancedUsed ==
  ASSUME NEW q \in Rings, Used(q) < Q
  PROVE  /\ TailAdvanced(q) \in Rings /\ Used(TailAdvanced(q)) = Used(q) + 1
         /\ TailAdvanced(q).m_nHead = q.m_nHead /\ TailAdvanced(q).m_pArray = q.m_pArray
  <1> DEFINE t == (q.m_nTail + 1) % (Q + 1)
  <1>1. t = IF q.m_nTail = Q THEN 0 ELSE q.m_nTail + 1
    <2>1. q.m_nTail + 1 \in 0 .. 2 * Q + 1 /\ q.m_nTail \in 0 .. Q
      BY PoolAssumption DEF Rings
    <2> QED
      BY <2>1, Wrapped, PoolAssumption
  <1> HIDE DEF t
  <1>2. TailAdvanced(q) = [q EXCEPT !.m_nTail = t]
    BY DEF TailAdvanced, Rings, t
  <1>3. t \in 0 .. Q /\ q.m_nTail \in 0 .. Q /\ q.m_nHead \in 0 .. Q /\ q.m_nSize = Q + 1
    BY <1>1, PoolAssumption DEF Rings
  <1>4. TailAdvanced(q) \in Rings
    BY <1>2, <1>3 DEF Rings
  <1>5. /\ TailAdvanced(q).m_nTail = t /\ TailAdvanced(q).m_nHead = q.m_nHead
        /\ TailAdvanced(q).m_nSize = Q + 1 /\ TailAdvanced(q).m_pArray = q.m_pArray
    BY <1>2, <1>3 DEF Rings
  <1> QED
    BY <1>1, <1>3, <1>4, <1>5, PoolAssumption DEF Used

(* A popped task is one task less, unless the ring is empty.               *)
LEMMA HeadAdvancedUsed ==
  ASSUME NEW q \in Rings, Used(q) > 0
  PROVE  /\ HeadAdvanced(q) \in Rings /\ Used(HeadAdvanced(q)) = Used(q) - 1
         /\ HeadAdvanced(q).m_nHead = IF q.m_nHead = Q THEN 0 ELSE q.m_nHead + 1
         /\ HeadAdvanced(q).m_pArray = q.m_pArray /\ HeadAdvanced(q).m_nTail = q.m_nTail
  <1> DEFINE h == (q.m_nHead + 1) % (Q + 1)
  <1>1. h = IF q.m_nHead = Q THEN 0 ELSE q.m_nHead + 1
    <2>1. q.m_nHead + 1 \in 0 .. 2 * Q + 1 /\ q.m_nHead \in 0 .. Q
      BY PoolAssumption DEF Rings
    <2> QED
      BY <2>1, Wrapped, PoolAssumption
  <1> HIDE DEF h
  <1>2. HeadAdvanced(q) = [q EXCEPT !.m_nHead = h]
    BY DEF HeadAdvanced, Rings, h
  <1>3. h \in 0 .. Q /\ q.m_nTail \in 0 .. Q /\ q.m_nHead \in 0 .. Q /\ q.m_nSize = Q + 1
    BY <1>1, PoolAssumption DEF Rings
  <1>4. HeadAdvanced(q) \in Rings
    BY <1>2, <1>3 DEF Rings
  <1>5. /\ HeadAdvanced(q).m_nHead = h /\ HeadAdvanced(q).m_nTail = q.m_nTail
        /\ HeadAdvanced(q).m_nSize = Q + 1 /\ HeadAdvanced(q).m_pArray = q.m_pArray
    BY <1>2, <1>3 DEF Rings
  <1> QED
    BY <1>1, <1>3, <1>4, <1>5, PoolAssumption DEF Used

(* Storing a pointer does not change what is used.                         *)
LEMMA StoredUsed ==
  ASSUME NEW q \in Rings, NEW at \in 0 .. Q, NEW ptr \in 0 .. MaxTasks
  PROVE  /\ Stored(q, at, ptr) \in Rings /\ Used(Stored(q, at, ptr)) = Used(q)
  <1> DEFINE a == [q.m_pArray EXCEPT ![at] = ptr]
  <1>1. a \in [0 .. Q -> 0 .. MaxTasks]
    BY DEF Rings
  <1>2. Stored(q, at, ptr) = [q EXCEPT !.m_pArray = a]
    BY DEF Stored
  <1> HIDE DEF a
  <1>3. [q EXCEPT !.m_pArray = a] \in Rings
    BY <1>1 DEF Rings
  <1>4. /\ [q EXCEPT !.m_pArray = a].m_nTail = q.m_nTail /\ [q EXCEPT !.m_pArray = a].m_nHead = q.m_nHead
        /\ [q EXCEPT !.m_pArray = a].m_nSize = q.m_nSize /\ [q EXCEPT !.m_pArray = a].m_pArray = a
    BY DEF Rings
  <1> QED
    BY <1>2, <1>3, <1>4 DEF Used

(* Storing a pointer changes one slot.                                     *)
LEMMA StoredSlot ==
  ASSUME NEW q \in Rings, NEW at \in 0 .. Q, NEW ptr \in 0 .. MaxTasks
  PROVE  /\ Stored(q, at, ptr).m_nTail = q.m_nTail /\ Stored(q, at, ptr).m_nHead = q.m_nHead
         /\ Stored(q, at, ptr).m_pArray[at] = ptr
         /\ \A s \in 0 .. Q : s # at => Stored(q, at, ptr).m_pArray[s] = q.m_pArray[s]
  <1> DEFINE a == [q.m_pArray EXCEPT ![at] = ptr]
  <1>1. a[at] = ptr /\ \A s \in 0 .. Q : s # at => a[s] = q.m_pArray[s]
    BY DEF Rings
  <1>2. Stored(q, at, ptr) = [q EXCEPT !.m_pArray = a]
    BY DEF Stored
  <1> HIDE DEF a
  <1>3. /\ [q EXCEPT !.m_pArray = a].m_nTail = q.m_nTail /\ [q EXCEPT !.m_pArray = a].m_nHead = q.m_nHead
        /\ [q EXCEPT !.m_pArray = a].m_pArray = a
    BY DEF Rings
  <1> QED
    BY <1>1, <1>2, <1>3

(* A ring is full with Q tasks.                                            *)
LEMMA FullMeans ==
  ASSUME NEW q \in Rings
  PROVE  Full(q) <=> Used(q) >= Q
  BY PoolAssumption, UsedType DEF Full, Rings

(* Slots hold pointers.                                                    *)
LEMMA FrontType ==
  ASSUME NEW q \in Rings
  PROVE  Front(q) \in 0 .. MaxTasks
  BY DEF Front, Rings

(* A slot is held when it is less than Used slots behind the head.         *)
LEMMA HeldSlots ==
  ASSUME NEW q \in Rings, NEW s
  PROVE  s \in Held(q) <=> /\ s \in 0 .. Q
                           /\ (IF s >= q.m_nHead THEN s - q.m_nHead ELSE s - q.m_nHead + Q + 1) < Used(q)
  <1> DEFINE h == q.m_nHead
  <1>1. h \in 0 .. Q /\ q.m_nSize = Q + 1 /\ Used(q) \in 0 .. Q /\ Q \in Nat
    BY UsedType, PoolAssumption DEF Rings
  <1> HIDE DEF h
  <1>2. \A k \in 0 .. Used(q) - 1 : (h + k) % (Q + 1) = IF h + k <= Q THEN h + k ELSE h + k - (Q + 1)
    <2> TAKE k \in 0 .. Used(q) - 1
    <2> DEFINE x == h + k
    <2>1. x \in 0 .. 2 * Q + 1
      BY <1>1
    <2> HIDE DEF x
    <2>2. x % (Q + 1) = IF x <= Q THEN x ELSE x - (Q + 1)
      BY <2>1, Wrapped
    <2> QED
      BY <1>1, <2>2 DEF x
  <1>3. s \in Held(q) <=> \E k \in 0 .. Used(q) - 1 : s = IF h + k <= Q THEN h + k ELSE h + k - (Q + 1)
    BY <1>1, <1>2 DEF Held, h
  <1>4. ASSUME s \in 0 .. Q, (IF s >= h THEN s - h ELSE s - h + Q + 1) < Used(q)
        PROVE  \E k \in 0 .. Used(q) - 1 : s = IF h + k <= Q THEN h + k ELSE h + k - (Q + 1)
    <2> DEFINE k == IF s >= h THEN s - h ELSE s - h + Q + 1
    <2>1. k \in 0 .. Used(q) - 1 /\ s = IF h + k <= Q THEN h + k ELSE h + k - (Q + 1)
      BY <1>1, <1>4
    <2> QED
      BY <2>1
  <1>5. ASSUME NEW k \in 0 .. Used(q) - 1, s = IF h + k <= Q THEN h + k ELSE h + k - (Q + 1)
        PROVE  s \in 0 .. Q /\ (IF s >= h THEN s - h ELSE s - h + Q + 1) < Used(q)
    BY <1>1, <1>5
  <1> QED
    BY <1>3, <1>4, <1>5 DEF h

(* The slot at the tail is free until the tail is advanced past it.        *)
LEMMA HeldPushed ==
  ASSUME NEW q \in Rings, Used(q) < Q
  PROVE  Held(TailAdvanced(q)) = Held(q) \cup {q.m_nTail} /\ q.m_nTail \notin Held(q)
  <1>1. q.m_nHead \in 0 .. Q /\ q.m_nTail \in 0 .. Q /\ Q \in Nat
    BY PoolAssumption DEF Rings
  <1>2. Used(q) = IF q.m_nTail >= q.m_nHead THEN q.m_nTail - q.m_nHead ELSE q.m_nTail - q.m_nHead + Q + 1
    BY <1>1 DEF Used, Rings
  <1>3. \A s \in 0 .. Q : (IF s >= q.m_nHead THEN s - q.m_nHead ELSE s - q.m_nHead + Q + 1) = Used(q)
                            <=> s = q.m_nTail
    BY <1>1, <1>2
  <1>4. \A s : s \in Held(TailAdvanced(q)) <=> s \in Held(q) \/ s = q.m_nTail
    BY <1>1, <1>2, <1>3, UsedType, TailAdvancedUsed, HeldSlots
  <1> QED
    BY <1>1, <1>2, <1>3, <1>4, HeldSlots

(* The slot at the head is held until the head is advanced past it.        *)
LEMMA HeldPopped ==
  ASSUME NEW q \in Rings, Used(q) > 0
  PROVE  Held(HeadAdvanced(q)) = Held(q) \ {q.m_nHead} /\ q.m_nHead \in Held(q)
  <1>1. q.m_nHead \in 0 .. Q /\ q.m_nTail \in 0 .. Q /\ Q \in Nat /\ Used(q) \in 0 .. Q
    BY PoolAssumption, UsedType DEF Rings
  <1> DEFINE h == IF q.m_nHead = Q THEN 0 ELSE q.m_nHead + 1
  <1>2. \A s \in 0 .. Q : (IF s >= h THEN s - h ELSE s - h + Q + 1) < Used(q) - 1
          <=> (IF s >= q.m_nHead THEN s - q.m_nHead ELSE s - q.m_nHead + Q + 1) < Used(q) /\ s # q.m_nHead
    BY <1>1
  <1> HIDE DEF h
  <1>3. HeadAdvanced(q) \in Rings /\ HeadAdvanced(q).m_nHead = h /\ Used(HeadAdvanced(q)) = Used(q) - 1
    BY HeadAdvancedUsed DEF h
  <1>4. \A s : s \in Held(HeadAdvanced(q)) <=> s \in Held(q) /\ s # q.m_nHead
    BY <1>2, <1>3, HeldSlots
  <1>5. q.m_nHead \in Held(q)
    BY <1>1, HeldSlots
  <1> QED
    BY <1>4, <1>5

(* Storing a pointer does not change which slots are held.                 *)
LEMMA HeldStored ==
  ASSUME NEW q \in Rings, NEW at \in 0 .. Q, NEW ptr \in 0 .. MaxTasks
  PROVE  Held(Stored(q, at, ptr)) = Held(q)
  BY DEF Held, Stored, Used, Rings

-----------------------------------------------------------------------------
(* A worker that hands a task on never finds the next queue full.          *)

Stores == {<<>>, ProgramOrder, <<"tail", "pointer">>, <<"tail">>, <<"pointer">>}

PushRecords == [pc : {"none", "check", "store"}, task : 0 .. MaxTasks, at : 0 .. Q, stores : Stores]
PopRecords ==
  [pc : {"loop", "empty", "read", "head", "process", "pushing", "exited"}, task : 0 .. MaxTasks]

PoolType ==
  /\ queues \in [Ids -> Rings]
  /\ push \in [Ids -> PushRecords]
  /\ pop \in [Ids -> PopRecords]
  /\ running \in BOOLEAN /\ derived \in BOOLEAN /\ created \in 0 .. MaxTasks
  /\ accepted \subseteq 0 .. MaxTasks
  /\ done \in [Tasks -> Nat] /\ ignored \in [Tasks -> Nat]

(* What one thread has read of a queue still allows what it is about to do *)
(* there, although the other thread goes on: a pop has a task to take, a   *)
(* push a free slot, and a push by a worker the space it looked for before *)
(* it decided to hand on.                                                  *)
Room ==
  \A i \in Ids :
    /\ pop[i].pc \in {"read", "head"} => Used(queues[i]) > 0
    /\ push[i].pc = "store" /\ push[i].stores # <<"pointer">> => Used(queues[i]) < Q
    /\ i > 0 /\ push[i].pc = "check" => Used(queues[i]) <= Q \div N

RoomInv == PoolType /\ Room /\ HandOnSucceeds

(* The orders of two stores, and what is left after the first.             *)
LEMMA StoreSequences ==
  /\ \A o \in StoreOrders : o \in Stores /\ o # <<"pointer">>
  /\ \A o \in Stores : Len(o) = 2 => Tail(o) \in Stores /\ (Head(o) = "tail" => Tail(o) = <<"pointer">>)
                                  /\ (Head(o) # "tail" => Head(o) = "pointer" /\ Tail(o) = <<"tail">>)
                                  /\ o # <<"pointer">>
  /\ \A o \in Stores : Len(o) = 1 => o = <<Head(o)>> /\ Head(o) \in {"pointer", "tail"}
  /\ <<"pointer">> # <<"tail">>
  BY OrderAssumption DEF Stores, ProgramOrder

(* With a worker to hand on to, a queue at the limit of the balance is not *)
(* full.                                                                   *)
LEMMA BalanceBelowFull == N > 1 => Q \div N < Q
  <1>1. \A d \in Int, r \in 0 .. N - 1 : N > 1 /\ Q = N * d + r => d < Q
    BY PoolAssumption
  <1> QED
    BY <1>1, PoolAssumption, DivMod

(* What a PushBack and a worker begin with.                                *)
LEMMA Beginnings ==
  /\ NoPush \in PushRecords /\ NoPush.pc = "none" /\ NoPush.task = NullPtr
  /\ \A k \in 0 .. MaxTasks :
       NewPush(k) \in PushRecords /\ NewPush(k).pc = "check" /\ NewPush(k).task = k
  /\ AtLoop \in PopRecords /\ AtLoop.pc = "loop" /\ AtLoop.task = NullPtr
  <1>1. MaxTasks \in Nat /\ Q \in Nat /\ <<>> \in Stores
    BY PoolAssumption DEF Stores
  <1>2. NoPush \in PushRecords /\ NoPush.pc = "none" /\ NoPush.task = NullPtr
    BY <1>1 DEF NoPush, PushRecords, NullPtr
  <1>3. ASSUME NEW k \in 0 .. MaxTasks
        PROVE  NewPush(k) \in PushRecords /\ NewPush(k).pc = "check" /\ NewPush(k).task = k
    BY <1>2 DEF NewPush, PushRecords
  <1>4. AtLoop \in PopRecords /\ AtLoop.pc = "loop" /\ AtLoop.task = NullPtr
    BY <1>1 DEF AtLoop, PopRecords, NullPtr
  <1> QED
    BY <1>2, <1>3, <1>4

(* A new pool is empty.                                                    *)
LEMMA InitRoom == Init => RoomInv
  <1> SUFFICES ASSUME Init PROVE RoomInv
    OBVIOUS
  <1>1. PoolType
    BY RingMade, Beginnings, PoolAssumption DEF Init, PoolType, Tasks, Ids
  <1> QED
    BY <1>1, Beginnings DEF Init, RoomInv, Room, HandOnSucceeds

(* PushBack preserves the invariant.                                       *)
LEMMA PusherRoom ==
  ASSUME RoomInv, NEW i \in Ids, Pusher(i)
  PROVE  RoomInv'
  <1> USE DEF RoomInv, PoolType, Room, HandOnSucceeds
  <1>0. i \in Nat /\ Q \in Nat /\ N \in Nat /\ (i > 0 => N > 1 /\ i - 1 \in Ids)
    BY PoolAssumption DEF Ids
  <1>3. CASE PushCheck(i) /\ Full(queues[i])
    <2>1. i = 0
      <3>1. push[i].pc = "check" /\ Used(queues[i]) >= Q /\ Used(queues[i]) \in 0 .. Q
        BY <1>3, FullMeans, UsedType DEF PushCheck
      <3>2. Q \div N \in Int
        BY PoolAssumption, DivMod
      <3> QED
        BY <1>0, <3>1, <3>2, BalanceBelowFull
    <2> QED
      BY <1>3, <2>1, Beginnings DEF PushCheck, PushEnds
  <1>4. CASE PushCheck(i) /\ ~Full(queues[i])
    <2>1. PICK o \in StoreOrders :
            push' = [push EXCEPT ![i] = [pc |-> "store", task |-> @.task, at |-> queues[i].m_nTail, stores |-> o]]
      BY <1>4 DEF PushCheck
    <2>2. Used(queues[i]) < Q
      BY <1>0, <1>4, UsedType, FullMeans
    <2>3. queues[i].m_nTail \in 0 .. Q /\ o \in Stores /\ o # <<"pointer">>
      BY StoreSequences DEF Rings
    <2> QED
      BY <1>4, <2>1, <2>2, <2>3 DEF PushCheck, PushRecords
  <1>5. CASE PushStore(i)
    <2> DEFINE o == push[i].stores
    <2>1. /\ UNCHANGED <<running, derived, created, done, ignored>>
          /\ push[i].pc = "store" /\ o \in Stores
          /\ push[i].at \in 0 .. Q /\ push[i].task \in 0 .. MaxTasks
      BY <1>5 DEF PushStore, PushRecords
    <2>2. /\ queues' = [queues EXCEPT ![i] = queues'[i]] /\ queues'[i] \in Rings
          /\ Used(queues'[i]) >= Used(queues[i])
          /\ Used(queues'[i]) = Used(queues[i]) \/ Head(o) = "tail"
      <3>1. CASE Head(o) = "pointer"
        BY <1>5, <2>1, <3>1, StoredUsed, UsedType DEF PushStore
      <3>2. CASE Head(o) # "pointer"
        <4>1. Len(o) = 1 \/ Len(o) = 2
          BY <1>5 DEF PushStore
        <4>2. o # <<"pointer">> /\ Head(o) = "tail"
          BY <2>1, <3>2, <4>1, StoreSequences
        <4>3. Used(queues[i]) < Q
          BY <2>1, <4>2
        <4> QED
          BY <1>5, <3>2, <4>2, <4>3, TailAdvancedUsed, UsedType DEF PushStore
      <3> QED
        BY <3>1, <3>2
    <2>3. CASE Len(o) = 2
      <3>1. push' = [push EXCEPT ![i].stores = Tail(@)] /\ UNCHANGED <<pop, accepted, refused>>
        BY <1>5, <2>3 DEF PushStore
      <3>2. Tail(o) \in Stores /\ (Head(o) = "tail" => Tail(o) = <<"pointer">>) /\ o # <<"pointer">>
        BY <2>1, <2>3, StoreSequences
      <3>3. PoolType'
        <4>1. queues' \in [Ids -> Rings]
          BY <2>2
        <4>2. push' \in [Ids -> PushRecords]
          BY <3>1, <3>2 DEF PushRecords
        <4> QED
          BY <2>1, <3>1, <4>1, <4>2
      <3>4. Room'
        BY <2>1, <2>2, <3>1, <3>2, UsedType DEF PushRecords
      <3> QED
        BY <3>1, <3>3, <3>4
    <2>4. CASE Len(o) = 1
      <3>0. Len(o) # 2
        BY <2>4
      <3>1. PushEnds(i, TRUE)
        BY <1>5, <3>0 DEF PushStore
      <3>2. push' = [push EXCEPT ![i] = NoPush] /\ refused' = refused
            /\ accepted' \subseteq 0 .. MaxTasks
        BY <2>1, <3>1 DEF PushEnds
      <3>3. \/ i = 0 /\ pop' = pop
            \/ i > 0 /\ pop' = [pop EXCEPT ![i - 1] = AtLoop]
        BY <1>0, <3>1 DEF PushEnds
      <3>4. PoolType'
        BY <1>0, <2>1, <2>2, <3>2, <3>3, Beginnings
      <3>5. Room'
        <4> SUFFICES ASSUME NEW j \in Ids
                     PROVE  /\ pop'[j].pc \in {"read", "head"} => Used(queues'[j]) > 0
                            /\ push'[j].pc = "store" /\ push'[j].stores # <<"pointer">> => Used(queues'[j]) < Q
                            /\ j > 0 /\ push'[j].pc = "check" => Used(queues'[j]) <= Q \div N
          OBVIOUS
        <4>1. pop'[j] = pop[j] \/ pop'[j].pc = "loop"
          BY <1>0, <3>3, Beginnings
        <4>2. CASE j = i
          <5>1. push'[j].pc = "none"
            BY <3>2, <4>2, Beginnings
          <5>2. Used(queues[i]) \in Nat /\ Used(queues'[i]) \in Nat
            BY <2>2, UsedType
          <5> QED
            BY <2>2, <4>1, <4>2, <5>1, <5>2
        <4>3. CASE j # i
          BY <2>2, <3>2, <4>1, <4>3
        <4> QED
          BY <4>2, <4>3
      <3> QED
        BY <3>2, <3>4, <3>5
    <2> QED
      BY <1>5, <2>3, <2>4 DEF PushStore
  <1> QED
    BY <1>3, <1>4, <1>5 DEF Pusher, PushCheck

(* The loop of a worker preserves the invariant.                           *)
LEMMA WorkerRoom ==
  ASSUME RoomInv, NEW i \in Ids, Worker(i)
  PROVE  RoomInv'
  <1> USE DEF RoomInv, PoolType, Room, HandOnSucceeds, history, Goto
  <1>0. i \in Nat /\ Q \in Nat /\ N \in Nat /\ Used(queues[i]) \in 0 .. Q
    BY PoolAssumption, UsedType DEF Ids
  <1>1. CASE Loop(i)
    BY <1>1 DEF Loop, PopRecords
  <1>2. CASE PopCheck(i)
    BY <1>0, <1>2 DEF PopCheck, PopRecords
  <1>3. CASE PopRead(i)
    <2>1. Front(queues[i]) \in 0 .. MaxTasks
      BY FrontType
    <2> QED
      BY <1>3, <2>1 DEF PopRead, PopRecords
  <1>4. CASE PopHead(i)
    <2>1. Used(queues[i]) > 0
      BY <1>4 DEF PopHead
    <2>2. queues' = [queues EXCEPT ![i] = queues'[i]] /\ queues'[i] \in Rings
          /\ Used(queues'[i]) = Used(queues[i]) - 1
      BY <1>4, <2>1, HeadAdvancedUsed DEF PopHead
    <2>3. UNCHANGED <<running, push, derived, created, accepted, done, ignored, refused>>
      BY <1>4 DEF PopHead
    <2>4. PICK l \in {"loop", "process"} : pop' = [pop EXCEPT ![i].pc = l]
      BY <1>4 DEF PopHead
    <2>5. PoolType'
      BY <2>2, <2>3, <2>4 DEF PopRecords
    <2>6. Room'
      <3> SUFFICES ASSUME NEW j \in Ids
                   PROVE  /\ pop'[j].pc \in {"read", "head"} => Used(queues'[j]) > 0
                          /\ push'[j].pc = "store" /\ push'[j].stores # <<"pointer">> => Used(queues'[j]) < Q
                          /\ j > 0 /\ push'[j].pc = "check" => Used(queues'[j]) <= Q \div N
        OBVIOUS
      <3>1. CASE j = i
        <4>1. Q \div N \in Int
          BY PoolAssumption, DivMod
        <4>2. push'[j] = push[j] /\ pop'[j].pc \in {"loop", "process"}
          BY <2>3, <2>4, <3>1 DEF PopRecords
        <4> QED
          BY <1>0, <2>2, <3>1, <4>1, <4>2
      <3>2. CASE j # i
        BY <2>2, <2>3, <2>4, <3>2
      <3> QED
        BY <3>1, <3>2
    <2> QED
      BY <2>3, <2>5, <2>6
  <1>5. CASE HandOn(i)
    <2>0. i + 1 \in Ids
      BY <1>0, <1>5 DEF HandOn, HandsOn, Ids
    <2>1. i + 1 \in Ids /\ Used(queues[i + 1]) <= Q \div N
      <3>1. Used(queues[i + 1]) \in 0 .. Q /\ Q \div N \in Int
        BY <2>0, UsedType, PoolAssumption, DivMod
      <3> QED
        BY <1>5, <2>0, <3>1 DEF HandOn, HandsOn, shouldBalanceLoad
    <2>2. push' = [push EXCEPT ![i + 1] = push'[i + 1]] /\ push'[i + 1].pc = "check"
          /\ push'[i + 1] \in PushRecords
      BY <1>0, <1>5, <2>1, Beginnings DEF HandOn, PopRecords
    <2>3. pop' = [pop EXCEPT ![i] = [pc |-> "pushing", task |-> 0]]
          /\ UNCHANGED <<queues, running, derived, created, history>>
      BY <1>5 DEF HandOn, NullPtr
    <2>4. PoolType'
      BY <2>1, <2>2, <2>3, PoolAssumption DEF PopRecords
    <2>5. Room'
      BY <2>1, <2>2, <2>3
    <2> QED
      BY <2>3, <2>4, <2>5
  <1>6. CASE OnProcessTask(i)
    <2>1. pop' = [pop EXCEPT ![i] = AtLoop] /\ done' \in [Tasks -> Nat] /\ ignored' \in [Tasks -> Nat]
          /\ UNCHANGED <<queues, running, push, derived, created, accepted, refused>>
      BY <1>6 DEF OnProcessTask
    <2> QED
      BY <2>1, Beginnings
  <1> QED
    BY <1>1, <1>2, <1>3, <1>4, <1>5, <1>6 DEF Worker

(* The owner of the pool preserves the invariant.                          *)
LEMMA OwnerRoom ==
  ASSUME RoomInv, PushTask \/ DestroyDerived \/ Stop
  PROVE  RoomInv'
  <1> USE DEF RoomInv, PoolType, Room, HandOnSucceeds, history
  <1>1. CASE PushTask
    <2>1. created' \in 0 .. MaxTasks /\ 0 \in Ids /\ UNCHANGED <<queues, running, pop, derived, history>>
      BY <1>1, PoolAssumption DEF PushTask, Ids
    <2>2. push' = [push EXCEPT ![0] = push'[0]]
          /\ push'[0] \in PushRecords
          /\ push'[0].pc = "check"
      BY <1>1, <2>1, Beginnings DEF PushTask
    <2> QED
      BY <2>1, <2>2
  <1>2. CASE DestroyDerived
    BY <1>2 DEF DestroyDerived
  <1>3. CASE Stop
    BY <1>3 DEF Stop
  <1> QED
    BY <1>1, <1>2, <1>3

(* A worker that hands a task on to the next queue, and ignores what       *)
(* PushBack returns, never finds that queue full: however many workers,    *)
(* however large their queues, in whatever order PushBack's stores become  *)
(* visible.                                                                *)
THEOREM HandingOnSucceeds == Spec => []HandOnSucceeds
  <1>1. RoomInv /\ [Next]_vars => RoomInv'
    <2> SUFFICES ASSUME RoomInv, [Next]_vars PROVE RoomInv'
      OBVIOUS
    <2>1. CASE UNCHANGED vars
      BY <2>1 DEF RoomInv, PoolType, Room, HandOnSucceeds, vars, history
    <2> QED
      BY <2>1, PusherRoom, WorkerRoom, OwnerRoom DEF Next
  <1>2. RoomInv => HandOnSucceeds
    BY DEF RoomInv
  <1> QED
    BY <1>1, <1>2, InitRoom, PTL DEF Spec

-----------------------------------------------------------------------------
(* No accepted task is lost or doubled.                                    *)

(* What the places of a task depend on: a push under way has a task, and   *)
(* so has a worker that processes one; a worker whose task is on its way   *)
(* into the next queue waits for that push.                                *)
Links ==
  \A i \in Ids :
    /\ push[i].pc = "none" <=> push[i].task = NullPtr
    /\ pop[i].pc = "process" => pop[i].task # NullPtr
    /\ i > 0 /\ push[i].pc # "none" => pop[i - 1].pc = "pushing"

(* The slots of a queue between the indices: tasks from the head on, the   *)
(* task a pop has read in the first of them, and the one a push has stored *)
(* in the first after them.                                                *)
Slots ==
  \A i \in Ids :
    /\ \A s \in Held(queues[i]) : queues[i].m_pArray[s] # NullPtr
    /\ pop[i].pc = "head" => pop[i].task = Front(queues[i])
    /\ push[i].pc = "store" =>
         /\ push[i].stores \in {ProgramOrder, <<"tail">>} /\ push[i].at = queues[i].m_nTail
         /\ push[i].stores = <<"tail">> => queues[i].m_pArray[push[i].at] = push[i].task

(* How often task k exists                                                 *)
Count(k) ==
  Cardinality(InQueues(k)) + Cardinality(InHands(k)) + Cardinality(OnItsWay(k)) + done[k] + ignored[k]

Exact ==
  /\ accepted \subseteq 1 .. created
  /\ \A k \in accepted : Count(k) = 1
  /\ \A k \in Tasks : k > created => Count(k) = 0
  /\ push[0].pc # "none" => push[0].task = created /\ created \notin accepted /\ Count(created) = 1

ExactInv == RoomInv /\ Links /\ Slots /\ Exact

(* The places are finite sets.                                             *)
LEMMA PlacesFinite ==
  /\ IsFiniteSet(Ids)
  /\ \A k : IsFiniteSet(InQueues(k)) /\ IsFiniteSet(InHands(k)) /\ IsFiniteSet(OnItsWay(k))
  /\ \A k : /\ Cardinality(InQueues(k)) \in Nat /\ Cardinality(InHands(k)) \in Nat
            /\ Cardinality(OnItsWay(k)) \in Nat
  <1>1. IsFiniteSet(Ids) /\ IsFiniteSet(0 .. Q)
    BY FS_Interval, PoolAssumption DEF Ids
  <1>2. IsFiniteSet(Ids \X (0 .. Q))
    BY <1>1, FS_Product
  <1>3. \A k : InQueues(k) \in SUBSET (Ids \X (0 .. Q)) /\ InHands(k) \in SUBSET Ids /\ OnItsWay(k) \in SUBSET Ids
    BY DEF InQueues, InHands, OnItsWay
  <1>4. \A k : IsFiniteSet(InQueues(k)) /\ IsFiniteSet(InHands(k)) /\ IsFiniteSet(OnItsWay(k))
    BY <1>1, <1>2, <1>3, FS_Subset
  <1> QED
    BY <1>1, <1>4, FS_CardinalityType

(* As long as the slots held and what they hold stay, so do the places in  *)
(* the queues.                                                             *)
LEMMA QueuesKept ==
  ASSUME NEW k,
         \A i \in Ids : /\ Held(queues'[i]) = Held(queues[i])
                        /\ \A s \in Held(queues[i]) : queues'[i].m_pArray[s] = queues[i].m_pArray[s]
  PROVE  InQueues(k)' = InQueues(k)
  BY DEF InQueues

(* One more slot of queue i is held, with task k in it.                    *)
LEMMA QueueGains ==
  ASSUME NEW i \in Ids, NEW at \in 0 .. Q, at \notin Held(queues[i]),
         \A j \in Ids \ {i} : queues'[j] = queues[j],
         Held(queues'[i]) = Held(queues[i]) \cup {at}, queues'[i].m_pArray = queues[i].m_pArray
  PROVE  \A k : Cardinality(InQueues(k)') =
                  Cardinality(InQueues(k)) + (IF queues[i].m_pArray[at] = k THEN 1 ELSE 0)
  <1> TAKE k
  <1>1. CASE queues[i].m_pArray[at] = k
    <2>1. InQueues(k)' = InQueues(k) \cup {<<i, at>>}
      BY <1>1 DEF InQueues
    <2>2. <<i, at>> \notin InQueues(k)
      BY DEF InQueues
    <2> QED
      BY <1>1, <2>1, <2>2, PlacesFinite, FS_AddElement
  <1>2. CASE queues[i].m_pArray[at] # k
    <2>1. InQueues(k)' = InQueues(k)
      BY <1>2 DEF InQueues
    <2> QED
      BY <1>2, <2>1, PlacesFinite
  <1> QED
    BY <1>1, <1>2

(* One slot less of queue i is held, the one with task k in it.            *)
LEMMA QueueLoses ==
  ASSUME NEW i \in Ids, NEW at \in 0 .. Q, at \in Held(queues[i]),
         \A j \in Ids \ {i} : queues'[j] = queues[j],
         Held(queues'[i]) = Held(queues[i]) \ {at}, queues'[i].m_pArray = queues[i].m_pArray
  PROVE  \A k : Cardinality(InQueues(k)') =
                  Cardinality(InQueues(k)) - (IF queues[i].m_pArray[at] = k THEN 1 ELSE 0)
  <1> TAKE k
  <1>1. CASE queues[i].m_pArray[at] = k
    <2>1. InQueues(k)' = InQueues(k) \ {<<i, at>>}
      BY <1>1 DEF InQueues
    <2>2. <<i, at>> \in InQueues(k)
      BY <1>1 DEF InQueues
    <2>3. Cardinality(InQueues(k) \ {<<i, at>>}) = Cardinality(InQueues(k)) - 1
      BY <2>2, PlacesFinite, FS_RemoveElement
    <2> QED
      BY <1>1, <2>1, <2>3
  <1>2. CASE queues[i].m_pArray[at] # k
    <2>1. InQueues(k)' = InQueues(k)
      BY <1>2 DEF InQueues
    <2> QED
      BY <1>2, <2>1, PlacesFinite
  <1> QED
    BY <1>1, <1>2

(* Whether worker i has task k in its hands, and the same for pushes.      *)
Hand(i, k) == IF pop[i].pc = "process" /\ pop[i].task = k THEN 1 ELSE 0
Way(i, k) == IF push[i].task = k THEN 1 ELSE 0

(* One worker's step changes how many hands hold k by what it does itself. *)
LEMMA HandsChange ==
  ASSUME NEW i \in Ids, NEW k, \A j \in Ids \ {i} : pop'[j] = pop[j]
  PROVE  Cardinality(InHands(k)') = Cardinality(InHands(k)) + Hand(i, k)' - Hand(i, k)
  <1>1. InHands(k)' \ {i} = InHands(k) \ {i}
    BY DEF InHands
  <1>2. i \in InHands(k) <=> Hand(i, k) = 1
    BY DEF InHands, Hand
  <1>3. i \in InHands(k)' <=> Hand(i, k)' = 1
    BY DEF InHands, Hand
  <1>4. Hand(i, k) \in {0, 1} /\ Hand(i, k)' \in {0, 1}
    BY DEF Hand
  <1> QED
    BY <1>1, <1>2, <1>3, <1>4, PlacesFinite, OneElement

(* A step of one push changes how many of them have k in the same way.     *)
LEMMA WaysChange ==
  ASSUME NEW i \in Ids, NEW k, \A j \in Ids \ {i} : push'[j].task = push[j].task
  PROVE  Cardinality(OnItsWay(k)') = Cardinality(OnItsWay(k)) + Way(i, k)' - Way(i, k)
  <1>1. OnItsWay(k)' \ {i} = OnItsWay(k) \ {i}
    BY DEF OnItsWay
  <1>2. i \in OnItsWay(k) <=> Way(i, k) = 1
    BY DEF OnItsWay, Way
  <1>3. i \in OnItsWay(k)' <=> Way(i, k)' = 1
    BY DEF OnItsWay, Way
  <1>4. Way(i, k) \in {0, 1} /\ Way(i, k)' \in {0, 1}
    BY DEF Way
  <1> QED
    BY <1>1, <1>2, <1>3, <1>4, PlacesFinite, OneElement

(* A step that leaves every task where it is, or moves it from one place   *)
(* to another, and that PushTask does not begin or end with.               *)
LEMMA ExactKept ==
  ASSUME ExactInv, UNCHANGED <<accepted, created>>, \A k \in Tasks : Count(k)' = Count(k),
         push'[0].pc # "none" => push[0].pc # "none" /\ push'[0].task = push[0].task
  PROVE  Exact'
  <1>1. accepted \subseteq Tasks /\ 0 \in Ids /\ (push[0].pc # "none" => created \in Tasks)
    BY PoolAssumption DEF ExactInv, RoomInv, PoolType, Links, Exact, Tasks, Ids, NullPtr
  <1> QED
    BY <1>1 DEF ExactInv, Exact

(* What Count adds up are natural numbers.                                 *)
LEMMA CountParts ==
  ASSUME PoolType, NEW k \in Tasks
  PROVE  /\ Cardinality(InQueues(k)) \in Nat /\ Cardinality(InHands(k)) \in Nat
         /\ Cardinality(OnItsWay(k)) \in Nat /\ done[k] \in Nat /\ ignored[k] \in Nat
  BY PlacesFinite DEF PoolType

(* The check of a PushBack.                                                *)
LEMMA PushCheckExact ==
  ASSUME StoreOrders = {ProgramOrder}, ExactInv, NEW i \in Ids, PushCheck(i)
  PROVE  (Links /\ Slots /\ Exact)'
  <1> USE DEF ExactInv, RoomInv
  <1>0. 0 \in Ids /\ i \in Nat
    BY PoolAssumption DEF Ids
  <1>1. UNCHANGED <<queues, running, derived, created, done, ignored>> /\ push[i].pc = "check"
    BY DEF PushCheck
  <1>2. \A k : InQueues(k)' = InQueues(k)
    BY <1>1 DEF InQueues
  <1>3. CASE Full(queues[i])
    <2>1. PushEnds(i, FALSE)
      BY <1>3 DEF PushCheck
    <2>2. i = 0
      <3>1. refused' = {}
        BY PusherRoom DEF Pusher, HandOnSucceeds
      <3> QED
        BY <2>1, <3>1 DEF PushEnds
    <2>3. push' = [push EXCEPT ![0] = NoPush] /\ UNCHANGED <<pop, accepted>>
      BY <2>1, <2>2 DEF PushEnds
    <2>4. \A k \in Tasks : k # created => Count(k)' = Count(k)
      <3> SUFFICES ASSUME NEW k \in Tasks, k # created PROVE Count(k)' = Count(k)
        OBVIOUS
      <3>1. push[0].task = created
        BY <1>1, <2>2 DEF Exact
      <3>2. OnItsWay(k)' = OnItsWay(k)
        BY <1>0, <2>3, <3>1, Beginnings DEF OnItsWay, PoolType, Tasks, NullPtr
      <3>3. InHands(k)' = InHands(k)
        BY <2>3 DEF InHands
      <3> QED
        BY <1>1, <1>2, <3>2, <3>3 DEF Count
    <2>5. Exact'
      <3>1. push'[0].pc = "none"
        BY <1>0, <2>3, Beginnings DEF PoolType
      <3>2. accepted \subseteq Tasks /\ created \notin accepted /\ created \in 0 .. MaxTasks
        BY <1>1, <2>2, PoolAssumption DEF Exact, PoolType, Tasks
      <3>3. \A k \in Tasks : k > created => k # created
        BY <3>2 DEF Tasks
      <3> QED
        BY <1>1, <2>3, <2>4, <3>1, <3>2, <3>3 DEF Exact
    <2>6. Links'
      BY <1>0, <1>1, <2>3, Beginnings DEF Links, PoolType
    <2>7. Slots'
      BY <1>0, <1>1, <2>3, Beginnings DEF Slots, PoolType
    <2> QED
      BY <2>5, <2>6, <2>7
  <1>4. CASE ~Full(queues[i])
    <2>1. /\ push' = [push EXCEPT ![i] = [pc |-> "store", task |-> @.task, at |-> queues[i].m_nTail,
                                          stores |-> ProgramOrder]]
          /\ UNCHANGED <<pop, accepted, refused>>
      BY <1>4 DEF PushCheck
    <2>2. \A j \in Ids : push'[j].task = push[j].task /\ (push'[j].pc = "none" <=> push[j].pc = "none")
      BY <1>1, <2>1 DEF PoolType
    <2>3. \A k : OnItsWay(k)' = OnItsWay(k) /\ InHands(k)' = InHands(k)
      BY <2>1, <2>2 DEF OnItsWay, InHands
    <2>4. \A k \in Tasks : Count(k)' = Count(k)
      BY <1>1, <1>2, <2>3 DEF Count
    <2>5. Exact'
      BY <1>0, <1>1, <2>1, <2>2, <2>4, ExactKept
    <2>6. Links'
      BY <2>1, <2>2 DEF Links
    <2>7. ProgramOrder # <<"tail">>
      BY DEF ProgramOrder
    <2>8. Slots'
      BY <1>1, <2>1, <2>7 DEF Slots, PoolType
    <2> QED
      BY <2>5, <2>6, <2>8
  <1> QED
    BY <1>3, <1>4

(* The stores of a PushBack.                                               *)
LEMMA PushStoreExact ==
  ASSUME ExactInv, NEW i \in Ids, PushStore(i)
  PROVE  (Links /\ Slots /\ Exact)'
  <1> USE DEF ExactInv, RoomInv
  <1> DEFINE q == queues[i]
             at == push[i].at
             t == push[i].task
  <1>0. 0 \in Ids /\ i \in Nat /\ (i > 0 => i - 1 \in Ids)
    BY PoolAssumption DEF Ids
  <1>1. /\ UNCHANGED <<running, derived, created, done, ignored>> /\ push[i].pc = "store"
        /\ q \in Rings /\ at \in 0 .. Q /\ t \in 0 .. MaxTasks /\ t # NullPtr
        /\ at = q.m_nTail /\ push[i].stores \in {ProgramOrder, <<"tail">>}
    BY DEF PushStore, PoolType, PushRecords, Slots, Links
  <1>2. /\ Head(ProgramOrder) = "pointer" /\ Len(ProgramOrder) = 2 /\ Tail(ProgramOrder) = <<"tail">>
        /\ Head(<<"tail">>) = "tail" /\ Len(<<"tail">>) = 1 /\ ProgramOrder # <<"pointer">>
        /\ <<"tail">> # <<"pointer">>
    BY DEF ProgramOrder
  <1>3. Used(q) < Q /\ at \notin Held(q)
    BY <1>1, <1>2, HeldPushed DEF Room
  <1>4. CASE push[i].stores = ProgramOrder
    <2>1. /\ queues' = [queues EXCEPT ![i] = Stored(q, at, t)]
          /\ push' = [push EXCEPT ![i].stores = <<"tail">>] /\ UNCHANGED <<pop, accepted, refused>>
      <3>1. Head(push[i].stores) = "pointer" /\ Len(push[i].stores) # 1 /\ Tail(push[i].stores) = <<"tail">>
        BY <1>2, <1>4
      <3> QED
        BY <3>1 DEF PushStore
    <2>2. /\ queues'[i] = Stored(q, at, t) /\ Held(queues'[i]) = Held(q)
          /\ \A j \in Ids \ {i} : queues'[j] = queues[j]
      BY <1>1, <2>1, HeldStored DEF PoolType
    <2>3. /\ queues'[i].m_pArray[at] = t /\ queues'[i].m_nTail = q.m_nTail /\ queues'[i].m_nHead = q.m_nHead
          /\ \A s \in Held(q) : queues'[i].m_pArray[s] = q.m_pArray[s]
      <3>1. \A s \in Held(q) : s \in 0 .. Q /\ s # at
        BY <1>1, <1>3, HeldSlots
      <3> QED
        BY <1>1, <2>2, <3>1, StoredSlot
    <2>4. \A k : InQueues(k)' = InQueues(k)
      BY <2>2, <2>3, QueuesKept
    <2>5. \A j \in Ids : push'[j].task = push[j].task /\ push'[j].pc = push[j].pc
      BY <2>1 DEF PoolType
    <2>6. \A k : OnItsWay(k)' = OnItsWay(k) /\ InHands(k)' = InHands(k)
      BY <2>1, <2>5 DEF OnItsWay, InHands
    <2>7. \A k \in Tasks : Count(k)' = Count(k)
      BY <1>1, <2>4, <2>6 DEF Count
    <2>8. Exact'
      BY <1>0, <1>1, <2>1, <2>5, <2>7, ExactKept
    <2>9. Links'
      BY <2>1, <2>5 DEF Links
    <2>10. Slots'
      <3> SUFFICES ASSUME NEW j \in Ids
                   PROVE  /\ \A s \in Held(queues'[j]) : queues'[j].m_pArray[s] # NullPtr
                          /\ pop'[j].pc = "head" => pop'[j].task = Front(queues'[j])
                          /\ push'[j].pc = "store" =>
                               /\ push'[j].stores \in {ProgramOrder, <<"tail">>}
                               /\ push'[j].at = queues'[j].m_nTail
                               /\ push'[j].stores = <<"tail">> => queues'[j].m_pArray[push'[j].at] = push'[j].task
        BY DEF Slots
      <3>1. CASE j # i
        BY <2>1, <2>2, <3>1 DEF Slots, PoolType
      <3>2. CASE j = i
        <4>1. \A s \in Held(queues'[i]) : queues'[i].m_pArray[s] # NullPtr
          BY <2>2, <2>3 DEF Slots
        <4>2. pop[i].pc = "head" => Front(queues'[i]) = Front(q)
          BY <1>1, <2>3, HeldPopped DEF Room, Front
        <4>3. push'[i].stores = <<"tail">> /\ push'[i].at = at /\ push'[i].task = t
          BY <2>1 DEF PoolType, PushRecords
        <4> QED
          BY <1>1, <2>1, <2>3, <3>2, <4>1, <4>2, <4>3 DEF Slots
      <3> QED
        BY <3>1, <3>2
    <2> QED
      BY <2>8, <2>9, <2>10
  <1>5. CASE push[i].stores = <<"tail">>
    <2>1. /\ queues' = [queues EXCEPT ![i] = TailAdvanced(q)] /\ PushEnds(i, TRUE)
      <3>1. Head(push[i].stores) # "pointer" /\ Len(push[i].stores) # 2
        BY <1>2, <1>5
      <3> QED
        BY <3>1 DEF PushStore
    <2>2. /\ queues'[i] = TailAdvanced(q) /\ Held(queues'[i]) = Held(q) \cup {at}
          /\ queues'[i].m_pArray = q.m_pArray /\ queues'[i].m_nHead = q.m_nHead
          /\ \A j \in Ids \ {i} : queues'[j] = queues[j]
      BY <1>1, <1>3, <2>1, HeldPushed, TailAdvancedUsed DEF PoolType
    <2>3. q.m_pArray[at] = t
      BY <1>1, <1>5 DEF Slots
    <2>4. \A k : Cardinality(InQueues(k)') = Cardinality(InQueues(k)) + (IF t = k THEN 1 ELSE 0)
      BY <1>1, <1>3, <2>2, <2>3, QueueGains
    <2>5. push' = [push EXCEPT ![i] = NoPush]
      BY <2>1 DEF PushEnds
    <2>6. \A j \in Ids : pop'[j] = pop[j] \/ (pop[j].pc = "pushing" /\ pop'[j] = AtLoop)
      BY <1>0, <1>1, <2>1 DEF PushEnds, Links, PoolType
    <2>7. \A k : InHands(k)' = InHands(k)
      BY <2>6, Beginnings DEF InHands
    <2>8. ASSUME NEW k \in Tasks PROVE Cardinality(OnItsWay(k)') = Cardinality(OnItsWay(k)) - (IF t = k THEN 1 ELSE 0)
      <3>1. \A j \in Ids \ {i} : push'[j].task = push[j].task
        BY <2>5
      <3>2. push'[i].task = NullPtr /\ k # NullPtr /\ k \in Nat
        BY <2>5, Beginnings DEF PoolType, Tasks, NullPtr
      <3>3. Way(i, k)' = 0 /\ Way(i, k) = IF t = k THEN 1 ELSE 0
        BY <3>2 DEF Way
      <3> QED
        BY <3>1, <3>3, WaysChange, PlacesFinite
    <2>9. \A k \in Tasks : Count(k)' = Count(k)
      BY <1>1, <2>4, <2>7, <2>8, CountParts DEF Count
    <2>10. Exact'
      <3>1. CASE i = 0
        <4>1. accepted' = accepted \cup {t} /\ t = created /\ t \in Tasks /\ Count(t) = 1
          BY <1>1, <2>1, <3>1 DEF PushEnds, Exact, Tasks, NullPtr
        <4>2. push'[0].pc = "none"
          BY <1>0, <2>5, <3>1, Beginnings DEF PoolType
        <4>3. accepted \subseteq Tasks /\ created \in 1 .. created
          BY <4>1 DEF Exact, PoolType, Tasks
        <4> QED
          BY <1>1, <2>9, <4>1, <4>2, <4>3 DEF Exact
      <3>2. CASE i # 0
        <4>1. accepted' = accepted /\ push'[0] = push[0]
          BY <1>0, <2>1, <2>5, <3>2 DEF PushEnds, PoolType
        <4> QED
          BY <1>1, <2>9, <4>1, ExactKept
      <3> QED
        BY <3>1, <3>2
    <2>11. Links'
      <3> SUFFICES ASSUME NEW j \in Ids
                   PROVE  /\ push'[j].pc = "none" <=> push'[j].task = NullPtr
                          /\ pop'[j].pc = "process" => pop'[j].task # NullPtr
                          /\ j > 0 /\ push'[j].pc # "none" => pop'[j - 1].pc = "pushing"
        BY DEF Links
      <3>1. push'[j].pc = "none" <=> push'[j].task = NullPtr
        BY <2>5, Beginnings DEF Links, PoolType
      <3>2. pop'[j].pc = "process" => pop'[j].task # NullPtr
        BY <2>6, Beginnings DEF Links
      <3>3. ASSUME j > 0, push'[j].pc # "none" PROVE pop'[j - 1].pc = "pushing"
        <4>1. j # i /\ push'[j] = push[j] /\ j \in Nat /\ j - 1 \in Ids
          BY <2>5, <3>3, Beginnings, PoolAssumption DEF PoolType, Ids
        <4>2. pop'[j - 1] = pop[j - 1]
          BY <1>0, <2>1, <4>1 DEF PushEnds, PoolType
        <4> QED
          BY <3>3, <4>1, <4>2 DEF Links
      <3> QED
        BY <3>1, <3>2, <3>3
    <2>12. Slots'
      <3> SUFFICES ASSUME NEW j \in Ids
                   PROVE  /\ \A s \in Held(queues'[j]) : queues'[j].m_pArray[s] # NullPtr
                          /\ pop'[j].pc = "head" => pop'[j].task = Front(queues'[j])
                          /\ push'[j].pc = "store" =>
                               /\ push'[j].stores \in {ProgramOrder, <<"tail">>}
                               /\ push'[j].at = queues'[j].m_nTail
                               /\ push'[j].stores = <<"tail">> => queues'[j].m_pArray[push'[j].at] = push'[j].task
        BY DEF Slots
      <3>1. pop'[j].pc = "head" => pop'[j] = pop[j]
        BY <2>6, Beginnings
      <3>2. CASE j # i
        BY <2>2, <2>5, <3>1, <3>2 DEF Slots
      <3>3. CASE j = i
        <4>1. \A s \in Held(queues'[i]) : queues'[i].m_pArray[s] # NullPtr
          BY <1>1, <2>2, <2>3 DEF Slots
        <4>2. Front(queues'[i]) = Front(q)
          BY <2>2 DEF Front
        <4>3. push'[i].pc = "none"
          BY <2>5, Beginnings DEF PoolType
        <4> QED
          BY <3>1, <3>3, <4>1, <4>2, <4>3 DEF Slots
      <3> QED
        BY <3>2, <3>3
    <2> QED
      BY <2>10, <2>11, <2>12
  <1> QED
    BY <1>1, <1>4, <1>5

(* The loop of a worker.                                                   *)
LEMMA WorkerExact ==
  ASSUME ExactInv, NEW i \in Ids, Worker(i)
  PROVE  (Links /\ Slots /\ Exact)'
  <1> USE DEF ExactInv, RoomInv, history, Goto
  <1> DEFINE q == queues[i]
             t == pop[i].task
  <1>0. 0 \in Ids /\ i \in Nat /\ q \in Rings
    BY PoolAssumption DEF Ids, PoolType
  <1>1. ASSUME UNCHANGED <<queues, push, created, accepted, done, ignored>>, pop' \in [Ids -> PopRecords],
               \A j \in Ids \ {i} : pop'[j] = pop[j],
               pop[i].pc \notin {"process", "pushing"}, pop'[i].pc # "process",
               pop'[i].pc = "head" => pop'[i].task = Front(q)
        PROVE  (Links /\ Slots /\ Exact)'
    <2>1. \A k : InQueues(k)' = InQueues(k) /\ OnItsWay(k)' = OnItsWay(k) /\ InHands(k)' = InHands(k)
      BY <1>1 DEF InQueues, OnItsWay, InHands
    <2>2. \A k \in Tasks : Count(k)' = Count(k)
      BY <1>1, <2>1 DEF Count
    <2>3. Exact'
      BY <1>1, <2>2, ExactKept
    <2>4. Links'
      <3>1. \A j \in Ids : j > 0 => j - 1 \in Ids
        BY PoolAssumption DEF Ids
      <3> QED
        BY <1>1, <3>1 DEF Links
    <2>5. Slots'
      BY <1>1 DEF Slots
    <2> QED
      BY <2>3, <2>4, <2>5
  <1>2. CASE Loop(i)
    BY <1>1, <1>2 DEF Loop, PoolType, PopRecords
  <1>3. CASE PopCheck(i)
    BY <1>1, <1>3 DEF PopCheck, PoolType, PopRecords
  <1>4. CASE PopRead(i)
    <2>1. Front(q) \in 0 .. MaxTasks
      BY <1>0, FrontType
    <2> QED
      BY <1>1, <1>4, <2>1 DEF PopRead, PoolType, PopRecords
  <1>5. CASE PopHead(i)
    <2>1. /\ pop[i].pc = "head" /\ queues' = [queues EXCEPT ![i] = HeadAdvanced(q)]
          /\ UNCHANGED <<running, push, derived, created, accepted, done, ignored, refused>>
      BY <1>5 DEF PopHead
    <2>2. Used(q) > 0 /\ t = q.m_pArray[q.m_nHead] /\ q.m_nHead \in 0 .. Q
      BY <1>0, <2>1 DEF Room, Slots, Front, Rings
    <2>3. q.m_nHead \in Held(q) /\ t # NullPtr
      BY <1>0, <2>2, HeldPopped DEF Slots
    <2>4. pop' = [pop EXCEPT ![i].pc = "process"]
      BY <1>5, <2>3 DEF PopHead
    <2>5. /\ queues'[i] = HeadAdvanced(q) /\ Held(queues'[i]) = Held(q) \ {q.m_nHead}
          /\ queues'[i].m_pArray = q.m_pArray /\ queues'[i].m_nTail = q.m_nTail
          /\ \A j \in Ids \ {i} : queues'[j] = queues[j]
      BY <1>0, <2>1, <2>2, HeldPopped, HeadAdvancedUsed DEF PoolType
    <2>6. \A k : Cardinality(InQueues(k)') = Cardinality(InQueues(k)) - (IF t = k THEN 1 ELSE 0)
      BY <2>2, <2>3, <2>5, QueueLoses
    <2>7. ASSUME NEW k PROVE Cardinality(InHands(k)') = Cardinality(InHands(k)) + (IF t = k THEN 1 ELSE 0)
      <3>1. \A j \in Ids \ {i} : pop'[j] = pop[j]
        BY <2>4
      <3>2. Hand(i, k) = 0 /\ Hand(i, k)' = IF t = k THEN 1 ELSE 0
        BY <2>1, <2>4 DEF Hand, PoolType, PopRecords
      <3> QED
        BY <3>1, <3>2, HandsChange, PlacesFinite
    <2>8. \A k : OnItsWay(k)' = OnItsWay(k)
      BY <2>1 DEF OnItsWay
    <2>9. \A k \in Tasks : Count(k)' = Count(k)
      BY <2>1, <2>6, <2>7, <2>8, CountParts DEF Count
    <2>10. Exact'
      BY <2>1, <2>9, ExactKept
    <2>11. Links'
      <3>1. \A j \in Ids : pop'[j] = pop[j] \/ (j = i /\ pop[j].pc = "head" /\ pop'[j].task = t)
        BY <2>1, <2>4 DEF PoolType, PopRecords
      <3>2. \A j \in Ids : j > 0 => j - 1 \in Ids
        BY PoolAssumption DEF Ids
      <3> QED
        BY <2>1, <2>3, <3>1, <3>2 DEF Links
    <2>12. Slots'
      <3> SUFFICES ASSUME NEW j \in Ids
                   PROVE  /\ \A s \in Held(queues'[j]) : queues'[j].m_pArray[s] # NullPtr
                          /\ pop'[j].pc = "head" => pop'[j].task = Front(queues'[j])
                          /\ push'[j].pc = "store" =>
                               /\ push'[j].stores \in {ProgramOrder, <<"tail">>}
                               /\ push'[j].at = queues'[j].m_nTail
                               /\ push'[j].stores = <<"tail">> => queues'[j].m_pArray[push'[j].at] = push'[j].task
        BY DEF Slots
      <3>1. CASE j # i
        BY <2>1, <2>4, <2>5, <3>1 DEF Slots
      <3>2. CASE j = i
        <4>1. pop'[i].pc = "process"
          BY <2>4 DEF PoolType, PopRecords
        <4> QED
          BY <2>1, <2>5, <3>2, <4>1 DEF Slots
      <3> QED
        BY <3>1, <3>2
    <2> QED
      BY <2>10, <2>11, <2>12
  <1>6. CASE HandOn(i)
    <2>1. /\ pop[i].pc = "process" /\ t # NullPtr /\ t \in 0 .. MaxTasks /\ i + 1 \in Ids
          /\ push' = [push EXCEPT ![i + 1] = NewPush(t)]
          /\ pop' = [pop EXCEPT ![i] = [pc |-> "pushing", task |-> NullPtr]]
          /\ UNCHANGED <<queues, running, derived, created, accepted, done, ignored, refused>>
      BY <1>0, <1>6, PoolAssumption DEF HandOn, HandsOn, Ids, Links, PoolType, PopRecords
    <2>2. push[i + 1].pc = "none" /\ push[i + 1].task = NullPtr /\ i + 1 > 0 /\ (i + 1) - 1 = i
      BY <1>0, <2>1 DEF Links
    <2>3. push'[i + 1] = NewPush(t) /\ \A j \in Ids \ {i + 1} : push'[j] = push[j]
      BY <2>1 DEF PoolType
    <2>4. /\ pop'[i] = [pc |-> "pushing", task |-> NullPtr] /\ \A j \in Ids \ {i} : pop'[j] = pop[j]
      BY <2>1 DEF PoolType
    <2>5. \A k : InQueues(k)' = InQueues(k)
      BY <2>1 DEF InQueues
    <2>6. ASSUME NEW k \in Tasks PROVE Count(k)' = Count(k)
      <3>1. Hand(i, k)' = 0 /\ Hand(i, k) = IF t = k THEN 1 ELSE 0
        BY <2>1, <2>4 DEF Hand
      <3>2. k # NullPtr
        BY DEF Tasks, NullPtr
      <3>3. Way(i + 1, k) = 0 /\ Way(i + 1, k)' = IF t = k THEN 1 ELSE 0
        BY <2>1, <2>2, <2>3, <3>2, Beginnings DEF Way
      <3>4. Cardinality(InHands(k)') = Cardinality(InHands(k)) - (IF t = k THEN 1 ELSE 0)
        BY <2>4, <3>1, HandsChange, PlacesFinite
      <3>5. Cardinality(OnItsWay(k)') = Cardinality(OnItsWay(k)) + (IF t = k THEN 1 ELSE 0)
        <4>1. \A j \in Ids \ {i + 1} : push'[j].task = push[j].task
          BY <2>3
        <4> QED
          BY <2>1, <3>3, <4>1, WaysChange, PlacesFinite
      <3> QED
        BY <2>1, <2>5, <3>4, <3>5, CountParts DEF Count
    <2>7. Exact'
      BY <1>0, <2>1, <2>2, <2>3, <2>6, ExactKept
    <2>8. Links'
      <3> SUFFICES ASSUME NEW j \in Ids
                   PROVE  /\ push'[j].pc = "none" <=> push'[j].task = NullPtr
                          /\ pop'[j].pc = "process" => pop'[j].task # NullPtr
                          /\ j > 0 /\ push'[j].pc # "none" => pop'[j - 1].pc = "pushing"
        BY DEF Links
      <3>1. j \in Nat /\ (j > 0 => j - 1 \in Ids)
        BY PoolAssumption DEF Ids
      <3>2. CASE j = i + 1
        BY <1>0, <2>1, <2>2, <2>3, <2>4, <3>1, <3>2, Beginnings DEF Links
      <3>3. CASE j # i + 1
        <4>1. j - 1 # i
          BY <1>0, <3>1, <3>3
        <4> QED
          BY <2>3, <2>4, <3>1, <3>3, <4>1 DEF Links
      <3> QED
        BY <3>2, <3>3
    <2>9. Slots'
      BY <2>1, <2>3, <2>4, Beginnings DEF Slots
    <2> QED
      BY <2>7, <2>8, <2>9
  <1>7. CASE OnProcessTask(i)
    <2>1. /\ pop[i].pc = "process" /\ t \in Tasks /\ pop' = [pop EXCEPT ![i] = AtLoop]
          /\ UNCHANGED <<queues, running, push, derived, created, accepted, refused>>
      BY <1>7 DEF OnProcessTask, Links, PoolType, PopRecords, Tasks, NullPtr
    <2>2. pop'[i] = AtLoop /\ \A j \in Ids \ {i} : pop'[j] = pop[j]
      BY <2>1 DEF PoolType
    <2>3. \A k : InQueues(k)' = InQueues(k) /\ OnItsWay(k)' = OnItsWay(k)
      BY <2>1 DEF InQueues, OnItsWay
    <2>4. ASSUME NEW k \in Tasks PROVE Count(k)' = Count(k)
      <3>1. Hand(i, k)' = 0 /\ Hand(i, k) = IF t = k THEN 1 ELSE 0
        BY <2>1, <2>2, Beginnings DEF Hand
      <3>2. Cardinality(InHands(k)') = Cardinality(InHands(k)) - (IF t = k THEN 1 ELSE 0)
        BY <2>2, <3>1, HandsChange, PlacesFinite
      <3>3. done'[k] + ignored'[k] = done[k] + ignored[k] + (IF t = k THEN 1 ELSE 0)
        BY <1>7, <2>1 DEF OnProcessTask, PoolType
      <3>4. done'[k] \in Nat /\ ignored'[k] \in Nat
        BY <1>7, <2>1 DEF OnProcessTask, PoolType
      <3> QED
        BY <2>3, <3>2, <3>3, <3>4, CountParts DEF Count
    <2>5. Exact'
      BY <2>1, <2>4, ExactKept
    <2>6. Links'
      <3>1. \A j \in Ids : j > 0 => j - 1 \in Ids
        BY PoolAssumption DEF Ids
      <3> QED
        BY <2>1, <2>2, <3>1, Beginnings DEF Links
    <2>7. Slots'
      BY <2>1, <2>2, Beginnings DEF Slots
    <2> QED
      BY <2>5, <2>6, <2>7
  <1> QED
    BY <1>2, <1>3, <1>4, <1>5, <1>6, <1>7 DEF Worker

(* The owner of the pool.                                                  *)
LEMMA OwnerExact ==
  ASSUME ExactInv, PushTask \/ DestroyDerived \/ Stop
  PROVE  (Links /\ Slots /\ Exact)'
  <1> USE DEF ExactInv, RoomInv, history
  <1>1. CASE PushTask
    <2>1. /\ push[0].pc = "none" /\ created \in Nat /\ created' = created + 1 /\ created' \in Tasks
          /\ push' = [push EXCEPT ![0] = NewPush(created')] /\ 0 \in Ids
          /\ UNCHANGED <<queues, running, pop, derived, accepted, done, ignored, refused>>
      BY <1>1, PoolAssumption DEF PushTask, PoolType, Tasks, Ids
    <2>2. /\ push'[0] = NewPush(created') /\ created' \in 0 .. MaxTasks
          /\ \A j \in Ids \ {0} : push'[j] = push[j]
      BY <2>1 DEF PoolType, Tasks
    <2>3. \A k : InQueues(k)' = InQueues(k) /\ InHands(k)' = InHands(k)
      BY <2>1 DEF InQueues, InHands
    <2>4. ASSUME NEW k \in Tasks PROVE Count(k)' = Count(k) + (IF k = created' THEN 1 ELSE 0)
      <3>1. Way(0, k) = 0 /\ Way(0, k)' = IF k = created' THEN 1 ELSE 0
        BY <2>1, <2>2, Beginnings DEF Way, Links, Tasks, NullPtr
      <3>2. Cardinality(OnItsWay(k)') = Cardinality(OnItsWay(k)) + (IF k = created' THEN 1 ELSE 0)
        <4>1. \A j \in Ids \ {0} : push'[j].task = push[j].task
          BY <2>2
        <4> QED
          BY <2>1, <3>1, <4>1, WaysChange, PlacesFinite
      <3> QED
        BY <2>1, <2>3, <3>2, CountParts DEF Count
    <2>5. Exact'
      <3>1. push'[0].pc = "check" /\ push'[0].task = created'
        BY <2>2, Beginnings
      <3>2. accepted' \subseteq 1 .. created' /\ created' \notin accepted'
        BY <2>1 DEF Exact
      <3>3. \A k \in accepted' : k \in Tasks /\ Count(k)' = 1
        <4>1. \A k \in accepted : k \in Tasks /\ k # created'
          <5>1. created + 1 \in 1 .. MaxTasks /\ created' = created + 1 /\ created \in Nat
            BY <2>1 DEF Tasks
          <5>2. \A k \in accepted : k \in 1 .. created
            BY DEF Exact
          <5>3. \A k \in 1 .. created : k \in 1 .. MaxTasks /\ k # created + 1
            BY <5>1, PoolAssumption
          <5> QED
            BY <5>1, <5>2, <5>3 DEF Tasks
        <4>2. \A k \in accepted : Count(k) = 1
          BY DEF Exact
        <4>3. \A k \in accepted : Count(k)' = 1
          BY <2>4, <4>1, <4>2
        <4> QED
          BY <2>1, <4>1, <4>3
      <3>4. \A k \in Tasks : k > created' => Count(k)' = 0
        BY <2>1, <2>4 DEF Exact, Tasks
      <3>5. Count(created)' = 1
        <4>1. PICK k \in Tasks : k = created'
          BY <2>1
        <4>2. Count(k) = 0
          BY <2>1, <4>1 DEF Exact, Tasks
        <4>3. Count(k)' = 1
          BY <2>4, <4>1, <4>2
        <4> QED
          BY <4>1, <4>3 DEF Count, InQueues, InHands, OnItsWay
      <3> QED
        BY <3>1, <3>2, <3>3, <3>4, <3>5 DEF Exact
    <2>6. Links'
      BY <2>1, <2>2, Beginnings DEF Links, Tasks, NullPtr
    <2>7. Slots'
      BY <2>1, <2>2, Beginnings DEF Slots
    <2> QED
      BY <2>5, <2>6, <2>7
  <1>2. CASE DestroyDerived \/ Stop
    <2>1. UNCHANGED <<queues, push, pop, created, accepted, done, ignored>>
      BY <1>2 DEF DestroyDerived, Stop
    <2>2. \A k : Count(k)' = Count(k)
      BY <2>1 DEF Count, InQueues, InHands, OnItsWay
    <2> QED
      BY <2>1, <2>2 DEF Links, Slots, Exact
  <1> QED
    BY <1>1, <1>2

(* A new pool has no tasks.                                                *)
LEMMA InitExact == Init => ExactInv
  <1> SUFFICES ASSUME Init PROVE ExactInv
    OBVIOUS
  <1>1. RoomInv /\ 0 \in Ids
    BY InitRoom, PoolAssumption DEF Ids
  <1>2. \A i \in Ids : Held(queues[i]) = {}
    <2>1. 0 .. 0 - 1 = {}
      OBVIOUS
    <2> QED
      BY <2>1, RingMade DEF Init, Held
  <1>3. \A k \in Tasks : InQueues(k) = {} /\ InHands(k) = {} /\ OnItsWay(k) = {}
    BY <1>2, Beginnings DEF Init, InQueues, InHands, OnItsWay, Tasks, NullPtr
  <1>4. \A k \in Tasks : Count(k) = 0
    BY <1>3, FS_EmptySet DEF Init, Count
  <1>5. Links /\ Slots
    BY <1>2, Beginnings DEF Init, Links, Slots
  <1>6. Exact
    BY <1>1, <1>4, Beginnings DEF Init, Exact
  <1> QED
    BY <1>1, <1>5, <1>6 DEF ExactInv

(* With PushBack's stores visible in program order, as on x86, an accepted *)
(* task is at exactly one place at every moment or has been processed      *)
(* exactly once, for any number of workers, queues of any size and any     *)
(* interleaving of the unsynchronised accesses.                            *)
THEOREM TasksStayExact ==
  ASSUME StoreOrders = {ProgramOrder}
  PROVE  Spec => []TasksExact
  <1>1. ExactInv /\ [Next]_vars => ExactInv'
    <2> SUFFICES ASSUME ExactInv, [Next]_vars PROVE ExactInv'
      OBVIOUS
    <2>1. RoomInv
      BY DEF ExactInv
    <2>2. ASSUME NEW i \in Ids, Worker(i) PROVE ExactInv'
      BY <2>1, <2>2, WorkerRoom, WorkerExact DEF ExactInv
    <2>3. ASSUME NEW i \in Ids, Pusher(i) PROVE ExactInv'
      BY <2>1, <2>3, PusherRoom, PushCheckExact, PushStoreExact DEF ExactInv, Pusher
    <2>4. CASE PushTask \/ DestroyDerived \/ Stop
      BY <2>1, <2>4, OwnerRoom, OwnerExact DEF ExactInv
    <2>5. CASE UNCHANGED vars
      BY <2>5 DEF vars, history, ExactInv, RoomInv, PoolType, Room, HandOnSucceeds, Links, Slots, Exact,
                  Count, InQueues, InHands, OnItsWay
    <2> QED
      BY <2>2, <2>3, <2>4, <2>5 DEF Next
  <1>2. ExactInv => TasksExact
    BY DEF ExactInv, Exact, TasksExact, Count
  <1> QED
    BY <1>1, <1>2, InitExact, PTL DEF Spec
=============================================================================
