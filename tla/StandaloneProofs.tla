-------------------------- MODULE StandaloneProofs --------------------------
(***************************************************************************)
(* Proofs about the containers that MCStandalone puts side by side, for    *)
(* every value of their constants: CDMAtomicQueue, ThreadSafeQueue,        *)
(* CAtomicQueue, AtomicKFifo and the pools.                                *)
(***************************************************************************)
EXTENDS MCStandalone, CountingLemmas

-----------------------------------------------------------------------------
(* CDMAtomicQueue.  The facts about the ring come first; IInv              *)
(* (DMAtomicQueue) is then shown inductive, and the invariants and the     *)
(* refinement of BoundedFifo follow.                                       *)

(* Arithmetic on the ring.                                                 *)

(* Incrementing an index of emplace or pop stays inside slots_.            *)
LEMMA SuccType == ASSUME NEW i \in Slots PROVE Succ(i) \in Slots
  BY CapacityAssumption DEF Slots, Succ

(* size() of two slot indices is a number of slots.                        *)
LEMMA DistType == ASSUME NEW t \in Slots, NEW h \in Slots PROVE Dist(t, h) \in Slots
  BY CapacityAssumption DEF Slots, Dist

(* size() is 0 exactly when the two indices are equal.                     *)
LEMMA DistZero ==
  ASSUME NEW t \in Slots, NEW h \in Slots PROVE (Dist(t, h) = 0) <=> (t = h)
  BY CapacityAssumption DEF Slots, Dist

(* Advancing head_ adds one element unless it meets tail_.                 *)
LEMMA DistSuccRight ==
  ASSUME NEW t \in Slots, NEW h \in Slots, Succ(h) # t
  PROVE Dist(t, Succ(h)) = Dist(t, h) + 1
  BY CapacityAssumption DEF Slots, Dist, Succ

(* Advancing tail_ removes one element unless the ring is empty.           *)
LEMMA DistSuccLeft ==
  ASSUME NEW t \in Slots, NEW h \in Slots, t # h
  PROVE Dist(Succ(t), h) = Dist(t, h) - 1
  BY CapacityAssumption DEF Slots, Dist, Succ

(* At and Dist are inverse to each other.                                  *)
LEMMA AtDist ==
  ASSUME NEW t \in Slots, NEW i \in Slots
  PROVE At(t, i) \in Slots /\ Dist(t, At(t, i)) = i
  BY CapacityAssumption DEF Slots, Dist, At

(* What an acquire load may return lies between the last value seen and    *)
(* the current value.                                                      *)
LEMMA ViewsBetween ==
  ASSUME NEW from \in Slots, NEW to \in Slots, NEW x \in Views(from, to)
  PROVE x \in Slots /\ Dist(from, x) + Dist(x, to) = Dist(from, to)
  <1>1. PICK i \in 0 .. Dist(from, to) : x = At(from, i)
    BY DEF Views
  <1>2. i \in Int /\ 0 <= i /\ i <= Dist(from, to)
    BY <1>1, DistType DEF Slots
  <1> QED
    BY <1>1, <1>2, CapacityAssumption DEF Slots, Dist, At

(* The slots from tail_ up to head_ without the first.                     *)
LEMMA LiveAfterDrop ==
  ASSUME NEW t \in Slots, NEW h \in Slots, t # h
  PROVE {s \in Slots : Dist(Succ(t), s) < Dist(Succ(t), h)} = {s \in Slots : Dist(t, s) < Dist(t, h)} \ {t}
  <1>1. ASSUME NEW s \in Slots
        PROVE  Dist(Succ(t), s) < Dist(Succ(t), h) <=> s # t /\ Dist(t, s) < Dist(t, h)
    BY CapacityAssumption DEF Slots, Dist, Succ
  <1> QED
    BY <1>1

-----------------------------------------------------------------------------
(* IInv is inductive.                                                      *)

(* The constructor establishes the invariant.                              *)
LEMMA InitIInv == Init => IInv
  <1> SUFFICES ASSUME Init PROVE IInv
    OBVIOUS
  <1>1. Dist(0, 0) = 0 /\ 0 \in Slots
    BY CapacityAssumption DEF Dist, Slots
  <1>2. TypeOK
    BY <1>1 DEF Init, TypeOK
  <1>3. \A s \in Slots : ~(Dist(oldest, s) < count)
    BY <1>1, DistType DEF Init, oldest, count, Slots
  <1>4. LiveSlots
    BY <1>3 DEF Init, LiveSlots
  <1> QED
    BY <1>1, <1>2, <1>4 DEF Init, IInv, ProducerView, ConsumerView, DtorAlone, PopAssertHolds

(* Every step of a thread or of the destructor preserves the invariant.    *)
LEMMA NextIInv == IInv /\ [Next]_vars => IInv'
  <1> SUFFICES ASSUME IInv, [Next]_vars PROVE IInv'
    OBVIOUS
  <1> USE CapacityAssumption, NoneAssumption
  <1> USE DEF IInv, TypeOK, ProducerView, ConsumerView, LiveSlots, DtorAlone,
          PopAssertHolds, oldest, count, NoSize
  <1>1. CASE \E call \in {"emplace", "try_emplace"}, v \in Values : PCall(call, v)
    BY <1>1 DEF PCall, ringVars, pVars, cVars, Slots, Succ, Dist
  <1>2. CASE \E t \in Views(seenTail, tail_) : PLoadTail(t)
    <2>1. PICK t \in Views(seenTail, tail_) : PLoadTail(t)
      BY <1>2
    <2>2. t \in Slots /\ Dist(seenTail, t) + Dist(t, tail_) = Dist(seenTail, tail_)
      BY <2>1, ViewsBetween
    <2> QED
      BY <2>1, <2>2 DEF PLoadTail, ringVars, pVars, cVars, Slots, Succ, Dist
  <1>3. CASE PConstruct
    BY <1>3 DEF PConstruct, ringVars, pVars, cVars, Slots, Succ, Dist
  <1>4. CASE PThrow
    BY <1>4 DEF PThrow, ringVars, pVars, cVars, Slots, Succ, Dist
  <1>5. CASE PPublish
    <2> USE <1>5 DEF PPublish, ringVars, pVars, cVars
    <2>1. head_' \in Slots /\ head_' # seenTail /\ head_' # oldest
      BY DEF Slots, Succ, Dist
    <2>2. oldest \in Slots /\ oldest' = oldest
      BY DEF Slots, Succ
    <2>3. \A s \in Slots : (Dist(oldest, s) < count') <=> (Dist(oldest, s) < count \/ s = head_)
      BY <2>1, <2>2 DEF Slots, Succ, Dist
    <2>4. LiveSlots'
      BY <2>2, <2>3
    <2>5. ProducerView'
      BY <2>1 DEF Slots, Succ, Dist
    <2>6. ConsumerView'
      BY <2>1 DEF Slots, Succ, Dist
    <2> QED
      BY <2>1, <2>4, <2>5, <2>6
  <1>6. CASE \E t \in Views(seenTail, tail_) : PSize(t)
    <2>1. PICK t \in Views(seenTail, tail_) : PSize(t)
      BY <1>6
    <2>2. t \in Slots /\ Dist(seenTail, t) + Dist(t, tail_) = Dist(seenTail, tail_)
      BY <2>1, ViewsBetween
    <2> QED
      BY <2>1, <2>2 DEF PSize, ringVars, pVars, cVars, Slots, Succ, Dist
  <1>7. CASE \E h \in Views(seenHead, head_) : CFront(h)
    <2>1. PICK h \in Views(seenHead, head_) : CFront(h)
      BY <1>7
    <2>2. h \in Slots /\ Dist(seenHead, h) + Dist(h, head_) = Dist(seenHead, head_)
      BY <2>1, ViewsBetween
    <2> QED
      BY <2>1, <2>2 DEF CFront, ringVars, pVars, cVars, Slots, Succ, Dist
  <1>8. CASE CRead
    BY <1>8 DEF CRead, ringVars, pVars, cVars, Slots, Succ, Dist
  <1>9. CASE \E h \in Views(seenHead, head_) : CSize(h)
    <2>1. PICK h \in Views(seenHead, head_) : CSize(h)
      BY <1>9
    <2>2. h \in Slots /\ Dist(seenHead, h) + Dist(h, head_) = Dist(seenHead, head_)
      BY <2>1, ViewsBetween
    <2> QED
      BY <2>1, <2>2 DEF CSize, ringVars, pVars, cVars, Slots, Succ, Dist
  <1>10. CASE \E h \in Views(seenHead, head_) : CPop(h)
    <2>1. PICK h \in Views(seenHead, head_) : CPop(h)
      BY <1>10
    <2>2. h \in Slots /\ Dist(seenHead, h) + Dist(h, head_) = Dist(seenHead, head_)
      BY <2>1, ViewsBetween
    <2> QED
      BY <2>1, <2>2 DEF CPop, ringVars, pVars, cVars, Slots, Succ, Dist
  <1>11. CASE CDestroy
    <2>1. tail_ # head_ /\ tail_ \in Slots /\ head_ \in Slots
      BY <1>11 DEF CDestroy, Slots, Dist
    <2>2. LiveSlots'
      BY <1>11, <2>1, LiveAfterDrop DEF CDestroy, ringVars, pVars
    <2> QED
      BY <1>11, <2>1, <2>2 DEF CDestroy, ringVars, pVars, cVars
  <1>12. CASE CRetire
    BY <1>12 DEF CRetire, ringVars, pVars, cVars, Slots, Succ, Dist
  <1>13. CASE DtorEnter
    BY <1>13 DEF DtorEnter, ringVars, pVars, cVars, Slots, Succ, Dist
  <1>14. CASE DtorPop
    BY <1>14 DEF DtorPop, ringVars, pVars, cVars, Slots, Succ, Dist
  <1>15. CASE DtorFree
    BY <1>15 DEF DtorFree, ringVars, pVars, cVars, Slots, Succ, Dist
  <1>16. CASE Gone
    BY <1>16 DEF Gone, vars, ringVars, pVars, cVars, Slots, Succ, Dist
  <1>17. CASE UNCHANGED vars
    BY <1>17 DEF vars, ringVars, pVars, cVars
  <1> QED
    BY <1>1, <1>2, <1>3, <1>4, <1>5, <1>6, <1>7, <1>8, <1>9, <1>10, <1>11, <1>12, <1>13, <1>14, <1>15, <1>16, <1>17 DEF Next, Producer, Consumer, Destructor

(* The invariant holds in every reachable state.                           *)
LEMMA AlwaysIInv == Spec => []IInv
  BY InitIInv, NextIInv, PTL DEF Spec

-----------------------------------------------------------------------------
(* The invariants of the run, for every capacity.                          *)

(* Every variable of the queue stays within its range.                     *)
THEOREM TypeCorrect == Spec => []TypeOK
  <1>1. IInv => TypeOK
    BY DEF IInv
  <1> QED
    BY <1>1, AlwaysIInv, PTL

(* emplace constructs only in raw slots, front and pop touch only live     *)
(* objects the producer is done with, and ~CDMAtomicQueue leaves none.     *)
THEOREM LifetimesRespected == Spec => []SlotLifetime
  <1>1. IInv => SlotLifetime
    <2> SUFFICES ASSUME IInv PROVE SlotLifetime
      OBVIOUS
    <2> USE CapacityAssumption
    <2> USE DEF IInv, TypeOK, ProducerView, ConsumerView, LiveSlots, DtorAlone, oldest, count
    <2>1. ppc = "construct" => head_ \notin constructed
      BY DEF Slots, Succ, Dist
    <2>2. cpc \in {"front", "destroy"} => tail_ \in constructed /\ head_ # tail_
      BY DEF Slots, Dist
    <2>3. phase = "dead" => constructed = {}
      <3> SUFFICES ASSUME phase = "dead", NEW s \in constructed PROVE FALSE
        OBVIOUS
      <3> QED
        BY DEF Slots, Dist
    <2> QED
      BY <2>1, <2>2, <2>3 DEF SlotLifetime
  <1> QED
    BY <1>1, AlwaysIInv, PTL

(* The assert in pop() never fires.                                        *)
THEOREM PopNeverAborts == Spec => []PopAssertHolds
  <1>1. IInv => PopAssertHolds
    BY DEF IInv
  <1> QED
    BY <1>1, AlwaysIInv, PTL

(* size() is an upper bound for the producer, a lower one for the consumer.*)
THEOREM SizeIsSafe == Spec => []SizeBounds
  <1>1. IInv => SizeBounds
    BY CapacityAssumption
    DEF IInv, TypeOK, ProducerView, ConsumerView, DtorAlone, SizeBounds, NoSize, Slots, Dist
  <1> QED
    BY <1>1, AlwaysIInv, PTL

(* emplace never writes the slot popped last.                              *)
THEOREM PoppedSlotKept == Spec => PoppedSlotStable
  <1>1. IInv /\ [Next]_vars => [tail_' = tail_ => slots_'[Pred(tail_)] = slots_[Pred(tail_)]]_vars
    <2> SUFFICES ASSUME IInv, Next, tail_' = tail_
                 PROVE slots_'[Pred(tail_)] = slots_[Pred(tail_)]
      OBVIOUS
    <2>1. CASE PConstruct
      <3>1. head_ # Pred(tail_)
        BY <2>1, CapacityAssumption
        DEF PConstruct, IInv, TypeOK, ProducerView, Slots, Succ, Pred, Dist
      <3> QED
        BY <2>1, <3>1 DEF PConstruct, IInv, TypeOK
    <2>2. CASE slots_' = slots_
      BY <2>2
    <2>3. PConstruct \/ slots_' = slots_
      BY DEF Next, Producer, Consumer, Destructor, Gone, PCall, PLoadTail, PThrow, PPublish,
             PSize, CFront, CRead, CSize, CPop, CDestroy, CRetire, DtorEnter, DtorPop,
             DtorFree, vars, ringVars, pVars, cVars
    <2> QED
      BY <2>1, <2>2, <2>3
  <1> QED
    BY <1>1, AlwaysIInv, PTL DEF Spec, PoppedSlotStable

-----------------------------------------------------------------------------
(* The ring refines a bounded FIFO queue.                                  *)

(* contents is a sequence of as many elements as size() counts.            *)
ContentsShape ==
  /\ oldest \in Slots /\ count \in Slots
  /\ contents \in Seq(Values \cup {None}) /\ Len(contents) = count
  /\ \A i \in 1 .. count : contents[i] = slots_[At(oldest, i - 1)]

(* contents has that shape in every state that satisfies the invariant.    *)
LEMMA ContentsSeq == IInv => ContentsShape
  <1> SUFFICES ASSUME IInv PROVE ContentsShape
    OBVIOUS
  <1>1. oldest \in Slots
    BY SuccType DEF IInv, TypeOK, oldest
  <1>2. count \in Slots
    BY <1>1, DistType DEF IInv, TypeOK, count
  <1>3. \A i \in 1 .. count : At(oldest, i - 1) \in Slots
    BY <1>1, <1>2, CapacityAssumption DEF Slots, At
  <1>4. contents \in [1 .. count -> Values \cup {None}]
    BY <1>3 DEF contents, IInv, TypeOK
  <1>5. count \in Nat
    BY <1>2, CapacityAssumption DEF Slots
  <1> QED
    BY <1>1, <1>2, <1>4, <1>5 DEF contents, ContentsShape

(* The same fact about the state after a step.                             *)
LEMMA ContentsSeqNext == IInv' => ContentsShape'
  BY ContentsSeq, PTL

(* Two sequences with the same length and elements are equal.              *)
LEMMA SameSeq ==
  ASSUME NEW S, NEW s \in Seq(S), NEW t \in Seq(S), Len(s) = Len(t),
         \A i \in 1 .. Len(s) : s[i] = t[i]
  PROVE s = t
  OBVIOUS

(* The release store of head_ appends the element just constructed.        *)
LEMMA PublishPuts == IInv /\ IInv' /\ PPublish => Fifo!Put(pval)
  <1> SUFFICES ASSUME IInv, IInv', PPublish PROVE Fifo!Put(pval)
    OBVIOUS
  <1> DEFINE V == Values \cup {None}
  <1>1. /\ oldest \in Slots /\ oldest' = oldest /\ Succ(head_) # oldest
        /\ pval \in V /\ slots_' = slots_ /\ head_ \in Slots /\ slots_[head_] = pval
    BY CapacityAssumption DEF IInv, TypeOK, ProducerView, ConsumerView, DtorAlone, PPublish,
       cVars, oldest, Slots, Succ, Dist
  <1>2. count' = count + 1 /\ At(oldest, count) = head_
    BY <1>1, CapacityAssumption DEF PPublish, count, Slots, Succ, Dist, At
  <1>3. count \in Nat /\ count < Capacity - 1
    BY <1>2, ContentsSeq, ContentsSeqNext, CapacityAssumption DEF ContentsShape, Slots
  <1>4. /\ contents \in Seq(V) /\ Len(contents) = count
        /\ contents' \in Seq(V) /\ Len(contents') = count + 1
    BY <1>2, ContentsSeq, ContentsSeqNext DEF ContentsShape
  <1>5. Append(contents, pval) \in Seq(V) /\ Len(Append(contents, pval)) = count + 1
    BY <1>1, <1>4
  <1>6. ASSUME NEW i \in 1 .. count + 1 PROVE contents'[i] = Append(contents, pval)[i]
    <2>1. contents'[i] = slots_[At(oldest, i - 1)]
      BY <1>1, <1>2, ContentsSeqNext DEF ContentsShape
    <2>2. CASE i = count + 1
      BY <2>1, <2>2, <1>1, <1>2, <1>3, <1>4
    <2>3. CASE i \in 1 .. count
      BY <2>1, <2>3, <1>3, <1>4, ContentsSeq DEF ContentsShape
    <2>4. i = count + 1 \/ i \in 1 .. count
      BY <1>3
    <2> QED
      BY <2>2, <2>3, <2>4
  <1>7. contents' = Append(contents, pval)
    BY <1>3, <1>4, <1>5, <1>6, SameSeq
  <1> QED
    BY <1>3, <1>4, <1>7 DEF Fifo!Put, PPublish, cVars

(* Destroying the element at tail_ removes the oldest one.                 *)
LEMMA DropRemoves ==
  ASSUME IInv, IInv', slots_' = slots_, head_' = head_, val' = val,
         oldest = tail_, tail_ # head_, oldest' = Succ(tail_)
  PROVE Fifo!Remove
  <1> DEFINE V == Values \cup {None}
  <1>1. tail_ \in Slots /\ head_ \in Slots
    BY DEF IInv, TypeOK
  <1>2. count' = count - 1 /\ count \in Nat /\ count > 0
    BY <1>1, DistSuccLeft, DistType, DistZero, CapacityAssumption DEF count, Slots
  <1>3. /\ contents \in Seq(V) /\ Len(contents) = count
        /\ contents' \in Seq(V) /\ Len(contents') = count - 1
    BY <1>2, ContentsSeq, ContentsSeqNext DEF ContentsShape
  <1>4. contents # <<>> /\ Tail(contents) \in Seq(V) /\ Len(Tail(contents)) = count - 1
    BY <1>2, <1>3
  <1>5. ASSUME NEW i \in 1 .. count - 1 PROVE contents'[i] = Tail(contents)[i]
    <2>1. At(Succ(tail_), i - 1) = At(tail_, i)
      <3>1. count \in Nat /\ count < Capacity
        <4>1. Dist(tail_, head_) \in Slots /\ count = Dist(tail_, head_)
          BY <1>1, DistType DEF count
        <4> QED
          BY <4>1, CapacityAssumption DEF Slots
      <3>2. i \in Nat /\ 1 <= i /\ i < Capacity
        BY <3>1, CapacityAssumption
      <3> QED
        BY <1>1, <3>2, CapacityAssumption DEF Slots, Succ, At
    <2>2. contents'[i] = slots_[At(tail_, i)]
      BY <2>1, <1>2, ContentsSeqNext DEF ContentsShape
    <2>3. contents[i + 1] = slots_[At(tail_, i)]
      BY <1>2, ContentsSeq DEF ContentsShape
    <2>4. Tail(contents)[i] = contents[i + 1]
      BY <1>2, <1>3
    <2> QED
      BY <2>2, <2>3, <2>4
  <1>6. contents' = Tail(contents)
    BY <1>2, <1>3, <1>4, <1>5, SameSeq
  <1> QED
    BY <1>4, <1>6 DEF Fifo!Remove

(* A consumer that holds front()'s pointer, or is in pop(), has an element *)
(* in front of it.                                                         *)
LEMMA HasElement ==
  ASSUME IInv, cpc \in {"front", "destroy"}
  PROVE tail_ # head_ /\ oldest = tail_ /\ count \in Nat /\ count > 0
  <1>1. tail_ \in Slots /\ head_ \in Slots /\ oldest = tail_
    BY DEF IInv, TypeOK, oldest
  <1>2. tail_ # head_
    BY <1>1, CapacityAssumption DEF IInv, TypeOK, ConsumerView, DtorAlone, Slots, Dist
  <1>3. Dist(tail_, head_) \in Slots /\ Dist(tail_, head_) # 0
    BY <1>1, <1>2, DistType, DistZero
  <1> QED
    BY <1>1, <1>2, <1>3, CapacityAssumption DEF count, Slots

(* Reading through front()'s pointer returns the oldest element.           *)
LEMMA ReadLooks == IInv /\ IInv' /\ CRead => Fifo!Look
  <1> SUFFICES ASSUME IInv, IInv', CRead PROVE Fifo!Look
    OBVIOUS
  <1>1. oldest = tail_ /\ oldest' = oldest /\ tail_ \in Slots /\ count' = count /\ slots_' = slots_
    BY DEF IInv, TypeOK, CRead, oldest, count, ringVars
  <1>3. count \in Nat /\ count > 0
    BY HasElement DEF CRead
  <1>4. At(tail_, 0) = tail_
    BY <1>1, CapacityAssumption DEF At, Slots
  <1>5. contents # <<>> /\ Head(contents) = slots_[tail_]
    BY <1>1, <1>3, <1>4, ContentsSeq DEF ContentsShape
  <1>6. contents' = contents
    BY <1>1 DEF contents
  <1> QED
    BY <1>5, <1>6 DEF Fifo!Look, CRead

(* Every other step leaves the queue's contents and the last value read    *)
(* alone.                                                                  *)
LEMMA SilentSteps ==
  ASSUME IInv, IInv', oldest' = oldest, head_' = head_, val' = val,
         \A s \in Slots : s # head_ => slots_'[s] = slots_[s]
  PROVE UNCHANGED <<contents, val>>
  <1>1. count' = count /\ head_ \in Slots
    BY DEF count, IInv, TypeOK
  <1>2. ASSUME NEW i \in 1 .. count PROVE slots_'[At(oldest, i - 1)] = slots_[At(oldest, i - 1)]
    <2>1. oldest \in Slots /\ count \in Slots
      BY ContentsSeq DEF ContentsShape
    <2>2. At(oldest, i - 1) \in Slots /\ At(oldest, i - 1) # head_
      BY <1>1, <2>1, CapacityAssumption DEF count, Slots, Dist, At
    <2> QED
      BY <2>2
  <1> QED
    BY <1>1, <1>2 DEF contents

(* Every step of the queue is a step of the FIFO or changes nothing it     *)
(* shows.                                                                  *)
LEMMA StepSimulates == IInv /\ IInv' /\ [Next]_vars => [Fifo!Next]_<<contents, val>>
  <1> SUFFICES ASSUME IInv, IInv', [Next]_vars PROVE [Fifo!Next]_<<contents, val>>
    OBVIOUS
  <1>1. CASE PPublish
    <2>1. pval \in Values
      BY <1>1 DEF PPublish, IInv, ProducerView
    <2> QED
      BY <2>1, <1>1, PublishPuts DEF Fifo!Next
  <1>2. CASE CRead
    BY <1>2, ReadLooks DEF Fifo!Next
  <1>3. CASE CDestroy
    <2>1. tail_ # head_
      BY <1>3, HasElement DEF CDestroy
    <2>2. /\ slots_' = slots_ /\ head_' = head_ /\ val' = val
          /\ oldest = tail_ /\ oldest' = Succ(tail_)
      BY <1>3 DEF CDestroy, oldest
    <2> QED
      BY <2>1, <2>2, DropRemoves DEF Fifo!Next
  <1>4. CASE DtorPop
    <2>1. /\ slots_' = slots_ /\ head_' = head_ /\ val' = val /\ tail_ # head_
          /\ oldest = tail_ /\ oldest' = Succ(tail_)
      BY <1>4 DEF DtorPop, oldest, cVars, IInv, DtorAlone
    <2> QED
      BY <2>1, DropRemoves DEF Fifo!Next
  <1>5. CASE PConstruct
    <2>1. /\ oldest' = oldest /\ head_' = head_ /\ val' = val
          /\ \A s \in Slots : s # head_ => slots_'[s] = slots_[s]
      BY <1>5 DEF PConstruct, oldest, cVars, IInv, TypeOK
    <2> QED
      BY <2>1, SilentSteps
  <1>6. CASE oldest' = oldest /\ head_' = head_ /\ val' = val /\ slots_' = slots_
    BY <1>6, SilentSteps
  <1>7. CASE CRetire
    BY <1>7, <1>6 DEF CRetire, oldest
  <1>8. CASE \E h \in Views(seenHead, head_) : CPop(h)
    <2>1. PICK h \in Views(seenHead, head_) : CPop(h)
      BY <1>8
    <2> QED
      BY <2>1, <1>6 DEF CPop, oldest, ringVars
  <1>9. CASE \E h \in Views(seenHead, head_) : CFront(h) \/ CSize(h)
    BY <1>9, <1>6 DEF CFront, CSize, oldest, ringVars
  <1>10. CASE \/ \E call \in {"emplace", "try_emplace"}, v \in Values : PCall(call, v)
              \/ \E t \in Views(seenTail, tail_) : PLoadTail(t) \/ PSize(t)
              \/ PThrow
    BY <1>10, <1>6 DEF PCall, PLoadTail, PSize, PThrow, oldest, ringVars, cVars
  <1>11. CASE DtorEnter \/ DtorFree \/ Gone \/ UNCHANGED vars
    BY <1>11, <1>6 DEF DtorEnter, DtorFree, Gone, vars, oldest, ringVars, cVars
  <1> QED
    BY <1>1, <1>2, <1>3, <1>4, <1>5, <1>7, <1>8, <1>9, <1>10, <1>11
    DEF Next, Producer, Consumer, Destructor

(* The queue implements a FIFO of Capacity - 1 elements: nothing is lost,  *)
(* duplicated or reordered, and no more than Capacity - 1 are held.        *)
THEOREM RingImplementsFifo == Spec => ImplementsFifo
  <1>1. Init => Fifo!Init
    <2> SUFFICES ASSUME Init PROVE Fifo!Init
      OBVIOUS
    <2>1. count = 0
      BY CapacityAssumption DEF Init, count, oldest, Dist
    <2> QED
      BY <2>1 DEF Init, Fifo!Init, contents
  <1> QED
    BY <1>1, AlwaysIInv, StepSimulates, PTL DEF Spec, ImplementsFifo, Fifo!Spec, Fifo!fifoVars

-----------------------------------------------------------------------------
(* ThreadSafeQueue                                                         *)

(* OnlyAbandonedWait counts threads: what has been woken is a finite set,  *)
(* and nobody is woken twice.                                              *)
SafeInv ==
  /\ queue_ \in Seq(Elements)
  /\ IsFiniteSet(woken) /\ waiting \cap woken = {} /\ abandoned \in Nat
  /\ OnlyAbandonedWait

(* The cardinality ThreadSafeQueue speaks of is the one of FiniteSets.     *)
LEMMA SameCardinality == \A S : SafeQueue!Cardinality(S) = Cardinality(S)
  BY DEF SafeQueue!Cardinality, Cardinality

(* notify_one wakes a thread that was not woken yet, or nobody waits.      *)
LEMMA NotifyCounts ==
  ASSUME IsFiniteSet(woken), waiting \cap woken = {}, SafeQueue!notify_one
  PROVE  /\ IsFiniteSet(woken') /\ waiting' \cap woken' = {}
         /\ waiting # {} => Cardinality(woken') = Cardinality(woken) + 1
         /\ waiting = {} => waiting' = {}
  BY FS_AddElement DEF SafeQueue!notify_one

(* Taking the front leaves an element less, and the history is kept or the *)
(* queue is empty.                                                         *)
LEMMA TakeSafe ==
  ASSUME queue_ \in Seq(Elements), abandoned \in Nat, SafeQueue!Take
  PROVE  /\ queue_' \in Seq(Elements) /\ Len(queue_') = Len(queue_) - 1 /\ abandoned' \in Nat
         /\ abandoned' = abandoned \/ Len(queue_') = 0
  <1>1. queue_' \in Seq(Elements) /\ Len(queue_') = Len(queue_) - 1
    BY DEF SafeQueue!Take
  <1>2. queue_' = <<>> => Len(queue_') = 0
    OBVIOUS
  <1> QED
    BY <1>1, <1>2 DEF SafeQueue!Take

(* TakeOrWait of a thread that is neither waiting nor woken any more, when *)
(* w threads are woken: it leaves an element less, or it sleeps beside an  *)
(* empty queue.                                                            *)
LEMMA TakeOrWaitSafe ==
  ASSUME queue_ \in Seq(Elements), abandoned \in Nat, NEW t, SafeQueue!TakeOrWait(t)
  PROVE  /\ queue_' \in Seq(Elements) /\ abandoned' \in Nat
         /\ abandoned' = abandoned \/ Len(queue_') = 0
         /\ \/ Len(queue_') = Len(queue_) - 1 /\ waiting' = waiting
            \/ Len(queue_') = 0 /\ waiting' = waiting \cup {t}
  BY TakeSafe DEF SafeQueue!TakeOrWait

(* Every call and every wake-up preserves the invariant.                   *)
LEMMA SafeInvStep ==
  ASSUME SafeInv, SafeQueue!Next
  PROVE  SafeInv'
  <1> USE DEF SafeInv, OnlyAbandonedWait, SafeQueue!OnlyAbandonedWait
  <1>w. Cardinality(woken) \in Nat
    BY FS_CardinalityType
  <1> USE SameCardinality
  <1>1. CASE \E v \in Elements : SafeQueue!push(v)
    <2>1. PICK v \in Elements : SafeQueue!push(v)
      BY <1>1
    <2>2. queue_' \in Seq(Elements) /\ Len(queue_') = Len(queue_) + 1
      BY <2>1 DEF SafeQueue!push
    <2> QED
      BY <2>1, <2>2, <1>w, NotifyCounts DEF SafeQueue!push
  <1>2. CASE \E t \in Threads : SafeQueue!pop(t)
    <2>1. PICK t \in Threads : SafeQueue!pop(t)
      BY <1>2
    <2> QED
      BY <2>1, <1>w, TakeOrWaitSafe DEF SafeQueue!pop, SafeQueue!Idle
  <1>3. CASE \E t \in Threads : SafeQueue!Resume(t)
    <2>1. PICK t \in Threads : SafeQueue!Resume(t)
      BY <1>3
    <2>2. IsFiniteSet(woken') /\ Cardinality(woken') = Cardinality(woken) - 1 /\ Cardinality(woken') \in Nat
      BY <2>1, FS_RemoveElement, FS_CardinalityType DEF SafeQueue!Resume
    <2>3. waiting' \cap woken' = {}
      BY <2>1, TakeOrWaitSafe DEF SafeQueue!Resume
    <2> QED
      BY <2>1, <2>2, <2>3, <1>w, TakeOrWaitSafe DEF SafeQueue!Resume
  <1>4. CASE \E t \in Threads : SafeQueue!WakeSpuriously(t)
    <2>1. PICK t \in Threads : SafeQueue!WakeSpuriously(t)
      BY <1>4
    <2>2. IsFiniteSet(woken') /\ Cardinality(woken') = Cardinality(woken) + 1
      BY <2>1, FS_AddElement DEF SafeQueue!WakeSpuriously
    <2> QED
      BY <2>1, <2>2, <1>w DEF SafeQueue!WakeSpuriously
  <1>5. CASE SafeQueue!try_pop
    BY <1>5, <1>w, TakeSafe DEF SafeQueue!try_pop
  <1>6. CASE \E t \in Threads : SafeQueue!ResumeThrows(t)
    <2>1. PICK t \in Threads : SafeQueue!ResumeThrows(t)
      BY <1>6
    <2>2. IsFiniteSet(woken') /\ Cardinality(woken') = Cardinality(woken) - 1
      BY <2>1, FS_RemoveElement DEF SafeQueue!ResumeThrows
    <2> QED
      BY <2>1, <2>2, <1>w DEF SafeQueue!ResumeThrows
  <1> QED
    BY <1>1, <1>2, <1>3, <1>4, <1>5, <1>6 DEF SafeQueue!Next

(* While a thread sleeps in ThreadSafeQueue::pop(), every element in the   *)
(* queue has a thread on its way to it, but for one element for each woken *)
(* thread whose assignment threw since the queue was last empty, for any   *)
(* number of threads and elements.                                         *)
THEOREM SleepersMissOnlyAbandoned == MCSpec => []OnlyAbandonedWait
  <1>1. MCInit => SafeInv
    BY FS_EmptySet DEF MCInit, SafeInv, SafeQueue!Init, OnlyAbandonedWait,
                       SafeQueue!OnlyAbandonedWait
  <1>2. SafeInv /\ [MCNext]_allVars => SafeInv'
    <2> SUFFICES ASSUME SafeInv, [MCNext]_allVars
                 PROVE  SafeInv'
      OBVIOUS
    <2>1. CASE SafeQueue!Next
      BY <2>1, SafeInvStep
    <2>2. CASE UNCHANGED safeVars
      BY <2>2 DEF SafeInv, safeVars, OnlyAbandonedWait, SafeQueue!OnlyAbandonedWait
    <2> QED
      BY <2>1, <2>2 DEF MCNext, allVars
  <1>3. SafeInv => OnlyAbandonedWait
    BY DEF SafeInv
  <1> QED
    BY <1>1, <1>2, <1>3, PTL DEF MCSpec

-----------------------------------------------------------------------------
(* CAtomicQueue                                                            *)

Places == 0 .. RingSize - 1

(* how far place j is after place i, and the place k after place i         *)
Gap(i, j) == IF i <= j THEN j - i ELSE j - i + RingSize
Step(i, k) == IF i + k < RingSize THEN i + k ELSE i + k - RingSize

(* What each side has seen of the other's index is old, never new: the     *)
(* three indices go round the ring in the order head seen, head, tail, and *)
(* head, tail seen, tail.  A push under way has a free place and a pop     *)
(* under way an element.  All places from head to tail hold an element,    *)
(* but for the one that a pop has exchanged.                               *)
RingInv ==
  /\ head \in Places /\ tail \in Places
  /\ buffer \in [Places -> Elements \cup {nullptr}]
  /\ pushing \in [pc : {"idle", "store", "publish", "count"}, value : Elements \cup {nullptr}, seen : Places]
  /\ popping \in [pc : {"idle", "exchange", "advance", "count"}, value : Elements \cup {nullptr}, seen : Places]
  /\ Gap(pushing.seen, tail) = Gap(pushing.seen, head) + Gap(head, tail)
  /\ Gap(head, tail) = Gap(head, popping.seen) + Gap(popping.seen, tail)
  /\ pushing.pc \in {"store", "publish"} => Step(tail, 1) # pushing.seen
  /\ pushing.pc = "store" => pushing.value \in Elements
  /\ pushing.pc = "publish" => buffer[tail] \in Elements
  /\ popping.pc \in {"exchange", "advance"} => head # popping.seen
  /\ popping.pc = "advance" => popping.value \in Elements
  /\ \A k \in 0 .. Gap(head, tail) - 1 :
       (k = 0 /\ popping.pc = "advance") \/ buffer[Step(head, k)] \in Elements

RingAssumption == RingSize \in Nat \ {0} /\ nullptr \notin Elements

(* Places stay places.                                                     *)
LEMMA RingTypes ==
  ASSUME RingAssumption, NEW i \in Places, NEW j \in Places
  PROVE  /\ Gap(i, j) \in Places
         /\ \A k \in Places : Step(i, k) \in Places
         /\ Step(i, 1) \in Places \/ RingSize = 1
  BY DEF RingAssumption, Places, Gap, Step

(* The remainders of the code are Gap and Step.                            *)
LEMMA RingRemainders ==
  ASSUME RingAssumption, NEW i \in Places, NEW j \in Places
  PROVE  (j - i) % RingSize = Gap(i, j) /\ (i + j) % RingSize = Step(i, j)
  <1>1. RingSize \in Nat \ {0} /\ i \in Int /\ j \in Int /\ 0 <= i /\ i < RingSize /\ 0 <= j /\ j < RingSize
    BY DEF RingAssumption, Places
  <1>2. (j - i) % RingSize = Gap(i, j)
    <2>1. CASE i <= j
      <3>1. PICK x \in Int : x = j - i /\ 0 <= x /\ x < RingSize
        BY <1>1, <2>1
      <3> QED
        BY <1>1, <2>1, <3>1, ModSmall DEF Gap
    <2>2. CASE ~(i <= j)
      <3>1. PICK x \in Int : x = j - i + RingSize /\ 0 <= x /\ x < RingSize
        BY <1>1, <2>2
      <3>2. x % RingSize = x
        BY <1>1, <3>1, ModSmall
      <3>3. PICK y \in Int : y = j - i
        BY <1>1
      <3>q. PICK q \in Int : q = 1
        OBVIOUS
      <3>4. (y + RingSize * q) % RingSize = y % RingSize
        BY <1>1, <3>3, ModAddMultiple
      <3>5. y + RingSize * q = x
        BY <1>1, <3>1, <3>3, <3>q
      <3> QED
        BY <2>2, <3>1, <3>2, <3>3, <3>4, <3>5 DEF Gap
    <2> QED
      BY <2>1, <2>2
  <1>3. (i + j) % RingSize = Step(i, j)
    <2>1. PICK x \in Int : x = i + j /\ 0 <= x /\ x < 2 * RingSize
      BY <1>1
    <2>2. CASE x < RingSize
      BY <1>1, <2>1, <2>2, ModSmall DEF Step
    <2>3. CASE ~(x < RingSize)
      <3>1. RingSize <= x /\ RingSize \in Nat \ {0}
        BY <1>1, <2>3
      <3>2. x % RingSize = x - RingSize
        BY <2>1, <3>1, ModOver
      <3> QED
        BY <1>1, <2>1, <2>3, <3>1, <3>2 DEF Step
    <2> QED
      BY <2>2, <2>3
  <1> QED
    BY <1>2, <1>3

(* After is the next place.                                                *)
LEMMA AfterStep ==
  ASSUME RingAssumption, NEW i \in Places
  PROVE  AtomicQueue!After(i) = Step(i, 1) /\ Step(i, 1) \in Places
  <1>1. CASE RingSize = 1
    BY <1>1 DEF AtomicQueue!After, Places, Step
  <1>2. CASE RingSize # 1
    <2>1. 1 \in Places
      BY <1>2 DEF RingAssumption, Places
    <2> QED
      BY <1>2, <2>1, RingRemainders, RingTypes DEF AtomicQueue!After
  <1> QED
    BY <1>1, <1>2

(* A load returns a place between the one seen last and the present one.   *)
LEMMA BetweenMeans ==
  ASSUME RingAssumption, NEW i \in Places, NEW j \in Places, NEW x \in AtomicQueue!Between(i, j)
  PROVE  x \in Places /\ Gap(i, x) + Gap(x, j) = Gap(i, j)
  <1>1. PICK k \in 0 .. (j - i) % RingSize : x = (i + k) % RingSize
    BY DEF AtomicQueue!Between
  <1>2. k \in 0 .. Gap(i, j)
    BY <1>1, RingRemainders
  <1>3. k \in Places /\ Gap(i, j) \in Places
    BY <1>2, RingTypes DEF Places, RingAssumption
  <1>4. x = Step(i, k) /\ x \in Places
    BY <1>1, <1>3, RingRemainders, RingTypes
  <1> QED
    BY <1>2, <1>3, <1>4 DEF RingAssumption, Places, Gap, Step

(* Both ends of the ring may move one place; everything else about the     *)
(* order on the ring follows.                                              *)
LEMMA RingMoves ==
  ASSUME RingAssumption, NEW i \in Places, NEW j \in Places
  PROVE  /\ i # j => Gap(Step(i, 1), j) = Gap(i, j) - 1 /\ Gap(i, j) > 0
         /\ Step(j, 1) # i => Gap(i, Step(j, 1)) = Gap(i, j) + 1 /\ Gap(i, j) < RingSize - 1
         /\ Gap(i, i) = 0 /\ (Gap(i, j) = 0 => i = j)
         /\ Step(i, Gap(i, j)) = j
         /\ \A k \in 0 .. Gap(i, j) - 1 : Step(i, k) # j /\ Step(i, k) \in Places
         /\ i # j => \A k \in 1 .. Gap(i, j) - 1 : Step(Step(i, 1), k - 1) = Step(i, k) /\ Step(i, k) # i
         /\ Step(i, 0) = i
  BY DEF RingAssumption, Places, Gap, Step

(* A place between the second and the third of three in order.             *)
LEMMA RingLook ==
  ASSUME RingAssumption, NEW h \in Places, NEW s \in Places, NEW t \in Places, NEW x \in Places,
         Gap(h, t) = Gap(h, s) + Gap(s, t), Gap(s, x) + Gap(x, t) = Gap(s, t)
  PROVE  Gap(h, t) = Gap(h, x) + Gap(x, t)
  BY DEF RingAssumption, Places, Gap

(* A place between the first and the second of three in order.             *)
LEMMA RingLookBehind ==
  ASSUME RingAssumption, NEW p \in Places, NEW h \in Places, NEW t \in Places, NEW x \in Places,
         Gap(p, t) = Gap(p, h) + Gap(h, t), Gap(p, x) + Gap(x, h) = Gap(p, h)
  PROVE  Gap(x, t) = Gap(x, h) + Gap(h, t)
  BY DEF Gap, Places, RingAssumption

(* The last of three places in order moves on, unless it meets the first.  *)
LEMMA RingTailMoves ==
  ASSUME RingAssumption, NEW p \in Places, NEW h \in Places, NEW t \in Places, NEW u \in Places,
         Gap(p, t) = Gap(p, h) + Gap(h, t), u = Step(t, 1), u # p
  PROVE  Gap(p, u) = Gap(p, h) + Gap(h, u) /\ Gap(h, u) = Gap(h, t) + 1
  BY DEF RingAssumption, Places, Gap, Step

(* The middle one moves on, unless it is at the last.                      *)
LEMMA RingHeadMoves ==
  ASSUME RingAssumption, NEW p \in Places, NEW h \in Places, NEW t \in Places, NEW u \in Places,
         Gap(p, t) = Gap(p, h) + Gap(h, t), u = Step(h, 1), h # t
  PROVE  Gap(p, t) = Gap(p, u) + Gap(u, t) /\ Gap(u, t) = Gap(h, t) - 1
  BY DEF RingAssumption, Places, Gap, Step

(* Every step of CAtomicQueue keeps the order on the ring.                 *)
LEMMA RingInvStep ==
  ASSUME RingAssumption, RingInv, AtomicQueue!Next
  PROVE  RingInv'
  <1> USE DEF AtomicQueue!ring
  <1>0. /\ head \in Places /\ tail \in Places /\ pushing.seen \in Places /\ popping.seen \in Places
        /\ Gap(head, tail) \in Int /\ RingSize \in Nat \ {0}
    BY RingTypes DEF RingInv, RingAssumption, Places
  <1>1. ASSUME NEW v \in Elements, NEW h \in AtomicQueue!Between(pushing.seen, head), AtomicQueue!try_push(v, h)
        PROVE  RingInv'
    <2>1. h \in Places /\ Gap(pushing.seen, h) + Gap(h, head) = Gap(pushing.seen, head)
      BY <1>0, BetweenMeans
    <2>2. Gap(h, tail) = Gap(h, head) + Gap(head, tail)
      <3>1. Gap(pushing.seen, tail) = Gap(pushing.seen, head) + Gap(head, tail)
        BY DEF RingInv
      <3> QED
        BY <1>0, <2>1, <3>1, RingLookBehind
    <2>3. /\ pushing' \in [pc : {"idle", "store", "publish", "count"}, value : Elements \cup {nullptr}, seen : Places]
          /\ pushing'.seen = h /\ pushing'.pc \in {"idle", "store"}
          /\ pushing'.pc = "store" => Step(tail, 1) # h /\ pushing'.value \in Elements
          /\ UNCHANGED <<buffer, head, tail, popping>>
      BY <1>0, <1>1, <2>1, AfterStep DEF AtomicQueue!try_push, RingInv
    <2> QED
      BY <2>2, <2>3 DEF RingInv
  <1>2. CASE AtomicQueue!StoreElement
    <2>1. /\ pushing.pc = "store" /\ pushing.value \in Elements /\ Step(tail, 1) # pushing.seen
          /\ buffer' = [buffer EXCEPT ![tail] = pushing.value]
          /\ pushing' = [pushing EXCEPT !.pc = "publish", !.value = nullptr]
          /\ UNCHANGED <<head, tail, popping>>
      BY <1>2 DEF AtomicQueue!StoreElement, RingInv
    <2>2. /\ pushing' \in [pc : {"idle", "store", "publish", "count"}, value : Elements \cup {nullptr}, seen : Places]
          /\ pushing'.pc = "publish" /\ pushing'.seen = pushing.seen
      BY <2>1 DEF RingInv
    <2>3. /\ buffer' \in [Places -> Elements \cup {nullptr}] /\ buffer'[tail] = pushing.value
          /\ \A i \in Places : i # tail => buffer'[i] = buffer[i]
      BY <1>0, <2>1 DEF RingInv
    <2>4. \A k \in 0 .. Gap(head, tail) - 1 : buffer'[Step(head, k)] = buffer[Step(head, k)]
      BY <1>0, <2>3, RingMoves
    <2> QED
      BY <2>1, <2>2, <2>3, <2>4 DEF RingInv
  <1>3. CASE AtomicQueue!StoreTail
    <2>1. /\ pushing.pc = "publish" /\ tail' = Step(tail, 1) /\ tail' \in Places /\ tail' # pushing.seen
          /\ pushing' = [pushing EXCEPT !.pc = "count"] /\ buffer[tail] \in Elements
          /\ UNCHANGED <<buffer, head, popping>>
      BY <1>0, <1>3, AfterStep DEF AtomicQueue!StoreTail, RingInv
    <2>2. /\ pushing' \in [pc : {"idle", "store", "publish", "count"}, value : Elements \cup {nullptr}, seen : Places]
          /\ pushing'.pc = "count" /\ pushing'.seen = pushing.seen
      BY <2>1 DEF RingInv
    <2>3. /\ Gap(pushing.seen, tail') = Gap(pushing.seen, head) + Gap(head, tail')
          /\ Gap(head, tail') = Gap(head, popping.seen) + Gap(popping.seen, tail')
          /\ Gap(head, tail') = Gap(head, tail) + 1
      <3>1. /\ Gap(pushing.seen, tail') = Gap(pushing.seen, head) + Gap(head, tail')
            /\ Gap(head, tail') = Gap(head, tail) + 1
        BY <1>0, <2>1, RingTailMoves DEF RingInv
      <3>2. tail' # head
        BY <1>0, <2>1, <3>1, RingMoves, RingTypes DEF Places
      <3>3. Gap(head, tail') = Gap(head, popping.seen) + Gap(popping.seen, tail')
        BY <1>0, <2>1, <3>2, RingTailMoves DEF RingInv
      <3> QED
        BY <3>1, <3>3
    <2>4. ASSUME NEW k \in 0 .. Gap(head, tail') - 1
          PROVE  (k = 0 /\ popping.pc = "advance") \/ buffer[Step(head, k)] \in Elements
      <3>1. CASE k = Gap(head, tail)
        BY <1>0, <2>1, <3>1, RingMoves
      <3>2. CASE k # Gap(head, tail)
        <4>1. k \in 0 .. Gap(head, tail) - 1
          BY <1>0, <2>3, <3>2
        <4> QED
          BY <4>1 DEF RingInv
      <3> QED
        BY <3>1, <3>2
    <2>5. Gap(head, tail)' = Gap(head, tail')
      BY <2>1 DEF Gap
    <2>6. \A k : Step(head, k)' = Step(head, k)
      BY <2>1 DEF Step
    <2>7. Gap(pushing.seen, tail)' = Gap(pushing.seen, head)' + Gap(head, tail)'
      BY <2>1, <2>2, <2>3 DEF Gap
    <2>8. Gap(head, tail)' = Gap(head, popping.seen)' + Gap(popping.seen, tail)'
      BY <2>1, <2>3 DEF Gap
    <2> QED
      BY <2>1, <2>2, <2>4, <2>5, <2>6, <2>7, <2>8 DEF RingInv
  <1>4. CASE AtomicQueue!CountPush
    <2>1. /\ pushing' = [pushing EXCEPT !.pc = "idle"] /\ UNCHANGED <<buffer, head, tail, popping>>
      BY <1>4 DEF AtomicQueue!CountPush
    <2>2. /\ pushing' \in [pc : {"idle", "store", "publish", "count"}, value : Elements \cup {nullptr}, seen : Places]
          /\ pushing'.pc = "idle" /\ pushing'.seen = pushing.seen
      BY <2>1 DEF RingInv
    <2> QED
      BY <2>1, <2>2 DEF RingInv
  <1>5. ASSUME NEW t \in AtomicQueue!Between(popping.seen, tail), AtomicQueue!front(t) \/ AtomicQueue!pop(t)
        PROVE  RingInv'
    <2>1. t \in Places /\ Gap(popping.seen, t) + Gap(t, tail) = Gap(popping.seen, tail)
      BY <1>0, BetweenMeans
    <2>2. Gap(head, tail) = Gap(head, t) + Gap(t, tail)
      BY <1>0, <2>1, RingLook DEF RingInv
    <2>3. /\ popping' \in [pc : {"idle", "exchange", "advance", "count"}, value : Elements \cup {nullptr}, seen : Places]
          /\ popping'.seen = t /\ popping'.pc \in {"idle", "exchange"} /\ popping.pc = "idle"
          /\ popping'.pc = "exchange" => head # t
          /\ UNCHANGED <<buffer, head, tail, pushing>>
      BY <1>0, <1>5, <2>1 DEF AtomicQueue!front, AtomicQueue!pop, RingInv
    <2> QED
      BY <2>2, <2>3 DEF RingInv
  <1>6. CASE AtomicQueue!Exchange
    <2>1. /\ popping.pc = "exchange" /\ head # popping.seen /\ UNCHANGED <<head, tail, pushing>>
          /\ buffer' = [buffer EXCEPT ![head] = nullptr]
          /\ popping' = [popping EXCEPT !.value = buffer[head],
                                        !.pc = IF buffer[head] = nullptr THEN "idle" ELSE "advance"]
      BY <1>6 DEF AtomicQueue!Exchange, RingInv
    <2>2. Gap(head, tail) > 0
      BY <1>0, <2>1 DEF RingInv, Places, Gap
    <2>3. buffer[head] \in Elements
      <3>1. 0 \in 0 .. Gap(head, tail) - 1 /\ Step(head, 0) = head
        BY <1>0, <2>2, RingMoves
      <3> QED
        BY <2>1, <3>1 DEF RingInv
    <2>4. /\ popping' \in [pc : {"idle", "exchange", "advance", "count"}, value : Elements \cup {nullptr}, seen : Places]
          /\ popping'.seen = popping.seen /\ popping'.pc = "advance" /\ popping'.value \in Elements
      BY <2>1, <2>3 DEF RingInv, RingAssumption
    <2>5. /\ buffer' \in [Places -> Elements \cup {nullptr}]
          /\ \A i \in Places : i # head => buffer'[i] = buffer[i]
      BY <1>0, <2>1 DEF RingInv
    <2>6. head # tail
      BY <1>0, <2>2, RingMoves
    <2>7. \A k \in 0 .. Gap(head, tail) - 1 : k = 0 \/ buffer'[Step(head, k)] = buffer[Step(head, k)]
      BY <1>0, <2>5, <2>6, RingMoves
    <2>8. pushing.pc = "publish" => buffer'[tail] = buffer[tail]
      BY <1>0, <2>5, <2>6
    <2> QED
      BY <2>1, <2>4, <2>5, <2>7, <2>8 DEF RingInv
  <1>7. CASE AtomicQueue!StoreHead
    <2>1. /\ popping.pc = "advance" /\ head' = Step(head, 1) /\ head' \in Places /\ head # popping.seen
          /\ popping' = [popping EXCEPT !.pc = "count", !.value = nullptr]
          /\ UNCHANGED <<buffer, tail, pushing>>
      BY <1>0, <1>7, AfterStep DEF AtomicQueue!StoreHead, RingInv
    <2>2. /\ popping' \in [pc : {"idle", "exchange", "advance", "count"}, value : Elements \cup {nullptr}, seen : Places]
          /\ popping'.seen = popping.seen /\ popping'.pc = "count"
      BY <2>1 DEF RingInv
    <2>3. /\ Gap(pushing.seen, tail) = Gap(pushing.seen, head') + Gap(head', tail)
          /\ Gap(head', tail) = Gap(head', popping.seen) + Gap(popping.seen, tail)
          /\ Gap(head', tail) = Gap(head, tail) - 1 /\ head # tail
      <3>1. head # tail /\ Gap(head, tail) = Gap(head, popping.seen) + Gap(popping.seen, tail)
        BY <1>0, <2>1 DEF RingInv, Places, Gap
      <3>2. Gap(pushing.seen, tail) = Gap(pushing.seen, head') + Gap(head', tail)
        BY <1>0, <2>1, <3>1, RingHeadMoves DEF RingInv
      <3>3. Gap(head', tail) = Gap(head, tail) - 1 /\ Gap(head', popping.seen) = Gap(head, popping.seen) - 1
        BY <1>0, <2>1, <3>1, RingMoves
      <3>4. Gap(head, popping.seen) \in Int /\ Gap(popping.seen, tail) \in Int
        <4>1. Gap(head, popping.seen) \in Places /\ Gap(popping.seen, tail) \in Places
          BY <1>0, RingTypes
        <4> QED
          BY <1>0, <4>1 DEF Places
      <3> QED
        BY <1>0, <3>1, <3>2, <3>3, <3>4
    <2>4. ASSUME NEW k \in 0 .. Gap(head', tail) - 1
          PROVE  buffer[Step(head', k)] \in Elements
      <3>1. PICK n \in Int : n = k + 1
        OBVIOUS
      <3>2. n \in 1 .. Gap(head, tail) - 1 /\ n \in 0 .. Gap(head, tail) - 1 /\ n # 0 /\ n - 1 = k
        BY <1>0, <2>3, <3>1
      <3>3. Step(head', k) = Step(head, n)
        BY <1>0, <2>1, <2>3, <3>2, RingMoves
      <3> QED
        BY <3>2, <3>3 DEF RingInv
    <2>5. Gap(head, tail)' = Gap(head', tail)
      BY <2>1 DEF Gap
    <2>6. \A k : Step(head, k)' = Step(head', k)
      BY <2>1 DEF Step
    <2>7. Gap(pushing.seen, tail)' = Gap(pushing.seen, head)' + Gap(head, tail)'
      BY <2>1, <2>3 DEF Gap
    <2>8. Gap(head, tail)' = Gap(head, popping.seen)' + Gap(popping.seen, tail)'
      BY <2>1, <2>2, <2>3 DEF Gap
    <2>9. Step(tail, 1)' = Step(tail, 1)
      BY <2>1 DEF Step
    <2> QED
      BY <2>1, <2>2, <2>4, <2>5, <2>6, <2>7, <2>8, <2>9 DEF RingInv
  <1>8. CASE AtomicQueue!CountPop
    <2>1. popping' = [popping EXCEPT !.pc = "idle"] /\ popping.pc = "count" /\ UNCHANGED <<buffer, head, tail, pushing>>
      BY <1>8 DEF AtomicQueue!CountPop
    <2>2. /\ popping' \in [pc : {"idle", "exchange", "advance", "count"}, value : Elements \cup {nullptr}, seen : Places]
          /\ popping'.seen = popping.seen /\ popping'.pc = "idle"
      BY <2>1 DEF RingInv
    <2> QED
      BY <2>1, <2>2 DEF RingInv
  <1> QED
    BY <1>1, <1>2, <1>3, <1>4, <1>5, <1>6, <1>7, <1>8 DEF AtomicQueue!Next

(* What the ring holds, oldest first.                                      *)
HeldShape(held, n) ==
  /\ n \in Nat /\ n = Gap(head, tail) /\ held \in Seq(Elements) /\ Len(held) = n
  /\ \A k \in 1 .. n :
       held[k] = IF k = 1 /\ popping.pc = "advance" THEN popping.value ELSE buffer[Step(head, k - 1)]

(* Held is a sequence of elements.                                         *)
LEMMA HeldSeq == RingAssumption /\ RingInv => HeldShape(AtomicQueue!Held, Gap(head, tail))
  <1> SUFFICES ASSUME RingAssumption, RingInv PROVE HeldShape(AtomicQueue!Held, Gap(head, tail))
    OBVIOUS
  <1>1. head \in Places /\ tail \in Places /\ RingSize \in Nat \ {0}
    BY DEF RingInv, RingAssumption
  <1>2. PICK n \in Nat : n = Gap(head, tail) /\ n < RingSize
    BY <1>1, RingTypes DEF Places
  <1>3. (tail - head) % RingSize = n
    BY <1>1, <1>2, RingRemainders
  <1>4. ASSUME NEW k \in 1 .. n PROVE (head + k - 1) % RingSize = Step(head, k - 1)
    <2>1. PICK i \in Places : i = k - 1
      BY <1>1, <1>2 DEF Places
    <2>2. (head + i) % RingSize = Step(head, i)
      BY <1>1, RingRemainders
    <2>3. head + i = head + k - 1
      BY <1>1, <2>1 DEF Places
    <2> QED
      BY <2>1, <2>2, <2>3
  <1>5. ASSUME NEW k \in 1 .. n
        PROVE  (IF k = 1 /\ popping.pc = "advance" THEN popping.value ELSE buffer[Step(head, k - 1)]) \in Elements
    <2>1. PICK i \in 0 .. n - 1 : i = k - 1
      OBVIOUS
    <2>2. (i = 0 /\ popping.pc = "advance") \/ buffer[Step(head, i)] \in Elements
      BY <1>2 DEF RingInv
    <2>3. popping.pc = "advance" => popping.value \in Elements
      BY DEF RingInv
    <2>4. i = 0 <=> k = 1
      BY <2>1
    <2> QED
      BY <2>1, <2>2, <2>3, <2>4
  <1>6. AtomicQueue!Held =
          [k \in 1 .. n |-> IF k = 1 /\ popping.pc = "advance" THEN popping.value ELSE buffer[Step(head, k - 1)]]
    BY <1>3, <1>4 DEF AtomicQueue!Held
  <1> DEFINE held == AtomicQueue!Held
  <1> HIDE DEF held
  <1>7. held \in [1 .. n -> Elements]
    BY <1>5, <1>6 DEF held
  <1>8. held \in Seq(Elements) /\ Len(held) = n
    BY <1>7
  <1> QED
    BY <1>2, <1>6, <1>8 DEF HeldShape, held

(* ... also after a step.                                                  *)
LEMMA HeldSeqNext == (RingAssumption /\ RingInv => HeldShape(AtomicQueue!Held, Gap(head, tail)))'
  BY HeldSeq, PTL

(* Two sequences with the same elements are the same.                      *)
LEMMA SameElements ==
  ASSUME NEW S, NEW s \in Seq(S), NEW u \in Seq(S), Len(s) = Len(u), \A k \in 1 .. Len(s) : s[k] = u[k]
  PROVE  s = u
  OBVIOUS

(* What the ring holds before and after a step.                            *)
LEMMA HeldBoth ==
  ASSUME RingAssumption, RingInv, RingInv'
  PROVE  /\ Gap(head, tail) \in Nat /\ AtomicQueue!Held \in Seq(Elements) /\ Len(AtomicQueue!Held) = Gap(head, tail)
         /\ \A k \in 1 .. Gap(head, tail) : AtomicQueue!Held[k] =
              IF k = 1 /\ popping.pc = "advance" THEN popping.value ELSE buffer[Step(head, k - 1)]
         /\ Gap(head', tail') \in Nat /\ AtomicQueue!Held' \in Seq(Elements)
         /\ Len(AtomicQueue!Held') = Gap(head', tail')
         /\ \A k \in 1 .. Gap(head', tail') : AtomicQueue!Held'[k] =
              IF k = 1 /\ popping'.pc = "advance" THEN popping'.value ELSE buffer'[Step(head', k - 1)]
  <1>1. HeldShape(AtomicQueue!Held, Gap(head, tail))
    BY HeldSeq
  <1>2. HeldShape(AtomicQueue!Held, Gap(head, tail))'
    BY HeldSeqNext
  <1>3. Gap(head, tail)' = Gap(head', tail') /\ \A k : Step(head, k)' = Step(head', k)
    BY DEF Gap, Step
  <1> QED
    BY <1>1, <1>2, <1>3 DEF HeldShape

(* A step that leaves every element held in its place.                     *)
LEMMA HeldStays ==
  ASSUME RingAssumption, RingInv, RingInv', UNCHANGED <<head, tail>>,
         \A k \in 1 .. Gap(head, tail) :
           (IF k = 1 /\ popping'.pc = "advance" THEN popping'.value ELSE buffer'[Step(head, k - 1)])
             = (IF k = 1 /\ popping.pc = "advance" THEN popping.value ELSE buffer[Step(head, k - 1)])
  PROVE  AtomicQueue!Held' = AtomicQueue!Held
  <1> DEFINE s == AtomicQueue!Held
             u == AtomicQueue!Held'
             n == Gap(head, tail)
  <1>1. /\ n \in Nat /\ s \in Seq(Elements) /\ Len(s) = n /\ u \in Seq(Elements) /\ Len(u) = n
        /\ \A k \in 1 .. n : s[k] =
              IF k = 1 /\ popping.pc = "advance" THEN popping.value ELSE buffer[Step(head, k - 1)]
        /\ \A k \in 1 .. n : u[k] =
              IF k = 1 /\ popping'.pc = "advance" THEN popping'.value ELSE buffer'[Step(head, k - 1)]
    BY HeldBoth
  <1>2. \A k \in 1 .. n : u[k] = s[k]
    BY <1>1
  <1> HIDE DEF s, u, n
  <1>3. u = s
    BY <1>1, <1>2, SameElements
  <1> QED
    BY <1>3 DEF s, u

(* Publishing the tail appends the element that was stored there.          *)
LEMMA TailAppends ==
  ASSUME RingAssumption, RingInv, RingInv', AtomicQueue!StoreTail
  PROVE  \E v \in Elements : AtomicQueue!Fifo!Put(v)
  <1>0. head \in Places /\ tail \in Places /\ pushing.seen \in Places
    BY DEF RingInv
  <1>1. /\ pushing.pc = "publish" /\ tail' = Step(tail, 1) /\ tail' \in Places /\ tail' # pushing.seen
        /\ UNCHANGED <<buffer, head, popping, fronted>> /\ buffer[tail] \in Elements
    BY <1>0, AfterStep DEF AtomicQueue!StoreTail, RingInv
  <1> DEFINE s == AtomicQueue!Held
             u == AtomicQueue!Held'
             n == Gap(head, tail)
             v == buffer[tail]
             w == Append(s, v)
  <1>2. Gap(head, tail') = n + 1
    BY <1>0, <1>1, RingTailMoves DEF RingInv
  <1>3. /\ n \in Nat /\ s \in Seq(Elements) /\ Len(s) = n /\ u \in Seq(Elements) /\ Len(u) = n + 1
        /\ \A k \in 1 .. n : s[k] =
              IF k = 1 /\ popping.pc = "advance" THEN popping.value ELSE buffer[Step(head, k - 1)]
        /\ \A k \in 1 .. n + 1 : u[k] =
              IF k = 1 /\ popping.pc = "advance" THEN popping.value ELSE buffer[Step(head, k - 1)]
    BY <1>1, <1>2, HeldBoth
  <1>4. n < RingSize - 1
    <2>1. Gap(head, tail') \in Places
      BY <1>0, <1>1, RingTypes
    <2>2. n + 1 \in Places
      BY <1>2, <2>1
    <2> QED
      BY <1>3, <2>2 DEF Places, RingAssumption
  <1>5. popping.pc = "advance" => n > 0
    <2>1. SUFFICES ASSUME popping.pc = "advance" PROVE n # 0
      BY <1>3
    <2>2. head # popping.seen /\ popping.seen \in Places /\ n = Gap(head, popping.seen) + Gap(popping.seen, tail)
      BY <2>1 DEF RingInv
    <2> QED
      BY <1>0, <2>2 DEF Places, Gap, RingAssumption
  <1>6. u[n + 1] = v
    <2>1. n + 1 \in 1 .. n + 1 /\ (n + 1) - 1 = n
      BY <1>3
    <2>2. Step(head, n) = tail
      BY <1>0, RingMoves
    <2>3. ~(n + 1 = 1 /\ popping.pc = "advance")
      BY <1>3, <1>5
    <2> QED
      BY <1>3, <2>1, <2>2, <2>3
  <1> HIDE DEF s, u, n, v
  <1>7. w \in Seq(Elements) /\ Len(w) = n + 1 /\ w[n + 1] = v /\ \A k \in 1 .. n : w[k] = s[k]
    BY <1>1, <1>3 DEF v
  <1>8. \A k \in 1 .. n + 1 : u[k] = w[k]
    <2> SUFFICES ASSUME NEW k \in 1 .. n + 1 PROVE u[k] = w[k]
      OBVIOUS
    <2>1. CASE k = n + 1
      BY <1>6, <1>7, <2>1
    <2>2. CASE k # n + 1
      <3>1. k \in 1 .. n
        BY <1>3, <2>2
      <3> QED
        BY <1>3, <1>7, <3>1
    <2> QED
      BY <2>1, <2>2
  <1> HIDE DEF w
  <1>9. u = w
    BY <1>3, <1>7, <1>8, SameElements
  <1>10. AtomicQueue!Held' = Append(AtomicQueue!Held, buffer[tail]) /\ Len(AtomicQueue!Held) < RingSize - 1
    BY <1>3, <1>4, <1>9 DEF s, u, n, v, w
  <1> QED
    BY <1>1, <1>10 DEF AtomicQueue!Fifo!Put

(* Moving the head removes the oldest element.                             *)
LEMMA HeadRemoves ==
  ASSUME RingAssumption, RingInv, RingInv', AtomicQueue!StoreHead
  PROVE  AtomicQueue!Fifo!Remove
  <1>0. head \in Places /\ tail \in Places /\ popping.seen \in Places
    BY DEF RingInv
  <1>1. /\ popping.pc = "advance" /\ head' = Step(head, 1) /\ head' \in Places /\ head # popping.seen
        /\ popping'.pc = "count" /\ UNCHANGED <<buffer, tail, fronted>>
    BY <1>0, AfterStep DEF AtomicQueue!StoreHead, RingInv
  <1> DEFINE s == AtomicQueue!Held
             u == AtomicQueue!Held'
             n == Gap(head, tail)
             w == Tail(s)
  <1>2. head # tail
    <2>1. n = Gap(head, popping.seen) + Gap(popping.seen, tail)
      BY DEF RingInv
    <2> QED
      BY <1>0, <1>1, <2>1 DEF Places, Gap, RingAssumption
  <1>3. Gap(head', tail') = n - 1 /\ n > 0
    BY <1>0, <1>1, <1>2, RingMoves
  <1>4. /\ n \in Nat /\ s \in Seq(Elements) /\ Len(s) = n /\ u \in Seq(Elements) /\ Len(u) = n - 1
        /\ \A k \in 1 .. n : s[k] =
              IF k = 1 /\ popping.pc = "advance" THEN popping.value ELSE buffer[Step(head, k - 1)]
        /\ \A k \in 1 .. n - 1 : u[k] = buffer[Step(head', k - 1)]
    BY <1>1, <1>3, HeldBoth
  <1>5. \A k \in 1 .. n - 1 : Step(head', k - 1) = Step(head, k)
    BY <1>0, <1>1, <1>2, RingMoves
  <1> HIDE DEF s, u, n
  <1>6. s # <<>> /\ w \in Seq(Elements) /\ Len(w) = n - 1 /\ \A k \in 1 .. n - 1 : w[k] = s[k + 1]
    BY <1>3, <1>4
  <1>7. \A k \in 1 .. n - 1 : u[k] = w[k]
    <2> SUFFICES ASSUME NEW k \in 1 .. n - 1 PROVE u[k] = w[k]
      OBVIOUS
    <2>1. PICK i \in 1 .. n : i = k + 1 /\ i # 1 /\ i - 1 = k
      BY <1>4
    <2>2. s[i] = buffer[Step(head, k)]
      BY <1>4, <2>1
    <2> QED
      BY <1>4, <1>5, <1>6, <2>1, <2>2
  <1> HIDE DEF w
  <1>8. u = w
    BY <1>4, <1>6, <1>7, SameElements
  <1>9. AtomicQueue!Held' = Tail(AtomicQueue!Held) /\ AtomicQueue!Held # <<>>
    BY <1>6, <1>8 DEF s, u, w
  <1> QED
    BY <1>1, <1>9 DEF AtomicQueue!Fifo!Remove

(* Every step of CAtomicQueue is a step of the FIFO or leaves it alone.    *)
LEMMA RingStepRefines ==
  ASSUME RingAssumption, RingInv, RingInv', AtomicQueue!Next
  PROVE  AtomicQueue!Fifo!Next \/ UNCHANGED AtomicQueue!Fifo!fifoVars
  <1> USE DEF AtomicQueue!ring
  <1>0. head \in Places /\ tail \in Places /\ popping.seen \in Places
    BY DEF RingInv
  <1>1. ASSUME AtomicQueue!Held' = AtomicQueue!Held, UNCHANGED fronted
        PROVE  UNCHANGED AtomicQueue!Fifo!fifoVars
    BY <1>1 DEF AtomicQueue!Fifo!fifoVars
  <1>2. CASE UNCHANGED <<buffer, head, tail, fronted>> /\ popping.pc # "advance" /\ popping'.pc # "advance"
    BY <1>1, <1>2, HeldStays
  <1>3. CASE UNCHANGED <<buffer, head, tail, popping, fronted>>
    BY <1>1, <1>3, HeldStays
  <1>4. CASE AtomicQueue!StoreElement
    <2>1. UNCHANGED <<head, tail, popping, fronted>> /\ buffer' = [buffer EXCEPT ![tail] = pushing.value]
      BY <1>4 DEF AtomicQueue!StoreElement
    <2>2. \A i \in Places : i # tail => buffer'[i] = buffer[i]
      BY <1>0, <2>1 DEF RingInv
    <2>3. ASSUME NEW k \in 1 .. Gap(head, tail) PROVE buffer'[Step(head, k - 1)] = buffer[Step(head, k - 1)]
      <3>1. Gap(head, tail) \in Nat
        BY HeldBoth
      <3>2. PICK i \in 0 .. Gap(head, tail) - 1 : i = k - 1
        BY <3>1
      <3> QED
        BY <1>0, <2>2, <3>2, RingMoves
    <2>4. AtomicQueue!Held' = AtomicQueue!Held
      BY <2>1, <2>3, HeldStays
    <2> QED
      BY <1>1, <2>1, <2>4
  <1>5. CASE AtomicQueue!StoreTail
    BY <1>5, TailAppends DEF AtomicQueue!Fifo!Next
  <1>6. CASE AtomicQueue!StoreHead
    BY <1>6, HeadRemoves DEF AtomicQueue!Fifo!Next
  <1>7. CASE AtomicQueue!Exchange
    <2>1. /\ popping.pc = "exchange" /\ head # popping.seen /\ UNCHANGED <<head, tail, fronted>>
          /\ buffer' = [buffer EXCEPT ![head] = nullptr]
          /\ popping'.value = buffer[head] /\ (popping'.pc = "advance" \/ buffer[head] = nullptr)
      BY <1>7 DEF AtomicQueue!Exchange, RingInv
    <2>2. Gap(head, tail) \in Nat /\ Gap(head, tail) = Gap(head, popping.seen) + Gap(popping.seen, tail)
      BY HeldBoth DEF RingInv
    <2>3. head # tail /\ Gap(head, tail) > 0
      <3>1. Gap(head, popping.seen) > 0 /\ Gap(head, head) = 0
        BY <1>0, <2>1, RingMoves
      <3>2. Gap(head, popping.seen) \in Places /\ Gap(popping.seen, tail) \in Places
        BY <1>0, RingTypes
      <3>3. Gap(head, tail) > 0
        BY <2>2, <3>1, <3>2 DEF Places
      <3> QED
        BY <3>1, <3>3
    <2>4. popping'.pc = "advance"
      <3>1. 0 \in 0 .. Gap(head, tail) - 1 /\ Step(head, 0) = head
        BY <1>0, <2>2, <2>3, RingMoves
      <3>2. buffer[head] \in Elements
        BY <2>1, <3>1 DEF RingInv
      <3> QED
        BY <2>1, <3>2 DEF RingAssumption
    <2>5. \A i \in Places : i # head => buffer'[i] = buffer[i]
      BY <1>0, <2>1 DEF RingInv
    <2>6. ASSUME NEW k \in 1 .. Gap(head, tail)
          PROVE  (IF k = 1 /\ popping'.pc = "advance" THEN popping'.value ELSE buffer'[Step(head, k - 1)])
                   = (IF k = 1 /\ popping.pc = "advance" THEN popping.value ELSE buffer[Step(head, k - 1)])
      <3>1. PICK i \in 0 .. Gap(head, tail) - 1 : i = k - 1
        BY <2>2
      <3>2. CASE k = 1
        <4>1. Step(head, i) = head
          BY <1>0, <3>1, <3>2, RingMoves
        <4> QED
          BY <2>1, <2>4, <3>1, <3>2, <4>1
      <3>3. CASE k # 1
        <4>1. i \in 1 .. Gap(head, tail) - 1
          BY <2>2, <3>1, <3>3
        <4>2. Step(head, i) # head /\ Step(head, i) \in Places
          BY <1>0, <2>3, <3>1, <4>1, RingMoves
        <4> QED
          BY <2>5, <3>1, <3>3, <4>2
      <3> QED
        BY <3>2, <3>3
    <2>7. AtomicQueue!Held' = AtomicQueue!Held
      BY <2>1, <2>6, HeldStays
    <2> QED
      BY <1>1, <2>1, <2>7
  <1>8. ASSUME NEW t \in AtomicQueue!Between(popping.seen, tail), AtomicQueue!front(t)
        PROVE  AtomicQueue!Fifo!Look \/ UNCHANGED AtomicQueue!Fifo!fifoVars
    <2>1. /\ UNCHANGED <<buffer, head, tail>> /\ popping.pc = "idle" /\ popping'.pc = "idle"
          /\ fronted' = IF head = t THEN fronted ELSE buffer[head]
      BY <1>8 DEF AtomicQueue!front, RingInv
    <2>2. AtomicQueue!Held' = AtomicQueue!Held
      BY <2>1, HeldStays
    <2>3. CASE head = t
      BY <1>1, <2>1, <2>2, <2>3
    <2>4. CASE head # t
      <3>1. t \in Places /\ Gap(popping.seen, t) + Gap(t, tail) = Gap(popping.seen, tail)
        BY <1>0, BetweenMeans
      <3>2. Gap(head, tail) = Gap(head, t) + Gap(t, tail)
        BY <1>0, <3>1, RingLook DEF RingInv
      <3>3. Gap(head, tail) > 0
        BY <1>0, <2>4, <3>1, <3>2 DEF Places, Gap, RingAssumption
      <3>4. 1 \in 1 .. Gap(head, tail) /\ Step(head, 0) = head
        BY <1>0, <3>3, HeldBoth, RingMoves
      <3>5. AtomicQueue!Held # <<>> /\ AtomicQueue!Held[1] = buffer[head]
        BY <2>1, <3>3, <3>4, HeldBoth
      <3> QED
        BY <2>1, <2>2, <2>4, <3>5 DEF AtomicQueue!Fifo!Look
    <2> QED
      BY <2>3, <2>4
  <1>9. ASSUME NEW t, AtomicQueue!pop(t) PROVE UNCHANGED AtomicQueue!Fifo!fifoVars
    <2>1. UNCHANGED <<buffer, head, tail, fronted>> /\ popping.pc = "idle" /\ popping'.pc # "advance"
      BY <1>9 DEF AtomicQueue!pop, RingInv
    <2> QED
      BY <1>1, <2>1, HeldStays
  <1>10. CASE AtomicQueue!CountPop
    <2>1. UNCHANGED <<buffer, head, tail, fronted>> /\ popping.pc = "count" /\ popping'.pc # "advance"
      BY <1>10 DEF AtomicQueue!CountPop, RingInv
    <2> QED
      BY <1>2, <2>1
  <1>11. CASE AtomicQueue!CountPush \/ \E v \in Elements : \E h : AtomicQueue!try_push(v, h)
    BY <1>3, <1>11 DEF AtomicQueue!CountPush, AtomicQueue!try_push
  <1> QED
    BY <1>4, <1>5, <1>6, <1>7, <1>8, <1>9, <1>10, <1>11 DEF AtomicQueue!Next, AtomicQueue!Fifo!Next

(* CAtomicQueue hands the consumer the elements pushed, in their order,    *)
(* none twice and none lost, for a ring of any capacity and however the    *)
(* steps of try_push, front and pop interleave.  The ring has at least one *)
(* place, and new never returns a null pointer.                            *)
THEOREM AtomicQueueImplementsFifo ==
  ASSUME RingAssumption
  PROVE  MCSpec => ImplementsPointerFifo
  <1>1. MCInit => RingInv /\ AtomicQueue!Fifo!Init
    <2> SUFFICES ASSUME AtomicQueue!Init PROVE RingInv /\ AtomicQueue!Fifo!Init
      BY DEF MCInit
    <2>1. /\ head = 0 /\ tail = 0 /\ 0 \in Places /\ Gap(0, 0) = 0
          /\ buffer = [i \in Places |-> nullptr] /\ fronted = nullptr
          /\ pushing = [pc |-> "idle", value |-> nullptr, seen |-> 0] /\ popping = pushing
      BY DEF AtomicQueue!Init, AtomicQueue!Idle, Places, Gap, RingAssumption
    <2>2. pushing.pc = "idle" /\ popping.pc = "idle" /\ pushing.seen = 0 /\ popping.seen = 0
      BY <2>1
    <2>3. RingInv
      BY <2>1, <2>2 DEF RingInv
    <2>4. AtomicQueue!Held \in Seq(Elements) /\ Len(AtomicQueue!Held) = 0
      BY <2>1, <2>3, HeldSeq DEF HeldShape
    <2>5. AtomicQueue!Held = <<>>
      BY <2>4
    <2> QED
      BY <2>1, <2>3, <2>5 DEF AtomicQueue!Fifo!Init
  <1>2. RingInv /\ [MCNext]_allVars
          => RingInv' /\ [AtomicQueue!Fifo!Next]_(AtomicQueue!Fifo!fifoVars)
    <2> SUFFICES ASSUME RingInv, [MCNext]_allVars
                 PROVE  RingInv' /\ (AtomicQueue!Fifo!Next \/ UNCHANGED AtomicQueue!Fifo!fifoVars)
      OBVIOUS
    <2>1. CASE AtomicQueue!Next
      BY <2>1, RingInvStep, RingStepRefines
    <2>2. CASE UNCHANGED atomicVars
      <3>1. UNCHANGED <<buffer, head, tail, popping, pushing, fronted>>
        BY <2>2 DEF atomicVars
      <3>2. RingInv'
        BY <3>1 DEF RingInv, Gap, Step
      <3> QED
        BY <3>1, <3>2, HeldStays DEF AtomicQueue!Fifo!fifoVars
    <2> QED
      BY <2>1, <2>2 DEF MCNext, allVars
  <1> QED
    BY <1>1, <1>2, PTL DEF MCSpec, ImplementsPointerFifo, AtomicQueue!ImplementsFifo

-----------------------------------------------------------------------------
(* AtomicKFifo.  The indices run freely; the proof unwraps them: there are *)
(* natural numbers S <= O <= C <= I, no more than the capacity apart, of   *)
(* which the indices and what the two threads saw of them are the          *)
(* remainders.                                                             *)

(* Powers of two: the larger one is a multiple of the smaller one.         *)
LEMMA PowersDivide ==
  ASSUME NEW P, P = [i \in Nat |-> IF i = 0 THEN 1 ELSE 2 * P[i - 1]]
  PROVE  /\ P[0] = 1 /\ P[1] = 2 /\ \A i \in Nat : P[i] \in Nat \ {0}
         /\ \A i, j \in Nat : P[i + j] = P[i] * P[j]
         /\ \A j \in Nat \ {0} : P[j] >= 2
  <1>1. P[0] = 1 /\ \A i \in Nat : P[i + 1] = 2 * P[i]
    <2>1. \A i \in Nat : P[i] = IF i = 0 THEN 1 ELSE 2 * P[i - 1]
      BY Zenon
    <2>2. \A i \in Nat : i + 1 \in Nat /\ i + 1 # 0 /\ (i + 1) - 1 = i
      OBVIOUS
    <2> QED
      BY <2>1, <2>2
  <1>2. \A i \in Nat : P[i] \in Nat \ {0}
    <2> DEFINE T == {i \in Nat : P[i] \notin Nat \ {0}}
    <2>1. SUFFICES ASSUME T # {} PROVE FALSE
      OBVIOUS
    <2>2. PICK m \in T : \A k \in T : m <= k
      <3>1. T \subseteq Nat
        OBVIOUS
      <3> HIDE DEF T
      <3> QED
        BY <2>1, <3>1, LeastNumber
    <2>3. m # 0
      BY <1>1, <2>2
    <2>4. PICK j \in Nat : m = j + 1
      <3>1. m - 1 \in Nat /\ m = (m - 1) + 1
        BY <2>2, <2>3
      <3> QED
        BY <3>1
    <2>5. P[j] \in Nat \ {0}
      BY <2>2, <2>4
    <2>6. P[m] = 2 * P[j]
      BY <1>1, <2>4
    <2> QED
      BY <2>2, <2>5, <2>6
  <1>3. ASSUME NEW i \in Nat, NEW j \in Nat PROVE P[i + j] = P[i] * P[j]
    <2> DEFINE T == {k \in Nat : P[i + k] # P[i] * P[k]}
    <2>1. SUFFICES ASSUME T # {} PROVE FALSE
      OBVIOUS
    <2>2. PICK m \in T : \A k \in T : m <= k
      <3>1. T \subseteq Nat
        OBVIOUS
      <3> HIDE DEF T
      <3> QED
        BY <2>1, <3>1, LeastNumber
    <2>3. PICK x \in Nat : x = P[i]
      BY <1>2
    <2>4. m # 0
      <3>1. x * 1 = x /\ i + 0 = i
        OBVIOUS
      <3> QED
        BY <1>1, <2>2, <2>3, <3>1
    <2>5. PICK k \in Nat : m = k + 1
      <3>1. m - 1 \in Nat /\ m = (m - 1) + 1
        BY <2>2, <2>4
      <3> QED
        BY <3>1
    <2>6. P[i + k] = x * P[k]
      <3>1. ~(m <= k)
        BY <2>5
      <3>2. k \notin T
        BY <2>2, <3>1
      <3> QED
        BY <2>3, <3>2
    <2>7. PICK y \in Nat : y = P[k]
      BY <1>2
    <2>8. P[m] = 2 * y /\ P[i + m] = 2 * (x * y)
      <3>1. i + k \in Nat /\ i + m = (i + k) + 1
        BY <2>5
      <3> QED
        BY <1>1, <2>5, <2>6, <2>7, <3>1
    <2>9. 2 * (x * y) = x * (2 * y)
      OBVIOUS
    <2> QED
      BY <2>2, <2>3, <2>8, <2>9
  <1>4. P[1] = 2
    <2>1. 0 \in Nat /\ 0 + 1 = 1
      OBVIOUS
    <2>2. P[0 + 1] = 2 * P[0]
      BY <1>1
    <2> QED
      BY <1>1, <2>1, <2>2
  <1>5. ASSUME NEW j \in Nat \ {0} PROVE P[j] >= 2
    <2>1. PICK k \in Nat : j = k + 1
      <3>1. j - 1 \in Nat /\ j = (j - 1) + 1
        OBVIOUS
      <3> QED
        BY <3>1
    <2>2. P[j] = 2 * P[k] /\ P[k] \in Nat \ {0}
      BY <1>1, <1>2, <2>1
    <2> QED
      BY <2>2
  <1> QED
    BY <1>1, <1>2, <1>3, <1>4, <1>5

(* Whatever capacity is asked for, the one of the ring divides the number  *)
(* of values of an index.                                                  *)
LEMMA CapacityDivides ==
  ASSUME NEW r \in Requests
  PROVE  LET cap == ByteQueue!CapacityFor(r) IN
         cap \in Nat /\ 2 <= cap /\ cap < IndexRange /\ \E m \in Nat : IndexRange = cap * m
  <1>1. PICK P : P = ByteQueue!PowerOfTwo
    OBVIOUS
  <1>2. P = [i \in Nat |-> IF i = 0 THEN 1 ELSE 2 * P[i - 1]]
    BY <1>1 DEF ByteQueue!PowerOfTwo
  <1>3. /\ P[0] = 1 /\ P[1] = 2 /\ \A i \in Nat : P[i] \in Nat \ {0}
        /\ \A i, j \in Nat : P[i + j] = P[i] * P[j]
        /\ \A j \in Nat \ {0} : P[j] >= 2
    BY <1>2, PowersDivide
  <1>4. PICK w \in 2 .. 64 : IndexRange = P[w]
    BY <1>1, RangeAssumption
  <1>5. IndexRange \in Nat /\ IndexRange >= 2
    <2>1. w \in Nat /\ w \in Nat \ {0}
      OBVIOUS
    <2>2. P[w] \in Nat \ {0} /\ P[w] >= 2
      BY <1>3, <2>1
    <2> QED
      BY <1>4, <2>2
  <1>6. ASSUME NEW i \in 1 .. w - 1
        PROVE  P[i] \in Nat /\ 2 <= P[i] /\ P[i] < IndexRange /\ \E m \in Nat : IndexRange = P[i] * m
    <2>1. w - i \in Nat \ {0} /\ i + (w - i) = w /\ i \in Nat \ {0} /\ w \in Nat
      BY <1>4
    <2>2. PICK m \in Nat : m = P[w - i] /\ m >= 2
      BY <1>3, <2>1
    <2>3. IndexRange = P[i] * m
      BY <1>3, <1>4, <2>1, <2>2
    <2>4. PICK x \in Nat : x = P[i] /\ x >= 2
      BY <1>3, <2>1
    <2>5. x < x * m
      BY <2>2, <2>4
    <2> QED
      BY <2>2, <2>3, <2>4, <2>5
  <1>7. PICK v \in Nat : v = ByteQueue!roundup_power_of_two(r) /\ (v < 2 \/ \E i \in 1 .. w - 1 : v = P[i])
    <2>1. CASE r = 0
      BY <2>1 DEF ByteQueue!roundup_power_of_two
    <2>2. CASE r # 0
      <3> DEFINE T == {i \in 0 .. 64 : r <= P[i]}
      <3>1. IndexRange \in Nat /\ r \in Nat /\ r < IndexRange
        BY <1>5, RequestAssumption
      <3>2. w \in T
        BY <1>4, <3>1
      <3>3. PICK n \in T : \A k \in T : n <= k
        <4>1. T \subseteq Nat /\ T # {}
          BY <3>2
        <4> HIDE DEF T
        <4> QED
          BY <4>1, LeastNumber
      <3>4. \E i \in 0 .. 64 : r <= P[i] /\ \A j \in 0 .. i - 1 : P[j] < r
        <4>1. ASSUME NEW j \in 0 .. n - 1 PROVE P[j] < r
          <5>1. j \in 0 .. 64 /\ ~(n <= j) /\ j \in Nat
            BY <3>3
          <5>2. j \notin T
            BY <3>3, <5>1
          <5>3. P[j] \in Nat
            BY <1>3, <5>1
          <5> QED
            BY <3>1, <5>1, <5>2, <5>3
        <4> QED
          BY <3>3, <4>1
      <3>5. PICK i : i = CHOOSE e \in 0 .. 64 : r <= P[e] /\ \A j \in 0 .. e - 1 : P[j] < r
        OBVIOUS
      <3>6. i \in 0 .. 64 /\ r <= P[i] /\ \A j \in 0 .. i - 1 : P[j] < r
        BY <3>4, <3>5
      <3>7. i <= w
        <4>1. SUFFICES ASSUME w < i PROVE FALSE
          BY <1>4, <3>6
        <4>2. w \in 0 .. i - 1
          BY <1>4, <3>6, <4>1
        <4> QED
          BY <1>4, <3>1, <3>6, <4>2
      <3>8. ByteQueue!roundup_power_of_two(r) = P[i] % IndexRange
        BY <1>1, <2>2, <3>5 DEF ByteQueue!roundup_power_of_two
      <3>9. CASE i = w
        <4>1. P[i] % IndexRange = 0
          BY <1>4, <1>5, <3>9
        <4> QED
          BY <3>8, <4>1
      <3>10. CASE i \in 1 .. w - 1
        <4>1. P[i] % IndexRange = P[i] /\ P[i] \in Nat
          BY <1>6, <3>1, <3>10, ModSmall
        <4> QED
          BY <3>8, <3>10, <4>1
      <3>11. CASE i = 0
        <4>1. 1 % IndexRange = 1
          BY <1>5
        <4> QED
          BY <1>3, <3>8, <3>11, <4>1
      <3> QED
        BY <1>4, <3>6, <3>7, <3>9, <3>10, <3>11
    <2> QED
      BY <2>1, <2>2
  <1>8. PICK cap : cap = ByteQueue!CapacityFor(r)
    OBVIOUS
  <1>9. \E i \in 1 .. w - 1 : cap = P[i]
    <2>1. 1 \in 1 .. w - 1 /\ P[1] = 2
      BY <1>3, <1>4
    <2>2. cap = IF v < 2 THEN 2 ELSE v
      BY <1>7, <1>8 DEF ByteQueue!CapacityFor
    <2> QED
      BY <1>7, <2>1, <2>2
  <1> QED
    BY <1>6, <1>8, <1>9

(* Arithmetic of the unwrapped indices.  R is the number of values of an   *)
(* index and a multiple of the capacity c.                                 *)

Divides(c, R) == \E m \in Nat : R = c * m

(* A cell is found from the index as from the unwrapped one.               *)
LEMMA CellOfIndex ==
  ASSUME NEW c \in Nat \ {0}, NEW R \in Nat \ {0}, NEW x \in Nat, NEW y \in Int
  PROVE  Divides(c, R) => ((x % R) + y) % c = (x + y) % c
  <1>1. x \in Int
    OBVIOUS
  <1>2. PICK d : d = x \div R
    OBVIOUS
  <1>3. PICK r : r = x % R
    OBVIOUS
  <1>4. d \in Int /\ r \in Int /\ x = R * d + r
    BY <1>1, <1>2, <1>3, DivMod
  <1>5. PICK z : z = r + y
    OBVIOUS
  <1>6. z \in Int
    BY <1>4, <1>5
  <1>7. ASSUME Divides(c, R) PROVE (x + y) % c = z % c
    <2>1. PICK m \in Nat : R = c * m
      BY <1>7 DEF Divides
    <2>2. PICK q : q = m * d
      OBVIOUS
    <2>3. q \in Int
      BY <1>4, <2>1, <2>2
    <2>4. (z + c * q) % c = z % c
      BY <1>6, <2>3, ModAddMultiple
    <2>5. (c * m) * d = c * (m * d)
      BY <1>4, <2>1
    <2>6. R * d = c * q
      BY <2>1, <2>2, <2>5
    <2>7. z + c * q = x + y
      BY <1>4, <1>5, <2>6
    <2> QED
      BY <2>4, <2>7
  <1> QED
    BY <1>3, <1>5, <1>7

(* Consecutive cells, up to the end of the buffer and on from its front.   *)
LEMMA CellsFrom ==
  ASSUME NEW c \in Nat \ {0}, NEW x \in Nat, NEW k \in Nat
  PROVE  /\ (x % c) \in 0 .. c - 1
         /\ (x % c) + k < c => (x + k) % c = (x % c) + k
         /\ c <= (x % c) + k /\ k < c => (x + k) % c = (x % c) + k - c
  <1>1. PICK a \in 0 .. c - 1 : a = x % c
    BY DivMod
  <1>2. (a + k) % c = (x + k) % c
    <2>1. x \in Int /\ k \in Int
      OBVIOUS
    <2> QED
      BY <1>1, <2>1, ModAdd
  <1>3. PICK z \in Nat : z = a + k
    BY <1>1
  <1>4. z < c => z % c = z
    BY ModSmall
  <1>5. c <= z /\ z < 2 * c => z % c = z - c
    <2>1. z \in Int
      BY <1>3
    <2> QED
      BY <2>1, ModOver
  <1>6. k < c => z < 2 * c
    BY <1>1, <1>3
  <1> QED
    BY <1>1, <1>2, <1>3, <1>4, <1>5, <1>6

(* Unwrapped indices less than the capacity apart have different cells.    *)
LEMMA CellsApart ==
  ASSUME NEW c \in Nat \ {0}, NEW x \in Nat, NEW y \in Nat, x < y, y < x + c
  PROVE  x % c # y % c
  <1>1. SUFFICES ASSUME x % c = y % c PROVE FALSE
    OBVIOUS
  <1>2. ((y % c) - (x % c)) % c = (y - x) % c
    <2>1. x \in Int /\ y \in Int
      OBVIOUS
    <2> QED
      BY <2>1, ModDifference
  <1>3. (y % c) - (x % c) = 0
    BY <1>1, DivMod
  <1>4. PICK d \in Nat : d = y - x /\ 0 < d /\ d < c
    OBVIOUS
  <1>5. d % c = d
    BY <1>4, ModSmall
  <1>6. 0 % c = 0
    OBVIOUS
  <1> QED
    BY <1>2, <1>3, <1>4, <1>5, <1>6

(* len() of two indices is the distance of the unwrapped ones.             *)
LEMMA LengthMeans ==
  ASSUME IndexRange \in Nat \ {0}, NEW x \in Nat, NEW y \in Nat, y <= x, x < y + IndexRange
  PROVE  ByteQueue!Length(x % IndexRange, y % IndexRange) = x - y
  <1>1. ((x % IndexRange) - (y % IndexRange)) % IndexRange = (x - y) % IndexRange
    <2>1. x \in Int /\ y \in Int
      OBVIOUS
    <2> QED
      BY <2>1, ModDifference
  <1>2. PICK d \in Nat : d = x - y /\ d < IndexRange
    OBVIOUS
  <1>3. d % IndexRange = d
    BY <1>2, ModSmall
  <1> QED
    BY <1>1, <1>2, <1>3 DEF ByteQueue!Length

(* A load returns an unwrapped index between the two.                      *)
LEMMA LoadMeans ==
  ASSUME IndexRange \in Nat \ {0}, NEW x \in Nat, NEW y \in Nat, y <= x, x < y + IndexRange,
         NEW v \in ByteQueue!Between(y % IndexRange, x % IndexRange)
  PROVE  \E z \in Nat : y <= z /\ z <= x /\ v = z % IndexRange
  <1>1. ByteQueue!Length(x % IndexRange, y % IndexRange) = x - y
    BY LengthMeans
  <1>2. PICK k \in 0 .. x - y : v = ((y % IndexRange) + k) % IndexRange
    BY <1>1 DEF ByteQueue!Between
  <1>3. ((y % IndexRange) + k) % IndexRange = (y + k) % IndexRange
    <2>1. k \in Int /\ y \in Int
      BY <1>2
    <2> QED
      BY <2>1, ModAdd
  <1>4. y + k \in Nat /\ y <= y + k /\ y + k <= x
    BY <1>2
  <1> QED
    BY <1>2, <1>3, <1>4

Phases == {"idle", "first", "rest", "publish"}
ProducerType == [pc : Phases, data : Seq(Bytes), seen : Nat]
ConsumerType == [pc : Phases, n : Nat, data : Seq(Bytes), seen : Nat, peek : BOOLEAN]

(* The ring of bytes; its capacity divides the number of index values.     *)
BytesType ==
  /\ capacity_ \in Nat \ {0} /\ capacity_ < IndexRange /\ IndexRange \in Nat \ {0}
  /\ Divides(capacity_, IndexRange)
  /\ buffer_ \in [1 .. capacity_ -> Bytes]
  /\ producer \in ProducerType /\ consumer \in ConsumerType /\ got \in Seq(Bytes)

(* The cell of the unwrapped index n in a buffer of c bytes; what a        *)
(* buffer b holds from n on; how many of k bytes lie before its end.       *)
Cell(c, n) == (n % c) + 1
Holds(b, c, n, s, k) == \A i \in 1 .. k : b[Cell(c, n + i - 1)] = s[i]
InOnePiece(c, n, k) == IF k <= c - (n % c) THEN k ELSE c - (n % c)

(* The unwrapped indices I and O, and what the producer saw of O, S, and   *)
(* the consumer of I, C                                                    *)
Unwrapped(I, O, S, C) ==
  /\ in_idx_ = I % IndexRange /\ out_idx_ = O % IndexRange
  /\ producer.seen = S % IndexRange /\ consumer.seen = C % IndexRange
  /\ S <= O /\ O <= C /\ C <= I /\ I <= S + capacity_

(* There is room for what a producer p puts; what it has copied is there.  *)
Putting(c, b, p, I, S) ==
  /\ I + Len(p.data) <= S + c
  /\ p.pc = "idle" <=> Len(p.data) = 0
  /\ p.pc = "rest" => Holds(b, c, I, p.data, InOnePiece(c, I, Len(p.data)))
                      /\ InOnePiece(c, I, Len(p.data)) < Len(p.data)
  /\ p.pc = "publish" => Holds(b, c, I, p.data, Len(p.data))

(* What a consumer q gets has been put, and what it has copied, in the end *)
(* g, is still there.                                                      *)
Getting(c, b, q, g, O, C) ==
  /\ q.pc # "idle" => 0 < q.n /\ O + q.n <= C
  /\ q.pc = "rest" => /\ Len(q.data) = InOnePiece(c, O, q.n) /\ InOnePiece(c, O, q.n) < q.n
                      /\ Holds(b, c, O, q.data, InOnePiece(c, O, q.n))
  /\ q.pc = "publish" => Len(g) = q.n /\ Holds(b, c, O, g, q.n)

ByteState(I, O, S, C) ==
  /\ Unwrapped(I, O, S, C)
  /\ Putting(capacity_, buffer_, producer, I, S)
  /\ Getting(capacity_, buffer_, consumer, got, O, C)

ByteInv == BytesType /\ \E I, O, S, C \in Nat : ByteState(I, O, S, C)

(* What a buffer b holds between the unwrapped indices O and I             *)
HeldBetween(h, b, c, O, I) == h \in Seq(Bytes) /\ Len(h) = I - O /\ Holds(b, c, O, h, I - O)

(* Piece() of an index.                                                    *)
LEMMA PieceMeans ==
  ASSUME BytesType, NEW n \in Nat, NEW k \in Nat
  PROVE  /\ (n % IndexRange) % capacity_ = n % capacity_
         /\ ByteQueue!Piece(capacity_, n % IndexRange, k) = InOnePiece(capacity_, n, k)
         /\ InOnePiece(capacity_, n, k) \in Nat /\ InOnePiece(capacity_, n, k) <= k
         /\ k > 0 => InOnePiece(capacity_, n, k) > 0
  <1>1. Divides(capacity_, IndexRange)
    BY DEF BytesType
  <1>2. capacity_ \in Nat \ {0} /\ IndexRange \in Nat \ {0} /\ 0 \in Int
    BY DEF BytesType
  <1>3. ((n % IndexRange) + 0) % capacity_ = (n + 0) % capacity_
    BY <1>1, <1>2, CellOfIndex
  <1>4. (n % IndexRange) \in Int /\ n + 0 = n
    BY <1>2, DivMod
  <1>5. (n % IndexRange) % capacity_ = n % capacity_
    BY <1>3, <1>4
  <1>6. (n % capacity_) \in 0 .. capacity_ - 1
    BY <1>2, DivMod
  <1>7. ByteQueue!Piece(capacity_, n % IndexRange, k) = InOnePiece(capacity_, n, k)
    BY <1>5 DEF ByteQueue!Piece, ByteQueue!Least, InOnePiece
  <1>8. PICK p \in 1 .. capacity_ : p = capacity_ - (n % capacity_)
    BY <1>2, <1>6
  <1>9. InOnePiece(capacity_, n, k) = IF k <= p THEN k ELSE p
    BY <1>8 DEF InOnePiece
  <1> QED
    BY <1>2, <1>5, <1>7, <1>8, <1>9

(* Region() of an index.                                                   *)
LEMMA RegionMeans ==
  ASSUME BytesType, NEW n \in Nat, NEW k \in Nat
  PROVE  LET s == ByteQueue!Region(buffer_, n % IndexRange, k)
         IN  s \in Seq(Bytes) /\ Len(s) = k /\ Holds(buffer_, capacity_, n, s, k)
  <1>1. Divides(capacity_, IndexRange)
    BY DEF BytesType
  <1>2. /\ capacity_ \in Nat \ {0} /\ IndexRange \in Nat \ {0} /\ buffer_ \in [1 .. capacity_ -> Bytes]
        /\ Len(buffer_) = capacity_
    BY DEF BytesType
  <1>3. PICK s : s = ByteQueue!Region(buffer_, n % IndexRange, k)
    OBVIOUS
  <1>4. s = [i \in 1 .. k |-> buffer_[(((n % IndexRange) + i - 1) % capacity_) + 1]]
    BY <1>2, <1>3 DEF ByteQueue!Region
  <1>5. ASSUME NEW i \in 1 .. k
        PROVE  /\ ((n % IndexRange) + i - 1) % capacity_ = (n + i - 1) % capacity_
               /\ Cell(capacity_, n + i - 1) \in 1 .. capacity_
    <2>1. PICK y \in Int : y = i - 1
      OBVIOUS
    <2>2. ((n % IndexRange) + y) % capacity_ = (n + y) % capacity_
      BY <1>1, <1>2, CellOfIndex
    <2>3. (n % IndexRange) \in Int
      BY <1>2, DivMod
    <2>4. (n % IndexRange) + y = (n % IndexRange) + i - 1 /\ n + y = n + i - 1 /\ n + y \in Int
      BY <2>1, <2>3
    <2>5. ((n + y) % capacity_) \in 0 .. capacity_ - 1
      BY <1>2, <2>4, DivMod
    <2> QED
      BY <1>2, <2>2, <2>4, <2>5 DEF Cell
  <1>6. \A i \in 1 .. k : s[i] = buffer_[Cell(capacity_, n + i - 1)] /\ s[i] \in Bytes
    BY <1>2, <1>4, <1>5 DEF Cell
  <1>7. s \in [1 .. k -> Bytes]
    BY <1>4, <1>6
  <1>8. s \in Seq(Bytes) /\ Len(s) = k
    BY <1>7
  <1> QED
    BY <1>3, <1>6, <1>8 DEF Holds

(* What the queue holds.                                                   *)
LEMMA HeldMeans ==
  \A I, O, S, C \in Nat :
    BytesType /\ Unwrapped(I, O, S, C) => HeldBetween(ByteQueue!Held, buffer_, capacity_, O, I)
  <1> SUFFICES ASSUME NEW I \in Nat, NEW O \in Nat, NEW S \in Nat, NEW C \in Nat, BytesType, Unwrapped(I, O, S, C)
               PROVE  HeldBetween(ByteQueue!Held, buffer_, capacity_, O, I)
    OBVIOUS
  <1>1. IndexRange \in Nat \ {0} /\ capacity_ \in Nat /\ capacity_ < IndexRange
    BY DEF BytesType
  <1>2. O <= I /\ I < O + IndexRange
    BY <1>1 DEF Unwrapped
  <1>3. in_idx_ = I % IndexRange /\ out_idx_ = O % IndexRange
    BY DEF Unwrapped
  <1>4. ByteQueue!Length(in_idx_, out_idx_) = I - O
    BY <1>1, <1>2, <1>3, LengthMeans
  <1>5. PICK k \in Nat : k = I - O
    BY <1>2
  <1>6. ByteQueue!Held = ByteQueue!Region(buffer_, O % IndexRange, k)
    BY <1>3, <1>4, <1>5 DEF ByteQueue!Held
  <1> QED
    BY <1>5, <1>6, RegionMeans DEF HeldBetween

LEMMA HeldMeansNext ==
  (\A I, O, S, C \in Nat :
     BytesType /\ Unwrapped(I, O, S, C) => HeldBetween(ByteQueue!Held, buffer_, capacity_, O, I))'
  BY HeldMeans, PTL

(* The cells of what is put and of what is held are different ones.        *)
LEMMA CellsFree ==
  ASSUME NEW c \in Nat \ {0}, NEW I \in Nat, NEW j \in Nat, NEW i \in Nat \ {0}, j < I, I + i <= j + c
  PROVE  Cell(c, j) # Cell(c, I + i - 1)
  <1>1. PICK y \in Nat : y = I + i - 1
    OBVIOUS
  <1>2. j < y /\ y < j + c
    BY <1>1
  <1>3. j % c # y % c
    BY <1>2, CellsApart
  <1>4. (j % c) \in Int /\ (y % c) \in Int
    BY DivMod
  <1> QED
    BY <1>1, <1>3, <1>4 DEF Cell

(* A consumer does not notice what is written elsewhere.                   *)
LEMMA GettingKept ==
  ASSUME NEW c \in Nat \ {0}, NEW b, NEW b2, NEW q, q.n \in Nat, NEW g, NEW O \in Nat, NEW C \in Nat, NEW I \in Nat,
         C <= I, Getting(c, b, q, g, O, C), \A j \in O .. I - 1 : b2[Cell(c, j)] = b[Cell(c, j)],
         InOnePiece(c, O, q.n) \in Nat, InOnePiece(c, O, q.n) <= q.n
  PROVE  Getting(c, b2, q, g, O, C)
  <1>1. ASSUME NEW s, NEW k \in Nat, O + k <= C, Holds(b, c, O, s, k) PROVE Holds(b2, c, O, s, k)
    <2> SUFFICES ASSUME NEW i \in 1 .. k PROVE b2[Cell(c, O + i - 1)] = s[i]
      BY DEF Holds
    <2>1. O + i - 1 \in O .. I - 1
      BY <1>1
    <2>2. b[Cell(c, O + i - 1)] = s[i]
      BY <1>1 DEF Holds
    <2> QED
      BY <2>1, <2>2
  <1>2. PICK k \in Nat : k = InOnePiece(c, O, q.n)
    OBVIOUS
  <1>3. q.pc # "idle" => 0 < q.n /\ O + q.n <= C
    BY DEF Getting
  <1>4. q.pc # "idle" => O + k <= C
    BY <1>2, <1>3
  <1>5. q.pc = "rest" => Len(q.data) = k /\ k < q.n /\ Holds(b, c, O, q.data, k)
    BY <1>2 DEF Getting
  <1>6. q.pc = "rest" => Holds(b2, c, O, q.data, k)
    BY <1>1, <1>4, <1>5
  <1>7. q.pc = "publish" => Len(g) = q.n /\ Holds(b, c, O, g, q.n)
    BY DEF Getting
  <1>8. q.pc = "publish" => Holds(b2, c, O, g, q.n)
    BY <1>1, <1>3, <1>7
  <1> QED
    BY <1>2, <1>3, <1>5, <1>6, <1>7, <1>8 DEF Getting

(* put() loads what the consumer has freed and takes what fits.            *)
LEMMA PutStep ==
  ASSUME BytesType, NEW I \in Nat, NEW O \in Nat, NEW S \in Nat, NEW C \in Nat, ByteState(I, O, S, C),
         NEW data \in ByteQueue!Data, NEW out \in ByteQueue!OutViews, ByteQueue!Put(data, out)
  PROVE  BytesType' /\ \E T \in Nat : ByteState(I, O, T, C)'
  <1>1. capacity_ \in Nat \ {0} /\ capacity_ < IndexRange /\ IndexRange \in Nat \ {0}
    BY DEF BytesType
  <1>2. /\ in_idx_ = I % IndexRange /\ out_idx_ = O % IndexRange
        /\ producer.seen = S % IndexRange /\ consumer.seen = C % IndexRange
        /\ S <= O /\ O <= C /\ C <= I /\ I <= S + capacity_
    BY DEF ByteState, Unwrapped
  <1>3. PICK T \in Nat : S <= T /\ T <= O /\ out = T % IndexRange
    <2>1. O < S + IndexRange
      BY <1>1, <1>2
    <2>2. out \in ByteQueue!Between(S % IndexRange, O % IndexRange)
      BY <1>2 DEF ByteQueue!OutViews
    <2> QED
      BY <1>1, <1>2, <2>1, <2>2, LoadMeans
  <1>4. data \in Seq(Bytes) /\ Len(data) \in Nat
    BY DEF ByteQueue!Data
  <1>5. PICK a \in Nat : a = capacity_ - (I - T)
    BY <1>1, <1>2, <1>3
  <1>6. ByteQueue!Avail(capacity_, in_idx_, out) = a
    <2>1. ByteQueue!Length(in_idx_, out) = I - T
      <3>1. T <= I /\ I < T + IndexRange
        BY <1>1, <1>2, <1>3
      <3> QED
        BY <1>1, <1>2, <1>3, <3>1, LengthMeans
    <2>2. a < IndexRange
      BY <1>1, <1>2, <1>3, <1>5
    <2>3. a % IndexRange = a
      BY <1>1, <2>2, ModSmall
    <2> QED
      BY <1>5, <2>1, <2>3 DEF ByteQueue!Avail
  <1>7. PICK n \in Nat : n = ByteQueue!Least(Len(data), a) /\ n <= a /\ n <= Len(data)
    BY <1>4, <1>5 DEF ByteQueue!Least
  <1>8. PICK s : s = SubSeq(data, 1, n)
    OBVIOUS
  <1>9. s \in Seq(Bytes) /\ Len(s) = n
    BY <1>4, <1>7, <1>8
  <1>10. PICK p : p = [pc |-> IF n = 0 THEN "idle" ELSE "first", data |-> s, seen |-> out]
    OBVIOUS
  <1>11. producer' = p /\ UNCHANGED <<capacity_, buffer_, in_idx_, out_idx_, consumer, got>>
    BY <1>6, <1>7, <1>8, <1>10 DEF ByteQueue!Put, ByteQueue!ring
  <1>12. out \in Nat
    BY <1>1, <1>3, DivMod
  <1>13. p \in ProducerType
    BY <1>9, <1>10, <1>12 DEF ProducerType, Phases
  <1>14. p.pc = (IF n = 0 THEN "idle" ELSE "first") /\ p.data = s /\ p.seen = out
    BY <1>10
  <1>15. BytesType'
    BY <1>11, <1>13 DEF BytesType
  <1>16. I + n <= T + capacity_ /\ I <= T + capacity_
    BY <1>1, <1>2, <1>3, <1>5, <1>7
  <1>17. Unwrapped(I, O, T, C)'
    BY <1>2, <1>3, <1>11, <1>14, <1>16 DEF Unwrapped
  <1>18. Putting(capacity_, buffer_, p, I, T)
    BY <1>9, <1>14, <1>16 DEF Putting
  <1>19. ByteState(I, O, T, C)'
    BY <1>11, <1>17, <1>18 DEF ByteState
  <1> QED
    BY <1>15, <1>19

(* The first memcpy of put() writes up to the end of the buffer.           *)
LEMMA PutFirstStep ==
  ASSUME BytesType, NEW I \in Nat, NEW O \in Nat, NEW S \in Nat, NEW C \in Nat, ByteState(I, O, S, C),
         ByteQueue!PutFirst
  PROVE  /\ BytesType' /\ ByteState(I, O, S, C)'
         /\ \A j \in O .. I - 1 : buffer_'[Cell(capacity_, j)] = buffer_[Cell(capacity_, j)]
  <1>1. PICK c : c = capacity_
    OBVIOUS
  <1>2. c \in Nat \ {0} /\ c < IndexRange /\ buffer_ \in [1 .. c -> Bytes] /\ Len(buffer_) = c
    BY <1>1 DEF BytesType
  <1>3. PICK data : data = producer.data
    OBVIOUS
  <1>4. /\ data \in Seq(Bytes) /\ Len(data) \in Nat /\ producer.seen \in Nat /\ producer \in ProducerType
        /\ consumer \in ConsumerType /\ consumer.n \in Nat
    BY <1>3 DEF BytesType, ProducerType, ConsumerType
  <1>5. PICK n \in Nat : n = Len(data)
    BY <1>4
  <1>6. PICK l \in Nat : l = InOnePiece(c, I, n) /\ l <= n
    BY <1>1, <1>5, PieceMeans
  <1>7. in_idx_ = I % IndexRange /\ S <= O /\ O <= C /\ C <= I /\ I <= S + c
    BY <1>1 DEF ByteState, Unwrapped
  <1>8. producer.pc = "first" /\ I + n <= S + c /\ (producer.pc = "idle" <=> n = 0)
    BY <1>1, <1>3, <1>5 DEF ByteState, Putting, ByteQueue!PutFirst
  <1>9. n > 0
    BY <1>5, <1>8
  <1>10. PICK at \in 0 .. c - 1 : at = I % c
    BY <1>2, DivMod
  <1>11. l <= c - at
    BY <1>6, <1>10, <1>2 DEF InOnePiece
  <1>12. ByteQueue!InFront = l /\ in_idx_ % Len(buffer_) = at
    BY <1>1, <1>2, <1>3, <1>5, <1>6, <1>7, <1>10, PieceMeans DEF ByteQueue!InFront
  <1>13. PICK b : b = buffer_'
    OBVIOUS
  <1>14. b = [o \in 1 .. c |-> IF o \in at + 1 .. at + l THEN data[o - at] ELSE buffer_[o]]
    BY <1>2, <1>3, <1>12, <1>13 DEF ByteQueue!PutFirst, ByteQueue!CopyFirst
  <1>15. b \in [1 .. c -> Bytes]
    <2>1. ASSUME NEW o \in 1 .. c, o \in at + 1 .. at + l PROVE data[o - at] \in Bytes
      <3>1. o - at \in 1 .. Len(data)
        BY <1>5, <1>6, <1>10, <2>1
      <3> QED
        BY <1>4, <3>1
    <2> QED
      BY <1>2, <1>14, <2>1
  <1>16. ASSUME NEW i \in 1 .. l PROVE Cell(c, I + i - 1) = at + i /\ at + i \in 1 .. c
    <2>1. PICK k \in Nat : k = i - 1
      OBVIOUS
    <2>2. at + k < c /\ I + k = I + i - 1 /\ at + i \in 1 .. c
      BY <1>2, <1>6, <1>10, <1>11, <2>1
    <2>3. (I + k) % c = at + k
      BY <1>2, <1>10, <2>1, <2>2, CellsFrom
    <2> QED
      BY <1>10, <2>1, <2>2, <2>3 DEF Cell
  <1>17. Holds(b, c, I, data, l)
    <2> SUFFICES ASSUME NEW i \in 1 .. l PROVE b[Cell(c, I + i - 1)] = data[i]
      BY DEF Holds
    <2>1. at + i \in at + 1 .. at + l /\ (at + i) - at = i
      BY <1>6, <1>10
    <2> QED
      BY <1>14, <1>16, <2>1
  <1>18. ASSUME NEW j \in O .. I - 1 PROVE b[Cell(c, j)] = buffer_[Cell(c, j)]
    <2>1. j \in Nat /\ j \in Int /\ j < I
      BY <1>7
    <2>2. Cell(c, j) \in 1 .. c
      <3>1. (j % c) \in 0 .. c - 1
        BY <1>2, <2>1, DivMod
      <3> QED
        BY <1>2, <3>1 DEF Cell
    <2>3. Cell(c, j) \notin at + 1 .. at + l
      <3>1. SUFFICES ASSUME Cell(c, j) \in at + 1 .. at + l PROVE FALSE
        OBVIOUS
      <3>2. PICK i \in 1 .. l : Cell(c, j) = at + i
        <4>1. Cell(c, j) - at \in 1 .. l /\ Cell(c, j) = at + (Cell(c, j) - at)
          BY <1>6, <1>10, <2>2, <3>1
        <4> QED
          BY <4>1
      <3>3. I + i <= j + c /\ i \in Nat \ {0}
        BY <1>2, <1>6, <1>7, <1>8, <2>1
      <3>4. Cell(c, j) # Cell(c, I + i - 1)
        BY <1>2, <2>1, <3>3, CellsFree
      <3>5. Cell(c, I + i - 1) = at + i
        BY <1>16
      <3> QED
        BY <3>2, <3>4, <3>5
    <2> QED
      BY <1>14, <2>2, <2>3
  <1>19. PICK p : p = [producer EXCEPT !.pc = IF n > l THEN "rest" ELSE "publish"]
    OBVIOUS
  <1>20. p \in ProducerType
    BY <1>4, <1>19 DEF ProducerType, Phases
  <1>21. p.pc = (IF n > l THEN "rest" ELSE "publish") /\ p.data = data /\ p.seen = producer.seen
    BY <1>3, <1>4, <1>19 DEF ProducerType
  <1>22. producer' = p /\ UNCHANGED <<capacity_, in_idx_, out_idx_, consumer, got>>
    BY <1>3, <1>5, <1>12, <1>19 DEF ByteQueue!PutFirst
  <1>23. BytesType'
    BY <1>1, <1>13, <1>15, <1>20, <1>22 DEF BytesType
  <1>24. Unwrapped(I, O, S, C)'
    BY <1>21, <1>22 DEF ByteState, Unwrapped
  <1>25. Putting(c, b, p, I, S)
    <2>1. n = l \/ l < n
      BY <1>6
    <2> QED
      BY <1>5, <1>6, <1>8, <1>9, <1>17, <1>21, <2>1 DEF Putting
  <1>26. Getting(c, b, consumer, got, O, C)
    <2>1. Getting(c, buffer_, consumer, got, O, C)
      BY <1>1 DEF ByteState
    <2>2. InOnePiece(c, O, consumer.n) \in Nat /\ InOnePiece(c, O, consumer.n) <= consumer.n
      BY <1>1, <1>4, PieceMeans
    <2> QED
      BY <1>2, <1>4, <1>7, <1>18, <2>1, <2>2, GettingKept
  <1>27. ByteState(I, O, S, C)'
    BY <1>1, <1>13, <1>22, <1>24, <1>25, <1>26 DEF ByteState
  <1> QED
    BY <1>1, <1>13, <1>18, <1>23, <1>27

(* The second memcpy of put() writes the rest to the front.                *)
LEMMA PutRestStep ==
  ASSUME BytesType, NEW I \in Nat, NEW O \in Nat, NEW S \in Nat, NEW C \in Nat, ByteState(I, O, S, C),
         ByteQueue!PutRest
  PROVE  /\ BytesType' /\ ByteState(I, O, S, C)'
         /\ \A j \in O .. I - 1 : buffer_'[Cell(capacity_, j)] = buffer_[Cell(capacity_, j)]
  <1>1. PICK c : c = capacity_
    OBVIOUS
  <1>2. c \in Nat \ {0} /\ c < IndexRange /\ buffer_ \in [1 .. c -> Bytes]
    BY <1>1 DEF BytesType
  <1>3. PICK data : data = producer.data
    OBVIOUS
  <1>4. /\ data \in Seq(Bytes) /\ Len(data) \in Nat /\ producer.seen \in Nat /\ producer \in ProducerType
        /\ consumer \in ConsumerType /\ consumer.n \in Nat
    BY <1>3 DEF BytesType, ProducerType, ConsumerType
  <1>5. PICK n \in Nat : n = Len(data)
    BY <1>4
  <1>6. PICK l \in Nat : l = InOnePiece(c, I, n) /\ l <= n
    BY <1>1, <1>5, PieceMeans
  <1>7. in_idx_ = I % IndexRange /\ S <= O /\ O <= C /\ C <= I /\ I <= S + c
    BY <1>1 DEF ByteState, Unwrapped
  <1>8. producer.pc = "rest" /\ I + n <= S + c /\ Holds(buffer_, c, I, data, l) /\ l < n
    BY <1>1, <1>3, <1>5, <1>6 DEF ByteState, Putting, ByteQueue!PutRest
  <1>9. PICK at \in 0 .. c - 1 : at = I % c
    BY <1>2, DivMod
  <1>10. l = c - at
    BY <1>2, <1>6, <1>8, <1>9 DEF InOnePiece
  <1>11. ByteQueue!InFront = l
    BY <1>1, <1>3, <1>5, <1>6, <1>7, PieceMeans DEF ByteQueue!InFront
  <1>12. PICK b : b = buffer_'
    OBVIOUS
  <1>13. b = [o \in 1 .. c |-> IF l + o <= n THEN data[l + o] ELSE buffer_[o]]
    BY <1>2, <1>3, <1>5, <1>11, <1>12 DEF ByteQueue!PutRest, ByteQueue!CopyRest
  <1>14. b \in [1 .. c -> Bytes]
    <2>1. ASSUME NEW o \in 1 .. c, l + o <= n PROVE data[l + o] \in Bytes
      <3>1. l + o \in 1 .. Len(data)
        BY <1>5, <1>6, <2>1
      <3> QED
        BY <1>4, <3>1
    <2> QED
      BY <1>2, <1>13, <2>1
  <1>15. n <= c
    BY <1>2, <1>7, <1>8
  <1>16. ASSUME NEW i \in 1 .. n, l < i PROVE Cell(c, I + i - 1) = i - l /\ i - l \in 1 .. c
    <2>1. PICK k \in Nat : k = i - 1
      OBVIOUS
    <2>2. c <= at + k /\ k < c /\ I + k = I + i - 1 /\ at + k - c = i - 1 - l /\ i - l \in 1 .. c
      BY <1>2, <1>6, <1>9, <1>10, <1>15, <1>16, <2>1
    <2>3. (I + k) % c = at + k - c
      BY <1>2, <1>9, <2>1, <2>2, CellsFrom
    <2>4. (I + i - 1) % c = i - 1 - l
      BY <2>2, <2>3
    <2> QED
      BY <1>6, <2>2, <2>4 DEF Cell
  <1>17. ASSUME NEW i \in 1 .. l PROVE Cell(c, I + i - 1) = at + i /\ at + i \in 1 .. c
    <2>1. PICK k \in Nat : k = i - 1
      OBVIOUS
    <2>2. at + k < c /\ I + k = I + i - 1 /\ at + i \in 1 .. c
      BY <1>2, <1>9, <1>10, <2>1
    <2>3. (I + k) % c = at + k
      BY <1>2, <1>9, <2>1, <2>2, CellsFrom
    <2> QED
      BY <1>9, <2>1, <2>2, <2>3 DEF Cell
  <1>18. Holds(b, c, I, data, n)
    <2> SUFFICES ASSUME NEW i \in 1 .. n PROVE b[Cell(c, I + i - 1)] = data[i]
      BY DEF Holds
    <2>1. CASE l < i
      <3>1. Cell(c, I + i - 1) = i - l /\ i - l \in 1 .. c
        BY <1>16, <2>1
      <3>2. l + (i - l) = i /\ i <= n
        BY <1>6
      <3> QED
        BY <1>13, <3>1, <3>2
    <2>2. CASE i <= l
      <3>1. i \in 1 .. l
        BY <1>6, <2>2
      <3>2. Cell(c, I + i - 1) = at + i /\ at + i \in 1 .. c
        BY <1>17, <3>1
      <3>3. ~(l + (at + i) <= n)
        BY <1>2, <1>9, <1>10, <1>15
      <3>4. buffer_[Cell(c, I + i - 1)] = data[i]
        BY <1>8, <3>1 DEF Holds
      <3> QED
        BY <1>13, <3>2, <3>3, <3>4
    <2> QED
      BY <1>6, <2>1, <2>2
  <1>19. ASSUME NEW j \in O .. I - 1 PROVE b[Cell(c, j)] = buffer_[Cell(c, j)]
    <2>1. j \in Nat /\ j \in Int /\ j < I
      BY <1>7
    <2>2. Cell(c, j) \in 1 .. c
      <3>1. (j % c) \in 0 .. c - 1
        BY <1>2, <2>1, DivMod
      <3> QED
        BY <1>2, <3>1 DEF Cell
    <2>3. ~(l + Cell(c, j) <= n)
      <3>1. SUFFICES ASSUME l + Cell(c, j) <= n PROVE FALSE
        OBVIOUS
      <3>2. PICK i \in 1 .. n : i = l + Cell(c, j) /\ l < i
        BY <1>6, <2>2, <3>1
      <3>3. I + i <= j + c /\ i \in Nat \ {0}
        BY <1>2, <1>7, <1>8, <2>1
      <3>4. Cell(c, j) # Cell(c, I + i - 1)
        BY <1>2, <2>1, <3>3, CellsFree
      <3>5. Cell(c, I + i - 1) = i - l
        BY <1>16, <3>2
      <3> QED
        BY <1>6, <2>2, <3>2, <3>4, <3>5
    <2> QED
      BY <1>13, <2>2, <2>3
  <1>20. PICK p : p = [producer EXCEPT !.pc = "publish"]
    OBVIOUS
  <1>21. p \in ProducerType
    BY <1>4, <1>20 DEF ProducerType, Phases
  <1>22. p.pc = "publish" /\ p.data = data /\ p.seen = producer.seen
    BY <1>3, <1>4, <1>20 DEF ProducerType
  <1>23. producer' = p /\ UNCHANGED <<capacity_, in_idx_, out_idx_, consumer, got>>
    BY <1>20 DEF ByteQueue!PutRest
  <1>24. BytesType'
    BY <1>1, <1>12, <1>14, <1>21, <1>23 DEF BytesType
  <1>25. Unwrapped(I, O, S, C)'
    BY <1>22, <1>23 DEF ByteState, Unwrapped
  <1>26. Putting(c, b, p, I, S)
    <2>1. n # 0
      BY <1>6, <1>8
    <2> QED
      BY <1>5, <1>8, <1>18, <1>22, <2>1 DEF Putting
  <1>27. Getting(c, b, consumer, got, O, C)
    <2>1. Getting(c, buffer_, consumer, got, O, C)
      BY <1>1 DEF ByteState
    <2>2. InOnePiece(c, O, consumer.n) \in Nat /\ InOnePiece(c, O, consumer.n) <= consumer.n
      BY <1>1, <1>4, PieceMeans
    <2> QED
      BY <1>2, <1>4, <1>7, <1>19, <2>1, <2>2, GettingKept
  <1>28. ByteState(I, O, S, C)'
    BY <1>1, <1>12, <1>23, <1>25, <1>26, <1>27 DEF ByteState
  <1> QED
    BY <1>1, <1>12, <1>19, <1>24, <1>28

(* put() publishes what it has copied.                                     *)
LEMMA PutPublishStep ==
  ASSUME BytesType, NEW I \in Nat, NEW O \in Nat, NEW S \in Nat, NEW C \in Nat, ByteState(I, O, S, C),
         ByteQueue!PutPublish, NEW J \in Nat, J = I + Len(producer.data)
  PROVE  BytesType' /\ ByteState(J, O, S, C)'
  <1>1. PICK c : c = capacity_
    OBVIOUS
  <1>2. c \in Nat \ {0} /\ IndexRange \in Nat \ {0}
    BY <1>1 DEF BytesType
  <1>3. producer \in ProducerType /\ Len(producer.data) \in Nat
    BY DEF BytesType, ProducerType
  <1>4. PICK n \in Nat : n = Len(producer.data)
    BY <1>3
  <1>5. J = I + n
    BY <1>4
  <1>6. in_idx_ = I % IndexRange /\ S <= O /\ O <= C /\ C <= I /\ I + n <= S + c
    BY <1>1, <1>4 DEF ByteState, Unwrapped, Putting
  <1>7. PICK p : p = [producer EXCEPT !.pc = "idle", !.data = <<>>]
    OBVIOUS
  <1>8. p \in ProducerType
    <2>1. <<>> \in Seq(Bytes) /\ "idle" \in Phases
      BY DEF Phases
    <2> QED
      BY <1>3, <1>7, <2>1 DEF ProducerType
  <1>9. p.pc = "idle" /\ p.data = <<>> /\ p.seen = producer.seen
    BY <1>3, <1>7 DEF ProducerType
  <1>10. producer' = p /\ in_idx_' = (in_idx_ + n) % IndexRange /\ UNCHANGED <<capacity_, buffer_, out_idx_, consumer, got>>
    BY <1>4, <1>7 DEF ByteQueue!PutPublish
  <1>11. in_idx_' = J % IndexRange
    <2>1. I \in Int /\ n \in Int
      OBVIOUS
    <2>2. ((I % IndexRange) + n) % IndexRange = (I + n) % IndexRange
      BY <1>2, <2>1, ModAdd
    <2> QED
      BY <1>5, <1>6, <1>10, <2>2
  <1>12. BytesType'
    BY <1>8, <1>10 DEF BytesType
  <1>13. C <= J /\ J <= S + c
    BY <1>2, <1>5, <1>6
  <1>14. Unwrapped(J, O, S, C)'
    BY <1>1, <1>9, <1>10, <1>11, <1>13 DEF ByteState, Unwrapped
  <1>15. Putting(c, buffer_, p, J, S)
    <2>1. Len(p.data) = 0 /\ J + 0 = J
      BY <1>9
    <2> QED
      BY <1>9, <1>13, <2>1 DEF Putting
  <1>16. ByteState(J, O, S, C)'
    BY <1>1, <1>10, <1>14, <1>15 DEF ByteState
  <1> QED
    BY <1>12, <1>16

(* get() and peek() load what the producer has published and take what is  *)
(* there.                                                                  *)
LEMMA GetStep ==
  ASSUME BytesType, NEW I \in Nat, NEW O \in Nat, NEW S \in Nat, NEW C \in Nat, ByteState(I, O, S, C),
         NEW m \in 1 .. MaxLen, NEW in \in ByteQueue!InViews, NEW peek \in BOOLEAN, ByteQueue!Get(m, in, peek)
  PROVE  BytesType' /\ \E T \in Nat : ByteState(I, O, S, T)'
  <1>1. capacity_ \in Nat \ {0} /\ capacity_ < IndexRange /\ IndexRange \in Nat \ {0}
    BY DEF BytesType
  <1>2. /\ in_idx_ = I % IndexRange /\ out_idx_ = O % IndexRange
        /\ producer.seen = S % IndexRange /\ consumer.seen = C % IndexRange
        /\ S <= O /\ O <= C /\ C <= I /\ I <= S + capacity_
    BY DEF ByteState, Unwrapped
  <1>3. PICK T \in Nat : C <= T /\ T <= I /\ in = T % IndexRange
    <2>1. I < C + IndexRange
      BY <1>1, <1>2
    <2>2. in \in ByteQueue!Between(C % IndexRange, I % IndexRange)
      BY <1>2 DEF ByteQueue!InViews
    <2> QED
      BY <1>1, <1>2, <2>1, <2>2, LoadMeans
  <1>4. m \in Nat
    OBVIOUS
  <1>5. PICK a \in Nat : a = T - O
    BY <1>2, <1>3
  <1>6. ByteQueue!Length(in, out_idx_) = a
    <2>1. O <= T /\ T < O + IndexRange
      BY <1>1, <1>2, <1>3
    <2> QED
      BY <1>1, <1>2, <1>3, <1>5, <2>1, LengthMeans
  <1>7. PICK k \in Nat : k = ByteQueue!Least(m, a) /\ k <= a
    <2>1. ByteQueue!Least(m, a) = IF m <= a THEN m ELSE a
      BY DEF ByteQueue!Least
    <2>2. CASE m <= a
      BY <1>4, <2>1, <2>2
    <2>3. CASE ~(m <= a)
      BY <2>1, <2>3
    <2> QED
      BY <2>2, <2>3
  <1>8. PICK q : q = [pc |-> IF k = 0 THEN "idle" ELSE "first", n |-> k, data |-> <<>>, seen |-> in,
                      peek |-> k # 0 /\ peek]
    OBVIOUS
  <1>9. consumer' = q /\ UNCHANGED <<capacity_, buffer_, in_idx_, out_idx_, producer, got>>
    BY <1>6, <1>7, <1>8 DEF ByteQueue!Get, ByteQueue!ring
  <1>10. in \in Nat
    BY <1>1, <1>3, DivMod
  <1>11. q \in ConsumerType
    <2>1. <<>> \in Seq(Bytes) /\ "idle" \in Phases /\ "first" \in Phases
      BY DEF Phases
    <2>2. (k # 0 /\ peek) \in BOOLEAN
      OBVIOUS
    <2> QED
      BY <1>8, <1>10, <2>1, <2>2 DEF ConsumerType
  <1>12. q.pc = (IF k = 0 THEN "idle" ELSE "first") /\ q.n = k /\ q.seen = in
    BY <1>8
  <1>13. BytesType'
    BY <1>9, <1>11 DEF BytesType
  <1>14. O <= T /\ O + k <= T
    BY <1>2, <1>3, <1>5, <1>7
  <1>15. Unwrapped(I, O, S, T)'
    BY <1>2, <1>3, <1>9, <1>12, <1>14 DEF Unwrapped
  <1>16. Getting(capacity_, buffer_, q, got, O, T)
    BY <1>7, <1>12, <1>14 DEF Getting
  <1>17. ByteState(I, O, S, T)'
    BY <1>9, <1>15, <1>16 DEF ByteState
  <1> QED
    BY <1>13, <1>17

(* All bytes are there: peek() returns, get() goes on.                     *)
LEMMA DeliveredStep ==
  ASSUME BytesType, NEW I \in Nat, NEW O \in Nat, NEW S \in Nat, NEW C \in Nat, ByteState(I, O, S, C),
         consumer.pc # "idle", NEW d \in Seq(Bytes), Len(d) = consumer.n,
         Holds(buffer_, capacity_, O, d, consumer.n),
         ByteQueue!Delivered(d), UNCHANGED <<capacity_, buffer_, in_idx_, out_idx_, producer>>
  PROVE  BytesType' /\ ByteState(I, O, S, C)'
  <1>1. consumer \in ConsumerType /\ consumer.n \in Nat /\ consumer.peek \in BOOLEAN
    BY DEF BytesType, ConsumerType
  <1>2. PICK q : q = consumer'
    OBVIOUS
  <1>3. q = [consumer EXCEPT !.pc = IF consumer.peek THEN "idle" ELSE "publish",
                             !.n = IF consumer.peek THEN 0 ELSE @, !.data = <<>>, !.peek = FALSE]
    BY <1>2 DEF ByteQueue!Delivered
  <1>4. q \in ConsumerType
    <2>1. <<>> \in Seq(Bytes) /\ "idle" \in Phases /\ "publish" \in Phases /\ FALSE \in BOOLEAN
      BY DEF Phases
    <2> QED
      BY <1>1, <1>3, <2>1 DEF ConsumerType
  <1>5. /\ q.pc = (IF consumer.peek THEN "idle" ELSE "publish") /\ q.seen = consumer.seen
        /\ q.n = (IF consumer.peek THEN 0 ELSE consumer.n)
    BY <1>1, <1>3 DEF ConsumerType
  <1>6. got' = d
    BY DEF ByteQueue!Delivered
  <1>7. BytesType'
    BY <1>2, <1>4, <1>6 DEF BytesType
  <1>8. Unwrapped(I, O, S, C)'
    BY <1>2, <1>5 DEF ByteState, Unwrapped
  <1>9. 0 < consumer.n /\ O + consumer.n <= C
    BY DEF ByteState, Getting
  <1>10. Getting(capacity_, buffer_, q, d, O, C)
    BY <1>5, <1>9 DEF Getting
  <1>11. ByteState(I, O, S, C)'
    BY <1>2, <1>6, <1>8, <1>10 DEF ByteState
  <1> QED
    BY <1>7, <1>11

(* The first memcpy of get() and peek() reads up to the end of the buffer. *)
LEMMA GetFirstStep ==
  ASSUME BytesType, NEW I \in Nat, NEW O \in Nat, NEW S \in Nat, NEW C \in Nat, ByteState(I, O, S, C),
         ByteQueue!GetFirst
  PROVE  /\ BytesType' /\ ByteState(I, O, S, C)'
         /\ \/ UNCHANGED got
            \/ /\ 0 < consumer.n /\ got' \in Seq(Bytes) /\ Len(got') = consumer.n
               /\ Holds(buffer_, capacity_, O, got', consumer.n)
  <1>1. consumer \in ConsumerType /\ consumer.n \in Nat /\ capacity_ \in Nat \ {0}
    BY DEF BytesType, ConsumerType
  <1>2. PICK n \in Nat : n = consumer.n
    BY <1>1
  <1>3. PICK l \in Nat : l = InOnePiece(capacity_, O, n) /\ l <= n
    BY PieceMeans
  <1>4. out_idx_ = O % IndexRange
    BY DEF ByteState, Unwrapped
  <1>5. ByteQueue!OutFront = l
    BY <1>2, <1>3, <1>4, PieceMeans DEF ByteQueue!OutFront
  <1>6. PICK d : d = ByteQueue!Region(buffer_, out_idx_, l)
    OBVIOUS
  <1>7. d \in Seq(Bytes) /\ Len(d) = l /\ Holds(buffer_, capacity_, O, d, l)
    BY <1>4, <1>6, RegionMeans
  <1>8. consumer.pc = "first" /\ UNCHANGED <<capacity_, buffer_, in_idx_, out_idx_, producer>>
    BY DEF ByteQueue!GetFirst, ByteQueue!ring
  <1>9. 0 < n /\ O + n <= C
    BY <1>2, <1>8 DEF ByteState, Getting
  <1>10. CASE n = l /\ ByteQueue!Delivered(d)
    <2>1. BytesType' /\ ByteState(I, O, S, C)'
      BY <1>2, <1>7, <1>8, <1>10, DeliveredStep
    <2>2. got' = d
      BY <1>10 DEF ByteQueue!Delivered
    <2> QED
      BY <1>2, <1>7, <1>9, <1>10, <2>1, <2>2
  <1>11. CASE n > l /\ consumer' = [consumer EXCEPT !.pc = "rest", !.data = d] /\ UNCHANGED got
    <2>1. PICK q : q = consumer'
      OBVIOUS
    <2>2. q \in ConsumerType
      <3>1. "rest" \in Phases
        BY DEF Phases
      <3> QED
        BY <1>1, <1>7, <1>11, <2>1, <3>1 DEF ConsumerType
    <2>3. q.pc = "rest" /\ q.data = d /\ q.n = n /\ q.seen = consumer.seen
      BY <1>1, <1>2, <1>11, <2>1 DEF ConsumerType
    <2>4. BytesType'
      BY <1>8, <1>11, <2>1, <2>2 DEF BytesType
    <2>5. Unwrapped(I, O, S, C)'
      BY <1>8, <2>1, <2>3 DEF ByteState, Unwrapped
    <2>6. Getting(capacity_, buffer_, q, got, O, C)
      BY <1>3, <1>7, <1>9, <1>11, <2>3 DEF Getting
    <2>7. ByteState(I, O, S, C)'
      BY <1>8, <1>11, <2>1, <2>5, <2>6 DEF ByteState
    <2> QED
      BY <1>11, <2>4, <2>7
  <1> QED
    BY <1>2, <1>5, <1>6, <1>10, <1>11 DEF ByteQueue!GetFirst

(* The cells of the pieces of n bytes.                                     *)
LEMMA CellsOfPieces ==
  ASSUME NEW c \in Nat \ {0}, NEW x \in Nat, NEW n \in Nat, n <= c, InOnePiece(c, x, n) < n, NEW i \in 1 .. n
  PROVE  /\ InOnePiece(c, x, n) \in 1 .. c
         /\ InOnePiece(c, x, n) < i => Cell(c, x + i - 1) = i - InOnePiece(c, x, n)
  <1>1. PICK at \in 0 .. c - 1 : at = x % c
    BY DivMod
  <1>2. PICK l \in 1 .. c : l = InOnePiece(c, x, n) /\ l = c - at
    BY <1>1 DEF InOnePiece
  <1>3. ASSUME l < i PROVE Cell(c, x + i - 1) = i - l
    <2>1. PICK k \in Nat : k = i - 1
      OBVIOUS
    <2>2. c <= at + k /\ k < c /\ x + k = x + i - 1 /\ at + k - c = i - 1 - l
      BY <1>1, <1>2, <1>3, <2>1
    <2>3. (x + k) % c = at + k - c
      BY <1>1, <2>1, <2>2, CellsFrom
    <2>4. (x + i - 1) % c = i - 1 - l
      BY <2>2, <2>3
    <2> QED
      BY <1>2, <2>4 DEF Cell
  <1> QED
    BY <1>2, <1>3

(* One sequence after another.                                             *)
LEMMA Joined ==
  ASSUME NEW T, NEW s \in Seq(T), NEW u \in Seq(T)
  PROVE  /\ s \o u \in Seq(T) /\ Len(s \o u) = Len(s) + Len(u)
         /\ \A i \in 1 .. Len(s) : (s \o u)[i] = s[i]
         /\ \A i \in 1 .. Len(s) + Len(u) : i > Len(s) => (s \o u)[i] = u[i - Len(s)]
  OBVIOUS

(* The second memcpy of get() and peek() reads the rest from the front.    *)
LEMMA GetRestStep ==
  ASSUME BytesType, NEW I \in Nat, NEW O \in Nat, NEW S \in Nat, NEW C \in Nat, ByteState(I, O, S, C),
         ByteQueue!GetRest
  PROVE  /\ BytesType' /\ ByteState(I, O, S, C)'
         /\ 0 < consumer.n /\ got' \in Seq(Bytes) /\ Len(got') = consumer.n
         /\ Holds(buffer_, capacity_, O, got', consumer.n)
  <1>1. PICK c : c = capacity_
    OBVIOUS
  <1>2. c \in Nat \ {0} /\ buffer_ \in [1 .. c -> Bytes]
    BY <1>1 DEF BytesType
  <1>3. consumer \in ConsumerType /\ consumer.n \in Nat /\ consumer.data \in Seq(Bytes)
    BY DEF BytesType, ConsumerType
  <1>4. PICK n \in Nat : n = consumer.n
    BY <1>3
  <1>5. PICK l \in Nat : l = InOnePiece(c, O, n) /\ l <= n
    BY <1>1, PieceMeans
  <1>6. out_idx_ = O % IndexRange /\ S <= O /\ C <= I /\ I <= S + c
    BY <1>1 DEF ByteState, Unwrapped
  <1>7. ByteQueue!OutFront = l
    BY <1>1, <1>4, <1>5, <1>6, PieceMeans DEF ByteQueue!OutFront
  <1>8. consumer.pc = "rest" /\ UNCHANGED <<capacity_, buffer_, in_idx_, out_idx_, producer>>
    BY DEF ByteQueue!GetRest, ByteQueue!ring
  <1>9. PICK s \in Seq(Bytes) : s = consumer.data
    BY <1>3
  <1>10. 0 < n /\ O + n <= C /\ Len(s) = l /\ l < n /\ Holds(buffer_, c, O, s, l)
    BY <1>1, <1>4, <1>5, <1>8, <1>9 DEF ByteState, Getting
  <1>11. n <= c
    BY <1>2, <1>6, <1>10
  <1>12. PICK r : r = SubSeq(buffer_, 1, n - l)
    OBVIOUS
  <1>13. r \in Seq(Bytes) /\ Len(r) = n - l /\ \A i \in 1 .. n - l : r[i] = buffer_[i]
    <2>1. buffer_ \in Seq(Bytes) /\ Len(buffer_) = c
      BY <1>2
    <2>2. n - l \in Nat /\ n - l <= c
      BY <1>2, <1>5, <1>10, <1>11
    <2> QED
      BY <1>12, <2>1, <2>2
  <1>14. PICK d : d = s \o r
    OBVIOUS
  <1>15. d \in Seq(Bytes) /\ Len(d) = n
    <2>1. d \in Seq(Bytes) /\ Len(d) = Len(s) + Len(r)
      BY <1>9, <1>13, <1>14, Joined
    <2>2. l + (n - l) = n
      BY <1>5
    <2> QED
      BY <1>10, <1>13, <2>1, <2>2
  <1>16. Holds(buffer_, c, O, d, n)
    <2> SUFFICES ASSUME NEW i \in 1 .. n PROVE buffer_[Cell(c, O + i - 1)] = d[i]
      BY DEF Holds
    <2>1. CASE i <= l
      <3>1. i \in 1 .. l
        BY <1>5, <2>1
      <3>2. d[i] = s[i]
        BY <1>10, <1>13, <1>14, <3>1
      <3> QED
        BY <1>10, <3>1, <3>2 DEF Holds
    <2>2. CASE l < i
      <3>1. Cell(c, O + i - 1) = i - l
        BY <1>2, <1>5, <1>10, <1>11, <2>2, CellsOfPieces
      <3>2. d[i] = r[i - l] /\ i - l \in 1 .. n - l
        BY <1>5, <1>10, <1>13, <1>14, <2>2
      <3> QED
        BY <1>13, <3>1, <3>2
    <2> QED
      BY <1>5, <2>1, <2>2
  <1>17. ByteQueue!Delivered(d)
    BY <1>4, <1>7, <1>9, <1>12, <1>14 DEF ByteQueue!GetRest
  <1>18. got' = d
    BY <1>17 DEF ByteQueue!Delivered
  <1>19. BytesType' /\ ByteState(I, O, S, C)'
    BY <1>1, <1>4, <1>8, <1>15, <1>16, <1>17, DeliveredStep
  <1> QED
    BY <1>1, <1>4, <1>10, <1>15, <1>16, <1>18, <1>19

(* get() frees what it has copied.                                         *)
LEMMA GetPublishStep ==
  ASSUME BytesType, NEW I \in Nat, NEW O \in Nat, NEW S \in Nat, NEW C \in Nat, ByteState(I, O, S, C),
         ByteQueue!GetPublish, NEW J \in Nat, J = O + consumer.n
  PROVE  BytesType' /\ ByteState(I, J, S, C)'
  <1>1. PICK c : c = capacity_
    OBVIOUS
  <1>2. c \in Nat \ {0} /\ IndexRange \in Nat \ {0}
    BY <1>1 DEF BytesType
  <1>3. consumer \in ConsumerType /\ consumer.n \in Nat
    BY DEF BytesType, ConsumerType
  <1>4. PICK n \in Nat : n = consumer.n
    BY <1>3
  <1>5. J = O + n
    BY <1>4
  <1>6. out_idx_ = O % IndexRange /\ S <= O /\ O + n <= C
    BY <1>4 DEF ByteState, Unwrapped, Getting, ByteQueue!GetPublish
  <1>7. PICK q : q = [consumer EXCEPT !.pc = "idle", !.n = 0]
    OBVIOUS
  <1>8. q \in ConsumerType
    <2>1. "idle" \in Phases /\ 0 \in Nat
      BY DEF Phases
    <2> QED
      BY <1>3, <1>7, <2>1 DEF ConsumerType
  <1>9. q.pc = "idle" /\ q.seen = consumer.seen
    BY <1>3, <1>7 DEF ConsumerType
  <1>10. consumer' = q /\ out_idx_' = (out_idx_ + n) % IndexRange /\ UNCHANGED <<capacity_, buffer_, in_idx_, producer, got>>
    BY <1>4, <1>7 DEF ByteQueue!GetPublish
  <1>11. out_idx_' = J % IndexRange
    <2>1. O \in Int /\ n \in Int
      OBVIOUS
    <2>2. ((O % IndexRange) + n) % IndexRange = (O + n) % IndexRange
      BY <1>2, <2>1, ModAdd
    <2> QED
      BY <1>5, <1>6, <1>10, <2>2
  <1>12. BytesType'
    BY <1>8, <1>10 DEF BytesType
  <1>13. S <= J /\ J <= C
    BY <1>5, <1>6
  <1>14. Unwrapped(I, J, S, C)'
    BY <1>9, <1>10, <1>11, <1>13 DEF ByteState, Unwrapped
  <1>15. Getting(c, buffer_, q, got, J, C)
    BY <1>9 DEF Getting
  <1>16. ByteState(I, J, S, C)'
    BY <1>1, <1>10, <1>14, <1>15 DEF ByteState
  <1> QED
    BY <1>12, <1>16

(* reset() starts over.                                                    *)
LEMMA ResetStep ==
  ASSUME BytesType, NEW I \in Nat, NEW O \in Nat, NEW S \in Nat, NEW C \in Nat, ByteState(I, O, S, C),
         ByteQueue!Reset
  PROVE  BytesType' /\ ByteState(0, 0, 0, 0)'
  <1>1. producer \in ProducerType /\ consumer \in ConsumerType /\ producer.pc = "idle" /\ consumer.pc = "idle"
    BY DEF BytesType, ByteQueue!Reset
  <1>2. PICK p : p = [producer EXCEPT !.seen = 0]
    OBVIOUS
  <1>3. PICK q : q = [consumer EXCEPT !.seen = 0]
    OBVIOUS
  <1>4. p \in ProducerType /\ p.pc = "idle" /\ p.data = producer.data /\ p.seen = 0
    BY <1>1, <1>2 DEF ProducerType
  <1>5. q \in ConsumerType /\ q.pc = "idle" /\ q.seen = 0
    BY <1>1, <1>3 DEF ConsumerType
  <1>6. /\ producer' = p /\ consumer' = q /\ in_idx_' = 0 /\ out_idx_' = 0
        /\ UNCHANGED <<capacity_, buffer_, got>>
    BY <1>2, <1>3 DEF ByteQueue!Reset
  <1>7. BytesType'
    BY <1>4, <1>5, <1>6 DEF BytesType
  <1>8. IndexRange \in Nat \ {0} /\ capacity_ \in Nat \ {0}
    BY DEF BytesType
  <1>9. 0 % IndexRange = 0 /\ 0 <= 0 /\ 0 <= 0 + capacity_
    BY <1>8
  <1>10. Unwrapped(0, 0, 0, 0)'
    BY <1>4, <1>5, <1>6, <1>9 DEF Unwrapped
  <1>11. Len(p.data) = 0
    BY <1>1, <1>4 DEF ByteState, Putting
  <1>12. Putting(capacity_, buffer_, p, 0, 0)
    BY <1>4, <1>9, <1>11 DEF Putting
  <1>13. Getting(capacity_, buffer_, q, got, 0, 0)
    BY <1>5 DEF Getting
  <1> QED
    BY <1>6, <1>7, <1>10, <1>12, <1>13 DEF ByteState

-----------------------------------------------------------------------------
(* What the steps of AtomicKFifo are in ByteFifo.                          *)

(* What is held is known from its cells.                                   *)
LEMMA HeldSame ==
  ASSUME NEW c, NEW b, NEW b2, NEW O \in Nat, NEW I \in Nat, O <= I, NEW h, NEW u,
         HeldBetween(h, b, c, O, I), HeldBetween(u, b2, c, O, I),
         \A j \in O .. I - 1 : b2[Cell(c, j)] = b[Cell(c, j)]
  PROVE  u = h
  <1>1. PICK n \in Nat : n = I - O
    OBVIOUS
  <1>2. h \in Seq(Bytes) /\ u \in Seq(Bytes) /\ Len(h) = n /\ Len(u) = n
    BY <1>1 DEF HeldBetween
  <1>3. ASSUME NEW k \in 1 .. n PROVE u[k] = h[k]
    <2>1. u[k] = b2[Cell(c, O + k - 1)] /\ h[k] = b[Cell(c, O + k - 1)]
      BY <1>1 DEF HeldBetween, Holds
    <2>2. O + k - 1 \in O .. I - 1
      BY <1>1
    <2> QED
      BY <2>1, <2>2
  <1> QED
    BY <1>2, <1>3, SameElements

(* What is copied behind the bytes held is appended to them.               *)
LEMMA HeldAppended ==
  ASSUME NEW c, NEW b, NEW O \in Nat, NEW I \in Nat, O <= I, NEW J \in Nat, NEW h, NEW u, NEW d \in Seq(Bytes),
         HeldBetween(h, b, c, O, I), HeldBetween(u, b, c, O, J), J = I + Len(d), Holds(b, c, I, d, Len(d))
  PROVE  u = h \o d
  <1>1. PICK n \in Nat : n = I - O
    OBVIOUS
  <1>2. PICK m \in Nat : m = Len(d)
    OBVIOUS
  <1>3. J - O = n + m
    BY <1>1, <1>2
  <1>4. h \in Seq(Bytes) /\ u \in Seq(Bytes) /\ Len(h) = n /\ Len(u) = n + m
    BY <1>1, <1>3 DEF HeldBetween
  <1>5. PICK w : w = h \o d
    OBVIOUS
  <1>6. /\ w \in Seq(Bytes) /\ Len(w) = n + m /\ \A i \in 1 .. n : w[i] = h[i]
        /\ \A i \in 1 .. n + m : i > n => w[i] = d[i - n]
    <2>1. /\ h \o d \in Seq(Bytes) /\ Len(h \o d) = Len(h) + Len(d)
          /\ \A i \in 1 .. Len(h) : (h \o d)[i] = h[i]
          /\ \A i \in 1 .. Len(h) + Len(d) : i > Len(h) => (h \o d)[i] = d[i - Len(h)]
      BY <1>4, Joined
    <2> QED
      BY <1>2, <1>4, <1>5, <2>1
  <1>7. ASSUME NEW k \in 1 .. n + m PROVE u[k] = w[k]
    <2>1. u[k] = b[Cell(c, O + k - 1)]
      BY <1>3 DEF HeldBetween, Holds
    <2>2. CASE k <= n
      <3>1. k \in 1 .. n
        BY <1>1, <2>2
      <3>2. h[k] = b[Cell(c, O + k - 1)]
        BY <1>1, <3>1 DEF HeldBetween, Holds
      <3> QED
        BY <1>6, <2>1, <3>1, <3>2
    <2>3. CASE k > n
      <3>1. k - n \in 1 .. m /\ I + (k - n) - 1 = O + k - 1
        BY <1>1, <1>2, <2>3
      <3>2. d[k - n] = b[Cell(c, I + (k - n) - 1)]
        BY <1>2, <3>1 DEF Holds
      <3> QED
        BY <1>6, <2>1, <2>3, <3>1, <3>2
    <2> QED
      BY <1>1, <1>2, <2>2, <2>3
  <1> QED
    BY <1>4, <1>5, <1>6, <1>7, SameElements

(* What is copied from the front is what was held first.                   *)
LEMMA HeldPrefix ==
  ASSUME NEW c, NEW b, NEW O \in Nat, NEW I \in Nat, NEW n \in Nat, O + n <= I, NEW h, NEW d \in Seq(Bytes),
         HeldBetween(h, b, c, O, I), Len(d) = n, Holds(b, c, O, d, n)
  PROVE  d = SubSeq(h, 1, n) /\ n <= Len(h)
  <1>1. PICK m \in Nat : m = I - O
    OBVIOUS
  <1>2. h \in Seq(Bytes) /\ Len(h) = m /\ n <= m
    BY <1>1 DEF HeldBetween
  <1>3. PICK u : u = SubSeq(h, 1, n)
    OBVIOUS
  <1>4. u \in Seq(Bytes) /\ Len(u) = n /\ \A k \in 1 .. n : u[k] = h[k]
    BY <1>2, <1>3
  <1>5. ASSUME NEW k \in 1 .. n PROVE d[k] = u[k]
    <2>1. d[k] = b[Cell(c, O + k - 1)]
      BY DEF Holds
    <2>2. k \in 1 .. m
      BY <1>2
    <2>3. h[k] = b[Cell(c, O + k - 1)]
      BY <1>1, <2>2 DEF HeldBetween, Holds
    <2> QED
      BY <1>4, <2>1, <2>3
  <1> QED
    BY <1>2, <1>3, <1>4, <1>5, SameElements

(* A sequence without its first n elements.                                *)
LEMMA Behind ==
  ASSUME NEW T, NEW s \in Seq(T), NEW n \in Nat, n <= Len(s)
  PROVE  /\ SubSeq(s, n + 1, Len(s)) \in Seq(T) /\ Len(SubSeq(s, n + 1, Len(s))) = Len(s) - n
         /\ \A k \in 1 .. Len(s) - n : SubSeq(s, n + 1, Len(s))[k] = s[n + k]
  OBVIOUS

Removed(u, h, n) == u = SubSeq(h, n + 1, Len(h))

(* What stays when the first bytes are freed.                              *)
LEMMA HeldRemoved ==
  ASSUME NEW c, NEW b, NEW O \in Nat, NEW I \in Nat, NEW J \in Nat, O <= J, J <= I, NEW h, NEW u,
         HeldBetween(h, b, c, O, I), HeldBetween(u, b, c, J, I)
  PROVE  Removed(u, h, J - O)
  <1>0. PICK n \in Nat : n = J - O
    OBVIOUS
  <1>1. PICK m \in Nat : m = I - O
    BY <1>0
  <1>2. PICK l \in Nat : l = I - J /\ l = m - n /\ n + l = m
    BY <1>0, <1>1
  <1>3. h \in Seq(Bytes) /\ Len(h) = m /\ n <= m /\ u \in Seq(Bytes) /\ Len(u) = l
    BY <1>0, <1>1, <1>2 DEF HeldBetween
  <1>4. PICK w : w = SubSeq(h, n + 1, m)
    OBVIOUS
  <1>5. w \in Seq(Bytes) /\ Len(w) = l /\ \A k \in 1 .. l : w[k] = h[n + k]
    <2>1. /\ SubSeq(h, n + 1, Len(h)) \in Seq(Bytes) /\ Len(SubSeq(h, n + 1, Len(h))) = Len(h) - n
          /\ \A k \in 1 .. Len(h) - n : SubSeq(h, n + 1, Len(h))[k] = h[n + k]
      BY <1>3, Behind
    <2> QED
      BY <1>2, <1>3, <1>4, <2>1
  <1>6. ASSUME NEW k \in 1 .. l PROVE u[k] = w[k]
    <2>1. u[k] = b[Cell(c, J + k - 1)]
      BY <1>2 DEF HeldBetween, Holds
    <2>2. n + k \in 1 .. m /\ O + (n + k) - 1 = J + k - 1
      BY <1>0, <1>1, <1>2
    <2>3. h[n + k] = b[Cell(c, O + (n + k) - 1)]
      BY <1>1, <2>2 DEF HeldBetween, Holds
    <2> QED
      BY <1>5, <2>1, <2>2, <2>3
  <1> QED
    BY <1>0, <1>3, <1>4, <1>5, <1>6, SameElements DEF Removed

(* The bytes held before and after a step.                                 *)
LEMMA HeldAround ==
  ASSUME BytesType, NEW I \in Nat, NEW O \in Nat, NEW S \in Nat, NEW C \in Nat, ByteState(I, O, S, C),
         BytesType', NEW I2 \in Nat, NEW O2 \in Nat, NEW S2 \in Nat, NEW C2 \in Nat, ByteState(I2, O2, S2, C2)'
  PROVE  /\ HeldBetween(ByteQueue!Held, buffer_, capacity_, O, I)
         /\ HeldBetween(ByteQueue!Held', buffer_', capacity_', O2, I2)
         /\ S <= O /\ O <= C /\ C <= I /\ I <= S + capacity_ /\ O2 <= C2 /\ C2 <= I2
  <1>1. Unwrapped(I, O, S, C) /\ Unwrapped(I2, O2, S2, C2)'
    BY DEF ByteState
  <1>2. HeldBetween(ByteQueue!Held, buffer_, capacity_, O, I)
    BY <1>1, HeldMeans
  <1>3. HeldBetween(ByteQueue!Held, buffer_, capacity_, O2, I2)'
    BY <1>1, HeldMeansNext
  <1>4. HeldBetween(ByteQueue!Held', buffer_', capacity_', O2, I2)
    BY <1>3 DEF HeldBetween, Holds, Cell
  <1>5. O2 <= C2 /\ C2 <= I2
    BY <1>1 DEF Unwrapped
  <1>6. S <= O /\ O <= C /\ C <= I /\ I <= S + capacity_
    BY <1>1 DEF Unwrapped
  <1> QED
    BY <1>2, <1>4, <1>5, <1>6

(* A step that leaves the indices and the bytes held alone.                *)
LEMMA BytesStutter ==
  ASSUME BytesType, NEW I \in Nat, NEW O \in Nat, NEW S \in Nat, NEW C \in Nat, ByteState(I, O, S, C),
         BytesType', NEW S2 \in Nat, NEW C2 \in Nat, ByteState(I, O, S2, C2)', UNCHANGED capacity_,
         \A j \in O .. I - 1 : buffer_'[Cell(capacity_, j)] = buffer_[Cell(capacity_, j)]
  PROVE  ByteQueue!Held' = ByteQueue!Held
  <1>1. /\ HeldBetween(ByteQueue!Held, buffer_, capacity_, O, I)
        /\ HeldBetween(ByteQueue!Held', buffer_', capacity_', O, I) /\ O <= C /\ C <= I
    BY HeldAround
  <1>2. capacity_' = capacity_ /\ O <= I
    BY <1>1
  <1>3. HeldBetween(ByteQueue!Held', buffer_', capacity_, O, I)
    BY <1>1, <1>2
  <1> QED
    BY <1>1, <1>2, <1>3, HeldSame

(* Publishing in_idx_ appends the bytes that put() has copied.             *)
LEMMA PublishAppends ==
  ASSUME BytesType, NEW I \in Nat, NEW O \in Nat, NEW S \in Nat, NEW C \in Nat, ByteState(I, O, S, C),
         ByteQueue!PutPublish
  PROVE  ByteInv' /\ ByteQueue!Fifo!Next
  <1>1. producer \in ProducerType /\ producer.data \in Seq(Bytes)
    BY DEF BytesType, ProducerType
  <1>2. PICK d \in Seq(Bytes) : d = producer.data
    BY <1>1
  <1>3. PICK n \in Nat : n = Len(d)
    OBVIOUS
  <1>4. PICK J \in Nat : J = I + n
    OBVIOUS
  <1>5. BytesType' /\ ByteState(J, O, S, C)'
    BY <1>2, <1>3, <1>4, PutPublishStep
  <1>6. /\ n > 0 /\ I + n <= S + capacity_ /\ Holds(buffer_, capacity_, I, d, n)
    <2>1. producer.pc = "publish"
      BY DEF ByteQueue!PutPublish
    <2>2. Len(producer.data) # 0 /\ I + n <= S + capacity_ /\ Holds(buffer_, capacity_, I, d, n)
      BY <1>2, <1>3, <2>1 DEF ByteState, Putting
    <2> QED
      BY <1>2, <1>3, <2>2
  <1>7. UNCHANGED <<capacity_, buffer_, got>>
    BY DEF ByteQueue!PutPublish
  <1>8. PICK h : h = ByteQueue!Held
    OBVIOUS
  <1>9. PICK u : u = ByteQueue!Held'
    OBVIOUS
  <1>10. /\ HeldBetween(h, buffer_, capacity_, O, I) /\ HeldBetween(u, buffer_, capacity_, O, J)
         /\ S <= O /\ O <= I
    <2>1. /\ HeldBetween(h, buffer_, capacity_, O, I) /\ HeldBetween(u, buffer_', capacity_', O, J)
          /\ S <= O /\ O <= C /\ C <= I
      BY <1>5, <1>8, <1>9, HeldAround
    <2> QED
      BY <1>7, <2>1
  <1>11. u = h \o d
    BY <1>3, <1>4, <1>6, <1>10, HeldAppended
  <1>12. d \in [1 .. n -> Bytes]
    BY <1>3
  <1>13. Len(h) = I - O /\ capacity_ \in Nat
    BY <1>10 DEF HeldBetween, BytesType
  <1>14. n \in 1 .. capacity_ - Len(h) /\ n \in 1 .. capacity_
    BY <1>6, <1>10, <1>13
  <1>15. ByteQueue!Fifo!Put(n)
    BY <1>7, <1>8, <1>9, <1>11, <1>12, <1>14 DEF ByteQueue!Fifo!Put
  <1> QED
    BY <1>5, <1>7, <1>14, <1>15 DEF ByteInv, ByteQueue!Fifo!Next

(* The bytes that get() and peek() deliver are the oldest ones.            *)
LEMMA DeliveryLooks ==
  ASSUME BytesType, NEW I \in Nat, NEW O \in Nat, NEW S \in Nat, NEW C \in Nat, ByteState(I, O, S, C),
         BytesType', ByteState(I, O, S, C)', UNCHANGED <<capacity_, buffer_>>, consumer.pc # "idle",
         0 < consumer.n, got' \in Seq(Bytes), Len(got') = consumer.n, Holds(buffer_, capacity_, O, got', consumer.n)
  PROVE  ByteQueue!Fifo!Next
  <1>1. consumer \in ConsumerType /\ consumer.n \in Nat
    BY DEF BytesType, ConsumerType
  <1>2. PICK n \in Nat : n = consumer.n
    BY <1>1
  <1>3. O + n <= C
    BY <1>2 DEF ByteState, Getting
  <1>4. PICK h : h = ByteQueue!Held
    OBVIOUS
  <1>5. ByteQueue!Held' = h
    BY <1>4, BytesStutter
  <1>6. HeldBetween(h, buffer_, capacity_, O, I) /\ S <= O /\ C <= I /\ I <= S + capacity_
    BY <1>4, HeldAround
  <1>7. O + n <= I
    BY <1>3, <1>6
  <1>8. PICK d \in Seq(Bytes) : d = got'
    OBVIOUS
  <1>9. d = SubSeq(h, 1, n) /\ n <= Len(h)
    BY <1>2, <1>6, <1>7, <1>8, HeldPrefix
  <1>10. Len(h) = I - O /\ capacity_ \in Nat
    BY <1>6 DEF HeldBetween, BytesType
  <1>11. n \in 1 .. Len(h) /\ n \in 1 .. capacity_
    BY <1>2, <1>6, <1>7, <1>9, <1>10
  <1>12. ByteQueue!Fifo!Look(n)
    BY <1>4, <1>5, <1>8, <1>9, <1>11 DEF ByteQueue!Fifo!Look
  <1> QED
    BY <1>11, <1>12 DEF ByteQueue!Fifo!Next

(* Publishing out_idx_ removes the bytes that get() has delivered.         *)
LEMMA PublishRemoves ==
  ASSUME BytesType, NEW I \in Nat, NEW O \in Nat, NEW S \in Nat, NEW C \in Nat, ByteState(I, O, S, C),
         ByteQueue!GetPublish
  PROVE  ByteInv' /\ ByteQueue!Fifo!Next
  <1>1. consumer \in ConsumerType /\ consumer.n \in Nat /\ got \in Seq(Bytes)
    BY DEF BytesType, ConsumerType
  <1>2. PICK n \in Nat : n = consumer.n
    BY <1>1
  <1>3. PICK J \in Nat : J = O + n
    OBVIOUS
  <1>4. BytesType' /\ ByteState(I, J, S, C)'
    BY <1>2, <1>3, GetPublishStep
  <1>5. 0 < n /\ O + n <= C /\ Len(got) = n /\ Holds(buffer_, capacity_, O, got, n)
    <2>1. consumer.pc = "publish"
      BY DEF ByteQueue!GetPublish
    <2> QED
      BY <1>2, <2>1 DEF ByteState, Getting
  <1>6. UNCHANGED <<capacity_, buffer_, got>>
    BY DEF ByteQueue!GetPublish
  <1>7. PICK h : h = ByteQueue!Held
    OBVIOUS
  <1>8. PICK u : u = ByteQueue!Held'
    OBVIOUS
  <1>9. /\ HeldBetween(h, buffer_, capacity_, O, I) /\ HeldBetween(u, buffer_, capacity_, J, I) /\ C <= I
    <2>1. /\ HeldBetween(h, buffer_, capacity_, O, I) /\ HeldBetween(u, buffer_', capacity_', J, I) /\ C <= I
      BY <1>4, <1>7, <1>8, HeldAround
    <2> QED
      BY <1>6, <2>1
  <1>10. O + n <= I
    BY <1>5, <1>9
  <1>11. got = SubSeq(h, 1, n) /\ n <= Len(h)
    BY <1>1, <1>5, <1>9, <1>10, HeldPrefix
  <1>12. u = SubSeq(h, n + 1, Len(h))
    <2>1. O <= J /\ J <= I /\ J - O = n
      BY <1>2, <1>3, <1>10
    <2>2. Removed(u, h, J - O)
      BY <1>9, <2>1, HeldRemoved
    <2> QED
      BY <2>1, <2>2 DEF Removed
  <1>13. Len(h) = I - O
    BY <1>9 DEF HeldBetween
  <1>14. n \in 1 .. Len(h)
    BY <1>5, <1>10, <1>13
  <1>15. ByteQueue!Fifo!Remove
    BY <1>5, <1>6, <1>7, <1>8, <1>11, <1>12, <1>14 DEF ByteQueue!Fifo!Remove
  <1> QED
    BY <1>4, <1>6, <1>15 DEF ByteInv, ByteQueue!Fifo!Next

(* reset() forgets the bytes held.                                         *)
LEMMA ResetClears ==
  ASSUME BytesType, NEW I \in Nat, NEW O \in Nat, NEW S \in Nat, NEW C \in Nat, ByteState(I, O, S, C),
         ByteQueue!Reset
  PROVE  ByteInv' /\ ByteQueue!Fifo!Next
  <1>1. BytesType' /\ ByteState(0, 0, 0, 0)'
    BY ResetStep
  <1>2. HeldBetween(ByteQueue!Held', buffer_', capacity_', 0, 0)
    BY <1>1, HeldAround
  <1>3. ByteQueue!Held' \in Seq(Bytes) /\ Len(ByteQueue!Held') = 0
    BY <1>2 DEF HeldBetween
  <1>4. ByteQueue!Held' = <<>>
    BY <1>3
  <1>5. UNCHANGED <<capacity_, got>>
    BY DEF ByteQueue!Reset
  <1>6. producer.pc = "idle" /\ consumer.pc = "idle"
    BY DEF ByteQueue!Reset
  <1>7. producer'.pc = "idle" /\ consumer'.pc = "idle"
    <2>1. producer \in ProducerType /\ consumer \in ConsumerType
      BY DEF BytesType
    <2> QED
      BY <1>6, <2>1 DEF ByteQueue!Reset, ProducerType, ConsumerType
  <1> QED
    BY <1>1, <1>4, <1>5, <1>6, <1>7 DEF ByteInv, ByteQueue!Fifo!Next, ByteQueue!Fifo!Clear

(* Every step keeps the invariant, and is one of ByteFifo or none.         *)
LEMMA BytesStep ==
  ASSUME ByteInv, ByteQueue!Next
  PROVE  ByteInv' /\ (ByteQueue!Fifo!Next \/ UNCHANGED ByteQueue!Fifo!byteVars)
  <1>1. PICK I, O, S, C \in Nat : ByteState(I, O, S, C)
    BY DEF ByteInv
  <1>2. BytesType
    BY DEF ByteInv
  <1>3. CASE \E out \in ByteQueue!OutViews, data \in ByteQueue!Data : ByteQueue!Put(data, out)
    <2>1. PICK out \in ByteQueue!OutViews, data \in ByteQueue!Data : ByteQueue!Put(data, out)
      BY <1>3
    <2>2. BytesType' /\ \E T \in Nat : ByteState(I, O, T, C)'
      BY <1>1, <1>2, <2>1, PutStep
    <2>3. PICK T \in Nat : ByteState(I, O, T, C)'
      BY <2>2
    <2>4. UNCHANGED <<capacity_, buffer_, got>>
      BY <2>1 DEF ByteQueue!Put, ByteQueue!ring
    <2>5. ByteQueue!Held' = ByteQueue!Held
      BY <1>1, <1>2, <2>2, <2>3, <2>4, BytesStutter
    <2> QED
      BY <2>2, <2>3, <2>4, <2>5 DEF ByteInv, ByteQueue!Fifo!byteVars
  <1>4. CASE ByteQueue!PutFirst \/ ByteQueue!PutRest
    <2>1. /\ BytesType' /\ ByteState(I, O, S, C)'
          /\ \A j \in O .. I - 1 : buffer_'[Cell(capacity_, j)] = buffer_[Cell(capacity_, j)]
      BY <1>1, <1>2, <1>4, PutFirstStep, PutRestStep
    <2>2. UNCHANGED <<capacity_, got>>
      BY <1>4 DEF ByteQueue!PutFirst, ByteQueue!PutRest
    <2>3. ByteQueue!Held' = ByteQueue!Held
      BY <1>1, <1>2, <2>1, <2>2, BytesStutter
    <2> QED
      BY <2>1, <2>2, <2>3 DEF ByteInv, ByteQueue!Fifo!byteVars
  <1>5. CASE ByteQueue!PutPublish
    BY <1>1, <1>2, <1>5, PublishAppends
  <1>6. CASE \E in \in ByteQueue!InViews, n \in 1 .. MaxLen, peek \in BOOLEAN : ByteQueue!Get(n, in, peek)
    <2>1. PICK in \in ByteQueue!InViews, n \in 1 .. MaxLen, peek \in BOOLEAN : ByteQueue!Get(n, in, peek)
      BY <1>6
    <2>2. BytesType' /\ \E T \in Nat : ByteState(I, O, S, T)'
      BY <1>1, <1>2, <2>1, GetStep
    <2>3. PICK T \in Nat : ByteState(I, O, S, T)'
      BY <2>2
    <2>4. UNCHANGED <<capacity_, buffer_, got>>
      BY <2>1 DEF ByteQueue!Get, ByteQueue!ring
    <2>5. ByteQueue!Held' = ByteQueue!Held
      BY <1>1, <1>2, <2>2, <2>3, <2>4, BytesStutter
    <2> QED
      BY <2>2, <2>3, <2>4, <2>5 DEF ByteInv, ByteQueue!Fifo!byteVars
  <1>7. CASE ByteQueue!GetFirst \/ ByteQueue!GetRest
    <2>1. UNCHANGED <<capacity_, buffer_>> /\ consumer.pc # "idle"
      BY <1>7 DEF ByteQueue!GetFirst, ByteQueue!GetRest, ByteQueue!ring
    <2>2. /\ BytesType' /\ ByteState(I, O, S, C)'
          /\ \/ UNCHANGED got
             \/ /\ 0 < consumer.n /\ got' \in Seq(Bytes) /\ Len(got') = consumer.n
                /\ Holds(buffer_, capacity_, O, got', consumer.n)
      BY <1>1, <1>2, <1>7, GetFirstStep, GetRestStep
    <2>3. CASE UNCHANGED got
      <3>1. ByteQueue!Held' = ByteQueue!Held
        BY <1>1, <1>2, <2>1, <2>2, BytesStutter
      <3> QED
        BY <2>1, <2>2, <2>3, <3>1 DEF ByteInv, ByteQueue!Fifo!byteVars
    <2>4. CASE /\ 0 < consumer.n /\ got' \in Seq(Bytes) /\ Len(got') = consumer.n
               /\ Holds(buffer_, capacity_, O, got', consumer.n)
      <3>1. ByteQueue!Fifo!Next
        BY <1>1, <1>2, <2>1, <2>2, <2>4, DeliveryLooks
      <3> QED
        BY <2>2, <3>1 DEF ByteInv
    <2> QED
      BY <2>2, <2>3, <2>4
  <1>8. CASE ByteQueue!GetPublish
    BY <1>1, <1>2, <1>8, PublishRemoves
  <1>9. CASE ByteQueue!Reset
    BY <1>1, <1>2, <1>9, ResetClears
  <1> QED
    BY <1>3, <1>4, <1>5, <1>6, <1>7, <1>8, <1>9 DEF ByteQueue!Next

(* AtomicKFifo hands the consumer the bytes put, in their order, none      *)
(* twice and none lost, and never holds more than its capacity, whatever   *)
(* capacity is asked for, however wide its indices are and wherever they   *)
(* and the buffer wrap around.                                             *)
THEOREM KFifoImplementsByteFifo == MCSpec => ImplementsByteFifo
  <1>1. MCInit => ByteInv /\ ByteQueue!Fifo!Init
    <2> SUFFICES ASSUME ByteQueue!Init PROVE ByteInv /\ ByteQueue!Fifo!Init
      BY DEF MCInit
    <2>1. PICK r \in Requests : capacity_ = ByteQueue!CapacityFor(r)
      BY DEF ByteQueue!Init
    <2>2. capacity_ \in Nat /\ 2 <= capacity_ /\ capacity_ < IndexRange /\ \E m \in Nat : IndexRange = capacity_ * m
      BY <2>1, CapacityDivides
    <2>3. IndexRange \in Nat /\ capacity_ \in Nat \ {0}
      BY <2>2
    <2>4. IndexRange \in Nat \ {0} /\ Divides(capacity_, IndexRange)
      BY <2>2, <2>3 DEF Divides
    <2>5. /\ buffer_ = [o \in 1 .. capacity_ |-> 0] /\ in_idx_ = 0 /\ out_idx_ = 0 /\ got = <<>>
          /\ producer = [pc |-> "idle", data |-> <<>>, seen |-> 0]
          /\ consumer = [pc |-> "idle", n |-> 0, data |-> <<>>, seen |-> 0, peek |-> FALSE]
      BY DEF ByteQueue!Init
    <2>6. <<>> \in Seq(Bytes) /\ "idle" \in Phases /\ FALSE \in BOOLEAN /\ 0 \in Nat /\ 0 \in Bytes
      BY RequestAssumption DEF Phases
    <2>7. producer \in ProducerType /\ consumer \in ConsumerType /\ got \in Seq(Bytes)
      BY <2>5, <2>6 DEF ProducerType, ConsumerType
    <2>8. buffer_ \in [1 .. capacity_ -> Bytes]
      BY <2>5, <2>6
    <2>9. BytesType
      BY <2>2, <2>3, <2>4, <2>7, <2>8 DEF BytesType
    <2>10. 0 % IndexRange = 0 /\ 0 <= 0 /\ 0 <= 0 + capacity_
      BY <2>3, <2>4
    <2>11. producer.pc = "idle" /\ Len(producer.data) = 0 /\ producer.seen = 0 /\ consumer.pc = "idle" /\ consumer.seen = 0
      BY <2>5
    <2>12. Unwrapped(0, 0, 0, 0)
      BY <2>5, <2>10, <2>11 DEF Unwrapped
    <2>13. ByteState(0, 0, 0, 0)
      BY <2>10, <2>11, <2>12 DEF ByteState, Putting, Getting
    <2>14. HeldBetween(ByteQueue!Held, buffer_, capacity_, 0, 0)
      BY <2>6, <2>9, <2>12, HeldMeans
    <2>15. ByteQueue!Held \in Seq(Bytes) /\ Len(ByteQueue!Held) = 0
      BY <2>14 DEF HeldBetween
    <2>16. ByteQueue!Held = <<>>
      BY <2>15
    <2> QED
      BY <2>3, <2>5, <2>6, <2>9, <2>13, <2>16 DEF ByteInv, ByteQueue!Fifo!Init
  <1>2. ByteInv /\ [MCNext]_allVars => ByteInv' /\ [ByteQueue!Fifo!Next]_(ByteQueue!Fifo!byteVars)
    <2> SUFFICES ASSUME ByteInv, [MCNext]_allVars
                 PROVE  ByteInv' /\ (ByteQueue!Fifo!Next \/ UNCHANGED ByteQueue!Fifo!byteVars)
      OBVIOUS
    <2>1. CASE ByteQueue!Next
      BY <2>1, BytesStep
    <2>2. CASE UNCHANGED bytesVars
      <3>1. UNCHANGED <<capacity_, buffer_, in_idx_, out_idx_, producer, consumer, got>>
        BY <2>2 DEF bytesVars
      <3>2. ByteInv'
        BY <3>1 DEF ByteInv, BytesType, ByteState, Unwrapped
      <3>3. ByteQueue!Held' = ByteQueue!Held
        BY <3>1 DEF ByteQueue!Held, ByteQueue!Region, ByteQueue!Length
      <3> QED
        BY <3>1, <3>2, <3>3 DEF ByteQueue!Fifo!byteVars
    <2> QED
      BY <2>1, <2>2 DEF MCNext, allVars
  <1> QED
    BY <1>1, <1>2, PTL DEF MCSpec, ImplementsByteFifo, ByteQueue!ImplementsByteFifo

-----------------------------------------------------------------------------
(* CDMRapidPool                                                            *)

Cells == 0 .. SIZE - 1

PoolAssumption == SIZE \in Nat \ {0} /\ INDEX \in Nat

(* n cells beginning at first and linked by flag are those of U, each once *)
Listed(first, flag, n, U) ==
  \E list \in [1 .. n -> U] :
    /\ \A k \in 1 .. n : list[k] = IF k = 1 THEN first ELSE flag[list[k - 1]]
    /\ \A k, l \in 1 .. n : list[k] = list[l] => k = l
    /\ \A s \in U : \E k \in 1 .. n : list[k] = s

(* The first cell is taken off a list.                                     *)
LEMMA ListPopped ==
  ASSUME NEW first, NEW flag, NEW n \in Nat, NEW U, n # 0, Listed(first, flag, n, U)
  PROVE  first \in U /\ Listed(flag[first], flag, n - 1, U \ {first})
  <1>1. PICK list \in [1 .. n -> U] :
          /\ \A k \in 1 .. n : list[k] = IF k = 1 THEN first ELSE flag[list[k - 1]]
          /\ \A k, l \in 1 .. n : list[k] = list[l] => k = l
          /\ \A s \in U : \E k \in 1 .. n : list[k] = s
    BY DEF Listed
  <1>2. 1 \in 1 .. n /\ list[1] = first /\ first \in U
    BY <1>1
  <1> DEFINE rest == [k \in 1 .. n - 1 |-> list[k + 1]]
             V == U \ {first}
  <1>3. \A k \in 1 .. n - 1 : k + 1 \in 1 .. n /\ k \in 1 .. n /\ (k + 1) - 1 = k /\ k + 1 # 1
    OBVIOUS
  <1>4. rest \in [1 .. n - 1 -> V]
    BY <1>1, <1>2, <1>3
  <1>5. \A k \in 1 .. n - 1 : rest[k] = IF k = 1 THEN flag[first] ELSE flag[rest[k - 1]]
    <2> SUFFICES ASSUME NEW k \in 1 .. n - 1 PROVE rest[k] = IF k = 1 THEN flag[first] ELSE flag[rest[k - 1]]
      OBVIOUS
    <2>1. rest[k] = flag[list[k]]
      BY <1>1, <1>3
    <2>2. CASE k = 1
      BY <1>2, <2>1, <2>2
    <2>3. CASE k # 1
      <3>1. k - 1 \in 1 .. n - 1 /\ (k - 1) + 1 = k
        BY <2>3
      <3> QED
        BY <2>1, <2>3, <3>1
    <2> QED
      BY <2>2, <2>3
  <1>6. \A k, l \in 1 .. n - 1 : rest[k] = rest[l] => k = l
    <2> SUFFICES ASSUME NEW k \in 1 .. n - 1, NEW l \in 1 .. n - 1, rest[k] = rest[l] PROVE k = l
      OBVIOUS
    <2>1. k + 1 = l + 1
      BY <1>1, <1>3
    <2> QED
      BY <2>1
  <1>7. \A s \in V : \E k \in 1 .. n - 1 : rest[k] = s
    <2> SUFFICES ASSUME NEW s \in V PROVE \E k \in 1 .. n - 1 : rest[k] = s
      OBVIOUS
    <2>1. PICK k \in 1 .. n : list[k] = s
      BY <1>1
    <2>2. k # 1
      BY <1>2, <2>1
    <2>3. k - 1 \in 1 .. n - 1 /\ (k - 1) + 1 = k
      BY <2>2
    <2> QED
      BY <2>1, <2>3
  <1> HIDE DEF rest
  <1>8. Listed(flag[first], flag, n - 1, V)
    BY <1>4, <1>5, <1>6, <1>7 DEF Listed
  <1> QED
    BY <1>2, <1>8

(* A cell is put on a list.                                                *)
LEMMA ListPushed ==
  ASSUME NEW C, NEW first, NEW flag \in [C -> Nat], first \in Nat, NEW n \in Nat, NEW U, U \subseteq C,
         NEW x \in C, x \notin U, Listed(first, flag, n, U)
  PROVE  Listed(x, [flag EXCEPT ![x] = first], n + 1, U \cup {x})
  <1>1. PICK list \in [1 .. n -> U] :
          /\ \A k \in 1 .. n : list[k] = IF k = 1 THEN first ELSE flag[list[k - 1]]
          /\ \A k, l \in 1 .. n : list[k] = list[l] => k = l
          /\ \A s \in U : \E k \in 1 .. n : list[k] = s
    BY DEF Listed
  <1> DEFINE more == [k \in 1 .. n + 1 |-> IF k = 1 THEN x ELSE list[k - 1]]
             g == [flag EXCEPT ![x] = first]
             V == U \cup {x}
  <1>2. \A k \in 1 .. n + 1 : k # 1 => k - 1 \in 1 .. n
    OBVIOUS
  <1>3. more \in [1 .. n + 1 -> V]
    BY <1>1, <1>2
  <1>4. g[x] = first /\ \A s \in U : g[s] = flag[s]
    OBVIOUS
  <1> HIDE DEF g
  <1>5. \A k \in 1 .. n + 1 : more[k] = IF k = 1 THEN x ELSE g[more[k - 1]]
    <2> SUFFICES ASSUME NEW k \in 1 .. n + 1, k # 1 PROVE more[k] = g[more[k - 1]]
      OBVIOUS
    <2>1. k - 1 \in 1 .. n /\ k - 1 \in 1 .. n + 1 /\ more[k] = list[k - 1]
      BY <1>2
    <2>2. CASE k - 1 = 1
      BY <1>1, <1>4, <2>1, <2>2
    <2>3. CASE k - 1 # 1
      <3>1. PICK j \in 1 .. n : j = k - 1 /\ j # 1
        BY <2>1, <2>3
      <3>2. j - 1 \in 1 .. n /\ j \in 1 .. n + 1
        BY <3>1
      <3>3. list[j] = flag[list[j - 1]] /\ list[j - 1] \in U
        BY <1>1, <3>1, <3>2
      <3>4. more[j] = list[j - 1]
        BY <3>1, <3>2
      <3> QED
        BY <1>4, <2>1, <3>1, <3>3, <3>4
    <2> QED
      BY <2>2, <2>3
  <1>6. \A k, l \in 1 .. n + 1 : more[k] = more[l] => k = l
    <2> SUFFICES ASSUME NEW k \in 1 .. n + 1, NEW l \in 1 .. n + 1, more[k] = more[l] PROVE k = l
      OBVIOUS
    <2>1. CASE k = 1 \/ l = 1
      BY <1>1, <1>2, <2>1
    <2>2. CASE k # 1 /\ l # 1
      <3>1. k - 1 = l - 1
        BY <1>1, <1>2, <2>2
      <3> QED
        BY <3>1
    <2> QED
      BY <2>1, <2>2
  <1>7. \A s \in V : \E k \in 1 .. n + 1 : more[k] = s
    <2> SUFFICES ASSUME NEW s \in V PROVE \E k \in 1 .. n + 1 : more[k] = s
      OBVIOUS
    <2>1. CASE s = x
      <3>1. 1 \in 1 .. n + 1 /\ more[1] = x
        OBVIOUS
      <3> QED
        BY <2>1, <3>1
    <2>2. CASE s \in U
      <3>1. PICK k \in 1 .. n : list[k] = s
        BY <1>1, <2>2
      <3>2. k + 1 \in 1 .. n + 1 /\ k + 1 # 1 /\ (k + 1) - 1 = k
        OBVIOUS
      <3> QED
        BY <3>1, <3>2
    <2> QED
      BY <2>1, <2>2
  <1> HIDE DEF more
  <1>8. Listed(x, g, n + 1, V)
    BY <1>3, <1>5, <1>6, <1>7 DEF Listed
  <1> QED
    BY <1>8 DEF g

Calls == [op : {"construct", "destroy"}, slot : Rapid!Slots]

PoolType == [made : BOOLEAN, first : Nat, free : Nat, use : SUBSET Cells, flag : [Cells -> Nat]]

(* A slot is owned, lost or being constructed by one call: one of these.   *)
PoolInv ==
  /\ pools \in [Rapid!Indices -> PoolType]
  /\ stack \in Seq(Calls)
  /\ owned \subseteq Rapid!Slots /\ lost \subseteq Rapid!Slots
  /\ owned \cap lost = {} /\ (owned \cup lost) \cap Rapid!Constructing = {}
  /\ \A d, e \in 1 .. Len(stack) :
       stack[d].op = "construct" /\ stack[e].op = "construct" /\ stack[d].slot = stack[e].slot => d = e

Taken == owned \cup lost \cup Rapid!Constructing

(* SlotsAccounted, pool by pool.                                           *)
PoolAccounted(i) ==
  /\ pools[i].use = Cells \ Rapid!Untaken(i)
  /\ Listed(pools[i].first, pools[i].flag, pools[i].free, Rapid!Untaken(i))
  /\ ~pools[i].made => Rapid!Untaken(i) = Cells

LEMMA AccountedMeans ==
  PoolInv => (SlotsAccounted <=> /\ \A i \in Rapid!Indices : PoolAccounted(i)
                                 /\ refetched \/ Rapid!ObjectsApart)
  <1> SUFFICES ASSUME PoolInv, NEW i \in Rapid!Indices
               PROVE  PoolAccounted(i) <=>
                        /\ pools[i].use = (0 .. SIZE - 1) \ Rapid!Untaken(i)
                        /\ \E list \in [1 .. pools[i].free -> Rapid!Untaken(i)] :
                             /\ Rapid!FreeList(i, list)
                             /\ \A s \in Rapid!Untaken(i) : \E n \in DOMAIN list : list[n] = s
                        /\ ~pools[i].made => Rapid!Untaken(i) = 0 .. SIZE - 1
    BY DEF SlotsAccounted, Rapid!SlotsAccounted
  <1> DEFINE U == Rapid!Untaken(i)
             n == pools[i].free
  <1>1. ASSUME NEW list \in [1 .. n -> U]
        PROVE  /\ DOMAIN list = 1 .. n
               /\ Rapid!FreeList(i, list) <=>
                    /\ \A k \in 1 .. n : list[k] = IF k = 1 THEN pools[i].first ELSE pools[i].flag[list[k - 1]]
                    /\ \A k, l \in 1 .. n : list[k] = list[l] => k = l
    <2>1. DOMAIN list = 1 .. n
      OBVIOUS
    <2> HIDE DEF n, U
    <2> QED
      BY <2>1 DEF Rapid!FreeList
  <1> HIDE DEF n, U
  <1>2. Listed(pools[i].first, pools[i].flag, n, U) <=>
          \E list \in [1 .. n -> U] : Rapid!FreeList(i, list) /\ \A s \in U : \E k \in DOMAIN list : list[k] = s
    <2>1. ASSUME Listed(pools[i].first, pools[i].flag, n, U)
          PROVE  \E list \in [1 .. n -> U] :
                   Rapid!FreeList(i, list) /\ \A s \in U : \E k \in DOMAIN list : list[k] = s
      <3>1. PICK list \in [1 .. n -> U] :
              /\ \A k \in 1 .. n : list[k] = IF k = 1 THEN pools[i].first ELSE pools[i].flag[list[k - 1]]
              /\ \A k, l \in 1 .. n : list[k] = list[l] => k = l
              /\ \A s \in U : \E k \in 1 .. n : list[k] = s
        BY <2>1 DEF Listed
      <3>2. DOMAIN list = 1 .. n /\ Rapid!FreeList(i, list)
        BY <1>1, <3>1
      <3>3. \A s \in U : \E k \in DOMAIN list : list[k] = s
        BY <3>1, <3>2
      <3> QED
        BY <3>2, <3>3, Zenon
    <2>2. ASSUME NEW list \in [1 .. n -> U], Rapid!FreeList(i, list), \A s \in U : \E k \in DOMAIN list : list[k] = s
          PROVE  Listed(pools[i].first, pools[i].flag, n, U)
      <3>1. /\ \A k \in 1 .. n : list[k] = IF k = 1 THEN pools[i].first ELSE pools[i].flag[list[k - 1]]
            /\ \A k, l \in 1 .. n : list[k] = list[l] => k = l
            /\ DOMAIN list = 1 .. n
        BY <1>1, <2>2
      <3>2. \A s \in U : \E k \in 1 .. n : list[k] = s
        BY <2>2, <3>1
      <3> QED
        BY <3>1, <3>2, Zenon DEF Listed
    <2> QED
      BY <2>1, <2>2
  <1> QED
    BY <1>2 DEF PoolAccounted, Cells, n, U

(* A call begins: what it constructs or destroys is added.                 *)
LEMMA CallBegins ==
  ASSUME stack \in Seq(Calls), NEW r \in Calls, stack' = Append(stack, r)
  PROVE  /\ stack' \in Seq(Calls) /\ Len(stack') = Len(stack) + 1
         /\ \A d \in 1 .. Len(stack) : stack'[d] = stack[d]
         /\ stack'[Len(stack) + 1] = r
         /\ Rapid!Constructing' = Rapid!Constructing \cup (IF r.op = "construct" THEN {r.slot} ELSE {})
         /\ Rapid!Destroying' = Rapid!Destroying \cup (IF r.op = "destroy" THEN {r.slot} ELSE {})
  <1>1. /\ stack' \in Seq(Calls) /\ Len(stack') = Len(stack) + 1 /\ Len(stack) \in Nat
        /\ \A d \in 1 .. Len(stack) : stack'[d] = stack[d]
        /\ stack'[Len(stack) + 1] = r
    OBVIOUS
  <1>2. 1 .. Len(stack') = 1 .. Len(stack) \cup {Len(stack) + 1}
    BY <1>1
  <1>3. Rapid!Constructing' = Rapid!Constructing \cup (IF r.op = "construct" THEN {r.slot} ELSE {})
    BY <1>1, <1>2 DEF Rapid!Constructing, Rapid!Busy
  <1>4. Rapid!Destroying' = Rapid!Destroying \cup (IF r.op = "destroy" THEN {r.slot} ELSE {})
    BY <1>1, <1>2 DEF Rapid!Destroying, Rapid!Busy
  <1> QED
    BY <1>1, <1>3, <1>4

(* The innermost call ends: what it constructed is taken away.             *)
LEMMA CallEnds ==
  ASSUME PoolInv, stack # <<>>, Rapid!Return
  PROVE  LET r == stack[Len(stack)] IN
         /\ stack' \in Seq(Calls) /\ Len(stack') = Len(stack) - 1 /\ r \in Calls
         /\ \A d \in 1 .. Len(stack') : stack'[d] = stack[d] /\ d \in 1 .. Len(stack)
         /\ Rapid!Constructing = Rapid!Constructing' \cup (IF r.op = "construct" THEN {r.slot} ELSE {})
         /\ r.op = "construct" => r.slot \notin Rapid!Constructing'
         /\ Rapid!Destroying' \subseteq Rapid!Destroying
  <1> DEFINE r == stack[Len(stack)]
             m == Len(stack) - 1
  <1>0. stack \in Seq(Calls)
    BY DEF PoolInv
  <1>1. /\ stack' \in Seq(Calls) /\ Len(stack') = m /\ m \in Nat /\ Len(stack) = m + 1
        /\ \A d \in 1 .. m : stack'[d] = stack[d] /\ d \in 1 .. Len(stack) /\ d # Len(stack)
        /\ Len(stack) \in 1 .. Len(stack) /\ r \in Calls
    <2>1. Len(stack) \in Nat /\ Len(stack) # 0 /\ stack' = SubSeq(stack, 1, m)
      BY <1>0 DEF Rapid!Return
    <2>2. m \in Nat /\ Len(stack) = m + 1 /\ Len(stack) \in 1 .. Len(stack)
      BY <2>1
    <2>3. \A d \in 1 .. m : d \in 1 .. Len(stack) /\ d # Len(stack)
      BY <2>1
    <2>4. r \in Calls
      BY <1>0, <2>2
    <2>5. stack' \in Seq(Calls) /\ Len(stack') = m /\ \A d \in 1 .. m : stack'[d] = stack[d]
      BY <1>0, <2>1, <2>2
    <2> QED
      BY <2>2, <2>3, <2>4, <2>5
  <1>2. 1 .. Len(stack) = 1 .. m \cup {Len(stack)}
    BY <1>1
  <1>3. Rapid!Constructing = Rapid!Constructing' \cup (IF r.op = "construct" THEN {r.slot} ELSE {})
    BY <1>1, <1>2 DEF Rapid!Constructing, Rapid!Busy
  <1>4. r.op = "construct" => r.slot \notin Rapid!Constructing'
    <2> SUFFICES ASSUME r.op = "construct", r.slot \in Rapid!Constructing' PROVE FALSE
      OBVIOUS
    <2>1. PICK d \in 1 .. Len(stack') : stack'[d].op = "construct" /\ stack'[d].slot = r.slot
      BY DEF Rapid!Constructing, Rapid!Busy
    <2>2. d \in 1 .. Len(stack) /\ stack[d].op = "construct" /\ stack[d].slot = r.slot /\ d # Len(stack)
      BY <1>1, <2>1
    <2> QED
      BY <1>1, <2>2 DEF PoolInv
  <1>5. Rapid!Destroying' \subseteq Rapid!Destroying
    BY <1>1 DEF Rapid!Destroying, Rapid!Busy
  <1> QED
    BY <1>1, <1>3, <1>4, <1>5

(* Nothing changes for a pool that keeps its fields and its slots.         *)
LEMMA PoolKept ==
  ASSUME NEW i \in Rapid!Indices, pools'[i] = pools[i], Rapid!Untaken(i)' = Rapid!Untaken(i), PoolAccounted(i)
  PROVE  PoolAccounted(i)'
  <1>1. (Listed(pools[i].first, pools[i].flag, pools[i].free, Rapid!Untaken(i)))'
    BY DEF PoolAccounted
  <1> QED
    BY <1>1 DEF PoolAccounted, Cells

(* Untaken in terms of Taken, before and after a step.                     *)
LEMMA UntakenMeans ==
  \A i : /\ Rapid!Untaken(i) = {s \in Cells : <<i, s>> \notin Taken}
         /\ Rapid!Untaken(i)' = {s \in Cells : <<i, s>> \notin Taken'}
  BY DEF Rapid!Untaken, Rapid!Fetched, Taken, Cells

(* FetchObj up to the constructor takes the first slot of a list that is   *)
(* not empty.                                                              *)
LEMMA FetchAccounted ==
  ASSUME PoolAssumption, PoolInv, \A j \in Rapid!Indices : PoolAccounted(j),
         NEW i \in Rapid!Indices, Rapid!Fetch(i)
  PROVE  PoolInv' /\ \A j \in Rapid!Indices : PoolAccounted(j)'
  <1> DEFINE p == pools[i]
             x == <<i, p.first>>
             U == Rapid!Untaken(i)
             r == [op |-> "construct", slot |-> x]
             q == [p EXCEPT !.made = TRUE, !.first = p.flag[p.first],
                            !.free = p.free - 1, !.use = p.use \cup {p.first}]
  <1>1. /\ Rapid!HasRoom(i) /\ pools' = [pools EXCEPT ![i] = q] /\ stack' = Append(stack, r)
        /\ UNCHANGED <<owned, lost>>
    BY DEF Rapid!Fetch, Rapid!Chosen
  <1>2. /\ p \in PoolType /\ p.use = Cells \ U /\ Listed(p.first, p.flag, p.free, U) /\ (~p.made => U = Cells)
        /\ p.free \in Nat /\ p.flag \in [Cells -> Nat] /\ p.use \subseteq Cells
    BY DEF PoolInv, PoolAccounted, PoolType
  <1>3. p.free # 0
    <2>1. CASE p.made
      BY <1>1, <2>1 DEF Rapid!HasRoom, Rapid!Empty
    <2>2. CASE ~p.made
      <3>1. 0 \in U
        BY <1>2, <2>2 DEF PoolAssumption, Cells
      <3>2. \E k \in 1 .. p.free : TRUE
        BY <1>2, <3>1 DEF Listed
      <3> QED
        BY <1>2, <3>2
    <2> QED
      BY <2>1, <2>2
  <1>4. p.first \in U /\ Listed(p.flag[p.first], p.flag, p.free - 1, U \ {p.first})
    BY <1>2, <1>3, ListPopped
  <1>5. U = {s \in Cells : <<i, s>> \notin Taken}
    BY UntakenMeans
  <1>6. p.first \in Cells /\ x \notin Taken /\ x \in Rapid!Slots
    BY <1>4, <1>5 DEF Rapid!Slots, Cells
  <1>7. /\ q \in PoolType /\ q.made = TRUE /\ q.first = p.flag[p.first] /\ q.free = p.free - 1
        /\ q.use = p.use \cup {p.first} /\ q.flag = p.flag
    <2>1. p.flag[p.first] \in Nat /\ p.free - 1 \in Nat /\ p.use \cup {p.first} \in SUBSET Cells /\ TRUE \in BOOLEAN
      BY <1>2, <1>3, <1>6
    <2> HIDE DEF p
    <2> QED
      BY <1>2, <2>1 DEF PoolType
  <1>8. r \in Calls /\ r.op = "construct" /\ r.slot = x
    BY <1>6 DEF Calls
  <1> HIDE DEF q, r, x
  <1>9. /\ pools' \in [Rapid!Indices -> PoolType] /\ pools'[i] = q
        /\ \A j \in Rapid!Indices : j # i => pools'[j] = pools[j]
    BY <1>1, <1>7 DEF PoolInv
  <1>10. /\ stack' \in Seq(Calls) /\ Len(stack') = Len(stack) + 1 /\ Len(stack) \in Nat
         /\ \A d \in 1 .. Len(stack) : stack'[d] = stack[d]
         /\ stack'[Len(stack) + 1] = r
         /\ Rapid!Constructing' = Rapid!Constructing \cup {x}
    BY <1>1, <1>8, CallBegins DEF PoolInv
  <1>11. Taken' = Taken \cup {x}
    BY <1>1, <1>10 DEF Taken
  <1>12. PoolInv'
    <2>1. owned' \cap lost' = {} /\ (owned' \cup lost') \cap Rapid!Constructing' = {}
      BY <1>1, <1>6, <1>10 DEF PoolInv, Taken
    <2>2. ASSUME NEW d \in 1 .. Len(stack'), NEW e \in 1 .. Len(stack'),
                 stack'[d].op = "construct", stack'[e].op = "construct", stack'[d].slot = stack'[e].slot
          PROVE  d = e
      <3>1. \A k \in 1 .. Len(stack) : stack[k].op = "construct" => stack[k].slot # x
        BY <1>6 DEF Taken, Rapid!Constructing, Rapid!Busy
      <3>2. d \in 1 .. Len(stack) \/ d = Len(stack) + 1
        BY <1>10
      <3>3. e \in 1 .. Len(stack) \/ e = Len(stack) + 1
        BY <1>10
      <3> QED
        BY <1>8, <1>10, <2>2, <3>1, <3>2, <3>3 DEF PoolInv
    <2>3. owned' \subseteq Rapid!Slots /\ lost' \subseteq Rapid!Slots
      BY <1>1 DEF PoolInv
    <2> QED
      BY <1>9, <1>10, <2>1, <2>2, <2>3 DEF PoolInv
  <1>13. Rapid!Untaken(i)' = U \ {p.first}
    <2>1. Rapid!Untaken(i)' = {s \in Cells : <<i, s>> \notin Taken'}
      BY UntakenMeans
    <2> QED
      BY <1>5, <1>11, <2>1 DEF x
  <1>14. PoolAccounted(i)'
    <2>1. pools'[i].use = Cells \ (U \ {p.first})
      BY <1>2, <1>6, <1>7, <1>9
    <2>2. Listed(pools'[i].first, pools'[i].flag, pools'[i].free, U \ {p.first})
      BY <1>4, <1>7, <1>9
    <2>3. pools'[i].made
      BY <1>7, <1>9
    <2> HIDE DEF U, p
    <2> QED
      BY <1>13, <2>1, <2>2, <2>3 DEF PoolAccounted, Cells
  <1>15. ASSUME NEW j \in Rapid!Indices, j # i PROVE PoolAccounted(j)'
    <2>1. \A s : <<j, s>> # x
      BY <1>15 DEF x
    <2>2. Rapid!Untaken(j)' = Rapid!Untaken(j)
      BY <1>11, <2>1, UntakenMeans
    <2> QED
      BY <1>9, <1>15, <2>2, PoolKept
  <1> QED
    BY <1>12, <1>14, <1>15

(* ReleaseObj up to the destructor puts the slot on the list.              *)
LEMMA ReleaseAccounted ==
  ASSUME PoolAssumption, PoolInv, \A j \in Rapid!Indices : PoolAccounted(j),
         NEW o \in Rapid!Slots, Rapid!ReleaseObj(o)
  PROVE  PoolInv' /\ \A j \in Rapid!Indices : PoolAccounted(j)'
  <1>0. PICK i \in Rapid!Indices, c \in Cells : o = <<i, c>>
    BY DEF Rapid!Slots, Cells
  <1> DEFINE p == pools[i]
             U == Rapid!Untaken(i)
             r == [op |-> "destroy", slot |-> o]
             g == [p.flag EXCEPT ![c] = p.first]
             q == [p EXCEPT !.flag[c] = p.first, !.first = c, !.free = p.free + 1, !.use = p.use \ {c}]
  <1>1. /\ o \in owned /\ pools' = [pools EXCEPT ![i] = q] /\ stack' = Append(stack, r)
        /\ owned' = owned \ {o} /\ lost' = lost
    BY <1>0 DEF Rapid!ReleaseObj, Rapid!Home
  <1>2. /\ p \in PoolType /\ p.use = Cells \ U /\ Listed(p.first, p.flag, p.free, U)
        /\ p.free \in Nat /\ p.first \in Nat /\ p.flag \in [Cells -> Nat] /\ p.use \subseteq Cells
    BY DEF PoolInv, PoolAccounted, PoolType
  <1>3. U = {s \in Cells : <<i, s>> \notin Taken}
    BY UntakenMeans
  <1>4. U \subseteq Cells /\ c \notin U
    BY <1>0, <1>1, <1>3 DEF Taken
  <1>5. Listed(c, g, p.free + 1, U \cup {c})
    BY <1>2, <1>4, ListPushed
  <1>6. /\ q \in PoolType /\ q.made = p.made /\ q.first = c /\ q.free = p.free + 1
        /\ q.use = p.use \ {c} /\ q.flag = g
    <2>1. /\ g \in [Cells -> Nat] /\ p.free + 1 \in Nat /\ p.use \ {c} \in SUBSET Cells /\ c \in Nat
          /\ q = [p EXCEPT !.flag = g, !.first = c, !.free = p.free + 1, !.use = p.use \ {c}]
      BY <1>2 DEF Cells, PoolType
    <2> HIDE DEF p, g, q
    <2> QED
      BY <1>2, <2>1 DEF PoolType
  <1>7. r \in Calls /\ r.op = "destroy"
    BY DEF Calls
  <1> HIDE DEF q, r, g
  <1>8. /\ pools' \in [Rapid!Indices -> PoolType] /\ pools'[i] = q
        /\ \A j \in Rapid!Indices : j # i => pools'[j] = pools[j]
    BY <1>1, <1>6 DEF PoolInv
  <1>9. /\ stack' \in Seq(Calls) /\ Len(stack') = Len(stack) + 1 /\ Len(stack) \in Nat
        /\ \A d \in 1 .. Len(stack) : stack'[d] = stack[d]
        /\ stack'[Len(stack) + 1] = r
        /\ Rapid!Constructing' = Rapid!Constructing
    <2>1. stack \in Seq(Calls) /\ Len(stack) \in Nat
      BY DEF PoolInv
    <2>2. /\ stack' \in Seq(Calls) /\ Len(stack') = Len(stack) + 1
          /\ \A d \in 1 .. Len(stack) : stack'[d] = stack[d]
          /\ stack'[Len(stack) + 1] = r
          /\ Rapid!Constructing' = Rapid!Constructing \cup (IF r.op = "construct" THEN {r.slot} ELSE {})
      BY <1>1, <1>7, <2>1, CallBegins
    <2>3. r.op # "construct"
      BY <1>7
    <2> QED
      BY <2>1, <2>2, <2>3
  <1>10. Taken' = Taken \ {o}
    BY <1>1, <1>9 DEF Taken, PoolInv
  <1>11. PoolInv'
    <2>1. owned' \cap lost' = {} /\ (owned' \cup lost') \cap Rapid!Constructing' = {}
      BY <1>1, <1>9 DEF PoolInv
    <2>2. ASSUME NEW d \in 1 .. Len(stack'), NEW e \in 1 .. Len(stack'),
                 stack'[d].op = "construct", stack'[e].op = "construct", stack'[d].slot = stack'[e].slot
          PROVE  d = e
      <3>1. d \in 1 .. Len(stack) \/ d = Len(stack) + 1
        BY <1>9
      <3>2. e \in 1 .. Len(stack) \/ e = Len(stack) + 1
        BY <1>9
      <3> QED
        BY <1>7, <1>9, <2>2, <3>1, <3>2 DEF PoolInv
    <2>3. owned' \subseteq Rapid!Slots /\ lost' \subseteq Rapid!Slots
      BY <1>1 DEF PoolInv
    <2> QED
      BY <1>8, <1>9, <2>1, <2>2, <2>3 DEF PoolInv
  <1>12. Rapid!Untaken(i)' = U \cup {c}
    <2>1. Rapid!Untaken(i)' = {s \in Cells : <<i, s>> \notin Taken'}
      BY UntakenMeans
    <2> QED
      BY <1>0, <1>3, <1>10, <2>1
  <1>13. PoolAccounted(i)'
    <2>1. pools'[i].use = Cells \ (U \cup {c})
      BY <1>2, <1>6, <1>8
    <2>2. Listed(pools'[i].first, pools'[i].flag, pools'[i].free, U \cup {c})
      BY <1>5, <1>6, <1>8
    <2>3. pools'[i].made
      <3>1. p.made
        BY <1>2, <1>4 DEF PoolAccounted
      <3> QED
        BY <1>6, <1>8, <3>1
    <2> HIDE DEF U, p
    <2> QED
      BY <1>12, <2>1, <2>2, <2>3 DEF PoolAccounted, Cells
  <1>14. ASSUME NEW j \in Rapid!Indices, j # i PROVE PoolAccounted(j)'
    <2>1. \A s : <<j, s>> # o
      BY <1>0, <1>14
    <2>2. Rapid!Untaken(j)' = Rapid!Untaken(j)
      BY <1>10, <2>1, UntakenMeans
    <2> QED
      BY <1>8, <1>14, <2>2, PoolKept
  <1> QED
    BY <1>11, <1>13, <1>14

(* A call ends: its slot changes hands and stays taken.                    *)
LEMMA ReturnKeeps ==
  ASSUME PoolInv, Rapid!Constructed \/ Rapid!ConstructorThrows \/ Rapid!Destroyed
  PROVE  Taken' = Taken
  <1> DEFINE r == stack[Len(stack)]
             new == IF r.op = "construct" THEN {r.slot} ELSE {}
  <1>1. stack # <<>> /\ Rapid!Return
    BY DEF Rapid!Constructed, Rapid!ConstructorThrows, Rapid!Destroyed, Rapid!Innermost
  <1>2. Rapid!Constructing = Rapid!Constructing' \cup new
    BY <1>1, CallEnds
  <1>3. /\ \/ owned' = owned \cup new /\ lost' = lost
           \/ lost' = lost \cup new /\ owned' = owned
    BY DEF Rapid!Constructed, Rapid!ConstructorThrows, Rapid!Destroyed, Rapid!Innermost, Rapid!Slot
  <1> HIDE DEF new
  <1> QED
    BY <1>2, <1>3 DEF Taken

LEMMA ReturnAccounted ==
  ASSUME PoolInv, \A j \in Rapid!Indices : PoolAccounted(j),
         Rapid!Constructed \/ Rapid!ConstructorThrows \/ Rapid!Destroyed
  PROVE  PoolInv' /\ \A j \in Rapid!Indices : PoolAccounted(j)'
  <1> DEFINE r == stack[Len(stack)]
             new == IF r.op = "construct" THEN {r.slot} ELSE {}
  <1>1. stack # <<>> /\ Rapid!Return /\ pools' = pools
    BY DEF Rapid!Constructed, Rapid!ConstructorThrows, Rapid!Destroyed, Rapid!Innermost
  <1>2. /\ stack' \in Seq(Calls) /\ Len(stack') = Len(stack) - 1 /\ r \in Calls
        /\ \A d \in 1 .. Len(stack') : stack'[d] = stack[d] /\ d \in 1 .. Len(stack)
        /\ Rapid!Constructing = Rapid!Constructing' \cup new
        /\ new \cap Rapid!Constructing' = {}
    BY <1>1, CallEnds
  <1>3. /\ \/ owned' = owned \cup new /\ lost' = lost
           \/ lost' = lost \cup new /\ owned' = owned
    BY DEF Rapid!Constructed, Rapid!ConstructorThrows, Rapid!Destroyed, Rapid!Innermost, Rapid!Slot
  <1>4. new \subseteq Rapid!Slots
    BY <1>2 DEF Calls
  <1> HIDE DEF new, r
  <1>5. Taken' = Taken
    BY ReturnKeeps
  <1>6. PoolInv'
    <2>1. owned' \cap lost' = {} /\ (owned' \cup lost') \cap Rapid!Constructing' = {}
      BY <1>2, <1>3 DEF PoolInv
    <2>2. owned' \subseteq Rapid!Slots /\ lost' \subseteq Rapid!Slots
      BY <1>3, <1>4 DEF PoolInv
    <2>3. \A d, e \in 1 .. Len(stack') :
            stack'[d].op = "construct" /\ stack'[e].op = "construct" /\ stack'[d].slot = stack'[e].slot => d = e
      BY <1>2 DEF PoolInv
    <2> QED
      BY <1>1, <1>2, <2>1, <2>2, <2>3 DEF PoolInv
  <1>7. ASSUME NEW j \in Rapid!Indices PROVE PoolAccounted(j)'
    <2>1. Rapid!Untaken(j)' = Rapid!Untaken(j)
      BY <1>5, UntakenMeans
    <2> QED
      BY <1>1, <1>7, <2>1, PoolKept
  <1> QED
    BY <1>6, <1>7

(* A new pool lists all its slots.                                         *)
LEMMA NewPoolsAccounted ==
  ASSUME PoolAssumption, Rapid!Init
  PROVE  PoolInv /\ \A i \in Rapid!Indices : PoolAccounted(i)
  <1>1. stack = <<>> /\ owned = {} /\ lost = {} /\ Rapid!Constructing = {}
    BY DEF Rapid!Init, Rapid!Constructing, Rapid!Busy
  <1>2. ASSUME NEW i \in Rapid!Indices
        PROVE  /\ pools[i] \in PoolType /\ pools[i].first = 0 /\ pools[i].free = SIZE /\ pools[i].use = {}
               /\ pools[i].flag = [s \in Cells |-> s + 1]
    <2> DEFINE flag == [s \in Cells |-> s + 1]
    <2>1. pools[i] = [Rapid!NewPool EXCEPT !.made = (i = 0)]
      BY DEF Rapid!Init
    <2>2. flag \in [Cells -> Nat] /\ SIZE \in Nat
      BY DEF Cells, PoolAssumption
    <2>3. Rapid!NewPool = [made |-> TRUE, first |-> 0, free |-> SIZE, use |-> {}, flag |-> flag]
      BY DEF Rapid!NewPool, Cells
    <2>4. PICK b \in BOOLEAN : b = (i = 0)
      OBVIOUS
    <2> HIDE DEF flag
    <2>5. pools[i] = [made |-> b, first |-> 0, free |-> SIZE, use |-> {}, flag |-> flag]
      BY <2>1, <2>3, <2>4
    <2> QED
      BY <2>2, <2>5 DEF PoolType, flag
  <1>3. PoolInv
    <2>1. pools \in [Rapid!Indices -> PoolType]
      <3>1. pools = [i \in Rapid!Indices |-> [Rapid!NewPool EXCEPT !.made = (i = 0)]]
        BY DEF Rapid!Init
      <3> QED
        BY <1>2, <3>1
    <2> QED
      BY <1>1, <2>1 DEF PoolInv
  <1>4. \A i \in Rapid!Indices : Rapid!Untaken(i) = Cells
    BY <1>1, UntakenMeans DEF Taken
  <1>5. Listed(0, [s \in Cells |-> s + 1], SIZE, Cells)
    <2> DEFINE list == [k \in 1 .. SIZE |-> k - 1]
               flag == [s \in Cells |-> s + 1]
    <2>1. list \in [1 .. SIZE -> Cells]
      BY DEF Cells, PoolAssumption
    <2>2. \A k \in 1 .. SIZE : list[k] = IF k = 1 THEN 0 ELSE flag[list[k - 1]]
      <3> SUFFICES ASSUME NEW k \in 1 .. SIZE, k # 1 PROVE list[k] = flag[list[k - 1]]
        BY DEF PoolAssumption
      <3>1. k - 1 \in 1 .. SIZE /\ (k - 1) - 1 \in Cells /\ k \in Int
        BY DEF Cells, PoolAssumption
      <3> QED
        BY <3>1
    <2>3. \A k, l \in 1 .. SIZE : list[k] = list[l] => k = l
      <3> SUFFICES ASSUME NEW k \in 1 .. SIZE, NEW l \in 1 .. SIZE, k - 1 = l - 1 PROVE k = l
        OBVIOUS
      <3> QED
        BY DEF PoolAssumption
    <2>4. \A s \in Cells : \E k \in 1 .. SIZE : list[k] = s
      <3> SUFFICES ASSUME NEW s \in Cells PROVE \E k \in 1 .. SIZE : list[k] = s
        OBVIOUS
      <3>1. s + 1 \in 1 .. SIZE /\ (s + 1) - 1 = s
        BY DEF Cells, PoolAssumption
      <3> QED
        BY <3>1
    <2> HIDE DEF list, flag
    <2>5. Listed(0, flag, SIZE, Cells)
      BY <2>1, <2>2, <2>3, <2>4 DEF Listed
    <2> QED
      BY <2>5 DEF flag
  <1> QED
    BY <1>2, <1>3, <1>4, <1>5 DEF PoolAccounted

(* A slot under destruction is fetched again by a destructor only.         *)
ApartInv == refetched \in BOOLEAN /\ (refetched \/ Rapid!ObjectsApart)

LEMMA ApartStep ==
  ASSUME PoolInv, PoolInv', ApartInv, Rapid!Next
  PROVE  ApartInv'
  <1>0. /\ stack \in Seq(Calls) /\ stack' \in Seq(Calls)
        /\ Rapid!Fetched = Taken /\ Rapid!Fetched' = Taken'
    BY DEF PoolInv, Rapid!Fetched, Taken
  <1>1. CASE \E i \in Rapid!Indices : Rapid!Fetch(i)
    <2>1. PICK i \in Rapid!Indices : Rapid!Fetch(i)
      BY <1>1
    <2> DEFINE c == [op |-> "construct", slot |-> <<i, pools[i].first>>]
    <2>2. stack' = Append(stack, c) /\ refetched' = (refetched \/ Rapid!Destroying # {})
      BY <2>1 DEF Rapid!Fetch
    <2>3. c \in Calls /\ c.op = "construct"
      <3>1. Len(stack) + 1 \in 1 .. Len(stack') /\ stack'[Len(stack) + 1] = c
        BY <1>0, <2>2
      <3>2. stack'[Len(stack) + 1] \in Calls
        BY <1>0, <3>1
      <3> QED
        BY <3>1, <3>2
    <2> HIDE DEF c
    <2>4. Rapid!Destroying' = Rapid!Destroying
      BY <1>0, <2>2, <2>3, CallBegins
    <2> QED
      BY <2>2, <2>4 DEF ApartInv, Rapid!ObjectsApart
  <1>2. CASE \E o \in Rapid!Slots : Rapid!ReleaseObj(o)
    <2>1. PICK o \in Rapid!Slots : Rapid!ReleaseObj(o)
      BY <1>2
    <2> DEFINE c == [op |-> "destroy", slot |-> o]
    <2>2. /\ stack' = Append(stack, c) /\ refetched' = refetched
          /\ o \in owned /\ owned' = owned \ {o} /\ lost' = lost
      BY <2>1 DEF Rapid!ReleaseObj
    <2>3. c \in Calls /\ c.op = "destroy" /\ c.slot = o
      BY DEF Calls
    <2> HIDE DEF c
    <2>4. Rapid!Destroying' = Rapid!Destroying \cup {o} /\ Rapid!Constructing' = Rapid!Constructing
      BY <1>0, <2>2, <2>3, CallBegins
    <2>5. Taken' = Taken \ {o}
      BY <2>2, <2>4 DEF Taken, PoolInv
    <2> QED
      BY <1>0, <2>2, <2>4, <2>5 DEF ApartInv, Rapid!ObjectsApart
  <1>3. CASE Rapid!Constructed \/ Rapid!ConstructorThrows \/ Rapid!Destroyed
    <2>1. stack # <<>> /\ Rapid!Return
      BY <1>3 DEF Rapid!Constructed, Rapid!ConstructorThrows, Rapid!Destroyed, Rapid!Innermost
    <2>2. Rapid!Destroying' \subseteq Rapid!Destroying
      BY <2>1, CallEnds
    <2>3. Taken' = Taken
      BY <1>3, ReturnKeeps
    <2>4. refetched' = refetched \/ refetched' = (refetched /\ Rapid!Destroying' # {})
      BY <1>3 DEF Rapid!Constructed, Rapid!ConstructorThrows, Rapid!Destroyed
    <2> QED
      BY <1>0, <2>2, <2>3, <2>4 DEF ApartInv, Rapid!ObjectsApart
  <1> QED
    BY <1>1, <1>2, <1>3 DEF Rapid!Next

(* However the calls of a CDMRapidPool nest and whichever constructors     *)
(* throw, the free lists hold exactly the slots not fetched or released    *)
(* since, each once, and as long as no destructor under way has fetched no *)
(* object shares its slot with one under destruction, for any number of    *)
(* pools of any size.                                                      *)
THEOREM SlotsStayAccounted ==
  ASSUME PoolAssumption
  PROVE  MCSpec => []SlotsAccounted
  <1> DEFINE Accounted == PoolInv /\ ApartInv /\ \A i \in Rapid!Indices : PoolAccounted(i)
  <1>1. MCInit => Accounted
    <2>1. Rapid!Init => ApartInv
      <3> SUFFICES ASSUME Rapid!Init PROVE ApartInv
        OBVIOUS
      <3>1. stack = <<>> /\ refetched = FALSE
        BY DEF Rapid!Init
      <3>2. Rapid!Destroying = {}
        BY <3>1 DEF Rapid!Destroying, Rapid!Busy
      <3> QED
        BY <3>1, <3>2 DEF ApartInv, Rapid!ObjectsApart
    <2> QED
      BY <2>1, NewPoolsAccounted DEF MCInit
  <1>2. Accounted /\ [MCNext]_allVars => Accounted'
    <2> SUFFICES ASSUME Accounted, [MCNext]_allVars
                 PROVE  PoolInv' /\ ApartInv' /\ \A i \in Rapid!Indices : PoolAccounted(i)'
      OBVIOUS
    <2>1. CASE Rapid!Next
      <3>1. PoolInv' /\ \A i \in Rapid!Indices : PoolAccounted(i)'
        BY <2>1, FetchAccounted, ReleaseAccounted, ReturnAccounted DEF Rapid!Next
      <3> QED
        BY <2>1, <3>1, ApartStep
    <2>2. CASE UNCHANGED rapidVars
      <3>1. UNCHANGED <<pools, stack, owned, lost, refetched>>
        BY <2>2 DEF rapidVars
      <3>2. PoolInv' /\ Taken' = Taken
        BY <3>1 DEF PoolInv, Taken, Rapid!Constructing, Rapid!Busy
      <3>3. \A i : Rapid!Untaken(i)' = Rapid!Untaken(i)
        BY <3>2, UntakenMeans
      <3>4. ApartInv'
        BY <3>1 DEF ApartInv, Rapid!ObjectsApart, Rapid!Fetched, Rapid!Constructing, Rapid!Destroying, Rapid!Busy
      <3> QED
        BY <3>1, <3>2, <3>3, <3>4, PoolKept
    <2> QED
      BY <2>1, <2>2 DEF MCNext, allVars
  <1>3. Accounted => SlotsAccounted
    BY AccountedMeans DEF ApartInv
  <1> QED
    BY <1>1, <1>2, <1>3, PTL DEF MCSpec
=============================================================================
