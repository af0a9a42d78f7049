--------------------------- MODULE DMAtomicQueue ---------------------------
(***************************************************************************)
(* CDMAtomicQueue (include/dmatomic_queue.h): a ring of Capacity slots     *)
(* shared by one producer thread and one consumer thread.  The producer    *)
(* owns head_, the consumer owns tail_, and each reads the other's index   *)
(* with an acquire load.                                                   *)
(*                                                                         *)
(* Memory model.  An atomic index has one writer, so an acquire load may   *)
(* return any value the index has had since the value the same thread saw  *)
(* last (coherence); seenTail and seenHead record that last value.  What   *)
(* the writer did to the slots before the store it reads from is visible   *)
(* to the loading thread.                                                  *)
(*                                                                         *)
(* slots_ holds the bytes of every slot, constructed the slots in which an *)
(* object is alive (placement new adds a slot, ~T removes it; the bytes    *)
(* stay).  kPadding and the cache-line layout are left out.                *)
(***************************************************************************)
EXTENDS Integers, Sequences, FiniteSets

CONSTANTS Values,     \* the elements that can be pushed
          Capacity,   \* capacity_
          None        \* bytes of a slot never written; "no value read yet"

(* The constructor throws std::invalid_argument for a smaller capacity.    *)
ASSUME CapacityAssumption == Capacity \in Nat /\ Capacity >= 2
ASSUME NoneAssumption == None \notin Values

VARIABLES
  head_, tail_,   \* next slot to write, next slot to read
  slots_,         \* bytes of every slot
  constructed,    \* slots holding a live object
  ppc,            \* where the producer is: idle, load, construct, publish
  pcall,          \* the call it is in: emplace (blocking) or try_emplace
  pval,           \* its argument
  seenTail,       \* last value of tail_ the producer loaded
  psize,          \* last size() the producer got since it pushed, or NoSize
  cpc,            \* where the consumer is: idle, front, destroy, retire, abort
  seenHead,       \* last value of head_ the consumer loaded
  csize,          \* last size() the consumer got since it popped, or NoSize
  val,            \* last value the consumer read through front()
  phase           \* run, then dtor (in ~CDMAtomicQueue), then dead

ringVars == <<head_, tail_, slots_, constructed>>
pVars == <<ppc, pcall, pval, seenTail, psize>>
cVars == <<cpc, seenHead, csize, val>>
vars == <<ringVars, pVars, cVars, phase>>

Slots == 0 .. Capacity - 1
NoSize == -1

-----------------------------------------------------------------------------
(* Arithmetic on the ring.                                                 *)

(* nextHead in emplace, nextTail in pop                                    *)
Succ(i) == IF i + 1 = Capacity THEN 0 ELSE i + 1

(* the slot before slot i                                                  *)
Pred(i) == IF i = 0 THEN Capacity - 1 ELSE i - 1

(* size() without the wrap-around correction                               *)
MutDist(t, h) == IF h >= t THEN h - t ELSE 0

(* size(): head minus tail, plus capacity_ when negative                   *)
Dist(t, h) == IF h - t < 0 THEN h - t + Capacity ELSE h - t

(* the slot i places after slot t                                          *)
At(t, i) == IF t + i >= Capacity THEN t + i - Capacity ELSE t + i

(* what a load may return of an index seen at "from" and now at "to"       *)
Views(from, to) == {At(from, i) : i \in 0 .. Dist(from, to)}

-----------------------------------------------------------------------------
(* Constructor: both indices 0, raw memory.                                *)
Init ==
  /\ head_ = 0 /\ tail_ = 0
  /\ slots_ = [i \in Slots |-> None]
  /\ constructed = {}
  /\ ppc = "idle" /\ pcall = "emplace" /\ pval = None
  /\ seenTail = 0 /\ psize = NoSize
  /\ cpc = "idle" /\ seenHead = 0 /\ csize = NoSize /\ val = None
  /\ phase = "run"

-----------------------------------------------------------------------------
(* Producer.  push and try_push forward to emplace and try_emplace.        *)

PCall(call, v) ==
  /\ phase = "run" /\ ppc = "idle"
  /\ ppc' = "load" /\ pcall' = call /\ pval' = v /\ psize' = NoSize
  /\ UNCHANGED <<ringVars, seenTail, cVars, phase>>

(* the full test compares head instead of nextHead                         *)
MutPLoadTail(t) ==
  /\ ppc = "load"
  /\ seenTail' = t
  /\ ppc' = IF head_ = t /\ constructed # {} THEN "load" ELSE "construct"
  /\ UNCHANGED <<ringVars, pcall, pval, psize, cVars, phase>>

(* the spinning loop tests a value of tail_ loaded once, before the loop   *)
MutPLoadTailHoisted(t) ==
  /\ ppc = "load"
  /\ t = seenTail
  /\ ppc' = IF Succ(head_) # t THEN "construct"
            ELSE IF pcall = "try_emplace" THEN "idle" ELSE "load"
  /\ UNCHANGED <<ringVars, pcall, pval, seenTail, psize, cVars, phase>>

(* The acquire load of tail_: a full ring makes try_emplace return false   *)
(* and emplace load again.                                                 *)
PLoadTail(t) ==
  /\ ppc = "load"
  /\ seenTail' = t
  /\ ppc' = IF Succ(head_) # t THEN "construct"
            ELSE IF pcall = "try_emplace" THEN "idle" ELSE "load"
  /\ UNCHANGED <<ringVars, pcall, pval, psize, cVars, phase>>

(* Placement new into the slot at head_.                                   *)
PConstruct ==
  /\ ppc = "construct"
  /\ slots_' = [slots_ EXCEPT ![head_] = pval]
  /\ constructed' = constructed \cup {head_}
  /\ ppc' = "publish"
  /\ UNCHANGED <<head_, tail_, pcall, pval, seenTail, psize, cVars, phase>>

(* The element's constructor throws (the calls are noexcept only for       *)
(* types that cannot): nothing was published.                              *)
PThrow ==
  /\ ppc = "construct"
  /\ ppc' = "idle"
  /\ UNCHANGED <<ringVars, pcall, pval, seenTail, psize, cVars, phase>>

(* The release store of head_.                                             *)
PPublish ==
  /\ ppc = "publish"
  /\ head_' = Succ(head_)
  /\ ppc' = "idle"
  /\ UNCHANGED <<tail_, slots_, constructed, pcall, pval, seenTail, psize,
                 cVars, phase>>

(* size() or empty() called by the producer.                               *)
PSize(t) ==
  /\ phase = "run" /\ ppc = "idle"
  /\ seenTail' = t
  /\ psize' = Dist(t, head_)
  /\ UNCHANGED <<ringVars, ppc, pcall, pval, cVars, phase>>

-----------------------------------------------------------------------------
(* Consumer.                                                               *)

(* front() returns the slot even when the ring is empty                    *)
MutCFront(h) ==
  /\ phase = "run" /\ cpc = "idle"
  /\ seenHead' = h
  /\ cpc' = "front"
  /\ UNCHANGED <<ringVars, pVars, csize, val, phase>>

(* front(): nullptr leaves the consumer idle, otherwise it holds a pointer *)
(* to the slot at tail_.                                                   *)
CFront(h) ==
  /\ phase = "run" /\ cpc = "idle"
  /\ seenHead' = h
  /\ cpc' = IF h = tail_ THEN "idle" ELSE "front"
  /\ UNCHANGED <<ringVars, pVars, csize, val, phase>>

(* The consumer reads the element front() points to.                       *)
CRead ==
  /\ cpc = "front"
  /\ val' = slots_[tail_]
  /\ UNCHANGED <<ringVars, pVars, cpc, seenHead, csize, phase>>

(* size() or empty() called by the consumer.                               *)
CSize(h) ==
  /\ phase = "run" /\ cpc = "idle"
  /\ seenHead' = h
  /\ csize' = Dist(tail_, h)
  /\ UNCHANGED <<ringVars, pVars, cpc, val, phase>>

(* pop() is called by a consumer that has been told the ring is not empty, *)
(* by front() or by size(); it starts with assert(head_ != tail).          *)
CPop(h) ==
  /\ phase = "run"
  /\ cpc = "front" \/ (cpc = "idle" /\ csize > 0)
  /\ seenHead' = h
  /\ cpc' = IF h = tail_ THEN "abort" ELSE "destroy"
  /\ csize' = NoSize
  /\ UNCHANGED <<ringVars, pVars, val, phase>>

(* ~T() on the slot at tail_.                                              *)
CDestroy ==
  /\ cpc = "destroy"
  /\ constructed' = constructed \ {tail_}
  /\ cpc' = "retire"
  /\ UNCHANGED <<head_, tail_, slots_, pVars, seenHead, csize, val, phase>>

(* The release store of tail_.                                             *)
CRetire ==
  /\ cpc = "retire"
  /\ tail_' = Succ(tail_)
  /\ cpc' = "idle"
  /\ UNCHANGED <<head_, slots_, constructed, pVars, seenHead, csize, val, phase>>

-----------------------------------------------------------------------------
(* ~CDMAtomicQueue, run once both threads are done with the queue and have *)
(* been joined, so that its loads are exact.                               *)

DtorEnter ==
  /\ phase = "run" /\ ppc = "idle" /\ cpc = "idle"
  /\ phase' = "dtor"
  /\ psize' = NoSize /\ csize' = NoSize
  /\ UNCHANGED <<ringVars, ppc, pcall, pval, seenTail, cpc, seenHead, val>>

(* one round of while (front()) pop()                                      *)
DtorPop ==
  /\ phase = "dtor" /\ head_ # tail_
  /\ constructed' = constructed \ {tail_}
  /\ tail_' = Succ(tail_)
  /\ UNCHANGED <<head_, slots_, pVars, cVars, phase>>

(* the destructor frees the slots without popping what is left             *)
MutDtorFree ==
  /\ phase = "dtor"
  /\ phase' = "dead"
  /\ UNCHANGED <<ringVars, pVars, cVars>>

(* operator delete[](slots_)                                               *)
DtorFree ==
  /\ phase = "dtor" /\ head_ = tail_
  /\ phase' = "dead"
  /\ UNCHANGED <<ringVars, pVars, cVars>>

(* The object is gone: nothing is left to do.                              *)
Gone == phase = "dead" /\ UNCHANGED vars

-----------------------------------------------------------------------------
Producer ==
  \/ \E call \in {"emplace", "try_emplace"}, v \in Values : PCall(call, v)
  \/ \E t \in Views(seenTail, tail_) : PLoadTail(t)
  \/ PConstruct \/ PThrow \/ PPublish
  \/ \E t \in Views(seenTail, tail_) : PSize(t)

Consumer ==
  \/ \E h \in Views(seenHead, head_) : CFront(h)
  \/ CRead
  \/ \E h \in Views(seenHead, head_) : CSize(h)
  \/ \E h \in Views(seenHead, head_) : CPop(h)
  \/ CDestroy \/ CRetire

Destructor == DtorEnter \/ DtorPop \/ DtorFree

Next == Producer \/ Consumer \/ Destructor \/ Gone

Spec == Init /\ [][Next]_vars

(* Both threads keep being scheduled, a store becomes visible to the other *)
(* thread's repeated loads after finitely many of them, and the consumer   *)
(* keeps calling front() and, on a non-null answer, pop().                 *)
Fairness ==
  /\ WF_vars(\E t \in Views(seenTail, tail_) : PLoadTail(t))
  /\ WF_vars(PConstruct \/ PThrow)
  /\ WF_vars(PPublish)
  /\ WF_vars(\E h \in Views(seenHead, head_) : CFront(h))
  /\ WF_vars(\E h \in Views(seenHead, head_) : CPop(h))
  /\ WF_vars(CDestroy)
  /\ WF_vars(CRetire)

FairSpec == Spec /\ Fairness

-----------------------------------------------------------------------------
(* Every variable stays within its declared range.                         *)
TypeOK ==
  /\ head_ \in Slots /\ tail_ \in Slots
  /\ slots_ \in [Slots -> Values \cup {None}]
  /\ constructed \subseteq Slots
  /\ ppc \in {"idle", "load", "construct", "publish"}
  /\ pcall \in {"emplace", "try_emplace"}
  /\ pval \in Values \cup {None}
  /\ seenTail \in Slots
  /\ psize \in {NoSize} \cup Slots
  /\ cpc \in {"idle", "front", "destroy", "retire", "abort"}
  /\ seenHead \in Slots
  /\ csize \in {NoSize} \cup Slots
  /\ val \in Values \cup {None}
  /\ phase \in {"run", "dtor", "dead"}

(* Objects are constructed only in raw memory, read and destroyed only     *)
(* while alive and never while the producer is still at the same slot, and *)
(* none is left alive when the slots are freed: what the TestType of       *)
(* test/queuetest counts, with each thread's view of the other's index     *)
(* arbitrarily stale.                                                      *)
SlotLifetime ==
  /\ ppc = "construct" => head_ \notin constructed
  /\ cpc \in {"front", "destroy"} => tail_ \in constructed
  /\ ppc = "publish" /\ cpc \in {"front", "destroy"} => head_ # tail_
  /\ phase = "dead" => constructed = {}

(* assert(head_ != tail) in pop() never fires for a consumer that was told *)
(* by front() or size() that there is an element.                          *)
PopAssertHolds == cpc # "abort"

(* size() never under-reports to the producer and never over-reports to    *)
(* the consumer, whatever the other thread did since.                      *)
SizeBounds ==
  /\ psize # NoSize => psize >= Dist(tail_, head_)
  /\ csize # NoSize => csize <= Dist(tail_, head_)

(* The bytes of the slot popped last do not change before the next pop:    *)
(* one slot stays unused, so the consumer of test/queueexample, which      *)
(* reads through front()'s pointer after pop(), reads the element it       *)
(* popped.                                                                 *)
PoppedSlotStable ==
  [][tail_' = tail_ => slots_'[Pred(tail_)] = slots_[Pred(tail_)]]_vars

(* A blocking emplace returns as long as the consumer keeps popping.       *)
EmplaceReturns == (ppc = "load") ~> (ppc # "load")

-----------------------------------------------------------------------------
(* Refinement: the elements from the oldest one not yet destroyed up to    *)
(* head_, as a sequence, behave as a bounded FIFO.                         *)

oldest == IF cpc = "retire" THEN Succ(tail_) ELSE tail_
count == Dist(oldest, head_)
contents == [i \in 1 .. count |-> slots_[At(oldest, i - 1)]]

Fifo == INSTANCE BoundedFifo WITH Bound <- Capacity - 1, q <- contents, seen <- val

(* The ring implements a FIFO queue of Capacity - 1 elements.              *)
ImplementsFifo == Fifo!Spec

-----------------------------------------------------------------------------
(* The inductive invariant behind the theorems of StandaloneProofs.        *)

(* seenTail, tail_, head_ lie in this order around the ring, and the       *)
(* producer only gets past its test when Succ(head_) has not been reached. *)
ProducerView ==
  /\ Dist(seenTail, tail_) + Dist(tail_, head_) = Dist(seenTail, head_)
  /\ ppc \in {"construct", "publish"} => Succ(head_) # seenTail
  /\ ppc # "idle" => pval \in Values
  /\ ppc = "publish" => slots_[head_] = pval
  /\ psize # NoSize => ppc = "idle" /\ psize >= Dist(tail_, head_)

(* tail_, seenHead, head_ lie in this order, and a consumer that was told  *)
(* of an element has seenHead past tail_.                                  *)
ConsumerView ==
  phase = "run" =>
    /\ Dist(tail_, seenHead) + Dist(seenHead, head_) = Dist(tail_, head_)
    /\ cpc \in {"front", "destroy", "retire"} => tail_ # seenHead
    /\ csize # NoSize => /\ cpc \in {"idle", "front"}
                        /\ csize <= Dist(tail_, seenHead)

(* The live objects are those from oldest up to head_, and the one         *)
(* constructed but not yet published.                                      *)
LiveSlots ==
  constructed = {s \in Slots : Dist(oldest, s) < count}
                  \cup (IF ppc = "publish" THEN {head_} ELSE {})

(* The destructor runs alone.                                              *)
DtorAlone ==
  phase # "run" => /\ ppc = "idle" /\ cpc = "idle"
                   /\ psize = NoSize /\ csize = NoSize

IInv ==
  /\ TypeOK /\ ProducerView /\ ConsumerView /\ LiveSlots /\ DtorAlone
  /\ PopAssertHolds
  /\ phase = "dead" => head_ = tail_
=============================================================================
