---------------------------- MODULE MCStandalone ----------------------------
(* Instances of the containers that nothing else in the repository uses,   *)
(* for TLC.  They share no state: each behaviour runs one of them, the one *)
(* chosen in MCInit, and the others stay as they were made.                *)
EXTENDS DMAtomicQueue

CONSTANTS
  Containers,                                  \* the ones to run
  IndexRange, Bytes, Requests, MaxLen,         \* AtomicKFifo
  nullptr, Elements, RingSize, SizeRange,      \* CAtomicQueue
  Threads, MaxQueued,                          \* ThreadSafeQueue
  SIZE, INDEX, MaxDepth                        \* RapidPool

VARIABLES
  which,
  capacity_, buffer_, in_idx_, out_idx_, producer, consumer, got,
  buffer, head, tail, size, pushing, popping, fronted,
  queue_, waiting, woken, abandoned,
  pools, stack, owned, lost, refetched

bytesVars == <<capacity_, buffer_, in_idx_, out_idx_, producer, consumer, got>>
atomicVars == <<buffer, head, tail, size, pushing, popping, fronted>>
safeVars == <<queue_, waiting, woken, abandoned>>
rapidVars == <<pools, stack, owned, lost, refetched>>
allVars == <<which, vars, bytesVars, atomicVars, safeVars, rapidVars>>

ByteQueue == INSTANCE AtomicKFifo
AtomicQueue == INSTANCE CAtomicQueue WITH Values <- Elements, Capacity <- RingSize
SafeQueue == INSTANCE ThreadSafeQueue WITH Values <- Elements
Rapid == INSTANCE RapidPool

(* AtomicKFifo is asked for a capacity that its type can hold, and not for *)
(* 0, for which the constructor throws.                                    *)
ASSUME RangeAssumption == \E w \in 2 .. 64 : IndexRange = ByteQueue!PowerOfTwo[w]
ASSUME RequestAssumption ==
  /\ 0 \in Bytes
  /\ Requests \subseteq 1 .. IndexRange - 1 /\ MaxLen \in 1 .. IndexRange - 1

MCInit ==
  /\ which \in Containers
  /\ Init /\ ByteQueue!Init /\ AtomicQueue!Init /\ SafeQueue!Init /\ Rapid!Init

MCNext ==
  \/ /\ which = "CDMAtomicQueue" /\ Next
     /\ UNCHANGED <<which, bytesVars, atomicVars, safeVars, rapidVars>>
  \/ /\ which = "AtomicKFifo" /\ ByteQueue!Next
     /\ UNCHANGED <<which, vars, atomicVars, safeVars, rapidVars>>
  \/ /\ which = "CAtomicQueue" /\ AtomicQueue!Next
     /\ UNCHANGED <<which, vars, bytesVars, safeVars, rapidVars>>
  \/ /\ which = "ThreadSafeQueue" /\ SafeQueue!Next
     /\ UNCHANGED <<which, vars, bytesVars, atomicVars, rapidVars>>
  \/ /\ which = "RapidPool" /\ Rapid!Next
     /\ UNCHANGED <<which, vars, bytesVars, atomicVars, safeVars>>

MCSpec == MCInit /\ [][MCNext]_allVars

(* CDMAtomicQueue alone, with the fairness its threads have                *)
MCFairSpec == MCSpec /\ Fairness

(* AtomicKFifo is a first-in first-out queue of at most capacity() bytes,  *)
(* also where the free-running indices and the buffer wrap around.         *)
ImplementsByteFifo == ByteQueue!ImplementsByteFifo

(* CAtomicQueue is a first-in first-out queue of RingSize - 1 elements     *)
(* whatever the interleaving of try_push, front and pop.                   *)
ImplementsPointerFifo == AtomicQueue!ImplementsFifo

(* A thread sleeps in ThreadSafeQueue::pop() beside an element that nobody *)
(* has been woken for only if a woken thread has left it behind with an    *)
(* exception, one element for each.                                        *)
OnlyAbandonedWait == SafeQueue!OnlyAbandonedWait

(* The free lists of CDMRapidPool and the slots fetched always make up all *)
(* slots, also with nested calls and throwing constructors, and no object  *)
(* is constructed over one that is being destroyed unless a destructor     *)
(* fetches.                                                                *)
SlotsAccounted == Rapid!SlotsAccounted
=============================================================================
