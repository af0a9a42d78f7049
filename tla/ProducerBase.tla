---------------------------- MODULE ProducerBase ----------------------------
(***************************************************************************)
(* ConcurrentQueue::ProducerBase (include/concurrentqueue.h): the counters *)
(* that both kinds of sub-queue share, and the way consumers claim indices *)
(* with them.  ExplicitProducer and ImplicitProducer extend this module;   *)
(* both classes repeat this part of dequeue() and dequeue_bulk() word for  *)
(* word.                                                                   *)
(*                                                                         *)
(* Indices are of the width of index_t: modulo IndexRange.  dequeue() is   *)
(* dequeue_bulk() with max = 1: the code computes the same values.         *)
(* Accesses are taken to be sequentially consistent.                       *)
(***************************************************************************)
EXTENDS Integers, FiniteSets, FiniteSetsExt, Tally

CONSTANTS Consumers,
          BLOCK_SIZE,
          IndexRange,     \* 2^width of index_t
          MAX_SUBQUEUE_SIZE,
          Maxes,          \* the max given to dequeue_bulk; 1 is dequeue
          Passed,         \* whole blocks of elements that went through before Init
          MaxEnqueued     \* bound: elements enqueued after Init

ASSUME CountersAssumption ==
  /\ IsFiniteSet(Consumers)
  /\ BLOCK_SIZE \in Nat \ {0} /\ IndexRange \in Nat \ {0} /\ Passed \in Nat /\ MaxEnqueued \in Nat
  /\ IndexRange % (2 * BLOCK_SIZE) = 0 /\ Passed * BLOCK_SIZE < IndexRange
  /\ MAX_SUBQUEUE_SIZE >= BLOCK_SIZE
  /\ Maxes \subseteq Nat \ {0}

VARIABLES
  tailIndex, headIndex, dequeueOptimisticCount, dequeueOvercommit,
  claims            \* every consumer's program counter and locals

counters == <<tailIndex, headIndex, dequeueOptimisticCount, dequeueOvercommit>>

-----------------------------------------------------------------------------
(* Arithmetic of index_t                                                   *)

Index == 0 .. IndexRange - 1
Offsets == 0 .. BLOCK_SIZE - 1

Plus(i, n) == (i + n) % IndexRange
Minus(i, n) == (i - n) % IndexRange
circular_less_than(a, b) == Minus(a, b) > IndexRange \div 2
Base(i) == i - (i % BLOCK_SIZE)
Offset(i) == i % BLOCK_SIZE

(* how many blocks the block of index i is after the one that starts at    *)
(* base: the difference as make_signed<index_t>, divided                   *)
BlocksAfter(i, base) ==
  LET d == Minus(Base(i), base)
  IN  (IF d >= IndexRange \div 2 THEN d - IndexRange ELSE d) \div BLOCK_SIZE

-----------------------------------------------------------------------------
(* want is desiredCount, my is dequeueOptimisticCount - overcommit, count  *)
(* is what is still to be taken from index on; cleared when not needed     *)
NoClaim == [pc |-> "idle", max |-> 0, tail |-> 0, over |-> 0, want |-> 0, my |-> 0, count |-> 0, index |-> 0]

CountersInit ==
  /\ tailIndex = Passed * BLOCK_SIZE /\ headIndex = tailIndex
  /\ dequeueOptimisticCount = tailIndex /\ dequeueOvercommit = 0
  /\ claims = [c \in Consumers |-> NoClaim]

(* no room for the block that starts at tail: the tail could surpass the   *)
(* head, or the size limit would                                           *)
Full(tail) ==
  \/ ~circular_less_than(headIndex, Plus(tail, BLOCK_SIZE))
  \/ MAX_SUBQUEUE_SIZE - BLOCK_SIZE < Minus(tail, headIndex)

Enqueued == Minus(tailIndex, Passed * BLOCK_SIZE)

(* tailIndex.store(tailIndex + n)                                          *)
Advance(n) ==
  /\ tailIndex' = Plus(tailIndex, n)
  /\ UNCHANGED <<headIndex, dequeueOptimisticCount, dequeueOvercommit>>

-----------------------------------------------------------------------------
(* dequeue_bulk(max), and dequeue() when max = 1                           *)

(* tail and overcommit are loaded before dequeueOptimisticCount            *)
Dequeue(c, m) ==
  /\ claims[c].pc = "idle"
  /\ claims' = [claims EXCEPT ![c] = [NoClaim EXCEPT !.pc = "check", !.max = m, !.tail = tailIndex,
                                                     !.over = dequeueOvercommit]]
  /\ UNCHANGED counters

(* desiredCount                                                            *)
Check(c) ==
  /\ claims[c].pc = "check"
  /\ LET desired == Minus(claims[c].tail, dequeueOptimisticCount - claims[c].over) IN
     claims' = [claims EXCEPT ![c] =
       IF circular_less_than(0, desired)
       THEN [NoClaim EXCEPT !.pc = "commit", !.over = claims[c].over, !.want = Min({desired, claims[c].max})]
       ELSE NoClaim]
  /\ UNCHANGED counters

(* dequeueOptimisticCount.fetch_add(desiredCount)                          *)
Commit(c) ==
  /\ claims[c].pc = "commit"
  /\ dequeueOptimisticCount' = Plus(dequeueOptimisticCount, claims[c].want)
  /\ claims' = [claims EXCEPT ![c].my = Minus(dequeueOptimisticCount, claims[c].over), ![c].over = 0,
                              ![c].pc = "recheck"]
  /\ UNCHANGED <<tailIndex, headIndex, dequeueOvercommit>>

(* desiredCount is claimed without looking at the tail again               *)
MutRecheck(c) ==
  /\ claims[c].pc = "recheck"
  /\ claims' = [claims EXCEPT ![c].my = 0, ![c].count = claims[c].want, ![c].pc = "claim"]
  /\ UNCHANGED counters

(* tail is loaded again; actualCount                                       *)
Recheck(c) ==
  /\ claims[c].pc = "recheck"
  /\ LET available == Minus(tailIndex, claims[c].my)
         actual == IF circular_less_than(0, available) THEN Min({claims[c].want, available}) ELSE 0
     IN claims' = [claims EXCEPT ![c].my = 0, ![c].count = actual,
                     ![c].pc = IF actual < claims[c].want THEN "overcommit" ELSE "claim"]
  /\ UNCHANGED counters

(* the whole of desiredCount is given back, also when some is there        *)
MutOvercommit(c) ==
  /\ claims[c].pc = "overcommit"
  /\ dequeueOvercommit' = Plus(dequeueOvercommit, claims[c].want)
  /\ claims' = [claims EXCEPT ![c] =
       IF @.count = 0 THEN NoClaim ELSE [@ EXCEPT !.want = claims[c].count, !.pc = "claim"]]
  /\ UNCHANGED <<tailIndex, headIndex, dequeueOptimisticCount>>

(* what is not there is given back                                         *)
Overcommit(c) ==
  /\ claims[c].pc = "overcommit"
  /\ dequeueOvercommit' = Plus(dequeueOvercommit, claims[c].want - claims[c].count)
  /\ claims' = [claims EXCEPT ![c] =
       IF @.count = 0 THEN NoClaim ELSE [@ EXCEPT !.want = claims[c].count, !.pc = "claim"]]
  /\ UNCHANGED <<tailIndex, headIndex, dequeueOptimisticCount>>

(* headIndex.fetch_add(actualCount)                                        *)
Claim(c) ==
  /\ claims[c].pc = "claim"
  /\ headIndex' = Plus(headIndex, claims[c].count)
  /\ claims' = [claims EXCEPT ![c].index = headIndex, ![c].want = 0, ![c].pc = "claimed"]
  /\ UNCHANGED <<tailIndex, dequeueOptimisticCount, dequeueOvercommit>>

ClaimStep(c) == Check(c) \/ Commit(c) \/ Recheck(c) \/ Overcommit(c) \/ Claim(c)

(* the offsets of the elements taken from the block of claims[c].index     *)
InBlock(c) == Offset(claims[c].index) .. Min({BLOCK_SIZE, Offset(claims[c].index) + claims[c].count}) - 1

(* the elements of one block are done with                                 *)
LastBlock(c) == Cardinality(InBlock(c)) = claims[c].count
BlockDone(c) ==
  claims' = [claims EXCEPT ![c] =
    IF LastBlock(c) THEN NoClaim
    ELSE [@ EXCEPT !.index = Plus(claims[c].index, Cardinality(InBlock(c))),
                   !.count = claims[c].count - Cardinality(InBlock(c))]]

NobodyDequeues == \A c \in Consumers : claims[c].pc = "idle"

-----------------------------------------------------------------------------
(* assert(!circular_less_than(currentTailIndex, head)): however consumers  *)
(* race, they never claim an element that has not been published.          *)
HeadWithinTail == ~circular_less_than(tailIndex, headIndex)

(* The number of elements consumer c has committed to and neither claimed  *)
(* nor given back                                                          *)
Committed(c) ==
  CASE claims[c].pc \in {"recheck", "overcommit"} -> claims[c].want
    [] claims[c].pc = "claim" -> claims[c].count
    [] OTHER -> 0

(* The three dequeue counters agree up to what consumers under way account *)
(* for: when none is, dequeueOptimisticCount - dequeueOvercommit is the    *)
(* head, so no element is left behind that a dequeue would not see.        *)
CountsBalance ==
  Minus(dequeueOptimisticCount, dequeueOvercommit) =
    Plus(headIndex, Total([c \in Consumers |-> Committed(c)], Consumers))
=============================================================================
