----------------------- MODULE ExplicitProducerProofs -----------------------
(***************************************************************************)
(* Proofs about the counters of a sub-queue (ProducerBase) and about       *)
(* ExplicitProducer, for any number of consumers, any width of index_t,    *)
(* any size of a bulk dequeue and any blocks.  The first part says what    *)
(* CounterSteps, the steps of ProducerBase, do to the counters; the second *)
(* that the steps of ExplicitProducer are CounterSteps as far as these     *)
(* variables are concerned.                                                *)
(***************************************************************************)
EXTENDS ExplicitProducer, CountingLemmas

counterVars == <<counters, claims>>

(* The tail is advanced within the bound, a consumer begins, goes on with  *)
(* its claim or is done with a block of what it has claimed.               *)
CounterStep ==
  \/ \E n \in Nat : Advance(n) /\ Enqueued + n <= MaxEnqueued /\ UNCHANGED claims
  \/ \E c \in Consumers :
       \/ \E m \in Maxes : Dequeue(c, m)
       \/ ClaimStep(c)
       \/ claims[c].pc = "claimed" /\ BlockDone(c) /\ UNCHANGED counters

-----------------------------------------------------------------------------
(* Ranges                                                                  *)

ClaimType ==
  [pc : {"idle", "check", "commit", "recheck", "overcommit", "claim", "claimed"},
   max : Nat, tail : Int, over : Nat, want : Nat, my : Int, count : Int, index : Int]

RangeInv ==
  /\ tailIndex \in Index /\ headIndex \in Index
  /\ dequeueOptimisticCount \in Index /\ dequeueOvercommit \in Index
  /\ claims \in [Consumers -> ClaimType]

(* A claim never takes more than it has committed to, and commits to       *)
(* something.                                                              *)
ClaimInv ==
  \A c \in Consumers :
    /\ claims[c].pc = "check" => claims[c].max \in Maxes
    /\ claims[c].pc \in {"commit", "recheck", "overcommit", "claim"} => claims[c].want > 0
    /\ claims[c].pc \in {"overcommit", "claim"} => claims[c].count >= 0 /\ claims[c].count <= claims[c].want

LEMMA MinOfTwo ==
  ASSUME NEW a \in Int, NEW b \in Int
  PROVE  Min({a, b}) = IF a <= b THEN a ELSE b
  BY DEF Min

(* The arithmetic of index_t stays within index_t.                         *)
LEMMA IndexType ==
  ASSUME NEW i \in Int, NEW n \in Int
  PROVE  Plus(i, n) \in Index /\ Minus(i, n) \in Index
  BY CountersAssumption, DivMod DEF Plus, Minus, Index

LEMMA IndexIsInt == Index \subseteq Int /\ Index \subseteq Nat
  BY CountersAssumption DEF Index

(* The fields of an empty claim.                                           *)
LEMMA NoClaimType ==
  NoClaim \in ClaimType /\ NoClaim.pc = "idle"
  BY DEF NoClaim, ClaimType

(* The counters and the locals of a claim are numbers.                     *)
LEMMA Fields ==
  ASSUME RangeInv, NEW c \in Consumers
  PROVE  /\ tailIndex \in Nat /\ headIndex \in Nat /\ dequeueOptimisticCount \in Nat /\ dequeueOvercommit \in Nat
         /\ claims[c].max \in Nat /\ claims[c].tail \in Int /\ claims[c].over \in Nat /\ claims[c].want \in Nat
         /\ claims[c].my \in Int /\ claims[c].count \in Int /\ claims[c].index \in Int
  BY IndexIsInt DEF RangeInv, ClaimType

(* Dequeue loads the tail and the overcommit.                              *)
LEMMA DequeueMeans ==
  ASSUME RangeInv, NEW c \in Consumers, NEW m \in Maxes, Dequeue(c, m)
  PROVE  /\ claims' \in [Consumers -> ClaimType]
         /\ \A d \in Consumers \ {c} : claims'[d] = claims[d]
         /\ claims[c].pc = "idle" /\ claims'[c].pc = "check" /\ claims'[c].max = m
         /\ claims'[c].tail = tailIndex /\ claims'[c].over = dequeueOvercommit
         /\ UNCHANGED counters
  <1> DEFINE r == [NoClaim EXCEPT !.pc = "check", !.max = m, !.tail = tailIndex, !.over = dequeueOvercommit]
  <1>1. m \in Nat /\ tailIndex \in Int /\ dequeueOvercommit \in Nat
    BY CountersAssumption, IndexIsInt DEF RangeInv
  <1>2. r \in ClaimType /\ r.pc = "check" /\ r.max = m /\ r.tail = tailIndex /\ r.over = dequeueOvercommit
    BY <1>1, NoClaimType DEF ClaimType
  <1>3. claims' = [claims EXCEPT ![c] = r] /\ UNCHANGED counters /\ claims[c].pc = "idle"
    BY DEF Dequeue
  <1> HIDE DEF r
  <1> QED
    BY <1>2, <1>3 DEF RangeInv

(* fetch_add of dequeueOptimisticCount.                                    *)
LEMMA CommitMeans ==
  ASSUME RangeInv, NEW c \in Consumers, Commit(c)
  PROVE  /\ claims' \in [Consumers -> ClaimType]
         /\ \A d \in Consumers \ {c} : claims'[d] = claims[d]
         /\ claims[c].pc = "commit" /\ claims'[c].pc = "recheck"
         /\ claims'[c].want = claims[c].want
         /\ claims'[c].my = Minus(dequeueOptimisticCount, claims[c].over)
         /\ dequeueOptimisticCount' = Plus(dequeueOptimisticCount, claims[c].want)
         /\ UNCHANGED <<tailIndex, headIndex, dequeueOvercommit>>
  <1>1. Minus(dequeueOptimisticCount, claims[c].over) \in Int
    <2>1. dequeueOptimisticCount \in Int /\ claims[c].over \in Int
      BY Fields
    <2> QED
      BY <2>1, IndexType, IndexIsInt
  <1> QED
    BY <1>1 DEF Commit, RangeInv, ClaimType

(* desiredCount: the call ends unless it looks positive.                   *)
LEMMA CheckMeans ==
  ASSUME RangeInv, ClaimInv, NEW c \in Consumers, Check(c)
  PROVE  LET desired == Minus(claims[c].tail, dequeueOptimisticCount - claims[c].over)
             goes == circular_less_than(0, desired)
         IN  /\ claims' \in [Consumers -> ClaimType]
             /\ \A d \in Consumers \ {c} : claims'[d] = claims[d]
             /\ claims[c].pc = "check" /\ UNCHANGED counters
             /\ ~goes => claims'[c].pc = "idle"
             /\ goes => /\ claims'[c].pc = "commit" /\ claims'[c].over = claims[c].over
                        /\ claims'[c].want > 0 /\ claims'[c].want <= desired /\ claims'[c].want <= claims[c].max
  <1> DEFINE desired == Minus(claims[c].tail, dequeueOptimisticCount - claims[c].over)
             goes == circular_less_than(0, desired)
             w == Min({desired, claims[c].max})
             r == [NoClaim EXCEPT !.pc = "commit", !.over = claims[c].over, !.want = w]
  <1>1. desired \in Index /\ desired \in Nat /\ desired < IndexRange
    <2>1. dequeueOptimisticCount - claims[c].over \in Int /\ claims[c].tail \in Int
      BY Fields
    <2>2. desired \in Index
      BY <2>1, IndexType
    <2> QED
      BY <2>2, IndexIsInt, CountersAssumption DEF Index
  <1>2. claims[c].pc = "check" /\ claims[c].max \in Nat \ {0} /\ claims[c].over \in Nat
    BY Fields, CountersAssumption DEF Check, ClaimInv
  <1>3. claims' = [claims EXCEPT ![c] = IF goes THEN r ELSE NoClaim] /\ UNCHANGED counters
    BY DEF Check
  <1> HIDE DEF desired
  <1>4. w \in Nat /\ w <= desired /\ w <= claims[c].max /\ (desired > 0 => w > 0)
    BY <1>1, <1>2, MinOfTwo
  <1>5. goes => desired > 0
    <2>1. ~((0 - 0) % IndexRange > IndexRange \div 2)
      BY CountersAssumption
    <2> QED
      BY <1>1, <2>1 DEF circular_less_than, Minus
  <1> HIDE DEF w, goes
  <1>6. r \in ClaimType /\ r.pc = "commit" /\ r.over = claims[c].over /\ r.want = w
    BY <1>2, <1>4, NoClaimType DEF ClaimType
  <1> HIDE DEF r
  <1>7. /\ claims' \in [Consumers -> ClaimType]
        /\ \A d \in Consumers \ {c} : claims'[d] = claims[d]
        /\ ~goes => claims'[c] = NoClaim
        /\ goes => claims'[c] = r
    BY <1>3, <1>6, NoClaimType DEF RangeInv
  <1>8. /\ ~goes => claims'[c].pc = "idle"
        /\ goes => /\ claims'[c].pc = "commit" /\ claims'[c].over = claims[c].over
                   /\ claims'[c].want > 0 /\ claims'[c].want <= desired /\ claims'[c].want <= claims[c].max
    BY <1>4, <1>5, <1>6, <1>7, NoClaimType
  <1> QED
    BY <1>2, <1>3, <1>7, <1>8 DEF goes, desired

(* actualCount: what is there of desiredCount, if anything looks to be.    *)
LEMMA RecheckMeans ==
  ASSUME RangeInv, ClaimInv, NEW c \in Consumers, Recheck(c)
  PROVE  LET available == Minus(tailIndex, claims[c].my)
         IN  /\ claims' \in [Consumers -> ClaimType]
             /\ \A d \in Consumers \ {c} : claims'[d] = claims[d]
             /\ claims[c].pc = "recheck" /\ claims'[c].pc \in {"overcommit", "claim"}
             /\ claims'[c].want = claims[c].want
             /\ claims'[c].count >= 0 /\ claims'[c].count <= claims[c].want
             /\ claims'[c].pc = "claim" => claims'[c].count = claims[c].want
             /\ claims'[c].count > 0 => circular_less_than(0, available) /\ claims'[c].count <= available
             /\ UNCHANGED counters
  <1> DEFINE available == Minus(tailIndex, claims[c].my)
             actual == IF circular_less_than(0, available) THEN Min({claims[c].want, available}) ELSE 0
  <1>1. available \in Nat /\ claims[c].want \in Nat
    <2>1. tailIndex \in Int /\ claims[c].my \in Int /\ claims[c].want \in Nat
      BY Fields
    <2> QED
      BY <2>1, IndexType, IndexIsInt
  <1>2. /\ claims[c].pc = "recheck" /\ UNCHANGED counters
        /\ claims' = [claims EXCEPT ![c].my = 0, ![c].count = actual,
                        ![c].pc = IF actual < claims[c].want THEN "overcommit" ELSE "claim"]
    BY DEF Recheck
  <1> HIDE DEF available
  <1>3. /\ actual \in Nat /\ actual <= claims[c].want
        /\ actual > 0 => circular_less_than(0, available) /\ actual <= available
    BY <1>1, MinOfTwo
  <1> HIDE DEF actual
  <1>4. /\ claims' \in [Consumers -> ClaimType]
        /\ \A d \in Consumers \ {c} : claims'[d] = claims[d]
        /\ claims'[c].want = claims[c].want /\ claims'[c].count = actual
        /\ claims'[c].pc = IF actual < claims[c].want THEN "overcommit" ELSE "claim"
    BY <1>2, <1>3 DEF RangeInv, ClaimType
  <1>5. /\ claims'[c].pc \in {"overcommit", "claim"}
        /\ claims'[c].pc = "claim" => claims'[c].count = claims[c].want
    BY <1>1, <1>3, <1>4
  <1> QED
    BY <1>2, <1>3, <1>4, <1>5 DEF available

(* The rest is given back.                                                 *)
LEMMA OvercommitMeans ==
  ASSUME RangeInv, ClaimInv, NEW c \in Consumers, Overcommit(c)
  PROVE  /\ claims' \in [Consumers -> ClaimType]
         /\ \A d \in Consumers \ {c} : claims'[d] = claims[d]
         /\ claims[c].pc = "overcommit"
         /\ claims[c].count = 0 => claims'[c].pc = "idle"
         /\ claims[c].count # 0 => /\ claims'[c].pc = "claim" /\ claims'[c].want = claims[c].count
                                   /\ claims'[c].count = claims[c].count
         /\ dequeueOvercommit' = Plus(dequeueOvercommit, claims[c].want - claims[c].count)
         /\ UNCHANGED <<tailIndex, headIndex, dequeueOptimisticCount>>
  <1>1. /\ claims[c].pc = "overcommit" /\ claims[c].count \in Nat
        /\ dequeueOvercommit' = Plus(dequeueOvercommit, claims[c].want - claims[c].count)
        /\ UNCHANGED <<tailIndex, headIndex, dequeueOptimisticCount>>
    BY Fields DEF Overcommit, ClaimInv
  <1> DEFINE r == [claims[c] EXCEPT !.want = claims[c].count, !.pc = "claim"]
  <1>2. r \in ClaimType /\ r.pc = "claim" /\ r.want = claims[c].count /\ r.count = claims[c].count
    BY <1>1 DEF RangeInv, ClaimType
  <1>3. claims' = [claims EXCEPT ![c] = IF claims[c].count = 0 THEN NoClaim ELSE r]
    BY DEF Overcommit
  <1> HIDE DEF r
  <1>4. /\ claims' \in [Consumers -> ClaimType]
        /\ \A d \in Consumers \ {c} : claims'[d] = claims[d]
        /\ claims[c].count = 0 => claims'[c] = NoClaim
        /\ claims[c].count # 0 => claims'[c] = r
    BY <1>2, <1>3, NoClaimType DEF RangeInv
  <1> QED
    BY <1>1, <1>2, <1>4, NoClaimType

(* fetch_add of headIndex.                                                 *)
LEMMA ClaimMeans ==
  ASSUME RangeInv, ClaimInv, NEW c \in Consumers, Claim(c)
  PROVE  /\ claims' \in [Consumers -> ClaimType]
         /\ \A d \in Consumers \ {c} : claims'[d] = claims[d]
         /\ claims[c].pc = "claim" /\ claims'[c].pc = "claimed"
         /\ headIndex' = Plus(headIndex, claims[c].count)
         /\ UNCHANGED <<tailIndex, dequeueOptimisticCount, dequeueOvercommit>>
  <1>1. headIndex \in Int
    BY Fields
  <1> QED
    BY <1>1 DEF Claim, RangeInv, ClaimType

(* A block of what was claimed is done.                                    *)
LEMMA BlockDoneMeans ==
  ASSUME RangeInv, NEW c \in Consumers, claims[c].pc = "claimed", BlockDone(c)
  PROVE  /\ claims' \in [Consumers -> ClaimType]
         /\ \A d \in Consumers \ {c} : claims'[d] = claims[d]
         /\ claims'[c].pc \in {"idle", "claimed"}
  <1> DEFINE k == Cardinality(InBlock(c))
             i == Plus(claims[c].index, k)
             n == claims[c].count - k
             r == [claims[c] EXCEPT !.index = i, !.count = n]
  <1>1. k \in Int
    <2>1. claims[c].index \in Int /\ claims[c].count \in Int /\ Offset(claims[c].index) \in Int /\ BLOCK_SIZE \in Int
      BY Fields, CountersAssumption DEF Offset
    <2>2. Min({BLOCK_SIZE, Offset(claims[c].index) + claims[c].count}) - 1 \in Int
      BY <2>1, MinOfTwo
    <2>3. IsFiniteSet(InBlock(c))
      BY <2>1, <2>2, FS_Interval DEF InBlock
    <2> QED
      BY <2>3, FS_CardinalityType
  <1>2. claims' = [claims EXCEPT ![c] = IF LastBlock(c) THEN NoClaim ELSE r]
    BY DEF BlockDone
  <1> HIDE DEF k
  <1>3. i \in Int /\ n \in Int
    <2>1. claims[c].index \in Int /\ claims[c].count \in Int
      BY Fields
    <2>2. i \in Index
      BY <1>1, <2>1, IndexType
    <2>3. n \in Int
      BY <1>1, <2>1
    <2> QED
      BY <2>2, <2>3, IndexIsInt
  <1> HIDE DEF i, n
  <1>4. r \in ClaimType /\ r.pc = "claimed"
    BY <1>3 DEF RangeInv, ClaimType
  <1> HIDE DEF r
  <1> QED
    BY <1>2, <1>4, NoClaimType DEF RangeInv

-----------------------------------------------------------------------------
(* The ranges are kept                                                     *)

(* A new sub-queue, or one whose elements have all been dequeued.          *)
LEMMA CountersInitRange == CountersInit => RangeInv /\ ClaimInv
  <1> SUFFICES ASSUME CountersInit PROVE RangeInv /\ ClaimInv
    OBVIOUS
  <1> DEFINE t == Passed * BLOCK_SIZE
  <1>1. t \in Nat /\ t < IndexRange
    BY CountersAssumption
  <1>2. /\ tailIndex = t /\ headIndex = t /\ dequeueOptimisticCount = t /\ dequeueOvercommit = 0
        /\ claims = [c \in Consumers |-> NoClaim]
    BY DEF CountersInit
  <1> HIDE DEF t
  <1>3. t \in Index /\ 0 \in Index
    BY <1>1, CountersAssumption DEF Index
  <1> QED
    BY <1>2, <1>3, NoClaimType DEF RangeInv, ClaimInv

(* Steps of one consumer keep what holds of the others.                    *)
LEMMA OtherClaims ==
  ASSUME ClaimInv, NEW c \in Consumers, \A d \in Consumers \ {c} : claims'[d] = claims[d],
         /\ claims'[c].pc = "check" => claims'[c].max \in Maxes
         /\ claims'[c].pc \in {"commit", "recheck", "overcommit", "claim"} => claims'[c].want > 0
         /\ claims'[c].pc \in {"overcommit", "claim"} => claims'[c].count >= 0 /\ claims'[c].count <= claims'[c].want
  PROVE  ClaimInv'
  BY DEF ClaimInv

(* Every step keeps the ranges.                                            *)
LEMMA RangeKept ==
  ASSUME RangeInv, ClaimInv, [CounterStep]_counterVars
  PROVE  RangeInv' /\ ClaimInv'
  <1>1. CASE UNCHANGED counterVars
    BY <1>1 DEF counterVars, counters, RangeInv, ClaimInv
  <1>2. ASSUME NEW n \in Nat, Advance(n), UNCHANGED claims PROVE RangeInv' /\ ClaimInv'
    <2>1. tailIndex \in Int /\ n \in Int
      BY IndexIsInt DEF RangeInv
    <2>2. Plus(tailIndex, n) \in Index
      BY <2>1, IndexType
    <2> QED
      BY <1>2, <2>2 DEF Advance, RangeInv, ClaimInv
  <1>3. ASSUME NEW c \in Consumers, NEW m \in Maxes, Dequeue(c, m) PROVE RangeInv' /\ ClaimInv'
    BY <1>3, DequeueMeans, OtherClaims DEF RangeInv, counters
  <1>4. ASSUME NEW c \in Consumers, Check(c) PROVE RangeInv' /\ ClaimInv'
    BY <1>4, CheckMeans, OtherClaims DEF RangeInv, counters
  <1>5. ASSUME NEW c \in Consumers, Commit(c) PROVE RangeInv' /\ ClaimInv'
    <2>1. Plus(dequeueOptimisticCount, claims[c].want) \in Index
      <3>1. dequeueOptimisticCount \in Int /\ claims[c].want \in Int
        BY Fields
      <3> QED
        BY <3>1, IndexType
    <2>2. claims[c].pc = "commit" /\ claims[c].want > 0
      BY <1>5 DEF Commit, ClaimInv
    <2>3. ClaimInv'
      BY <1>5, <2>2, CommitMeans, OtherClaims
    <2> QED
      BY <1>5, <2>1, <2>3, CommitMeans DEF RangeInv
  <1>6. ASSUME NEW c \in Consumers, Recheck(c) PROVE RangeInv' /\ ClaimInv'
    <2>1. claims[c].want > 0
      BY <1>6 DEF Recheck, ClaimInv
    <2>2. ClaimInv'
      BY <1>6, <2>1, RecheckMeans, OtherClaims
    <2> QED
      BY <1>6, <2>2, RecheckMeans DEF RangeInv, counters
  <1>7. ASSUME NEW c \in Consumers, Overcommit(c) PROVE RangeInv' /\ ClaimInv'
    <2>1. Plus(dequeueOvercommit, claims[c].want - claims[c].count) \in Index
      <3>1. dequeueOvercommit \in Int /\ claims[c].want - claims[c].count \in Int
        BY Fields
      <3> QED
        BY <3>1, IndexType
    <2>2. claims[c].count >= 0 /\ claims[c].count \in Int
      BY <1>7, Fields DEF Overcommit, ClaimInv
    <2>3. ClaimInv'
      BY <1>7, <2>2, OvercommitMeans, OtherClaims
    <2> QED
      BY <1>7, <2>1, <2>3, OvercommitMeans DEF RangeInv
  <1>8. ASSUME NEW c \in Consumers, Claim(c) PROVE RangeInv' /\ ClaimInv'
    <2>1. Plus(headIndex, claims[c].count) \in Index
      <3>1. headIndex \in Int /\ claims[c].count \in Int
        BY Fields
      <3> QED
        BY <3>1, IndexType
    <2>2. ClaimInv'
      BY <1>8, ClaimMeans, OtherClaims
    <2> QED
      BY <1>8, <2>1, <2>2, ClaimMeans DEF RangeInv
  <1>9. ASSUME NEW c \in Consumers, claims[c].pc = "claimed", BlockDone(c), UNCHANGED counters
        PROVE  RangeInv' /\ ClaimInv'
    BY <1>9, BlockDoneMeans, OtherClaims DEF RangeInv, counters
  <1> QED
    BY <1>1, <1>2, <1>3, <1>4, <1>5, <1>6, <1>7, <1>8, <1>9 DEF CounterStep, ClaimStep

-----------------------------------------------------------------------------
(* The balance of the dequeue counters                                     *)

Commitments == [c \in Consumers |-> Committed(c)]

(* The balance, read off a difference: what one consumer does to its       *)
(* commitment it does to the counters.                                     *)
LEMMA CommitmentsChange ==
  ASSUME RangeInv, ClaimInv, RangeInv', ClaimInv', NEW c \in Consumers,
         \A d \in Consumers \ {c} : claims'[d] = claims[d]
  PROVE  /\ Total(Commitments, Consumers) \in Nat /\ Committed(c) \in Nat /\ Committed(c)' \in Nat
         /\ Total(Commitments', Consumers) = Total(Commitments, Consumers) - Committed(c) + Committed(c)'
  <1>1. \A d \in Consumers : Committed(d) \in Nat /\ Committed(d)' \in Nat
    BY DEF Committed, RangeInv, ClaimInv, ClaimType
  <1>2. \A d \in Consumers \ {c} : Committed(d)' = Committed(d)
    BY DEF Committed
  <1>3. Commitments \in [Consumers -> Nat] /\ Commitments' \in [Consumers -> Nat]
    BY <1>1 DEF Commitments
  <1>4. /\ Commitments[c] = Committed(c) /\ Commitments'[c] = Committed(c)'
        /\ \A d \in Consumers \ {c} : Commitments'[d] = Commitments[d]
    BY <1>2 DEF Commitments
  <1>5. IsFiniteSet(Consumers)
    BY CountersAssumption
  <1> QED
    BY <1>1, <1>3, <1>4, <1>5, TotalType, TotalUpdate

(* Congruent numbers stay so when the same is added.                       *)
LEMMA ModCongruent ==
  ASSUME NEW x \in Int, NEW y \in Int, NEW w \in Int, x % IndexRange = y % IndexRange
  PROVE  (x + w) % IndexRange = (y + w) % IndexRange
  <1>1. /\ ((x % IndexRange) + w) % IndexRange = (x + w) % IndexRange
        /\ ((y % IndexRange) + w) % IndexRange = (y + w) % IndexRange
    BY ModAdd, CountersAssumption
  <1> QED
    BY <1>1

(* The counters and the commitments change by the same.                    *)
LEMMA BalanceShifts ==
  ASSUME NEW o \in Int, NEW v \in Int, NEW h \in Int, NEW k \in Int, NEW w \in Int,
         Minus(o, v) = Plus(h, k)
  PROVE  /\ Minus(Plus(o, w), v) = Plus(h, k + w)
         /\ Minus(o, Plus(v, w)) = Plus(h, k - w)
         /\ Minus(o, v) = Plus(Plus(h, w), k - w)
  <1> DEFINE R == IndexRange
             ov == o - v
             ow == o + w
             vw == v + w
             hk == h + k
             hw == h + w
             kw == k - w
             mv == 0 - v
             mw == 0 - w
  <1>1. /\ R \in Nat \ {0} /\ ov \in Int /\ ow \in Int /\ vw \in Int /\ hk \in Int /\ hw \in Int /\ kw \in Int
        /\ mv \in Int /\ mw \in Int
        /\ ow + mv = ov + w /\ hk + w = h + (k + w) /\ o - vw = ov + mw /\ hk + mw = h + kw /\ hw + kw = hk
        /\ \A x \in Int : x - v = x + mv
    BY CountersAssumption
  <1>2. ov % R = hk % R
    BY DEF Minus, Plus
  <1>3. /\ Minus(Plus(o, w), v) = ((ow % R) - v) % R /\ Plus(h, k + w) = (h + (k + w)) % R
        /\ Minus(o, Plus(v, w)) = (o - (vw % R)) % R /\ Plus(h, k - w) = (h + kw) % R
        /\ Minus(o, v) = ov % R /\ Plus(Plus(h, w), k - w) = ((hw % R) + kw) % R
    BY DEF Minus, Plus
  <1>4. ow % R \in Int
    BY <1>1, DivMod
  <1> HIDE DEF R, ov, ow, vw, hk, hw, kw, mv, mw
  <1>5. (ov + w) % R = (hk + w) % R /\ (ov + mw) % R = (hk + mw) % R
    <2>1. ov \in Int /\ hk \in Int /\ mw \in Int
      BY <1>1
    <2>2. (ov + w) % R = (hk + w) % R
      BY <1>2, <2>1, ModCongruent DEF R
    <2>3. (ov + mw) % R = (hk + mw) % R
      BY <1>2, <2>1, ModCongruent DEF R
    <2> QED
      BY <2>2, <2>3
  <1>6. /\ ((ow % R) + mv) % R = (ow + mv) % R
        /\ ((hw % R) + kw) % R = (hw + kw) % R
        /\ (o - (vw % R)) % R = (o - vw) % R
    <2>1. R \in Nat \ {0} /\ ow \in Int /\ mv \in Int /\ hw \in Int /\ kw \in Int /\ vw \in Int
      BY <1>1
    <2>2. ((ow % R) + mv) % R = (ow + mv) % R
      BY <2>1, ModAdd
    <2>3. ((hw % R) + kw) % R = (hw + kw) % R
      BY <2>1, ModAdd
    <2>4. (o - (vw % R)) % R = (o - vw) % R
      BY <2>1, ModSubtract
    <2> QED
      BY <2>2, <2>3, <2>4
  <1>7. Minus(Plus(o, w), v) = Plus(h, k + w)
    BY <1>1, <1>3, <1>4, <1>5, <1>6
  <1>8. Minus(o, Plus(v, w)) = Plus(h, k - w)
    BY <1>1, <1>3, <1>5, <1>6
  <1>9. Minus(o, v) = Plus(Plus(h, w), k - w)
    BY <1>1, <1>2, <1>3, <1>6
  <1> QED
    BY <1>7, <1>8, <1>9

(* A consumer changes its commitment by w and the counters with it.        *)
LEMMA CommitmentBalances ==
  ASSUME RangeInv, ClaimInv, CountsBalance, RangeInv', ClaimInv', NEW c \in Consumers,
         \A d \in Consumers \ {c} : claims'[d] = claims[d], NEW w \in Nat,
         \/ /\ Committed(c)' = Committed(c) /\ UNCHANGED <<headIndex, dequeueOptimisticCount, dequeueOvercommit>>
         \/ /\ Committed(c)' = Committed(c) + w /\ dequeueOptimisticCount' = Plus(dequeueOptimisticCount, w)
            /\ UNCHANGED <<headIndex, dequeueOvercommit>>
         \/ /\ Committed(c)' = Committed(c) - w /\ dequeueOvercommit' = Plus(dequeueOvercommit, w)
            /\ UNCHANGED <<headIndex, dequeueOptimisticCount>>
         \/ /\ Committed(c)' = Committed(c) - w /\ headIndex' = Plus(headIndex, w)
            /\ UNCHANGED <<dequeueOptimisticCount, dequeueOvercommit>>
  PROVE  CountsBalance'
  <1> DEFINE k == Total(Commitments, Consumers)
             l == Total(Commitments', Consumers)
  <1>1. k \in Nat /\ Committed(c) \in Nat /\ l = k - Committed(c) + Committed(c)'
    BY CommitmentsChange
  <1>2. Minus(dequeueOptimisticCount, dequeueOvercommit) = Plus(headIndex, k)
    BY DEF CountsBalance, Commitments
  <1>3. CountsBalance' <=> (Minus(dequeueOptimisticCount', dequeueOvercommit') = Plus(headIndex', l))
    BY DEF CountsBalance, Commitments, Minus, Plus
  <1> HIDE DEF k, l
  <1>4. dequeueOptimisticCount \in Int /\ dequeueOvercommit \in Int /\ headIndex \in Int /\ k \in Int /\ w \in Int
    BY <1>1, Fields
  <1>5. /\ Minus(Plus(dequeueOptimisticCount, w), dequeueOvercommit) = Plus(headIndex, k + w)
        /\ Minus(dequeueOptimisticCount, Plus(dequeueOvercommit, w)) = Plus(headIndex, k - w)
        /\ Minus(dequeueOptimisticCount, dequeueOvercommit) = Plus(Plus(headIndex, w), k - w)
    BY <1>2, <1>4, BalanceShifts
  <1>6. /\ Committed(c)' = Committed(c) => l = k
        /\ Committed(c)' = Committed(c) + w => l = k + w
        /\ Committed(c)' = Committed(c) - w => l = k - w
    BY <1>1
  <1> QED
    BY <1>2, <1>3, <1>5, <1>6

(* Every step of the counters keeps their balance.                         *)
LEMMA BalanceKept ==
  ASSUME RangeInv, ClaimInv, CountsBalance, [CounterStep]_counterVars
  PROVE  CountsBalance'
  <1>0. RangeInv' /\ ClaimInv'
    BY RangeKept
  <1>1. CASE UNCHANGED counterVars
    BY <1>1 DEF counterVars, counters, CountsBalance, Committed, Minus, Plus
  <1>2. ASSUME NEW n \in Nat, Advance(n), UNCHANGED claims PROVE CountsBalance'
    BY <1>2 DEF Advance, CountsBalance, Committed, Minus, Plus
  <1>3. ASSUME NEW c \in Consumers, NEW m \in Maxes, Dequeue(c, m) PROVE CountsBalance'
    <2>1. Committed(c)' = 0 /\ Committed(c) = 0
      BY <1>3, DequeueMeans DEF Committed
    <2> QED
      BY <1>0, <1>3, <2>1, DequeueMeans, CommitmentBalances DEF counters
  <1>4. ASSUME NEW c \in Consumers, Check(c) PROVE CountsBalance'
    <2>1. claims[c].pc = "check" /\ claims'[c].pc \in {"idle", "commit"} /\ UNCHANGED counters
          /\ \A d \in Consumers \ {c} : claims'[d] = claims[d]
      BY <1>4, CheckMeans
    <2>2. Committed(c)' = 0 /\ Committed(c) = 0
      BY <2>1 DEF Committed
    <2> QED
      BY <1>0, <2>1, <2>2, CommitmentBalances DEF counters
  <1>5. ASSUME NEW c \in Consumers, Commit(c) PROVE CountsBalance'
    <2>1. Committed(c)' = claims[c].want /\ Committed(c) = 0 /\ claims[c].want \in Nat
      BY <1>5, CommitMeans, Fields DEF Committed
    <2>2. Committed(c)' = Committed(c) + claims[c].want
      BY <2>1
    <2> QED
      BY <1>0, <1>5, <2>1, <2>2, CommitMeans, CommitmentBalances
  <1>6. ASSUME NEW c \in Consumers, Recheck(c) PROVE CountsBalance'
    <2>1. /\ claims[c].pc = "recheck" /\ claims'[c].pc \in {"overcommit", "claim"} /\ UNCHANGED counters
          /\ claims'[c].want = claims[c].want /\ (claims'[c].pc = "claim" => claims'[c].count = claims[c].want)
          /\ \A d \in Consumers \ {c} : claims'[d] = claims[d]
      BY <1>6, RecheckMeans
    <2>2. Committed(c)' = Committed(c)
      BY <2>1 DEF Committed
    <2> QED
      BY <1>0, <2>1, <2>2, CommitmentBalances DEF counters
  <1>7. ASSUME NEW c \in Consumers, Overcommit(c) PROVE CountsBalance'
    <2> DEFINE w == claims[c].want - claims[c].count
    <2>1. /\ claims[c].pc = "overcommit" /\ claims[c].count >= 0 /\ claims[c].count <= claims[c].want
          /\ claims[c].count \in Int /\ claims[c].want \in Nat
      BY <1>7, Fields DEF Overcommit, ClaimInv
    <2>2. Committed(c) = claims[c].want /\ Committed(c)' = claims[c].count
      BY <1>7, <2>1, OvercommitMeans DEF Committed
    <2>3. w \in Nat /\ Committed(c)' = Committed(c) - w
      BY <2>1, <2>2
    <2>4. dequeueOvercommit' = Plus(dequeueOvercommit, w)
      BY <1>7, OvercommitMeans
    <2> HIDE DEF w
    <2> QED
      BY <1>0, <1>7, <2>3, <2>4, OvercommitMeans, CommitmentBalances
  <1>8. ASSUME NEW c \in Consumers, Claim(c) PROVE CountsBalance'
    <2>1. claims[c].pc = "claim" /\ claims[c].count \in Nat
      BY <1>8, Fields DEF Claim, ClaimInv
    <2>2. Committed(c)' = 0 /\ Committed(c) = claims[c].count
      BY <1>8, <2>1, ClaimMeans DEF Committed
    <2>3. Committed(c)' = Committed(c) - claims[c].count
      BY <2>1, <2>2
    <2> QED
      BY <1>0, <1>8, <2>1, <2>3, ClaimMeans, CommitmentBalances
  <1>9. ASSUME NEW c \in Consumers, claims[c].pc = "claimed", BlockDone(c), UNCHANGED counters
        PROVE  CountsBalance'
    <2>1. Committed(c)' = 0 /\ Committed(c) = 0
      BY <1>9, BlockDoneMeans DEF Committed
    <2> QED
      BY <1>0, <1>9, <2>1, BlockDoneMeans, CommitmentBalances DEF counters
  <1> QED
    BY <1>1, <1>2, <1>3, <1>4, <1>5, <1>6, <1>7, <1>8, <1>9 DEF CounterStep, ClaimStep

(* The counters agree to begin with.                                       *)
LEMMA CountersInitBalance == CountersInit => CountsBalance
  <1> SUFFICES ASSUME CountersInit PROVE CountsBalance
    OBVIOUS
  <1>1. \A c \in Consumers : claims[c] = NoClaim
    BY DEF CountersInit
  <1>2. \A c \in Consumers : Committed(c) = 0
    BY <1>1, NoClaimType DEF Committed
  <1>3. Commitments \in [Consumers -> Nat] /\ \A c \in Consumers : Commitments[c] = 0
    BY <1>2 DEF Commitments
  <1>4. Total(Commitments, Consumers) = 0
    BY <1>3, TotalZero, CountersAssumption
  <1>5. headIndex = dequeueOptimisticCount /\ dequeueOvercommit = 0 /\ headIndex \in Int
    BY CountersAssumption DEF CountersInit
  <1> QED
    BY <1>4, <1>5 DEF CountsBalance, Commitments, Minus, Plus

-----------------------------------------------------------------------------
(* Claims stay behind the tail.                                            *)
(*                                                                         *)
(* The argument is about the numbers the counters would hold if they did   *)
(* not wrap: T elements published, H claimed and O committed to.  Every    *)
(* consumer that has committed and not yet looked at the tail again has a  *)
(* place: as many of the indices between what is decided and what is       *)
(* committed to as it wants, apart from everybody else's.  Its place ends  *)
(* before the tail, or does not begin behind the index that it computes    *)
(* itself: either way it cannot claim an element that is not there.        *)

Start == Passed * BLOCK_SIZE

Decided == [c \in Consumers |-> IF claims[c].pc \in {"overcommit", "claim"} THEN claims[c].count ELSE 0]
GivenBack == [c \in Consumers |-> IF claims[c].pc = "overcommit" THEN claims[c].want - claims[c].count ELSE 0]
Ready == [c \in Consumers |-> IF claims[c].pc = "commit" THEN claims[c].want ELSE 0]

(* what has been claimed or will be, and the end of all places             *)
DecidedUpTo(H) == H + Total(Decided, Consumers)
PlacesUpTo(O) == O - dequeueOvercommit - Total(GivenBack, Consumers)

(* a consumer that has committed and not looked at the tail again          *)
Undecided(c) == claims[c].pc = "recheck"

Places(D, X, T, M, a) ==
  \A c \in Consumers : Undecided(c) =>
    /\ D <= a[c] /\ a[c] + claims[c].want <= X
    /\ a[c] + claims[c].want <= T \/ a[c] <= M[c]

Apart(a) ==
  \A c, d \in Consumers : Undecided(c) /\ Undecided(d) /\ c # d =>
    a[c] + claims[c].want <= a[d] \/ a[d] + claims[d].want <= a[c]

(* What consumers have read is old, never new; by K they can be ahead      *)
Snapshots(K, T, t, M) ==
  \A c \in Consumers :
    /\ claims[c].pc = "check" => claims[c].tail = t[c] % IndexRange /\ Start <= t[c] /\ t[c] <= T
    /\ claims[c].pc \in {"check", "commit"} => claims[c].over <= dequeueOvercommit
    /\ claims[c].pc = "recheck" => claims[c].my = M[c] % IndexRange /\ M[c] <= T + dequeueOvercommit + K

Unwrapped(K, T, H, O, t, M, a) ==
  /\ tailIndex = T % IndexRange /\ headIndex = H % IndexRange /\ dequeueOptimisticCount = O % IndexRange
  /\ Start <= H /\ DecidedUpTo(H) <= T /\ T <= Start + MaxEnqueued
  /\ DecidedUpTo(H) <= PlacesUpTo(O)
  /\ O + Total(Ready, Consumers) <= T + dequeueOvercommit + K
  /\ Snapshots(K, T, t, M)
  /\ Places(DecidedUpTo(H), PlacesUpTo(O), T, M, a) /\ Apart(a)

(* by how much consumers that want m elements each can commit to too many  *)
Excess(m) == Cardinality(Consumers) * m

UnwrappedInv(m) ==
  /\ \A c \in Consumers :
       claims[c].pc \in {"commit", "recheck", "overcommit", "claim"} => claims[c].want <= m
  /\ \E T, H, O \in Int, t, M, a \in [Consumers -> Int] : Unwrapped(Excess(m), T, H, O, t, M, a)

(* The elements enqueued and those overcommitted to, ever, are fewer than  *)
(* half the numbers index_t can hold.                                      *)
FewOvercommits(m) == 2 * (MaxEnqueued + Excess(m) + dequeueOvercommit) <= IndexRange

(* The sums are natural numbers.                                           *)
LEMMA SumsType ==
  RangeInv /\ ClaimInv =>
    /\ Decided \in [Consumers -> Nat] /\ GivenBack \in [Consumers -> Nat] /\ Ready \in [Consumers -> Nat]
    /\ Total(Decided, Consumers) \in Nat /\ Total(GivenBack, Consumers) \in Nat /\ Total(Ready, Consumers) \in Nat
  <1> SUFFICES ASSUME RangeInv, ClaimInv
               PROVE  /\ Decided \in [Consumers -> Nat] /\ GivenBack \in [Consumers -> Nat]
                      /\ Ready \in [Consumers -> Nat]
                      /\ Total(Decided, Consumers) \in Nat /\ Total(GivenBack, Consumers) \in Nat
                      /\ Total(Ready, Consumers) \in Nat
    OBVIOUS
  <1>1. /\ Decided \in [Consumers -> Nat] /\ GivenBack \in [Consumers -> Nat] /\ Ready \in [Consumers -> Nat]
    BY DEF Decided, GivenBack, Ready, RangeInv, ClaimInv, ClaimType
  <1>2. IsFiniteSet(Consumers)
    BY CountersAssumption
  <1> QED
    BY <1>1, <1>2, TotalType

(* A consumer changes the sums by what it does itself.                     *)
SumsMove(c) ==
  /\ Total(Decided', Consumers) = Total(Decided, Consumers) - Decided[c] + Decided'[c]
  /\ Total(GivenBack', Consumers) = Total(GivenBack, Consumers) - GivenBack[c] + GivenBack'[c]
  /\ Total(Ready', Consumers) = Total(Ready, Consumers) - Ready[c] + Ready'[c]

LEMMA SumsChange ==
  ASSUME RangeInv, ClaimInv, RangeInv', ClaimInv', NEW c \in Consumers,
         \A d \in Consumers \ {c} : claims'[d] = claims[d]
  PROVE  SumsMove(c)
  <1>1. /\ Decided \in [Consumers -> Nat] /\ GivenBack \in [Consumers -> Nat] /\ Ready \in [Consumers -> Nat]
        /\ Decided' \in [Consumers -> Nat] /\ GivenBack' \in [Consumers -> Nat] /\ Ready' \in [Consumers -> Nat]
    BY DEF Decided, GivenBack, Ready, RangeInv, ClaimInv, ClaimType
  <1>2. \A d \in Consumers \ {c} : Decided'[d] = Decided[d] /\ GivenBack'[d] = GivenBack[d] /\ Ready'[d] = Ready[d]
    BY DEF Decided, GivenBack, Ready
  <1>3. IsFiniteSet(Consumers)
    BY CountersAssumption
  <1>4. Total(Decided', Consumers) = Total(Decided, Consumers) - Decided[c] + Decided'[c]
    BY <1>1, <1>2, <1>3, TotalUpdate
  <1>5. Total(GivenBack', Consumers) = Total(GivenBack, Consumers) - GivenBack[c] + GivenBack'[c]
    BY <1>1, <1>2, <1>3, TotalUpdate
  <1>6. Total(Ready', Consumers) = Total(Ready, Consumers) - Ready[c] + Ready'[c]
    BY <1>1, <1>2, <1>3, TotalUpdate
  <1> QED
    BY <1>4, <1>5, <1>6 DEF SumsMove

(* The bound on what is committed too much.                                *)
LEMMA ExcessBounds ==
  ASSUME RangeInv, ClaimInv, NEW m \in Nat,
         \A c \in Consumers : claims[c].pc = "commit" => claims[c].want <= m
  PROVE  Excess(m) \in Nat /\ Total(Ready, Consumers) <= Excess(m) /\ \A c \in Consumers : m <= Excess(m)
  <1>1. Ready \in [Consumers -> Nat] /\ IsFiniteSet(Consumers)
    BY SumsType, CountersAssumption
  <1>2. \A c \in Consumers : Ready[c] <= m
    BY DEF Ready
  <1> QED
    BY <1>1, <1>2, TotalAtMost DEF Excess

(* Consumers that stay where they are keep their places when the tail      *)
(* moves on.                                                               *)
LEMMA PlacesKept ==
  ASSUME RangeInv, NEW D \in Int, NEW X \in Int, NEW T \in Int, NEW T1 \in Int, T <= T1,
         NEW M \in [Consumers -> Int], NEW a \in [Consumers -> Int],
         Places(D, X, T, M, a), Apart(a),
         \A c \in Consumers : claims'[c].pc = "recheck" => claims'[c] = claims[c]
  PROVE  Places(D, X, T1, M, a)' /\ Apart(a)'
  <1>1. \A c \in Consumers : claims[c].want \in Nat /\ a[c] \in Int /\ M[c] \in Int
    BY Fields
  <1>2. \A c \in Consumers : Undecided(c)' => Undecided(c) /\ claims'[c].want = claims[c].want
    BY DEF Undecided
  <1>3. Places(D, X, T1, M, a)'
    <2> SUFFICES ASSUME NEW c \in Consumers, Undecided(c)'
                 PROVE  /\ D <= a[c] /\ a[c] + claims'[c].want <= X
                        /\ a[c] + claims'[c].want <= T1 \/ a[c] <= M[c]
      BY DEF Places
    <2>1. /\ D <= a[c] /\ a[c] + claims[c].want <= X
          /\ a[c] + claims[c].want <= T \/ a[c] <= M[c]
      BY <1>2 DEF Places
    <2> QED
      BY <1>1, <1>2, <2>1
  <1>4. Apart(a)'
    BY <1>2 DEF Apart
  <1> QED
    BY <1>3, <1>4

(* What consumers have read stays old.                                     *)
LEMMA SnapshotsKept ==
  ASSUME RangeInv, RangeInv', NEW K \in Int, NEW T \in Int, NEW T1 \in Int, T <= T1, NEW c \in Consumers,
         NEW t \in [Consumers -> Int], NEW M \in [Consumers -> Int],
         NEW t1 \in [Consumers -> Int], NEW M1 \in [Consumers -> Int],
         \A d \in Consumers \ {c} : t1[d] = t[d] /\ M1[d] = M[d] /\ claims'[d] = claims[d],
         dequeueOvercommit <= dequeueOvercommit', Snapshots(K, T, t, M),
         /\ claims'[c].pc = "check" => claims'[c].tail = t1[c] % IndexRange /\ Start <= t1[c] /\ t1[c] <= T1
         /\ claims'[c].pc \in {"check", "commit"} => claims'[c].over <= dequeueOvercommit'
         /\ claims'[c].pc = "recheck" => claims'[c].my = M1[c] % IndexRange /\ M1[c] <= T1 + dequeueOvercommit' + K
  PROVE  Snapshots(K, T1, t1, M1)'
  <1>1. dequeueOvercommit \in Nat /\ dequeueOvercommit' \in Nat
    BY IndexIsInt DEF RangeInv
  <1> SUFFICES ASSUME NEW d \in Consumers
               PROVE  /\ claims'[d].pc = "check" => claims'[d].tail = t1[d] % IndexRange /\ Start <= t1[d] /\ t1[d] <= T1
                      /\ claims'[d].pc \in {"check", "commit"} => claims'[d].over <= dequeueOvercommit'
                      /\ claims'[d].pc = "recheck" =>
                           claims'[d].my = M1[d] % IndexRange /\ M1[d] <= T1 + dequeueOvercommit' + K
    BY DEF Snapshots, Start
  <1>2. CASE d = c
    BY <1>2
  <1>3. CASE d # c
    <2>1. /\ claims[d].pc = "check" => claims[d].tail = t[d] % IndexRange /\ Start <= t[d] /\ t[d] <= T
          /\ claims[d].pc \in {"check", "commit"} => claims[d].over <= dequeueOvercommit
          /\ claims[d].pc = "recheck" => claims[d].my = M[d] % IndexRange /\ M[d] <= T + dequeueOvercommit + K
      BY DEF Snapshots
    <2>2. t1[d] = t[d] /\ M1[d] = M[d] /\ claims'[d] = claims[d]
      BY <1>3
    <2>3. t[d] \in Int /\ M[d] \in Int /\ claims[d].over \in Nat
      BY Fields
    <2> QED
      BY <1>1, <2>1, <2>2, <2>3
  <1> QED
    BY <1>2, <1>3

(* The tail moves on.                                                      *)
LEMMA AdvanceUnwrapped ==
  ASSUME RangeInv, ClaimInv, RangeInv', ClaimInv', NEW m \in Nat, FewOvercommits(m), Excess(m) \in Nat,
         NEW T \in Int, NEW H \in Int, NEW O \in Int,
         NEW t \in [Consumers -> Int], NEW M \in [Consumers -> Int], NEW a \in [Consumers -> Int],
         Unwrapped(Excess(m), T, H, O, t, M, a),
         NEW n \in Nat, Advance(n), Enqueued + n <= MaxEnqueued, UNCHANGED claims
  PROVE  Unwrapped(Excess(m), T + n, H, O, t, M, a)'
  <1> DEFINE K == Excess(m)
             R == IndexRange
             D == DecidedUpTo(H)
             X == PlacesUpTo(O)
             T1 == T + n
             s == Start
             V == dequeueOvercommit
             y == Total(Ready, Consumers)
  <1>1. /\ R \in Nat \ {0} /\ MaxEnqueued \in Nat /\ V \in Nat /\ K \in Nat /\ s \in Int /\ T1 \in Int /\ T <= T1
        /\ T1 = T + n /\ D \in Int /\ X \in Int /\ y \in Nat /\ Total(Decided, Consumers) \in Nat
    BY CountersAssumption, SumsType, IndexIsInt DEF RangeInv, Start, DecidedUpTo, PlacesUpTo
  <1>2. /\ tailIndex = T % R /\ headIndex = H % R /\ dequeueOptimisticCount = O % R
        /\ s <= H /\ D <= T /\ T <= s + MaxEnqueued /\ D <= X /\ O + y <= T + V + K
        /\ Snapshots(K, T, t, M) /\ Places(D, X, T, M, a) /\ Apart(a)
    BY DEF Unwrapped
  <1>3. H <= D
    BY <1>1 DEF DecidedUpTo
  <1>4. tailIndex' = Plus(tailIndex, n) /\ UNCHANGED <<headIndex, dequeueOptimisticCount, dequeueOvercommit>>
    BY DEF Advance
  <1>5. D' = D /\ X' = X /\ y' = y
    BY <1>4 DEF DecidedUpTo, PlacesUpTo, Decided, GivenBack, Ready
  <1>6. Places(D, X, T1, M, a)' /\ Apart(a)'
    <2> HIDE DEF D, X, T1
    <2>1. \A c \in Consumers : claims'[c].pc = "recheck" => claims'[c] = claims[c]
      OBVIOUS
    <2>2. Places(D, X, T1, M, a)' /\ Apart(a)'
      BY <1>1, <1>2, <1>5, <2>1, PlacesKept
    <2> QED
      BY <2>2
  <1>7. Snapshots(K, T1, t, M)'
    <2>1. CASE Consumers = {}
      BY <2>1 DEF Snapshots
    <2>2. ASSUME NEW c \in Consumers PROVE Snapshots(K, T1, t, M)'
      <3>1. /\ claims[c].pc = "check" => claims[c].tail = t[c] % IndexRange /\ Start <= t[c] /\ t[c] <= T
            /\ claims[c].pc \in {"check", "commit"} => claims[c].over <= dequeueOvercommit
            /\ claims[c].pc = "recheck" => claims[c].my = M[c] % IndexRange /\ M[c] <= T + dequeueOvercommit + K
        BY <1>2 DEF Snapshots
      <3>2. t[c] \in Int /\ M[c] \in Int /\ claims' = claims /\ V' = V
        BY <1>4
      <3>3. /\ claims'[c].pc = "check" => claims'[c].tail = t[c] % IndexRange /\ Start <= t[c] /\ t[c] <= T1
            /\ claims'[c].pc \in {"check", "commit"} => claims'[c].over <= dequeueOvercommit'
            /\ claims'[c].pc = "recheck" => claims'[c].my = M[c] % IndexRange /\ M[c] <= T1 + dequeueOvercommit' + K
        BY <1>1, <3>1, <3>2
      <3>4. dequeueOvercommit <= dequeueOvercommit'
        BY <1>1, <3>2
      <3> HIDE DEF T1, K
      <3>5. K \in Int /\ T1 \in Int /\ T <= T1
        BY <1>1
      <3>6. \A d \in Consumers \ {c} : t[d] = t[d] /\ M[d] = M[d] /\ claims'[d] = claims[d]
        BY <3>2
      <3>7. Snapshots(K, T, t, M)
        BY <1>2
      <3> QED
        BY <3>3, <3>4, <3>5, <3>6, <3>7, SnapshotsKept
    <2> QED
      BY <2>1, <2>2
  <1> HIDE DEF K, R, D, X, T1, s, V, y
  <1>8. tailIndex' = T1 % R
    <2>0. R \in Nat \ {0} /\ n \in Int
      BY <1>1
    <2>1. ((T % R) + n) % R = (T + n) % R
      BY <2>0, ModAdd
    <2> QED
      BY <1>1, <1>2, <1>4, <2>1 DEF Plus, R
  <1>9. T1 <= s + MaxEnqueued
    <2> DEFINE ms == 0 - s
               x == T - s
    <2>1. ms \in Int /\ x \in Int /\ T + ms = x /\ (T % R) - s = (T % R) + ms /\ 0 <= x /\ x <= MaxEnqueued
      BY <1>1, <1>2, <1>3, DivMod
    <2>2. MaxEnqueued < R
      BY <1>1 DEF FewOvercommits, K, R, V
    <2> HIDE DEF ms
    <2>3. ((T % R) + ms) % R = (T + ms) % R
      BY <1>1, <2>1, ModAdd
    <2>4. Enqueued = ((T % R) - s) % R
      BY <1>2 DEF Enqueued, Minus, R, s, Start
    <2>5. Enqueued = x % R
      BY <2>1, <2>3, <2>4
    <2> HIDE DEF x
    <2>6. x % R = x
      BY <1>1, <2>1, <2>2, ModSmall
    <2> QED
      BY <1>1, <2>1, <2>5, <2>6 DEF x
  <1>10. O + y <= T1 + V + K
    BY <1>1, <1>2
  <1>11. D <= T1
    BY <1>1, <1>2
  <1> QED
    BY <1>1, <1>2, <1>4, <1>5, <1>6, <1>7, <1>8, <1>9, <1>10, <1>11
       DEF Unwrapped, K, R, D, X, T1, s, V, y, Start

(* A consumer that does not commit, and moves on from no place, leaves all *)
(* places alone.                                                           *)
LEMMA ConsumerUnwrapped ==
  ASSUME RangeInv, ClaimInv, RangeInv', ClaimInv', NEW K \in Nat,
         NEW T \in Int, NEW H \in Int, NEW H1 \in Int, NEW O \in Int,
         NEW t \in [Consumers -> Int], NEW t1 \in [Consumers -> Int],
         NEW M \in [Consumers -> Int], NEW a \in [Consumers -> Int],
         Unwrapped(K, T, H, O, t, M, a),
         NEW c \in Consumers, \A d \in Consumers \ {c} : t1[d] = t[d] /\ claims'[d] = claims[d],
         claims'[c].pc # "recheck",
         claims'[c].pc = "check" => claims'[c].tail = t1[c] % IndexRange /\ Start <= t1[c] /\ t1[c] <= T,
         claims'[c].pc \in {"check", "commit"} => claims'[c].over <= dequeueOvercommit',
         UNCHANGED <<tailIndex, dequeueOptimisticCount>>, dequeueOvercommit <= dequeueOvercommit',
         headIndex' = H1 % IndexRange, Start <= H1,
         DecidedUpTo(H1)' = DecidedUpTo(H), PlacesUpTo(O)' = PlacesUpTo(O),
         O + Total(Ready', Consumers) <= T + dequeueOvercommit' + K
  PROVE  Unwrapped(K, T, H1, O, t1, M, a)'
  <1> DEFINE D == DecidedUpTo(H)
             X == PlacesUpTo(O)
  <1>1. D \in Int /\ X \in Int /\ T <= T /\ K \in Int
    BY SumsType, IndexIsInt DEF RangeInv, DecidedUpTo, PlacesUpTo
  <1>2. /\ tailIndex = T % IndexRange /\ dequeueOptimisticCount = O % IndexRange
        /\ D <= T /\ T <= Start + MaxEnqueued /\ D <= X
        /\ Snapshots(K, T, t, M) /\ Places(D, X, T, M, a) /\ Apart(a)
    BY DEF Unwrapped
  <1>3. \A d \in Consumers : claims'[d].pc = "recheck" => claims'[d] = claims[d]
    OBVIOUS
  <1>4. DecidedUpTo(H1)' = D /\ PlacesUpTo(O)' = X
    OBVIOUS
  <1> HIDE DEF D, X
  <1>5. \A d \in Consumers : claims'[d].pc = "recheck" => Undecided(d) /\ claims'[d] = claims[d]
    BY <1>3 DEF Undecided
  <1>6. Places(DecidedUpTo(H1), PlacesUpTo(O), T, M, a)' /\ Apart(a)'
    BY <1>2, <1>4, <1>5 DEF Places, Apart, Undecided
  <1>7. Snapshots(K, T, t1, M)'
    <2>1. \A d \in Consumers \ {c} : t1[d] = t[d] /\ M[d] = M[d] /\ claims'[d] = claims[d]
      OBVIOUS
    <2> QED
      BY <1>1, <1>2, <2>1, SnapshotsKept
  <1>8. (Start <= H1)' /\ (T <= Start + MaxEnqueued)'
    BY <1>2 DEF Start
  <1> QED
    BY <1>2, <1>4, <1>6, <1>7, <1>8 DEF Unwrapped

(* What an unwrapped state gives the steps below: types and bounds.        *)
Bounds(K, T, H, O) ==
  /\ IndexRange \in Nat \ {0} /\ MaxEnqueued \in Nat /\ Start \in Int /\ dequeueOvercommit \in Nat
  /\ Total(Decided, Consumers) \in Nat /\ Total(GivenBack, Consumers) \in Nat
  /\ Total(Ready, Consumers) \in Nat
  /\ DecidedUpTo(H) \in Int /\ PlacesUpTo(O) \in Int
  /\ DecidedUpTo(H) = H + Total(Decided, Consumers)
  /\ PlacesUpTo(O) = O - dequeueOvercommit - Total(GivenBack, Consumers)
  /\ Start <= H /\ H <= DecidedUpTo(H) /\ DecidedUpTo(H) <= T /\ T <= Start + MaxEnqueued
  /\ DecidedUpTo(H) <= PlacesUpTo(O)
  /\ O + Total(Ready, Consumers) <= T + dequeueOvercommit + K

LEMMA UnwrappedFacts ==
  ASSUME RangeInv, ClaimInv, NEW K \in Nat, NEW T \in Int, NEW H \in Int, NEW O \in Int,
         NEW t \in [Consumers -> Int], NEW M \in [Consumers -> Int], NEW a \in [Consumers -> Int],
         Unwrapped(K, T, H, O, t, M, a)
  PROVE  /\ Bounds(K, T, H, O)
         /\ tailIndex = T % IndexRange /\ headIndex = H % IndexRange /\ dequeueOptimisticCount = O % IndexRange
         /\ Snapshots(K, T, t, M) /\ Places(DecidedUpTo(H), PlacesUpTo(O), T, M, a) /\ Apart(a)
  <1>1. /\ IndexRange \in Nat \ {0} /\ MaxEnqueued \in Nat /\ Start \in Int /\ dequeueOvercommit \in Nat
        /\ Total(Decided, Consumers) \in Nat /\ Total(GivenBack, Consumers) \in Nat
        /\ Total(Ready, Consumers) \in Nat
    BY CountersAssumption, SumsType, IndexIsInt DEF RangeInv, Start
  <1>2. /\ DecidedUpTo(H) = H + Total(Decided, Consumers)
        /\ PlacesUpTo(O) = O - dequeueOvercommit - Total(GivenBack, Consumers)
    BY DEF DecidedUpTo, PlacesUpTo
  <1> QED
    BY <1>1, <1>2 DEF Unwrapped, Bounds

(* A consumer loads the tail and the overcommit.                           *)
LEMMA DequeueUnwrapped ==
  ASSUME RangeInv, ClaimInv, RangeInv', ClaimInv', NEW K \in Nat,
         NEW T \in Int, NEW H \in Int, NEW O \in Int,
         NEW t \in [Consumers -> Int], NEW M \in [Consumers -> Int], NEW a \in [Consumers -> Int],
         Unwrapped(K, T, H, O, t, M, a),
         NEW c \in Consumers, NEW m \in Maxes, Dequeue(c, m)
  PROVE  Unwrapped(K, T, H, O, [t EXCEPT ![c] = T], M, a)'
  <1>0. /\ Bounds(K, T, H, O) /\ tailIndex = T % IndexRange /\ headIndex = H % IndexRange
    BY UnwrappedFacts
  <1> DEFINE t1 == [t EXCEPT ![c] = T]
  <1>1. /\ \A d \in Consumers \ {c} : claims'[d] = claims[d]
        /\ claims[c].pc = "idle" /\ claims'[c].pc = "check"
        /\ claims'[c].tail = tailIndex /\ claims'[c].over = dequeueOvercommit
        /\ UNCHANGED counters
    BY DequeueMeans
  <1>2. /\ t1 \in [Consumers -> Int] /\ t1[c] = T
        /\ \A d \in Consumers \ {c} : t1[d] = t[d] /\ claims'[d] = claims[d]
    BY <1>1
  <1>3. /\ Decided[c] = 0 /\ Decided'[c] = 0 /\ GivenBack[c] = 0 /\ GivenBack'[c] = 0
        /\ Ready[c] = 0 /\ Ready'[c] = 0
    BY <1>1 DEF Decided, GivenBack, Ready
  <1>4. /\ Total(Decided', Consumers) = Total(Decided, Consumers)
        /\ Total(GivenBack', Consumers) = Total(GivenBack, Consumers)
        /\ Total(Ready', Consumers) = Total(Ready, Consumers)
    <2>1. SumsMove(c)
      BY <1>1, SumsChange
    <2> QED
      BY <1>0, <1>3, <2>1 DEF SumsMove, Bounds
  <1>5. /\ UNCHANGED <<tailIndex, dequeueOptimisticCount>> /\ dequeueOvercommit' = dequeueOvercommit
        /\ headIndex' = headIndex
    BY <1>1 DEF counters
  <1>6. DecidedUpTo(H)' = DecidedUpTo(H) /\ PlacesUpTo(O)' = PlacesUpTo(O)
    BY <1>4, <1>5 DEF DecidedUpTo, PlacesUpTo
  <1>7. /\ headIndex' = H % IndexRange /\ dequeueOvercommit <= dequeueOvercommit' /\ Start <= H
        /\ O + Total(Ready', Consumers) <= T + dequeueOvercommit' + K
        /\ claims'[c].tail = t1[c] % IndexRange /\ Start <= t1[c] /\ t1[c] <= T
        /\ claims'[c].over <= dequeueOvercommit'
    BY <1>1, <1>2, <1>4, <1>5, <1>0 DEF Bounds
  <1>8. PICK u \in [Consumers -> Int] : u = t1
    BY <1>2
  <1>9. Unwrapped(K, T, H, O, u, M, a)'
    BY <1>1, <1>2, <1>5, <1>6, <1>7, <1>8, ConsumerUnwrapped
  <1> QED
    BY <1>8, <1>9

(* What is not there is given back: dequeueOvercommit does not wrap.       *)
LEMMA OvercommitUnwrapped ==
  ASSUME RangeInv, ClaimInv, RangeInv', ClaimInv', NEW K \in Nat,
         NEW T \in Int, NEW H \in Int, NEW O \in Int,
         NEW t \in [Consumers -> Int], NEW M \in [Consumers -> Int], NEW a \in [Consumers -> Int],
         Unwrapped(K, T, H, O, t, M, a),
         2 * (MaxEnqueued + K + dequeueOvercommit) <= IndexRange,
         NEW c \in Consumers, claims[c].want <= K, Overcommit(c)
  PROVE  Unwrapped(K, T, H, O, t, M, a)'
  <1>0. /\ Bounds(K, T, H, O) /\ tailIndex = T % IndexRange /\ headIndex = H % IndexRange
    BY UnwrappedFacts
  <1> DEFINE V == dequeueOvercommit
             g == claims[c].want - claims[c].count
  <1>1. /\ \A d \in Consumers \ {c} : claims'[d] = claims[d]
        /\ claims[c].pc = "overcommit"
        /\ claims[c].count = 0 => claims'[c].pc = "idle"
        /\ claims[c].count # 0 => /\ claims'[c].pc = "claim" /\ claims'[c].want = claims[c].count
                                  /\ claims'[c].count = claims[c].count
        /\ dequeueOvercommit' = Plus(dequeueOvercommit, g)
        /\ UNCHANGED <<tailIndex, headIndex, dequeueOptimisticCount>>
    BY OvercommitMeans
  <1>2. /\ claims[c].want \in Nat /\ claims[c].count \in Int /\ claims[c].count >= 0
        /\ claims[c].count <= claims[c].want /\ IndexRange \in Nat \ {0} /\ V \in Nat /\ MaxEnqueued \in Nat
    BY <1>1, Fields, <1>0 DEF Bounds, ClaimInv
  <1>3. g \in Nat /\ V + g \in Int /\ 0 <= V + g /\ V + g < IndexRange
    <2>1. g \in Nat /\ g <= K
      BY <1>2
    <2>2. 2 * (MaxEnqueued + K + V) <= IndexRange
      OBVIOUS
    <2> HIDE DEF g, V
    <2>3. V \in Nat
      BY <1>2 DEF V
    <2> QED
      BY <1>2, <2>1, <2>2, <2>3
  <1>4. V' = V + g
    <2> DEFINE x == V + g
    <2>1. x \in Int /\ 0 <= x /\ x < IndexRange /\ IndexRange \in Nat \ {0}
      BY <1>2, <1>3
    <2>2. V' = x % IndexRange
      BY <1>1 DEF Plus
    <2> HIDE DEF x
    <2>3. V' = x
      BY <2>1, <2>2, ModSmall
    <2> QED
      BY <2>3 DEF x
  <1>5. /\ Decided[c] = claims[c].count /\ Decided'[c] = claims[c].count /\ GivenBack[c] = g /\ GivenBack'[c] = 0
        /\ Ready[c] = 0 /\ Ready'[c] = 0
    <2>1. CASE claims[c].count = 0
      BY <1>1, <2>1 DEF Decided, GivenBack, Ready
    <2>2. CASE claims[c].count # 0
      BY <1>1, <2>2 DEF Decided, GivenBack, Ready
    <2> QED
      BY <2>1, <2>2
  <1> HIDE DEF g
  <1>6. /\ Total(Decided', Consumers) = Total(Decided, Consumers)
        /\ Total(GivenBack', Consumers) = Total(GivenBack, Consumers) - g
        /\ Total(Ready', Consumers) = Total(Ready, Consumers)
    <2>1. SumsMove(c)
      BY <1>1, SumsChange
    <2> QED
      BY <1>0, <1>2, <1>3, <1>5, <2>1 DEF SumsMove, Bounds
  <1>7. DecidedUpTo(H)' = DecidedUpTo(H)
    BY <1>6 DEF DecidedUpTo
  <1>8. PlacesUpTo(O)' = PlacesUpTo(O)
    BY <1>2, <1>3, <1>4, <1>6, <1>0 DEF Bounds, PlacesUpTo
  <1>9. /\ headIndex' = H % IndexRange /\ V <= V' /\ Start <= H
        /\ O + Total(Ready', Consumers) <= T + V' + K
        /\ claims'[c].pc \in {"idle", "claim"}
        /\ \A d \in Consumers \ {c} : t[d] = t[d] /\ claims'[d] = claims[d]
    BY <1>1, <1>2, <1>3, <1>4, <1>6, <1>0 DEF Bounds
  <1> QED
    BY <1>1, <1>7, <1>8, <1>9, ConsumerUnwrapped

(* headIndex moves over elements that were decided on.                     *)
LEMMA ClaimUnwrapped ==
  ASSUME RangeInv, ClaimInv, RangeInv', ClaimInv', NEW K \in Nat,
         NEW T \in Int, NEW H \in Int, NEW O \in Int,
         NEW t \in [Consumers -> Int], NEW M \in [Consumers -> Int], NEW a \in [Consumers -> Int],
         Unwrapped(K, T, H, O, t, M, a), NEW c \in Consumers, Claim(c)
  PROVE  \E H1 \in Int : Unwrapped(K, T, H1, O, t, M, a)'
  <1>0. Bounds(K, T, H, O) /\ headIndex = H % IndexRange
    BY UnwrappedFacts
  <1>1. /\ \A d \in Consumers \ {c} : claims'[d] = claims[d]
        /\ claims[c].pc = "claim" /\ claims'[c].pc = "claimed"
        /\ headIndex' = Plus(headIndex, claims[c].count)
        /\ UNCHANGED <<tailIndex, dequeueOptimisticCount, dequeueOvercommit>>
    BY ClaimMeans
  <1>2. PICK n \in Nat : n = claims[c].count
    BY <1>1, Fields DEF ClaimInv
  <1>3. PICK H1 \in Int : H1 = H + n
    OBVIOUS
  <1>4. headIndex' = H1 % IndexRange /\ Start <= H1
    <2>1. n \in Int /\ IndexRange \in Nat \ {0}
      BY <1>0 DEF Bounds
    <2>2. ((H % IndexRange) + n) % IndexRange = (H + n) % IndexRange
      BY <2>1, ModAdd
    <2>3. Start <= H1
      BY <1>0, <1>3 DEF Bounds
    <2> QED
      BY <1>0, <1>1, <1>2, <1>3, <2>2, <2>3 DEF Plus
  <1>5. /\ Decided[c] = n /\ Decided'[c] = 0 /\ GivenBack[c] = 0 /\ GivenBack'[c] = 0
        /\ Ready[c] = 0 /\ Ready'[c] = 0
    BY <1>1, <1>2 DEF Decided, GivenBack, Ready
  <1>6. /\ Total(Decided', Consumers) = Total(Decided, Consumers) - n
        /\ Total(GivenBack', Consumers) = Total(GivenBack, Consumers)
        /\ Total(Ready', Consumers) = Total(Ready, Consumers)
    <2>1. SumsMove(c)
      BY <1>1, SumsChange
    <2> QED
      BY <1>0, <1>5, <2>1 DEF SumsMove, Bounds
  <1>7. DecidedUpTo(H1)' = DecidedUpTo(H)
    BY <1>0, <1>3, <1>6 DEF DecidedUpTo, Bounds
  <1>8. PlacesUpTo(O)' = PlacesUpTo(O)
    BY <1>1, <1>6 DEF PlacesUpTo
  <1>9. /\ dequeueOvercommit <= dequeueOvercommit'
        /\ O + Total(Ready', Consumers) <= T + dequeueOvercommit' + K
        /\ \A d \in Consumers \ {c} : t[d] = t[d] /\ claims'[d] = claims[d]
    BY <1>0, <1>1, <1>6 DEF Bounds
  <1>10. Unwrapped(K, T, H1, O, t, M, a)'
    BY <1>1, <1>4, <1>7, <1>8, <1>9, ConsumerUnwrapped
  <1> QED
    BY <1>10

(* Elements of what was claimed are done with.                             *)
LEMMA BlockDoneUnwrapped ==
  ASSUME RangeInv, ClaimInv, RangeInv', ClaimInv', NEW K \in Nat,
         NEW T \in Int, NEW H \in Int, NEW O \in Int,
         NEW t \in [Consumers -> Int], NEW M \in [Consumers -> Int], NEW a \in [Consumers -> Int],
         Unwrapped(K, T, H, O, t, M, a),
         NEW c \in Consumers, claims[c].pc = "claimed", BlockDone(c), UNCHANGED counters
  PROVE  Unwrapped(K, T, H, O, t, M, a)'
  <1>0. Bounds(K, T, H, O) /\ headIndex = H % IndexRange
    BY UnwrappedFacts
  <1>1. /\ \A d \in Consumers \ {c} : claims'[d] = claims[d]
        /\ claims'[c].pc \in {"idle", "claimed"}
    BY BlockDoneMeans
  <1>2. UNCHANGED <<tailIndex, dequeueOptimisticCount, dequeueOvercommit>> /\ headIndex' = headIndex
    BY DEF counters
  <1>3. /\ Decided[c] = 0 /\ Decided'[c] = 0 /\ GivenBack[c] = 0 /\ GivenBack'[c] = 0
        /\ Ready[c] = 0 /\ Ready'[c] = 0
    BY <1>1 DEF Decided, GivenBack, Ready
  <1>4. /\ Total(Decided', Consumers) = Total(Decided, Consumers)
        /\ Total(GivenBack', Consumers) = Total(GivenBack, Consumers)
        /\ Total(Ready', Consumers) = Total(Ready, Consumers)
    <2>1. SumsMove(c)
      BY <1>1, SumsChange
    <2> QED
      BY <1>0, <1>3, <2>1 DEF SumsMove, Bounds
  <1>5. DecidedUpTo(H)' = DecidedUpTo(H) /\ PlacesUpTo(O)' = PlacesUpTo(O)
    BY <1>2, <1>4 DEF DecidedUpTo, PlacesUpTo
  <1>6. /\ dequeueOvercommit <= dequeueOvercommit' /\ headIndex' = H % IndexRange /\ Start <= H
        /\ O + Total(Ready', Consumers) <= T + dequeueOvercommit' + K
        /\ \A d \in Consumers \ {c} : t[d] = t[d] /\ claims'[d] = claims[d]
    BY <1>0, <1>1, <1>2, <1>4 DEF Bounds
  <1> QED
    BY <1>1, <1>2, <1>5, <1>6, ConsumerUnwrapped

(* desiredCount looks positive only if it is: with what is wanted the      *)
(* consumer commits at most to what was there, and given back, when it     *)
(* looked.                                                                 *)
LEMMA CheckUnwrapped ==
  ASSUME RangeInv, ClaimInv, RangeInv', ClaimInv', NEW K \in Nat,
         NEW T \in Int, NEW H \in Int, NEW O \in Int,
         NEW t \in [Consumers -> Int], NEW M \in [Consumers -> Int], NEW a \in [Consumers -> Int],
         Unwrapped(K, T, H, O, t, M, a), Total(Ready, Consumers) <= K,
         2 * (MaxEnqueued + K + dequeueOvercommit) <= IndexRange,
         NEW c \in Consumers, Check(c)
  PROVE  Unwrapped(K, T, H, O, t, M, a)'
  <1> DEFINE V == dequeueOvercommit
             desired == Minus(claims[c].tail, dequeueOptimisticCount - claims[c].over)
             goes == circular_less_than(0, desired)
  <1>0. /\ Bounds(K, T, H, O) /\ headIndex = H % IndexRange /\ dequeueOptimisticCount = O % IndexRange
        /\ Snapshots(K, T, t, M)
    BY UnwrappedFacts
  <1>1. /\ \A d \in Consumers \ {c} : claims'[d] = claims[d]
        /\ claims[c].pc = "check" /\ UNCHANGED counters
        /\ ~goes => claims'[c].pc = "idle"
        /\ goes => /\ claims'[c].pc = "commit" /\ claims'[c].over = claims[c].over
                   /\ claims'[c].want > 0 /\ claims'[c].want <= desired
    BY CheckMeans
  <1>2. /\ claims[c].tail = t[c] % IndexRange /\ Start <= t[c] /\ t[c] <= T
        /\ claims[c].over <= V /\ claims[c].over \in Nat /\ t[c] \in Int /\ claims'[c].want \in Nat
    BY <1>0, <1>1, Fields DEF Snapshots, RangeInv, ClaimType
  <1>3. /\ UNCHANGED <<tailIndex, dequeueOptimisticCount, dequeueOvercommit>> /\ headIndex' = headIndex
    BY <1>1 DEF counters
  <1>4. PICK z \in Int : z = t[c] - O + claims[c].over
    BY <1>2
  <1>5. desired = z % IndexRange
    <2>1. PICK y \in Int : y = claims[c].over
      BY <1>2
    <2>2. PICK u \in Int : u = t[c] - O
      BY <1>2
    <2>3. IndexRange \in Nat \ {0} /\ t[c] \in Int
      BY <1>0, <1>2 DEF Bounds
    <2>4. PICK r \in Int : r = (t[c] % IndexRange) - (O % IndexRange)
      <3>1. (t[c] % IndexRange) \in Int
        BY <2>3, DivMod
      <3>2. (O % IndexRange) \in Int
        BY <2>3, DivMod
      <3> QED
        BY <3>1, <3>2
    <2>5. r % IndexRange = u % IndexRange
      BY <2>2, <2>3, <2>4, ModDifference
    <2>6. ((r % IndexRange) + y) % IndexRange = (r + y) % IndexRange
      BY <2>3, ModAdd
    <2>7. ((u % IndexRange) + y) % IndexRange = (u + y) % IndexRange
      BY <2>3, ModAdd
    <2>8. u + y = z
      BY <1>2, <1>4, <2>1, <2>2
    <2>9. claims[c].tail - (dequeueOptimisticCount - claims[c].over) = r + y
      <3>1. t[c] % IndexRange \in Int /\ O % IndexRange \in Int
        BY <2>3, DivMod
      <3> QED
        BY <1>0, <1>2, <2>1, <2>4, <3>1
    <2> QED
      BY <2>5, <2>6, <2>7, <2>8, <2>9 DEF Minus
  <1>6. 0 - IndexRange <= 2 * z
    BY <1>0, <1>2, <1>4 DEF Bounds
  <1>7. goes => z > 0 /\ desired <= z
    <2>1. goes => (0 - (z % IndexRange)) % IndexRange > IndexRange \div 2
      BY <1>5 DEF circular_less_than, Minus
    <2>2. IndexRange \in Nat \ {0}
      BY <1>0 DEF Bounds
    <2> QED
      BY <1>5, <1>6, <2>1, <2>2, SignedDifference
  <1>8. /\ Decided[c] = 0 /\ Decided'[c] = 0 /\ GivenBack[c] = 0 /\ GivenBack'[c] = 0
        /\ Ready[c] = 0 /\ Ready'[c] = IF goes THEN claims'[c].want ELSE 0
    <2> HIDE DEF goes, desired
    <2>1. CASE goes
      BY <1>1, <2>1 DEF Decided, GivenBack, Ready
    <2>2. CASE ~goes
      BY <1>1, <2>2 DEF Decided, GivenBack, Ready
    <2> QED
      BY <2>1, <2>2
  <1>9. desired \in Int
    <2>1. IndexRange \in Nat \ {0}
      BY <1>0 DEF Bounds
    <2>2. (z % IndexRange) \in Int
      BY <2>1, DivMod
    <2> QED
      BY <1>5, <2>2
  <1> HIDE DEF goes, desired
  <1>10. /\ Total(Decided', Consumers) = Total(Decided, Consumers)
         /\ Total(GivenBack', Consumers) = Total(GivenBack, Consumers)
         /\ Total(Ready', Consumers) = Total(Ready, Consumers) + (IF goes THEN claims'[c].want ELSE 0)
    <2>1. SumsMove(c)
      BY <1>1, SumsChange
    <2> QED
      BY <1>0, <1>2, <1>8, <2>1 DEF SumsMove, Bounds
  <1>11. O + Total(Ready', Consumers) <= T + V' + K
    <2>1. CASE ~goes
      BY <1>0, <1>3, <1>10, <2>1 DEF Bounds
    <2>2. CASE goes
      <3>1. O + claims'[c].want <= T + V
        BY <1>0, <1>1, <1>2, <1>4, <1>7, <1>9, <2>2 DEF Bounds
      <3> QED
        BY <1>0, <1>2, <1>3, <1>10, <2>2, <3>1 DEF Bounds
    <2> QED
      BY <2>1, <2>2
  <1>12. DecidedUpTo(H)' = DecidedUpTo(H) /\ PlacesUpTo(O)' = PlacesUpTo(O)
    BY <1>3, <1>10 DEF DecidedUpTo, PlacesUpTo
  <1>13. /\ V <= V' /\ headIndex' = H % IndexRange /\ Start <= H
         /\ claims'[c].pc \in {"idle", "commit"} /\ (claims'[c].pc = "commit" => claims'[c].over <= V')
         /\ \A d \in Consumers \ {c} : t[d] = t[d] /\ claims'[d] = claims[d]
    BY <1>0, <1>1, <1>2, <1>3 DEF Bounds
  <1> QED
    BY <1>1, <1>3, <1>11, <1>12, <1>13, ConsumerUnwrapped

(* A consumer that commits gets the place after all others.                *)
LEMMA CommitUnwrapped ==
  ASSUME RangeInv, ClaimInv, RangeInv', ClaimInv', NEW K \in Nat,
         NEW T \in Int, NEW H \in Int, NEW O \in Int,
         NEW t \in [Consumers -> Int], NEW M \in [Consumers -> Int], NEW a \in [Consumers -> Int],
         Unwrapped(K, T, H, O, t, M, a), NEW c \in Consumers, Commit(c)
  PROVE  \E O1 \in Int, M1, a1 \in [Consumers -> Int] : Unwrapped(K, T, H, O1, t, M1, a1)'
  <1>0. /\ Bounds(K, T, H, O) /\ tailIndex = T % IndexRange /\ headIndex = H % IndexRange
        /\ dequeueOptimisticCount = O % IndexRange
        /\ Snapshots(K, T, t, M) /\ Places(DecidedUpTo(H), PlacesUpTo(O), T, M, a) /\ Apart(a)
    BY UnwrappedFacts
  <1>1. /\ \A d \in Consumers \ {c} : claims'[d] = claims[d]
        /\ claims[c].pc = "commit" /\ claims'[c].pc = "recheck"
        /\ claims'[c].want = claims[c].want
        /\ claims'[c].my = Minus(dequeueOptimisticCount, claims[c].over)
        /\ dequeueOptimisticCount' = Plus(dequeueOptimisticCount, claims[c].want)
        /\ UNCHANGED <<tailIndex, headIndex, dequeueOvercommit>>
    BY CommitMeans
  <1>2. PICK w \in Nat : w = claims[c].want
    BY Fields
  <1>3. PICK v \in Nat : v = claims[c].over /\ v <= dequeueOvercommit
    BY <1>0, <1>1, Fields DEF Snapshots
  <1>4. PICK O1 \in Int : O1 = O + w
    OBVIOUS
  <1>5. PICK X \in Int : X = PlacesUpTo(O)
    BY <1>0 DEF Bounds
  <1>6. PICK M1 \in [Consumers -> Int] : M1 = [M EXCEPT ![c] = O - v]
    <2>1. O - v \in Int
      BY <1>3
    <2>2. [M EXCEPT ![c] = O - v] \in [Consumers -> Int]
      BY <2>1
    <2> QED
      BY <2>2
  <1>7. PICK a1 \in [Consumers -> Int] : a1 = [a EXCEPT ![c] = X]
    OBVIOUS
  <1>8. M1[c] = O - v /\ a1[c] = X /\ \A d \in Consumers \ {c} : M1[d] = M[d] /\ a1[d] = a[d]
    BY <1>6, <1>7
  <1>9. IndexRange \in Nat \ {0} /\ w \in Int /\ v \in Int
    BY <1>0 DEF Bounds
  <1>10. dequeueOptimisticCount' = O1 % IndexRange
    <2>1. ((O % IndexRange) + w) % IndexRange = (O + w) % IndexRange
      BY <1>9, ModAdd
    <2> QED
      BY <1>0, <1>1, <1>2, <1>4, <2>1 DEF Plus
  <1>11. claims'[c].my = M1[c] % IndexRange
    <2>1. PICK y \in Int : y = 0 - v
      BY <1>9
    <2>2. ((O % IndexRange) + y) % IndexRange = (O + y) % IndexRange
      BY <1>9, ModAdd
    <2>3. (O % IndexRange) \in Int
      BY <1>9, DivMod
    <2>4. (O % IndexRange) - v = (O % IndexRange) + y /\ O - v = O + y
      BY <1>9, <2>1, <2>3
    <2> QED
      BY <1>0, <1>1, <1>3, <1>8, <2>2, <2>4 DEF Minus
  <1>12. /\ Decided[c] = 0 /\ Decided'[c] = 0 /\ GivenBack[c] = 0 /\ GivenBack'[c] = 0
         /\ Ready[c] = w /\ Ready'[c] = 0
    BY <1>1, <1>2 DEF Decided, GivenBack, Ready
  <1>13. /\ Total(Decided', Consumers) = Total(Decided, Consumers)
         /\ Total(GivenBack', Consumers) = Total(GivenBack, Consumers)
         /\ Total(Ready', Consumers) = Total(Ready, Consumers) - w
    <2>1. SumsMove(c)
      BY <1>1, SumsChange
    <2> QED
      BY <1>0, <1>12, <2>1 DEF SumsMove, Bounds
  <1>14. PICK D \in Int : D = DecidedUpTo(H) /\ D <= T /\ D <= X
    BY <1>0, <1>5 DEF Bounds
  <1>15. DecidedUpTo(H)' = D
    BY <1>1, <1>13, <1>14 DEF DecidedUpTo
  <1>16. PlacesUpTo(O1)' = X + w
    BY <1>0, <1>1, <1>4, <1>5, <1>13 DEF PlacesUpTo, Bounds
  <1>17. O1 + Total(Ready', Consumers) <= T + dequeueOvercommit' + K
    BY <1>0, <1>1, <1>4, <1>13 DEF Bounds
  <1>18. X <= M1[c] /\ M1[c] <= T + dequeueOvercommit' + K
    BY <1>0, <1>1, <1>3, <1>5, <1>8, <1>13 DEF Bounds
  <1>19. Snapshots(K, T, t, M1)'
    <2>1. /\ claims'[c].pc \notin {"check", "commit"} /\ T <= T /\ dequeueOvercommit <= dequeueOvercommit'
          /\ \A d \in Consumers \ {c} : t[d] = t[d] /\ M1[d] = M[d] /\ claims'[d] = claims[d]
      BY <1>0, <1>1, <1>8 DEF Bounds
    <2>2. K \in Int
      OBVIOUS
    <2>3. /\ claims'[c].pc = "check" => claims'[c].tail = t[c] % IndexRange /\ Start <= t[c] /\ t[c] <= T
          /\ claims'[c].pc \in {"check", "commit"} => claims'[c].over <= dequeueOvercommit'
          /\ claims'[c].pc = "recheck" => claims'[c].my = M1[c] % IndexRange /\ M1[c] <= T + dequeueOvercommit' + K
      BY <1>11, <1>18, <2>1
    <2> QED
      BY <1>0, <2>1, <2>2, <2>3, SnapshotsKept
  <1>20. \A d \in Consumers : Undecided(d)' =>
           /\ claims'[d].want \in Nat /\ a1[d] \in Int /\ M1[d] \in Int
           /\ d # c => Undecided(d) /\ claims'[d].want = claims[d].want /\ a1[d] = a[d] /\ M1[d] = M[d]
           /\ d = c => claims'[d].want = w /\ a1[d] = X /\ X <= M1[d]
    BY <1>1, <1>2, <1>8, <1>18, Fields DEF Undecided
  <1>21. \A d \in Consumers : Undecided(d) =>
           /\ D <= a[d] /\ a[d] + claims[d].want <= X
           /\ a[d] + claims[d].want <= T \/ a[d] <= M[d]
    BY <1>0, <1>5, <1>14 DEF Places
  <1>22. Places(D, X + w, T, M1, a1)'
    <2> SUFFICES ASSUME NEW d \in Consumers, Undecided(d)'
                 PROVE  /\ D <= a1[d] /\ a1[d] + claims'[d].want <= X + w
                        /\ a1[d] + claims'[d].want <= T \/ a1[d] <= M1[d]
      BY DEF Places
    <2>1. CASE d = c
      BY <1>14, <1>20, <2>1
    <2>2. CASE d # c
      <3>1. /\ Undecided(d) /\ claims'[d].want = claims[d].want /\ a1[d] = a[d] /\ M1[d] = M[d]
            /\ claims'[d].want \in Nat /\ a1[d] \in Int /\ M1[d] \in Int
        BY <1>20, <2>2
      <3> QED
        BY <1>21, <3>1
    <2> QED
      BY <2>1, <2>2
  <1>23. Apart(a1)'
    <2> SUFFICES ASSUME NEW d \in Consumers, NEW e \in Consumers, Undecided(d)', Undecided(e)', d # e
                 PROVE  a1[d] + claims'[d].want <= a1[e] \/ a1[e] + claims'[e].want <= a1[d]
      BY DEF Apart
    <2>1. CASE d = c
      BY <1>20, <1>21, <2>1
    <2>2. CASE e = c
      BY <1>20, <1>21, <2>2
    <2>3. CASE d # c /\ e # c
      BY <1>0, <1>20, <2>3 DEF Apart
    <2> QED
      BY <2>1, <2>2, <2>3
  <1>24. (Start <= H)' /\ (T <= Start + MaxEnqueued)'
    BY <1>0 DEF Bounds, Start
  <1>25. Unwrapped(K, T, H, O1, t, M1, a1)'
    BY <1>0, <1>1, <1>10, <1>14, <1>15, <1>16, <1>17, <1>19, <1>22, <1>23, <1>24 DEF Unwrapped
  <1> QED
    BY <1>25

(* A consumer that looks at the tail again decides: it takes what is there *)
(* of its place, and the places behind it move up by the rest.             *)
LEMMA RecheckUnwrapped ==
  ASSUME RangeInv, ClaimInv, RangeInv', ClaimInv', NEW K \in Nat,
         NEW T \in Int, NEW H \in Int, NEW O \in Int,
         NEW t \in [Consumers -> Int], NEW M \in [Consumers -> Int], NEW a \in [Consumers -> Int],
         Unwrapped(K, T, H, O, t, M, a),
         2 * (MaxEnqueued + K + dequeueOvercommit) <= IndexRange,
         NEW c \in Consumers, Recheck(c)
  PROVE  \E a1 \in [Consumers -> Int] : Unwrapped(K, T, H, O, t, M, a1)'
  <1> DEFINE available == Minus(tailIndex, claims[c].my)
  <1>0. /\ Bounds(K, T, H, O) /\ tailIndex = T % IndexRange /\ headIndex = H % IndexRange
        /\ dequeueOptimisticCount = O % IndexRange
        /\ Snapshots(K, T, t, M) /\ Places(DecidedUpTo(H), PlacesUpTo(O), T, M, a) /\ Apart(a)
    BY UnwrappedFacts
  <1>1. /\ \A d \in Consumers \ {c} : claims'[d] = claims[d]
        /\ claims[c].pc = "recheck" /\ claims'[c].pc \in {"overcommit", "claim"}
        /\ claims'[c].want = claims[c].want
        /\ claims'[c].count >= 0 /\ claims'[c].count <= claims[c].want
        /\ claims'[c].pc = "claim" => claims'[c].count = claims[c].want
        /\ claims'[c].count > 0 => circular_less_than(0, available) /\ claims'[c].count <= available
        /\ UNCHANGED counters
    BY RecheckMeans
  <1>2. UNCHANGED <<tailIndex, headIndex, dequeueOptimisticCount, dequeueOvercommit>>
    BY <1>1 DEF counters
  <1>3. PICK w \in Nat : w = claims[c].want /\ w > 0
    BY <1>1, Fields DEF ClaimInv
  <1>4. PICK k \in Nat : k = claims'[c].count /\ k <= w
    <2>1. claims'[c].count \in Int
      BY DEF RangeInv, ClaimType
    <2> QED
      BY <1>1, <1>3, <2>1
  <1>5. PICK D \in Int, X \in Int : D = DecidedUpTo(H) /\ X = PlacesUpTo(O) /\ D <= T /\ D <= X
    BY <1>0 DEF Bounds
  <1>6. \A d \in Consumers : Undecided(d) =>
           /\ D <= a[d] /\ a[d] + claims[d].want <= X /\ a[d] \in Int /\ M[d] \in Int /\ claims[d].want \in Nat
           /\ claims[d].want > 0
           /\ a[d] + claims[d].want <= T \/ a[d] <= M[d]
    BY <1>0, <1>5, Fields DEF Places, Undecided, ClaimInv
  <1>7. PICK p \in Int : p = a[c] /\ D <= p /\ p + w <= X /\ (p + w <= T \/ p <= M[c])
    BY <1>1, <1>3, <1>6 DEF Undecided
  <1>8. k > 0 => p + k <= T
    <2> SUFFICES ASSUME k > 0 PROVE p + k <= T
      OBVIOUS
    <2>1. PICK z \in Int : z = T - M[c]
      OBVIOUS
    <2>2. claims[c].my = M[c] % IndexRange /\ M[c] <= T + dequeueOvercommit + K /\ M[c] \in Int
      BY <1>0, <1>1 DEF Snapshots
    <2>3. IndexRange \in Nat \ {0}
      BY <1>0 DEF Bounds
    <2>4. available = z % IndexRange
      BY <1>0, <2>1, <2>2, <2>3, ModDifference DEF Minus
    <2>5. 0 - IndexRange <= 2 * z
      BY <1>0, <2>1, <2>2 DEF Bounds
    <2>6. (0 - (z % IndexRange)) % IndexRange > IndexRange \div 2 /\ k <= z % IndexRange
      BY <1>1, <1>4, <2>4 DEF circular_less_than, Minus
    <2>7. z % IndexRange <= z
      BY <2>3, <2>5, <2>6, SignedDifference
    <2>8. (z % IndexRange) \in Int
      BY <2>3, DivMod
    <2>9. M[c] + k <= T
      BY <2>1, <2>2, <2>6, <2>7, <2>8
    <2> QED
      BY <1>4, <1>7, <2>2, <2>9
  <1> HIDE DEF available
  <1>9. PICK a1 \in [Consumers -> Int] :
          a1 = [d \in Consumers |-> IF a[d] < p THEN a[d] + k ELSE a[d] - w + k]
    <2>1. \A d \in Consumers : (IF a[d] < p THEN a[d] + k ELSE a[d] - w + k) \in Int
      OBVIOUS
    <2>2. [d \in Consumers |-> IF a[d] < p THEN a[d] + k ELSE a[d] - w + k] \in [Consumers -> Int]
      BY <2>1
    <2> QED
      BY <2>2
  <1>10. /\ Decided[c] = 0 /\ Decided'[c] = k /\ GivenBack[c] = 0 /\ GivenBack'[c] = w - k
         /\ Ready[c] = 0 /\ Ready'[c] = 0
    <2>1. CASE claims'[c].pc = "overcommit"
      BY <1>1, <1>3, <1>4, <2>1 DEF Decided, GivenBack, Ready
    <2>2. CASE claims'[c].pc = "claim"
      BY <1>1, <1>3, <1>4, <2>2 DEF Decided, GivenBack, Ready
    <2> QED
      BY <1>1, <2>1, <2>2
  <1>11. /\ Total(Decided', Consumers) = Total(Decided, Consumers) + k
         /\ Total(GivenBack', Consumers) = Total(GivenBack, Consumers) + (w - k)
         /\ Total(Ready', Consumers) = Total(Ready, Consumers)
    <2>1. SumsMove(c)
      BY <1>1, SumsChange
    <2> QED
      BY <1>0, <1>4, <1>10, <2>1 DEF SumsMove, Bounds
  <1>12. DecidedUpTo(H)' = D + k
    BY <1>0, <1>5, <1>11 DEF DecidedUpTo, Bounds
  <1>13. PlacesUpTo(O)' = X - w + k
    BY <1>0, <1>2, <1>5, <1>11 DEF PlacesUpTo, Bounds
  <1>14. O + Total(Ready', Consumers) <= T + dequeueOvercommit' + K
    BY <1>0, <1>2, <1>11 DEF Bounds
  <1>15. D + k <= T /\ D + k <= X - w + k
    BY <1>5, <1>7, <1>8
  <1>16. Snapshots(K, T, t, M)'
    <2>1. /\ claims'[c].pc \notin {"check", "commit", "recheck"} /\ T <= T /\ dequeueOvercommit <= dequeueOvercommit'
          /\ \A d \in Consumers \ {c} : t[d] = t[d] /\ M[d] = M[d] /\ claims'[d] = claims[d]
      BY <1>0, <1>1, <1>2 DEF Bounds
    <2>2. K \in Int
      OBVIOUS
    <2> QED
      BY <1>0, <2>1, <2>2, SnapshotsKept
  (* the places before p, and those behind it *)
  <1>17. \A d \in Consumers : Undecided(d)' =>
           /\ Undecided(d) /\ d # c /\ claims'[d].want = claims[d].want /\ a1[d] \in Int
           /\ \/ a[d] + claims[d].want <= p /\ a1[d] = a[d] + k
              \/ p + w <= a[d] /\ a1[d] = a[d] - w + k
    <2> SUFFICES ASSUME NEW d \in Consumers, Undecided(d)'
                 PROVE  /\ Undecided(d) /\ d # c /\ claims'[d].want = claims[d].want /\ a1[d] \in Int
                        /\ \/ a[d] + claims[d].want <= p /\ a1[d] = a[d] + k
                           \/ p + w <= a[d] /\ a1[d] = a[d] - w + k
      OBVIOUS
    <2>1. d # c /\ Undecided(d) /\ Undecided(c) /\ claims'[d] = claims[d]
      BY <1>1 DEF Undecided
    <2>2. a[d] + claims[d].want <= p \/ p + w <= a[d]
      BY <1>0, <1>3, <1>7, <2>1 DEF Apart
    <2>3. a[d] \in Int /\ claims[d].want \in Nat /\ claims[d].want > 0
      BY <1>6, <2>1
    <2>4. a1[d] = IF a[d] < p THEN a[d] + k ELSE a[d] - w + k
      BY <1>9
    <2> QED
      BY <1>3, <2>1, <2>2, <2>3, <2>4
  <1>18. Places(D + k, X - w + k, T, M, a1)'
    <2> SUFFICES ASSUME NEW d \in Consumers, Undecided(d)'
                 PROVE  /\ D + k <= a1[d] /\ a1[d] + claims'[d].want <= X - w + k
                        /\ a1[d] + claims'[d].want <= T \/ a1[d] <= M[d]
      BY DEF Places
    <2>1. /\ Undecided(d) /\ claims'[d].want = claims[d].want
          /\ \/ a[d] + claims[d].want <= p /\ a1[d] = a[d] + k
             \/ p + w <= a[d] /\ a1[d] = a[d] - w + k
      BY <1>17
    <2>2. /\ D <= a[d] /\ a[d] + claims[d].want <= X /\ a[d] \in Int /\ M[d] \in Int /\ claims[d].want \in Nat
          /\ a[d] + claims[d].want <= T \/ a[d] <= M[d]
      BY <1>6, <2>1
    <2>3. CASE a[d] + claims[d].want <= p /\ a1[d] = a[d] + k
      <3>1. CASE k = 0
        BY <1>7, <2>1, <2>2, <2>3, <3>1
      <3>2. CASE k > 0
        BY <1>7, <1>8, <2>1, <2>2, <2>3, <3>2
      <3> QED
        BY <3>1, <3>2
    <2>4. CASE p + w <= a[d] /\ a1[d] = a[d] - w + k
      BY <1>4, <1>7, <2>1, <2>2, <2>4
    <2> QED
      BY <2>1, <2>3, <2>4
  <1>19. Apart(a1)'
    <2> SUFFICES ASSUME NEW d \in Consumers, NEW e \in Consumers, Undecided(d)', Undecided(e)', d # e
                 PROVE  a1[d] + claims'[d].want <= a1[e] \/ a1[e] + claims'[e].want <= a1[d]
      BY DEF Apart
    <2>1. /\ Undecided(d) /\ claims'[d].want = claims[d].want
          /\ \/ a[d] + claims[d].want <= p /\ a1[d] = a[d] + k
             \/ p + w <= a[d] /\ a1[d] = a[d] - w + k
      BY <1>17
    <2>2. /\ Undecided(e) /\ claims'[e].want = claims[e].want
          /\ \/ a[e] + claims[e].want <= p /\ a1[e] = a[e] + k
             \/ p + w <= a[e] /\ a1[e] = a[e] - w + k
      BY <1>17
    <2>3. a[d] + claims[d].want <= a[e] \/ a[e] + claims[e].want <= a[d]
      BY <1>0, <2>1, <2>2 DEF Apart
    <2>4. a[d] \in Int /\ a[e] \in Int /\ claims[d].want \in Nat /\ claims[e].want \in Nat
      BY <1>6, <2>1, <2>2
    <2> QED
      BY <2>1, <2>2, <2>3, <2>4
  <1>20. (Start <= H)' /\ (T <= Start + MaxEnqueued)'
    BY <1>0 DEF Bounds, Start
  <1>21. Unwrapped(K, T, H, O, t, M, a1)'
    BY <1>0, <1>2, <1>12, <1>13, <1>14, <1>15, <1>16, <1>18, <1>19, <1>20 DEF Unwrapped
  <1> QED
    BY <1>21

-----------------------------------------------------------------------------
(* No step wraps the counters around each other.                           *)

(* The steps of the claims keep what they want below m.                    *)
LEMMA WantsKept ==
  ASSUME RangeInv, ClaimInv, NEW m \in Nat, \A x \in Maxes : x <= m, [CounterStep]_counterVars,
         RangeInv', ClaimInv',
         \A d \in Consumers :
           claims[d].pc \in {"commit", "recheck", "overcommit", "claim"} => claims[d].want <= m
  PROVE  \A d \in Consumers :
           claims'[d].pc \in {"commit", "recheck", "overcommit", "claim"} => claims'[d].want <= m
  <1>1. CASE UNCHANGED claims
    BY <1>1
  <1>2. ASSUME NEW c \in Consumers,
               claims'[c].pc \in {"commit", "recheck", "overcommit", "claim"} => claims'[c].want <= m,
               \A d \in Consumers \ {c} : claims'[d] = claims[d]
        PROVE  \A d \in Consumers :
                 claims'[d].pc \in {"commit", "recheck", "overcommit", "claim"} => claims'[d].want <= m
    BY <1>2
  <1>3. ASSUME NEW c \in Consumers, NEW x \in Maxes, Dequeue(c, x)
        PROVE  claims'[c].pc = "check" /\ \A d \in Consumers \ {c} : claims'[d] = claims[d]
    BY <1>3, DequeueMeans
  <1>4. ASSUME NEW c \in Consumers, Check(c)
        PROVE  /\ claims'[c].pc = "commit" => claims'[c].want <= m
               /\ claims'[c].pc \in {"idle", "commit"} /\ \A d \in Consumers \ {c} : claims'[d] = claims[d]
    <2>1. /\ claims[c].pc = "check" /\ claims'[c].pc \in {"idle", "commit"}
          /\ claims'[c].pc = "commit" => claims'[c].want <= claims[c].max
          /\ \A d \in Consumers \ {c} : claims'[d] = claims[d]
      BY <1>4, CheckMeans
    <2>2. claims[c].max <= m /\ claims[c].max \in Nat /\ claims'[c].want \in Nat
      BY <2>1, Fields DEF ClaimInv, RangeInv, ClaimType
    <2> QED
      BY <2>1, <2>2
  <1>5. ASSUME NEW c \in Consumers, Commit(c)
        PROVE  claims'[c].want <= m /\ \A d \in Consumers \ {c} : claims'[d] = claims[d]
    BY <1>5, CommitMeans
  <1>6. ASSUME NEW c \in Consumers, Recheck(c)
        PROVE  claims'[c].want <= m /\ \A d \in Consumers \ {c} : claims'[d] = claims[d]
    BY <1>6, RecheckMeans
  <1>7. ASSUME NEW c \in Consumers, Overcommit(c)
        PROVE  /\ claims'[c].pc \in {"idle", "claim"} /\ (claims'[c].pc = "claim" => claims'[c].want <= m)
               /\ \A d \in Consumers \ {c} : claims'[d] = claims[d]
    <2>1. /\ claims[c].pc = "overcommit"
          /\ claims[c].count = 0 => claims'[c].pc = "idle"
          /\ claims[c].count # 0 => claims'[c].pc = "claim" /\ claims'[c].want = claims[c].count
          /\ \A d \in Consumers \ {c} : claims'[d] = claims[d]
      BY <1>7, OvercommitMeans
    <2>2. claims[c].count <= claims[c].want /\ claims[c].want <= m /\ claims[c].count \in Int /\ claims[c].want \in Nat
      BY <2>1, Fields DEF ClaimInv
    <2> QED
      BY <2>1, <2>2
  <1>8. ASSUME NEW c \in Consumers, Claim(c)
        PROVE  claims'[c].pc = "claimed" /\ \A d \in Consumers \ {c} : claims'[d] = claims[d]
    BY <1>8, ClaimMeans
  <1>9. ASSUME NEW c \in Consumers, claims[c].pc = "claimed", BlockDone(c)
        PROVE  claims'[c].pc \in {"idle", "claimed"} /\ \A d \in Consumers \ {c} : claims'[d] = claims[d]
    BY <1>9, BlockDoneMeans
  <1> QED
    BY <1>1, <1>2, <1>3, <1>4, <1>5, <1>6, <1>7, <1>8, <1>9 DEF CounterStep, ClaimStep, counterVars

(* Every step has an unwrapped reading.                                    *)
LEMMA UnwrappedKept ==
  ASSUME RangeInv, ClaimInv, RangeInv', ClaimInv', NEW m \in Nat, \A x \in Maxes : x <= m,
         UnwrappedInv(m), FewOvercommits(m), [CounterStep]_counterVars
  PROVE  UnwrappedInv(m)'
  <1> DEFINE Read(K) == \E T, H, O \in Int, t, M, a \in [Consumers -> Int] : Unwrapped(K, T, H, O, t, M, a)
  <1>1. \A d \in Consumers :
          claims[d].pc \in {"commit", "recheck", "overcommit", "claim"} => claims[d].want <= m
    BY DEF UnwrappedInv
  <1>2. Excess(m) \in Nat /\ Total(Ready, Consumers) <= Excess(m) /\ \A c \in Consumers : m <= Excess(m)
    BY <1>1, ExcessBounds
  <1>3. PICK K \in Nat : K = Excess(m)
    BY <1>2
  <1>4. 2 * (MaxEnqueued + K + dequeueOvercommit) <= IndexRange
    BY <1>3 DEF FewOvercommits
  <1>5. PICK T \in Int, H \in Int, O \in Int,
             t \in [Consumers -> Int], M \in [Consumers -> Int], a \in [Consumers -> Int] :
          Unwrapped(K, T, H, O, t, M, a)
    BY <1>3 DEF UnwrappedInv
  <1>6. ASSUME UNCHANGED counterVars PROVE Read(K)'
    <2>1. Unwrapped(K, T, H, O, t, M, a)'
      BY <1>5, <1>6 DEF counterVars, counters, Unwrapped, Places, Apart, Snapshots, Undecided, DecidedUpTo,
                        PlacesUpTo, Decided, GivenBack, Ready, Start
    <2> QED
      BY <2>1
  <1>7. ASSUME NEW n \in Nat, Advance(n), Enqueued + n <= MaxEnqueued, UNCHANGED claims PROVE Read(K)'
    <2>1. Unwrapped(Excess(m), T, H, O, t, M, a)
      BY <1>3, <1>5
    <2>2. Unwrapped(Excess(m), T + n, H, O, t, M, a)'
      BY <1>2, <1>7, <2>1, AdvanceUnwrapped
    <2>3. Excess(m)' = K
      BY <1>3 DEF Excess
    <2>4. Unwrapped(K, T + n, H, O, t, M, a)'
      BY <2>2, <2>3
    <2>5. T + n \in Int
      OBVIOUS
    <2> QED
      BY <2>4, <2>5
  <1>8. ASSUME NEW c \in Consumers, NEW x \in Maxes, Dequeue(c, x) PROVE Read(K)'
    <2>1. Unwrapped(K, T, H, O, [t EXCEPT ![c] = T], M, a)'
      BY <1>5, <1>8, DequeueUnwrapped
    <2>2. [t EXCEPT ![c] = T] \in [Consumers -> Int]
      OBVIOUS
    <2> QED
      BY <2>1, <2>2
  <1>9. ASSUME NEW c \in Consumers, Check(c) PROVE Read(K)'
    <2>1. Unwrapped(K, T, H, O, t, M, a)'
      BY <1>2, <1>3, <1>4, <1>5, <1>9, CheckUnwrapped
    <2> QED
      BY <2>1
  <1>10. ASSUME NEW c \in Consumers, Commit(c) PROVE Read(K)'
    <2>1. \E O1 \in Int, M1, a1 \in [Consumers -> Int] : Unwrapped(K, T, H, O1, t, M1, a1)'
      BY <1>5, <1>10, CommitUnwrapped
    <2> QED
      BY <2>1
  <1>11. ASSUME NEW c \in Consumers, Recheck(c) PROVE Read(K)'
    <2>1. \E a1 \in [Consumers -> Int] : Unwrapped(K, T, H, O, t, M, a1)'
      BY <1>4, <1>5, <1>11, RecheckUnwrapped
    <2> QED
      BY <2>1
  <1>12. ASSUME NEW c \in Consumers, Overcommit(c) PROVE Read(K)'
    <2>1. claims[c].pc = "overcommit" /\ claims[c].want \in Nat
      BY <1>12, Fields DEF Overcommit
    <2>2. claims[c].want <= K
      BY <1>1, <1>2, <1>3, <2>1
    <2>3. Unwrapped(K, T, H, O, t, M, a)'
      BY <1>4, <1>5, <1>12, <2>2, OvercommitUnwrapped
    <2> QED
      BY <2>3
  <1>13. ASSUME NEW c \in Consumers, Claim(c) PROVE Read(K)'
    <2>1. \E H1 \in Int : Unwrapped(K, T, H1, O, t, M, a)'
      BY <1>5, <1>13, ClaimUnwrapped
    <2> QED
      BY <2>1
  <1>14. ASSUME NEW c \in Consumers, claims[c].pc = "claimed", BlockDone(c), UNCHANGED counters PROVE Read(K)'
    <2>1. Unwrapped(K, T, H, O, t, M, a)'
      BY <1>5, <1>14, BlockDoneUnwrapped
    <2> QED
      BY <2>1
  <1> HIDE DEF Read
  <1>15. Read(K)'
    BY <1>6, <1>7, <1>8, <1>9, <1>10, <1>11, <1>12, <1>13, <1>14 DEF CounterStep, ClaimStep
  <1>16. \A d \in Consumers :
           claims'[d].pc \in {"commit", "recheck", "overcommit", "claim"} => claims'[d].want <= m
    BY <1>1, WantsKept
  <1>17. Excess(m)' = K
    BY <1>3 DEF Excess
  <1> QED
    BY <1>15, <1>16, <1>17 DEF UnwrappedInv, Read

(* At the beginning nothing is committed to.                               *)
LEMMA CountersInitUnwrapped ==
  ASSUME NEW m \in Nat, CountersInit
  PROVE  UnwrappedInv(m)
  <1>1. RangeInv /\ ClaimInv
    BY CountersInitRange
  <1>2. /\ tailIndex = Start /\ headIndex = Start /\ dequeueOptimisticCount = Start /\ dequeueOvercommit = 0
        /\ claims = [c \in Consumers |-> NoClaim]
    BY DEF CountersInit, Start
  <1>3. Start \in Int /\ 0 <= Start /\ Start < IndexRange /\ IndexRange \in Nat \ {0} /\ MaxEnqueued \in Nat
    BY CountersAssumption DEF Start
  <1>4. \A c \in Consumers : claims[c].pc = "idle"
    BY <1>2, NoClaimType
  <1>5. /\ Total(Decided, Consumers) = 0 /\ Total(GivenBack, Consumers) = 0 /\ Total(Ready, Consumers) = 0
    <2>1. \A c \in Consumers : Decided[c] = 0 /\ GivenBack[c] = 0 /\ Ready[c] = 0
      BY <1>4 DEF Decided, GivenBack, Ready
    <2>2. /\ Decided \in [Consumers -> Nat] /\ GivenBack \in [Consumers -> Nat] /\ Ready \in [Consumers -> Nat]
          /\ IsFiniteSet(Consumers)
      BY <1>1, SumsType, CountersAssumption
    <2> QED
      BY <2>1, <2>2, TotalZero
  <1>6. Excess(m) \in Nat
    BY <1>1, <1>4, ExcessBounds
  <1>7. PICK z \in [Consumers -> Int] : z = [c \in Consumers |-> 0]
    <2>1. [c \in Consumers |-> 0] \in [Consumers -> Int]
      OBVIOUS
    <2> QED
      BY <2>1
  <1>8. PICK S \in Int : S = Start
    BY <1>3
  <1>9. S % IndexRange = S
    BY <1>3, <1>8, ModSmall
  <1>10. DecidedUpTo(S) = S /\ PlacesUpTo(S) = S
    BY <1>2, <1>5 DEF DecidedUpTo, PlacesUpTo
  <1>11. S + Total(Ready, Consumers) <= S + dequeueOvercommit + Excess(m) /\ S <= Start + MaxEnqueued
    BY <1>2, <1>3, <1>5, <1>6, <1>8
  <1>12. Snapshots(Excess(m), S, z, z) /\ Places(S, S, S, z, z) /\ Apart(z)
    BY <1>4 DEF Snapshots, Places, Apart, Undecided
  <1>13. Unwrapped(Excess(m), S, S, S, z, z, z)
    BY <1>2, <1>8, <1>9, <1>10, <1>11, <1>12 DEF Unwrapped
  <1> QED
    BY <1>4, <1>13 DEF UnwrappedInv

(* The head is not ahead of the tail.                                      *)
LEMMA UnwrappedHead ==
  ASSUME RangeInv, ClaimInv, NEW m \in Nat, UnwrappedInv(m), FewOvercommits(m)
  PROVE  HeadWithinTail
  <1>1. Excess(m) \in Nat
    BY ExcessBounds DEF UnwrappedInv
  <1>2. PICK K \in Nat : K = Excess(m)
    BY <1>1
  <1>3. PICK T \in Int, H \in Int, O \in Int,
             t \in [Consumers -> Int], M \in [Consumers -> Int], a \in [Consumers -> Int] :
          Unwrapped(K, T, H, O, t, M, a)
    BY <1>2 DEF UnwrappedInv
  <1>4. Bounds(K, T, H, O) /\ tailIndex = T % IndexRange /\ headIndex = H % IndexRange
    BY <1>3, UnwrappedFacts
  <1>5. PICK z \in Int : z = T - H
    OBVIOUS
  <1>6. 0 <= z /\ 2 * z <= IndexRange /\ z < IndexRange /\ IndexRange \in Nat \ {0}
    BY <1>2, <1>4, <1>5 DEF Bounds, FewOvercommits
  <1>7. Minus(tailIndex, headIndex) = z
    <2>1. ((T % IndexRange) - (H % IndexRange)) % IndexRange = z % IndexRange
      BY <1>5, <1>6, ModDifference
    <2>2. z % IndexRange = z
      BY <1>6, ModSmall
    <2> QED
      BY <1>4, <2>1, <2>2 DEF Minus
  <1>8. ~(z > IndexRange \div 2)
    BY <1>6
  <1> QED
    BY <1>7, <1>8 DEF HeadWithinTail, circular_less_than

-----------------------------------------------------------------------------
(* The explicit producer                                                   *)

(* The elements of the enqueue under way keep within the bound: what the   *)
(* producer publishes is what it had checked when its call began.          *)
RoomInv ==
  /\ tailIndex \in Int
  /\ "count" \in DOMAIN pr /\ pr.count \in Nat
  /\ Enqueued + pr.count <= MaxEnqueued

(* The fields of the idle producer.                                        *)
LEMMA IdleFields ==
  Idle \in [pc : {"idle"}, mode : {""}, noexcept : {FALSE}, count : {0}, startBlock : {NoBlock}, used : {0},
            front : {0}, first : {NoBlock}, need : {0}, tail : {0}]
  BY DEF Idle

(* They count nothing, and other fields can be set.                        *)
LEMMA IdleCount == "count" \in DOMAIN Idle /\ Idle.count = 0
  BY DEF Idle

(* Publishing n elements leaves n fewer to enqueue.                        *)
LEMMA AdvanceEnqueued ==
  ASSUME tailIndex \in Int, NEW n \in Nat, Advance(n)
  PROVE  tailIndex' \in Int /\ Enqueued \in Nat /\ Enqueued' \in Nat /\ Enqueued' <= Enqueued + n
  <1> DEFINE R == IndexRange
             s == Passed * BLOCK_SIZE
             x == tailIndex - s
             y == tailIndex + n
             e == x % R
             z == y - s
             ms == 0 - s
             en == e + n
  <1>1. /\ R \in Nat \ {0} /\ s \in Int /\ x \in Int /\ y \in Int /\ z \in Int /\ z = x + n /\ ms \in Int
        /\ z = y + ms /\ \A w \in Int : w - s = w + ms
    BY CountersAssumption
  <1>2. tailIndex' = y % R /\ Enqueued = e /\ Enqueued' = ((y % R) - s) % R
    BY DEF Advance, Enqueued, Plus, Minus
  <1>3. e = x % R
    OBVIOUS
  <1>4. en = e + n
    OBVIOUS
  <1> HIDE DEF R, s, x, y, e, z, ms, en
  <1>5. e \in Nat /\ y % R \in Int /\ en \in Nat
    <2>1. (x % R) \in 0 .. R - 1 /\ (y % R) \in 0 .. R - 1
      BY <1>1, DivMod
    <2> QED
      BY <1>1, <1>3, <1>4, <2>1
  <1>6. ((y % R) + ms) % R = (y + ms) % R
    BY <1>1, ModAdd
  <1>7. (e + n) % R = (x + n) % R
    <2>1. R \in Nat \ {0} /\ x \in Int /\ n \in Int
      BY <1>1
    <2>2. ((x % R) + n) % R = (x + n) % R
      BY <2>1, ModAdd
    <2> QED
      BY <1>3, <2>2
  <1>8. Enqueued' = en % R
    BY <1>1, <1>2, <1>4, <1>5, <1>6, <1>7
  <1>9. en % R \in Nat /\ en % R <= en
    <2>1. en \div R \in Int /\ (en % R) \in 0 .. R - 1 /\ en = R * (en \div R) + (en % R)
      BY <1>1, <1>5, DivMod
    <2>2. en \div R >= 0
      BY <1>1, <1>5, <2>1
    <2>3. R * (en \div R) >= 0
      BY <1>1, <2>1, <2>2
    <2> QED
      BY <1>1, <1>5, <2>1, <2>3
  <1> QED
    BY <1>2, <1>4, <1>5, <1>8, <1>9

(* A step of the producer that leaves the counters alone and goes on with  *)
(* its call or returns.                                                    *)
LEMMA RoomKept ==
  ASSUME RoomInv, UNCHANGED counters,
         pr' = Idle \/ ("count" \in DOMAIN pr' /\ pr'.count = pr.count)
  PROVE  RoomInv'
  <1>1. Enqueued' = Enqueued /\ Enqueued \in Int /\ tailIndex' = tailIndex
    BY CountersAssumption DEF counters, Enqueued, Minus, RoomInv
  <1> QED
    BY <1>1, IdleCount, CountersAssumption DEF RoomInv

(* The steps of enqueue and enqueue_bulk, up to the publication, leave the *)
(* counters and the claims alone.                                          *)
LEMMA GotoRoom ==
  ASSUME RoomInv, NEW l, PGoto(l)
  PROVE  "count" \in DOMAIN pr' /\ pr'.count = pr.count
  BY DEF RoomInv, PGoto

(* What a step is for the counters, the claims and the bound.              *)
KeepsCounters == [CounterStep]_counterVars /\ RoomInv'

LEMMA QuietStep ==
  ASSUME RoomInv, UNCHANGED <<counters, claims>>,
         pr' = Idle \/ ("count" \in DOMAIN pr' /\ pr'.count = pr.count)
  PROVE  KeepsCounters
  BY RoomKept DEF KeepsCounters, counterVars

(* The steps of enqueue.                                                   *)
LEMMA ProducerCounters ==
  ASSUME RoomInv, Producer
  PROVE  KeepsCounters
  <1>1. ASSUME NEW m \in Modes, NEW x \in NoexceptCtor, Enqueue(m, x) PROVE KeepsCounters
    <2> DEFINE r == [Idle EXCEPT !.pc = "newBlock", !.mode = m, !.noexcept = x, !.count = 1,
                                 !.startBlock = tailBlock, !.used = pr_blockIndexSlotsUsed]
               q == [Idle EXCEPT !.pc = "construct", !.noexcept = x, !.count = 1]
    <2>1. "count" \in DOMAIN r /\ r.count = 1 /\ "count" \in DOMAIN q /\ q.count = 1
      BY IdleFields
    <2>2. pr' = r \/ pr' = q
      BY <1>1 DEF Enqueue
    <2> HIDE DEF r, q
    <2>3. UNCHANGED <<counters, claims>> /\ Enqueued < MaxEnqueued
      BY <1>1 DEF Enqueue, consumerVars
    <2>4. Enqueued' = Enqueued /\ Enqueued \in Int /\ tailIndex' = tailIndex
      BY <2>3, CountersAssumption DEF counters, Enqueued, Minus, RoomInv
    <2> QED
      BY <2>1, <2>2, <2>3, <2>4, CountersAssumption DEF RoomInv, KeepsCounters, counterVars
  <1>2. CASE ReuseNext
    BY <1>2, GotoRoom, QuietStep DEF ReuseNext, consumerVars
  <1>3. CASE NoReuse
    BY <1>3, GotoRoom, QuietStep DEF NoReuse, consumerVars
  <1>4. CASE CheckRoom
    <2>1. PGoto("requisition") \/ pr' = Idle
      BY <1>4 DEF CheckRoom, PReturn
    <2> QED
      BY <1>4, <2>1, GotoRoom, QuietStep DEF CheckRoom, consumerVars
  <1>5. CASE Requisition
    <2>1. PGoto(HaveBlock) \/ pr' = Idle
      BY <1>5 DEF Requisition, PReturn
    <2> QED
      BY <1>5, <2>1, GotoRoom, QuietStep DEF Requisition, consumerVars
  <1>6. CASE TryConstruct
    <2>1. PGoto("addEntry") \/ pr' = Idle
      BY <1>6 DEF TryConstruct, PReturn
    <2> QED
      BY <1>6, <2>1, GotoRoom, QuietStep DEF TryConstruct, consumerVars
  <1>7. CASE AddEntry
    BY <1>7, GotoRoom, QuietStep DEF AddEntry, consumerVars
  <1>8. CASE StoreFront
    BY <1>8, GotoRoom, QuietStep DEF StoreFront, consumerVars
  <1>9. CASE Construct
    <2>1. PGoto("publish") \/ pr' = Idle
      BY <1>9 DEF Construct, PReturn
    <2> QED
      BY <1>9, <2>1, GotoRoom, QuietStep DEF Construct, consumerVars
  <1>10. CASE Publish
    <2>1. Advance(pr.count) /\ pr' = Idle /\ UNCHANGED claims /\ pr.count \in Nat /\ tailIndex \in Int
      BY <1>10 DEF Publish, PReturn, consumerVars, RoomInv
    <2>2. tailIndex' \in Int /\ Enqueued \in Nat /\ Enqueued' \in Nat /\ Enqueued' <= Enqueued + pr.count
      BY <2>1, AdvanceEnqueued
    <2>3. Enqueued + pr.count <= MaxEnqueued
      BY DEF RoomInv
    <2>4. CounterStep
      BY <2>1, <2>3 DEF CounterStep
    <2>5. "count" \in DOMAIN pr' /\ pr'.count = 0
      BY <2>1, IdleCount
    <2>6. Enqueued' + 0 <= MaxEnqueued
      <3> DEFINE e == Enqueued
                 f == Enqueued'
                 k == pr.count
      <3>1. e \in Nat /\ f \in Nat /\ k \in Nat /\ MaxEnqueued \in Nat /\ f <= e + k /\ e + k <= MaxEnqueued
        BY <2>1, <2>2, <2>3, CountersAssumption
      <3> HIDE DEF e, f, k
      <3>2. f + 0 <= MaxEnqueued
        BY <3>1
      <3> QED
        BY <3>2 DEF f
    <2>7. RoomInv'
      BY <2>2, <2>5, <2>6 DEF RoomInv
    <2> QED
      BY <2>4, <2>7 DEF KeepsCounters
  <1> QED
    BY <1>1, <1>2, <1>3, <1>4, <1>5, <1>6, <1>7, <1>8, <1>9, <1>10 DEF Producer

(* The steps of enqueue_bulk.                                              *)
LEMMA BulkCounters ==
  ASSUME RoomInv, BulkProducer
  PROVE  KeepsCounters
  <1>1. ASSUME NEW m \in Modes, NEW x \in NoexceptCtor, NEW n \in Counts, EnqueueBulk(m, x, n) PROVE KeepsCounters
    <2> DEFINE base == Base(Minus(tailIndex, 1))
               need == Minus(Base(Plus(tailIndex, n - 1)), base) \div BLOCK_SIZE
               l == IF need = 0 THEN "fill" ELSE "ahead"
    <2>1. UNCHANGED <<counters, claims>> /\ Enqueued + n <= MaxEnqueued /\ n \in Nat
      BY <1>1, SizeAssumption DEF EnqueueBulk, consumerVars
    <2>2. pr' = [Idle EXCEPT !.pc = l, !.mode = m, !.noexcept = x, !.count = n,
                   !.startBlock = tailBlock, !.used = pr_blockIndexSlotsUsed,
                   !.front = pr_blockIndexFront, !.need = need, !.tail = base]
      BY <1>1 DEF EnqueueBulk
    <2> HIDE DEF base, need, l
    <2>3. "count" \in DOMAIN pr' /\ pr'.count = n
      BY <2>2, IdleFields
    <2>4. Enqueued' = Enqueued /\ Enqueued \in Int /\ tailIndex' = tailIndex
      BY <2>1, CountersAssumption DEF counters, Enqueued, Minus, RoomInv
    <2> QED
      BY <2>1, <2>3, <2>4 DEF RoomInv, KeepsCounters, counterVars
  <1>2. ASSUME NEW b, NEW t, NEW l, TakeBlock(b, t, l) PROVE "count" \in DOMAIN pr' /\ pr'.count = pr.count
    BY <1>2 DEF TakeBlock, RoomInv
  <1>3. CASE BulkAhead
    BY <1>2, <1>3, QuietStep DEF BulkAhead, consumerVars
  <1>4. CASE BulkAheadEnds
    BY <1>4, GotoRoom, QuietStep DEF BulkAheadEnds, consumerVars
  <1>5. CASE BulkRoom
    <2>1. PGoto("bulkRequisition") \/ pr' = Idle \/ pr' = [pr EXCEPT !.front = pr.used, !.pc = "bulkRequisition"]
      BY <1>5 DEF BulkRoom, Revert, PReturn
    <2>2. pr' = Idle \/ ("count" \in DOMAIN pr' /\ pr'.count = pr.count)
      BY <2>1, GotoRoom DEF RoomInv
    <2> QED
      BY <1>5, <2>2, QuietStep DEF BulkRoom, consumerVars
  <1>6. CASE BulkRequisition
    <2>1. pr' = Idle \/ \E b, t, l : TakeBlock(b, t, l)
      BY <1>6 DEF BulkRequisition, Revert, PReturn
    <2> QED
      BY <1>2, <1>6, <2>1, QuietStep DEF BulkRequisition, consumerVars
  <1>7. CASE BulkReset
    BY <1>7, GotoRoom, QuietStep DEF BulkReset, consumerVars
  <1>8. CASE Fill
    <2>1. pr' = Idle \/ \E l : PGoto(l)
      BY <1>8 DEF Fill, Revert, PReturn
    <2> QED
      BY <1>8, <2>1, GotoRoom, QuietStep DEF Fill, consumerVars
  <1>9. CASE Expose
    BY <1>9, GotoRoom, QuietStep DEF Expose, consumerVars
  <1> QED
    BY <1>1, <1>3, <1>4, <1>5, <1>6, <1>7, <1>8, <1>9 DEF BulkProducer

(* The steps of the consumers and of the destructor.                       *)
LEMMA OtherCounters ==
  ASSUME RoomInv, Destructor \/ \E c \in Consumers : Consumer(c)
  PROVE  KeepsCounters
  <1>0. ASSUME UNCHANGED tailIndex, UNCHANGED pr PROVE RoomInv'
    BY <1>0 DEF RoomInv, Enqueued, Minus
  <1>1. CASE Destructor
    BY <1>1, GotoRoom, QuietStep DEF Destructor, consumerVars
  <1>2. ASSUME NEW c \in Consumers, Consumer(c) PROVE KeepsCounters
    <2>1. CASE LoadIndex(c) \/ LoadFront(c) \/ Locate(c) \/ Take(c)
      BY <2>1, QuietStep DEF LoadIndex, LoadFront, Locate, Take, RoomInv
    <2>2. CASE SetEmpty(c)
      <3>1. claims[c].pc = "claimed" /\ BlockDone(c) /\ UNCHANGED <<counters, pr>>
        BY <2>2 DEF SetEmpty, At, NextBlock
      <3> QED
        BY <1>0, <3>1 DEF KeepsCounters, CounterStep, counters
    <2>3. ASSUME NEW m \in Maxes, Dequeue(c, m), UNCHANGED pr PROVE KeepsCounters
      BY <1>0, <2>3 DEF KeepsCounters, CounterStep, Dequeue, counters
    <2>4. CASE ClaimStep(c) /\ UNCHANGED pr
      BY <1>0, <2>4 DEF KeepsCounters, CounterStep, ClaimStep, Check, Commit, Recheck, Overcommit, Claim, counters
    <2> QED
      BY <1>2, <2>1, <2>2, <2>3, <2>4 DEF Consumer
  <1> QED
    BY <1>1, <1>2

(* Every step of the sub-queue is a step of its counters.                  *)
LEMMA NextCounters == RoomInv /\ [Next]_vars => [CounterStep]_counterVars /\ RoomInv'
  <1> SUFFICES ASSUME RoomInv, [Next]_vars PROVE KeepsCounters
    BY DEF KeepsCounters
  <1>1. CASE UNCHANGED vars
    BY <1>1, QuietStep DEF vars, consumerVars, RoomInv
  <1> QED
    BY <1>1, ProducerCounters, BulkCounters, OtherCounters DEF Next

(* The producer of a new sub-queue has all the room.                       *)
LEMMA InitRoom == Init => CountersInit /\ RoomInv
  <1> SUFFICES ASSUME Init PROVE CountersInit /\ RoomInv
    OBVIOUS
  <1>1. CountersInit /\ pr = Idle
    BY DEF Init
  <1> DEFINE s == Passed * BLOCK_SIZE
  <1>2. tailIndex = s /\ s \in Int
    BY <1>1, CountersAssumption DEF CountersInit
  <1>3. Enqueued = 0
    BY <1>2, CountersAssumption DEF Enqueued, Minus
  <1> QED
    BY <1>1, <1>2, <1>3, IdleCount, CountersAssumption DEF RoomInv

-----------------------------------------------------------------------------
(* However the dequeues of an explicit sub-queue interleave, the three     *)
(* dequeue counters agree up to what the calls under way account for: no   *)
(* element is ever left behind that a dequeue would not see.               *)
THEOREM CountersBalance == Spec => []CountsBalance
  <1>1. Init => RangeInv /\ ClaimInv /\ CountsBalance
    BY InitRoom, CountersInitRange, CountersInitBalance
  <1>2. RoomInv /\ RangeInv /\ ClaimInv /\ CountsBalance /\ [Next]_vars
          => RangeInv' /\ ClaimInv' /\ CountsBalance'
    BY NextCounters, RangeKept, BalanceKept
  <1> QED
    BY <1>1, <1>2, InitRoom, NextCounters, PTL DEF Spec

(* However the dequeues of an explicit sub-queue interleave, no consumer   *)
(* claims an element that has not been published: the head stays behind    *)
(* the tail (the assertion of dequeue and dequeue_bulk), although every    *)
(* consumer compares a tail, an overcommit and an optimistic count that it *)
(* loaded at different times.  m is the largest max of a dequeue; what is  *)
(* enqueued and overcommitted, ever, must be fewer than half the numbers   *)
(* index_t can hold.                                                       *)
THEOREM HeadStaysWithinTail ==
  ASSUME NEW m \in Nat, \A x \in Maxes : x <= m
  PROVE  Spec /\ []FewOvercommits(m) => []HeadWithinTail
  <1>1. Init => RoomInv /\ RangeInv /\ ClaimInv /\ UnwrappedInv(m)
    BY InitRoom, CountersInitRange, CountersInitUnwrapped
  <1>2. RoomInv /\ RangeInv /\ ClaimInv /\ UnwrappedInv(m) /\ FewOvercommits(m) /\ [Next]_vars
          => RoomInv' /\ RangeInv' /\ ClaimInv' /\ UnwrappedInv(m)'
    BY NextCounters, RangeKept, UnwrappedKept
  <1>3. RangeInv /\ ClaimInv /\ UnwrappedInv(m) /\ FewOvercommits(m) => HeadWithinTail
    BY UnwrappedHead
  <1> QED
    BY <1>1, <1>2, <1>3, PTL DEF Spec
=============================================================================
