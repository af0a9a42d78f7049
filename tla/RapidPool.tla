----------------------------- MODULE RapidPool -----------------------------
(***************************************************************************)
(* CDMRapidPool and CDynamicRapidPool (include/dmrapidpool.h): one         *)
(* thread's pool of objects of one type, DMPool<T>(), used through DMNew   *)
(* and DMDelete.  Pool 0 is the default pool, the others are made when all *)
(* before them are empty.                                                  *)
(*                                                                         *)
(* The pool belongs to one thread and has no lock, but its calls do nest:  *)
(* a constructor or destructor may fetch and release objects of the same   *)
(* type.  The calls under way are a stack.  A slot leaves the free list    *)
(* before the constructor runs and is back on it before the destructor     *)
(* runs: what the destructor fetches may be the slot it is destroying.  A  *)
(* constructor may throw.                                                  *)
(*                                                                         *)
(* abort() and the asserts state what callers must do: release an object   *)
(* once and to the pool it is from, and fetch no more than the pools hold. *)
(***************************************************************************)
EXTENDS Integers, Sequences

CONSTANTS SIZE,         \* slots of a pool
          INDEX,        \* pools beside the default one
          MaxDepth      \* bound: calls under way

VARIABLES
  pools,       \* of every index: [made, first, free, use, flag], the fields of CDMRapidPool
  stack,       \* the calls under way, the innermost last: [op, slot]
  owned,       \* objects whose owner has not released them
  lost,        \* slots of objects whose constructor threw
  refetched    \* history: a destructor under way, or what it called, has fetched

vars == <<pools, stack, owned, lost, refetched>>

Indices == 0 .. INDEX
Slots == Indices \X (0 .. SIZE - 1)     \* GetRapidData(): its dwIndex and its place

NewPool == [made |-> TRUE, first |-> 0, free |-> SIZE, use |-> {}, flag |-> [s \in 0 .. SIZE - 1 |-> s + 1]]

Init ==
  /\ pools = [i \in Indices |-> [NewPool EXCEPT !.made = i = 0]]
  /\ stack = <<>> /\ owned = {} /\ lost = {} /\ refetched = FALSE

Empty(i) == pools[i].free = 0

(* the slots of the calls under way that construct, and that destroy       *)
Busy(op) == {stack[d].slot : d \in {d \in 1 .. Len(stack) : stack[d].op = op}}
Constructing == Busy("construct")
Destroying == Busy("destroy")

-----------------------------------------------------------------------------
(* CDynamicRapidPool::FetchObj(): the first pool that is not empty or not  *)
(* made yet                                                                *)
HasRoom(i) == ~pools[i].made \/ ~Empty(i)
Chosen(i) == HasRoom(i) /\ \A j \in 0 .. i - 1 : ~HasRoom(j)

(* CDMRapidPool::FetchObj() up to the constructor.  It aborts if the first *)
(* slot is in use, which SlotsAccounted excludes.                          *)
Fetch(i) ==
  /\ Len(stack) < MaxDepth
  /\ Chosen(i)
  /\ LET p == pools[i]
     IN  /\ pools' = [pools EXCEPT ![i] = [p EXCEPT !.made = TRUE, !.first = p.flag[p.first],
                                                    !.free = p.free - 1, !.use = p.use \cup {p.first}]]
         /\ stack' = Append(stack, [op |-> "construct", slot |-> <<i, p.first>>])
  /\ refetched' = (refetched \/ Destroying # {})
  /\ UNCHANGED <<owned, lost>>

Innermost(op) == stack # <<>> /\ stack[Len(stack)].op = op
Slot == stack[Len(stack)].slot
Return == stack' = SubSeq(stack, 1, Len(stack) - 1)

Constructed ==
  /\ Innermost("construct")
  /\ owned' = owned \cup {Slot}
  /\ Return
  /\ UNCHANGED <<pools, lost, refetched>>

(* nothing puts the slot back                                              *)
ConstructorThrows ==
  /\ Innermost("construct")
  /\ lost' = lost \cup {Slot}
  /\ Return
  /\ UNCHANGED <<pools, owned, refetched>>

(* CDynamicRapidPool::ReleaseObj(): the pool that dwIndex names            *)
Home(o) == o[1]

(* the two assignments to the list are swapped                             *)
MutReleaseObj(o) ==
  /\ Len(stack) < MaxDepth
  /\ o \in owned
  /\ owned' = owned \ {o}
  /\ LET p == pools[Home(o)]
     IN  pools' = [pools EXCEPT ![Home(o)] = [p EXCEPT !.flag[o[2]] = o[2], !.first = o[2],
                                                       !.free = p.free + 1, !.use = p.use \ {o[2]}]]
  /\ stack' = Append(stack, [op |-> "destroy", slot |-> o])
  /\ UNCHANGED <<lost, refetched>>

(* CDMRapidPool::ReleaseObj() up to the destructor, by the owner of o      *)
ReleaseObj(o) ==
  /\ Len(stack) < MaxDepth
  /\ o \in owned
  /\ owned' = owned \ {o}
  /\ LET p == pools[Home(o)]
     IN  pools' = [pools EXCEPT ![Home(o)] = [p EXCEPT !.flag[o[2]] = p.first, !.first = o[2],
                                                       !.free = p.free + 1, !.use = p.use \ {o[2]}]]
  /\ stack' = Append(stack, [op |-> "destroy", slot |-> o])
  /\ UNCHANGED <<lost, refetched>>

Destroyed ==
  /\ Innermost("destroy")
  /\ Return
  /\ refetched' = (refetched /\ Destroying' # {})
  /\ UNCHANGED <<pools, owned, lost>>

Next ==
  \/ \E i \in Indices : Fetch(i)
  \/ Constructed \/ ConstructorThrows
  \/ \E o \in Slots : ReleaseObj(o)
  \/ Destroyed

Spec == Init /\ [][Next]_vars

-----------------------------------------------------------------------------
(* list is the free list of pool i: it begins at the first slot, follows   *)
(* the flags and comes by no slot twice                                    *)
FreeList(i, list) ==
  /\ \A n \in DOMAIN list : list[n] = IF n = 1 THEN pools[i].first ELSE pools[i].flag[list[n - 1]]
  /\ \A n, k \in DOMAIN list : list[n] = list[k] => n = k

(* the slots that were fetched and not released since                      *)
Fetched == owned \cup lost \cup Constructing
Untaken(i) == {s \in 0 .. SIZE - 1 : <<i, s>> \notin Fetched}

(* No slot whose destructor still runs has been fetched again: the new     *)
(* object would be constructed over one that is being destroyed.  A        *)
(* destructor that fetches breaks it.                                      *)
ObjectsApart == Destroying \cap Fetched = {}

(* However calls nest and constructors throw, the free list of every pool  *)
(* holds as many slots as its count says, each once, and exactly those not *)
(* fetched or released since, a slot whose destructor still runs among     *)
(* them: no slot has two owners, and none but those of constructors that   *)
(* threw is lost.  As long as no destructor under way has fetched, none of *)
(* the slots that they are destroying has a second object, however they    *)
(* release others in turn.                                                 *)
SlotsAccounted ==
  /\ \A i \in Indices :
       /\ pools[i].use = (0 .. SIZE - 1) \ Untaken(i)
       /\ \E list \in [1 .. pools[i].free -> Untaken(i)] :
            FreeList(i, list) /\ \A s \in Untaken(i) : \E n \in DOMAIN list : list[n] = s
       /\ ~pools[i].made => Untaken(i) = 0 .. SIZE - 1
  /\ refetched \/ ObjectsApart

(* What ~CDMRapidPool asserts: with every object released its pool is full *)
FullWhenReleased == stack = <<>> /\ owned = {} => \A i \in Indices : pools[i].free = SIZE
=============================================================================
