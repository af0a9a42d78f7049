----------------------------- MODULE BlockPool -----------------------------
(***************************************************************************)
(* Where ConcurrentQueue (include/concurrentqueue.h) gets its blocks from: *)
(* requisition_block() tries the initial pool, then FreeList::try_get(),   *)
(* then the heap; add_block_to_free_list() is FreeList::add().             *)
(*                                                                         *)
(* The free list is a stack linked through freeListNext.  A node's         *)
(* freeListRefs counts the list's reference and those of threads inside    *)
(* try_get(); its top bit (should) says that the node is to be put on the  *)
(* list by whoever brings the count to zero.  Every atomic access is one   *)
(* step; accesses are taken to be sequentially consistent.                 *)
(***************************************************************************)
EXTENDS Integers, FiniteSets, Functions

CONSTANTS Threads,
          PoolSize,     \* initialBlockPoolSize: blocks 1 .. PoolSize
          HeapSize      \* bound: blocks the heap can still provide

ASSUME SizesAssumption == PoolSize \in Nat /\ HeapSize \in Nat /\ IsFiniteSet(Threads)

Nodes == 1 .. PoolSize + HeapSize
Null == 0

VARIABLES
  initialBlockPoolIndex,
  freeListHead,
  freeListNext,     \* of every node
  refs,             \* freeListRefs & REFS_MASK, of every node
  should,           \* freeListRefs & SHOULD_BE_ON_FREELIST, of every node
  inUse,            \* blocks handed out and not given back
  heap,             \* blocks not allocated yet
  loc               \* every thread's program counter and locals

listVars == <<freeListHead, freeListNext, refs, should>>
vars == <<initialBlockPoolIndex, listVars, inUse, heap, loc>>

(* try_get() has head, next and seen (refs as loaded), its prevHead is in  *)
(* node; add_knowing_refcount_is_zero() has node and top (its head) and    *)
(* returns to ret.  A local is cleared when it is not needed any more.     *)
NoRefs == [refs |-> 0, should |-> FALSE]
Idle == [pc |-> "idle", canAlloc |-> FALSE, head |-> Null, next |-> Null, seen |-> NoRefs,
         node |-> Null, top |-> Null, ret |-> "idle"]

FreeListRefs(n) == [refs |-> refs[n], should |-> should[n]]

Init ==
  /\ initialBlockPoolIndex = 0
  /\ freeListHead = Null
  /\ freeListNext = [n \in Nodes |-> Null]
  /\ refs = [n \in Nodes |-> 0]
  /\ should = [n \in Nodes |-> FALSE]
  /\ inUse = {}
  /\ heap = PoolSize + 1 .. PoolSize + HeapSize
  /\ loc = [t \in Threads |-> Idle]

At(t, l) == loc[t].pc = l
Goto(t, l) == loc' = [loc EXCEPT ![t].pc = l]
Return(t) == loc' = [loc EXCEPT ![t] = Idle]

-----------------------------------------------------------------------------
(* requisition_block<canAlloc>(): try_get_block_from_initial_pool()        *)

Requisition(t, c) ==
  /\ At(t, "idle")
  /\ loc' = [loc EXCEPT ![t].canAlloc = c,
               ![t].pc = IF initialBlockPoolIndex >= PoolSize THEN "loadHead" ELSE "poolAdd"]
  /\ UNCHANGED <<initialBlockPoolIndex, listVars, inUse, heap>>

(* fetch_add(1); the index may have passed the end since it was tested     *)
PoolAdd(t) ==
  /\ At(t, "poolAdd")
  /\ initialBlockPoolIndex' = initialBlockPoolIndex + 1
  /\ IF initialBlockPoolIndex < PoolSize
     THEN inUse' = inUse \cup {initialBlockPoolIndex + 1} /\ Return(t)
     ELSE Goto(t, "loadHead") /\ UNCHANGED inUse
  /\ UNCHANGED <<listVars, heap>>

(* create<Block>(), or nullptr when not allowed or out of memory           *)
Alloc(t) ==
  /\ At(t, "alloc")
  /\ \/ /\ loc[t].canAlloc
        /\ \E n \in heap : heap' = heap \ {n} /\ inUse' = inUse \cup {n}
     \/ /\ ~loc[t].canAlloc \/ heap = {}
        /\ UNCHANGED <<heap, inUse>>
  /\ Return(t)
  /\ UNCHANGED <<initialBlockPoolIndex, listVars>>

-----------------------------------------------------------------------------
(* FreeList::try_get()                                                     *)

(* while (head != nullptr)                                                 *)
Loop(h) == IF h = Null THEN "alloc" ELSE "loadRefs"

LoadHead(t) ==
  /\ At(t, "loadHead")
  /\ loc' = [loc EXCEPT ![t].head = freeListHead, ![t].pc = Loop(freeListHead)]
  /\ UNCHANGED <<initialBlockPoolIndex, listVars, inUse, heap>>

LoadRefs(t) ==
  /\ At(t, "loadRefs")
  /\ LET h == loc[t].head IN
     loc' = IF refs[h] = 0
            THEN [loc EXCEPT ![t].head = Null, ![t].pc = "loadHead"]
            ELSE [loc EXCEPT ![t].seen = FreeListRefs(h), ![t].pc = "incRefs"]
  /\ UNCHANGED <<initialBlockPoolIndex, listVars, inUse, heap>>

(* compare_exchange_strong(refs, refs + 1)                                 *)
IncRefs(t) ==
  /\ At(t, "incRefs")
  /\ IF FreeListRefs(loc[t].head) = loc[t].seen
     THEN /\ refs' = [refs EXCEPT ![loc[t].head] = @ + 1]
          /\ loc' = [loc EXCEPT ![t].seen = NoRefs, ![t].pc = "loadNext"]
     ELSE /\ loc' = [loc EXCEPT ![t].seen = NoRefs, ![t].head = Null, ![t].pc = "loadHead"]
          /\ UNCHANGED refs
  /\ UNCHANGED <<initialBlockPoolIndex, freeListHead, freeListNext, should, inUse, heap>>

LoadNext(t) ==
  /\ At(t, "loadNext")
  /\ loc' = [loc EXCEPT ![t].next = freeListNext[loc[t].head], ![t].pc = "casHead"]
  /\ UNCHANGED <<initialBlockPoolIndex, listVars, inUse, heap>>

(* Unlink the head; when it has changed, head becomes the new one and the  *)
(* reference to prevHead has to be given up.                               *)
CasHead(t) ==
  /\ At(t, "casHead")
  /\ LET h == loc[t].head IN
     IF freeListHead = h
     THEN /\ freeListHead' = loc[t].next
          /\ inUse' = inUse \cup {h}
          /\ loc' = [loc EXCEPT ![t].next = Null, ![t].pc = "decTwo"]
     ELSE /\ loc' = [loc EXCEPT ![t].next = Null, ![t].node = h, ![t].head = freeListHead,
                               ![t].pc = "decOne"]
          /\ UNCHANGED <<freeListHead, inUse>>
  /\ UNCHANGED <<initialBlockPoolIndex, freeListNext, refs, should, heap>>

(* our reference and the list's                                            *)
DecTwo(t) ==
  /\ At(t, "decTwo")
  /\ refs' = [refs EXCEPT ![loc[t].head] = @ - 2]
  /\ Return(t)
  /\ UNCHANGED <<initialBlockPoolIndex, freeListHead, freeListNext, should, inUse, heap>>

(* the thread that drops the last reference does not add the node          *)
MutDecOne(t) ==
  /\ At(t, "decOne")
  /\ refs' = [refs EXCEPT ![loc[t].node] = @ - 1]
  /\ loc' = [loc EXCEPT ![t].node = Null, ![t].pc = Loop(loc[t].head)]
  /\ UNCHANGED <<initialBlockPoolIndex, freeListHead, freeListNext, should, inUse, heap>>

(* fetch_sub(1) on prevHead; the last reference to a node that should be   *)
(* on the list puts it there                                               *)
DecOne(t) ==
  /\ At(t, "decOne")
  /\ LET n == loc[t].node IN
     /\ refs' = [refs EXCEPT ![n] = @ - 1]
     /\ loc' = IF refs[n] = 1 /\ should[n]
               THEN [loc EXCEPT ![t].ret = Loop(loc[t].head), ![t].pc = "loadTop"]
               ELSE [loc EXCEPT ![t].node = Null, ![t].pc = Loop(loc[t].head)]
  /\ UNCHANGED <<initialBlockPoolIndex, freeListHead, freeListNext, should, inUse, heap>>

-----------------------------------------------------------------------------
(* FreeList::add(n): fetch_add(SHOULD_BE_ON_FREELIST), by whoever is done  *)
(* with a block that requisition_block() has returned.                     *)
Add(t, n) ==
  /\ At(t, "idle") /\ n \in inUse
  /\ \A u \in Threads : At(u, "decTwo") => loc[u].head # n
  /\ inUse' = inUse \ {n}
  /\ should' = [should EXCEPT ![n] = TRUE]
  /\ IF refs[n] = 0 THEN loc' = [loc EXCEPT ![t].node = n, ![t].pc = "loadTop"]
                    ELSE UNCHANGED loc
  /\ UNCHANGED <<initialBlockPoolIndex, freeListHead, freeListNext, refs, heap>>

(* add_knowing_refcount_is_zero(node)                                      *)

LoadTop(t) ==
  /\ At(t, "loadTop")
  /\ loc' = [loc EXCEPT ![t].top = freeListHead, ![t].pc = "storeNext"]
  /\ UNCHANGED <<initialBlockPoolIndex, listVars, inUse, heap>>

StoreNext(t) ==
  /\ At(t, "storeNext")
  /\ freeListNext' = [freeListNext EXCEPT ![loc[t].node] = loc[t].top]
  /\ Goto(t, "storeRefs")
  /\ UNCHANGED <<initialBlockPoolIndex, freeListHead, refs, should, inUse, heap>>

(* store(1): the list's reference, and the flag is cleared                 *)
StoreRefs(t) ==
  /\ At(t, "storeRefs")
  /\ refs' = [refs EXCEPT ![loc[t].node] = 1]
  /\ should' = [should EXCEPT ![loc[t].node] = FALSE]
  /\ Goto(t, "casTop")
  /\ UNCHANGED <<initialBlockPoolIndex, freeListHead, freeListNext, inUse, heap>>

(* the adding is over: back to add()'s caller or into try_get()'s loop     *)
Added(t) ==
  loc' = [loc EXCEPT ![t].node = Null, ![t].top = Null, ![t].ret = "idle", ![t].pc = loc[t].ret]

(* the CAS is retried at once, with the node still referenced              *)
MutCasTop(t) ==
  /\ At(t, "casTop")
  /\ IF freeListHead = loc[t].top
     THEN freeListHead' = loc[t].node /\ Added(t)
     ELSE /\ loc' = [loc EXCEPT ![t].top = freeListHead, ![t].pc = "storeNext"]
          /\ UNCHANGED freeListHead
  /\ UNCHANGED <<initialBlockPoolIndex, freeListNext, refs, should, inUse, heap>>

CasTop(t) ==
  /\ At(t, "casTop")
  /\ IF freeListHead = loc[t].top
     THEN freeListHead' = loc[t].node /\ Added(t)
     ELSE /\ loc' = [loc EXCEPT ![t].top = freeListHead, ![t].pc = "giveUp"]
          /\ UNCHANGED freeListHead
  /\ UNCHANGED <<initialBlockPoolIndex, freeListNext, refs, should, inUse, heap>>

(* fetch_add(SHOULD_BE_ON_FREELIST - 1): try again only if nobody else     *)
(* holds a reference, else leave it to them                                *)
GiveUp(t) ==
  /\ At(t, "giveUp")
  /\ LET n == loc[t].node IN
     /\ refs' = [refs EXCEPT ![n] = @ - 1]
     /\ should' = [should EXCEPT ![n] = TRUE]
     /\ IF refs[n] = 1 THEN Goto(t, "storeNext") ELSE Added(t)
  /\ UNCHANGED <<initialBlockPoolIndex, freeListHead, freeListNext, inUse, heap>>

-----------------------------------------------------------------------------
Step(t) ==
  \/ PoolAdd(t) \/ Alloc(t)
  \/ LoadHead(t) \/ LoadRefs(t) \/ IncRefs(t) \/ LoadNext(t) \/ CasHead(t)
  \/ DecTwo(t) \/ DecOne(t)
  \/ LoadTop(t) \/ StoreNext(t) \/ StoreRefs(t) \/ CasTop(t) \/ GiveUp(t)

Next == \E t \in Threads :
  \/ \E c \in BOOLEAN : Requisition(t, c)
  \/ \E n \in Nodes : Add(t, n)
  \/ Step(t)

Spec == Init /\ [][Next]_vars

-----------------------------------------------------------------------------
(* The links from first on lead through all of L, past no node twice, and  *)
(* end there                                                               *)
Chain(first, next, L) ==
  \E list \in Bijection(1 .. Cardinality(L), L) :
    /\ first = IF L = {} THEN Null ELSE list[1]
    /\ \A i \in 1 .. Cardinality(L) :
         next[list[i]] = IF i = Cardinality(L) THEN Null ELSE list[i + 1]

(* The nodes on the free list are those of L                               *)
Listed(L) == Chain(freeListHead, freeListNext, L)

(* Every variable stays within its range: no count goes below zero.        *)
TypeOK ==
  /\ initialBlockPoolIndex \in 0 .. PoolSize + Cardinality(Threads)
  /\ freeListHead \in Nodes \cup {Null}
  /\ freeListNext \in [Nodes -> Nodes \cup {Null}]
  /\ refs \in [Nodes -> 0 .. Cardinality(Threads) + 1]
  /\ should \in [Nodes -> BOOLEAN]
  /\ inUse \subseteq Nodes /\ heap \subseteq Nodes
  /\ \A t \in Threads : {loc[t].head, loc[t].next, loc[t].node, loc[t].top} \subseteq Nodes \cup {Null}

(* The list has no cycle, holds no block that is in use, so none is handed *)
(* out twice, and every node on it carries the list's reference.  What is  *)
(* in use was made: threads that race for the last block of the initial    *)
(* pool get none from behind its end.                                      *)
ListSound ==
  /\ inUse \cap heap = {}
  /\ \E L \in SUBSET Nodes :
       /\ Listed(L)
       /\ L \cap (inUse \cup heap) = {}
       /\ \A n \in L : refs[n] >= 1

(* When no call is under way every free block is on the list, with exactly *)
(* the list's reference: no add was forgotten by a thread that relied on   *)
(* another to finish it, and blocks in use carry no reference.             *)
NoBlockLost ==
  (\A t \in Threads : At(t, "idle")) =>
    \E L \in SUBSET Nodes :
      /\ Listed(L)
      /\ \A n \in Nodes \ heap :
           /\ ~should[n]
           /\ \/ n \in inUse /\ refs[n] = 0
              \/ n \in L /\ refs[n] = 1
              \/ n > initialBlockPoolIndex /\ n <= PoolSize
=============================================================================
