-------------------------- MODULE BlockPoolProofs --------------------------
(***************************************************************************)
(* Proofs about BlockPool, for any number of threads and blocks: the free  *)
(* list stays a list, no block is handed out twice and none is lost,       *)
(* although nodes are taken off the list and put back while other threads  *)
(* still hold references to them.                                          *)
(***************************************************************************)
EXTENDS BlockPool, CountingLemmas

Links == Nodes \cup {Null}

(* the steps of add_knowing_refcount_is_zero before and after store(1)     *)
Unreferenced == {"loadTop", "storeNext", "storeRefs"}
Referenced == {"casTop", "giveUp"}
Adding == Unreferenced \cup Referenced

LocType ==
  [pc : {"idle", "poolAdd", "alloc", "loadHead", "loadRefs", "incRefs", "loadNext", "casHead", "decTwo", "decOne"}
          \cup Adding,
   canAlloc : BOOLEAN, head : Links, next : Links, seen : [refs : Nat, should : BOOLEAN],
   node : Links, top : Links, ret : {"idle", "alloc", "loadRefs"}]

RangeInv ==
  /\ initialBlockPoolIndex \in Nat
  /\ freeListHead \in Links /\ freeListNext \in [Nodes -> Links]
  /\ refs \in [Nodes -> Nat] /\ should \in [Nodes -> BOOLEAN]
  /\ inUse \subseteq Nodes /\ heap \subseteq PoolSize + 1 .. PoolSize + HeapSize
  /\ loc \in [Threads -> LocType]

(* What a thread's locals say of the list.  The head that try_get() has a  *)
(* reference to keeps its freeListNext.                                    *)
LocalsInv(l) ==
  /\ l.pc \in {"loadRefs", "incRefs", "loadNext", "casHead", "decTwo"} => l.head \in Nodes
  /\ l.pc \in {"decOne"} \cup Adding => l.node \in Nodes
  /\ l.pc \notin Adding => l.ret = "idle"
  /\ l.pc \in Adding /\ l.ret = "loadRefs" => l.head \in Nodes
  /\ l.pc = "incRefs" => l.seen.refs # 0
  /\ l.pc = "casHead" => l.next = freeListNext[l.head]
  /\ l.pc \in {"storeRefs", "casTop"} => l.top = freeListNext[l.node]

(* The references to node n that a thread accounts for                     *)
Share(l, n) ==
  IF l.pc = "decTwo" /\ l.head = n THEN 2
  ELSE IF \/ l.pc \in {"loadNext", "casHead"} /\ l.head = n
          \/ l.pc \in {"decOne"} \cup Referenced /\ l.node = n THEN 1
  ELSE 0
Shares(n) == [t \in Threads |-> Share(loc[t], n)]

(* Thread with locals l adds node n to the list.                           *)
Adds(l, n) == l.pc \in Adding /\ l.node = n

Made(n) == n \notin heap /\ ~(n > initialBlockPoolIndex /\ n <= PoolSize)

(* A node that a thread adds is nowhere else.                              *)
ThreadInv(l, L) ==
  /\ LocalsInv(l)
  /\ l.pc \in Unreferenced => refs[l.node] = 0 /\ should[l.node]
  /\ l.pc \in Referenced => ~should[l.node] /\ l.node \notin L \cup inUse /\ Made(l.node)
  /\ l.pc = "decTwo" => l.head \in inUse

NodeInv(n, L) ==
  /\ refs[n] = Total(Shares(n), Threads) + (IF n \in L THEN 1 ELSE 0)
  /\ n \in L \cup inUse => ~should[n] /\ Made(n)
  /\ ~(n \in L /\ n \in inUse)
  /\ ~Made(n) => ~should[n] /\ refs[n] = 0
  /\ should[n] /\ refs[n] = 0 => \E t \in Threads : Adds(loc[t], n)
  /\ Made(n) => n \in L \cup inUse \/ should[n] \/ \E t \in Threads : Adds(loc[t], n)

Exclusive == \A n \in Nodes : \A t, u \in Threads : Adds(loc[t], n) /\ Adds(loc[u], n) => t = u

PoolInv(L) ==
  /\ RangeInv /\ Listed(L) /\ Exclusive
  /\ \A t \in Threads : ThreadInv(loc[t], L)
  /\ \A n \in Nodes : NodeInv(n, L)

-----------------------------------------------------------------------------
(* Chains                                                                  *)

(* What a chain is, with n links.                                          *)
Linked(first, next, n, L, list) ==
  /\ list \in [1 .. n -> L]
  /\ \A i, j \in 1 .. n : list[i] = list[j] => i = j
  /\ \A x \in L : \E i \in 1 .. n : list[i] = x
  /\ first = IF n = 0 THEN Null ELSE list[1]
  /\ \A i \in 1 .. n : next[list[i]] = IF i = n THEN Null ELSE list[i + 1]

LEMMA NodesFinite ==
  ASSUME NEW L, L \subseteq Nodes
  PROVE  IsFiniteSet(L) /\ Cardinality(L) \in Nat /\ (Cardinality(L) = 0 <=> L = {})
  <1>1. IsFiniteSet(Nodes)
    BY FS_Interval, SizesAssumption DEF Nodes
  <1>2. IsFiniteSet(L)
    BY <1>1, FS_Subset
  <1> QED
    BY <1>2, FS_CardinalityType, FS_EmptySet

LEMMA ChainMeans ==
  ASSUME NEW first, NEW next, NEW L, L \subseteq Nodes
  PROVE  Chain(first, next, L) <=> \E list : Linked(first, next, Cardinality(L), L, list)
  <1>1. Cardinality(L) \in Nat /\ (Cardinality(L) = 0 <=> L = {})
    BY NodesFinite
  <1>2. \A list : list \in Bijection(1 .. Cardinality(L), L) <=>
          /\ list \in [1 .. Cardinality(L) -> L]
          /\ \A i, j \in 1 .. Cardinality(L) : list[i] = list[j] => i = j
          /\ \A x \in L : \E i \in 1 .. Cardinality(L) : list[i] = x
    BY DEF Bijection, Injection, Surjection, IsInjective
  <1> QED
    BY <1>1, <1>2 DEF Chain, Linked

(* No links, no nodes.                                                     *)
LEMMA ChainEmpty ==
  ASSUME NEW next
  PROVE  Chain(Null, next, {})
  <1>1. Linked(Null, next, 0, {}, [i \in 1 .. 0 |-> i])
    BY DEF Linked
  <1>2. Cardinality({}) = 0
    BY FS_EmptySet
  <1> QED
    BY <1>1, <1>2, ChainMeans

(* Links outside of a chain do not matter.                                 *)
LEMMA ChainElsewhere ==
  ASSUME NEW first, NEW next, NEW other, NEW L, L \subseteq Nodes, Chain(first, next, L),
         \A x \in L : other[x] = next[x]
  PROVE  Chain(first, other, L)
  <1>1. PICK list : Linked(first, next, Cardinality(L), L, list)
    BY ChainMeans
  <1>2. Linked(first, other, Cardinality(L), L, list)
    BY <1>1 DEF Linked
  <1> QED
    BY <1>2, ChainMeans

(* The first node is taken off.                                            *)
LEMMA ChainPopped ==
  ASSUME NEW first \in Nodes, NEW next, NEW L, L \subseteq Nodes, Chain(first, next, L)
  PROVE  first \in L /\ Chain(next[first], next, L \ {first})
  <1>1. PICK list : Linked(first, next, Cardinality(L), L, list)
    BY ChainMeans
  <1>2. PICK n \in Nat : n = Cardinality(L)
    BY NodesFinite
  <1>3. Linked(first, next, n, L, list)
    BY <1>1, <1>2
  <1>4. n # 0 /\ 1 \in 1 .. n /\ list[1] = first /\ first \in L
    BY <1>3 DEF Linked, Null, Nodes
  <1> DEFINE rest == [k \in 1 .. n - 1 |-> list[k + 1]]
             V == L \ {first}
  <1>5. \A k \in 1 .. n - 1 : k + 1 \in 1 .. n /\ k \in 1 .. n /\ (k + 1) - 1 = k /\ k + 1 # 1
    BY <1>4
  <1>6. rest \in [1 .. n - 1 -> V]
    BY <1>3, <1>4, <1>5 DEF Linked
  <1>7. \A i, j \in 1 .. n - 1 : rest[i] = rest[j] => i = j
    <2> SUFFICES ASSUME NEW i \in 1 .. n - 1, NEW j \in 1 .. n - 1, rest[i] = rest[j] PROVE i = j
      OBVIOUS
    <2>1. i + 1 = j + 1
      BY <1>3, <1>5 DEF Linked
    <2> QED
      BY <2>1
  <1>8. \A x \in V : \E i \in 1 .. n - 1 : rest[i] = x
    <2> SUFFICES ASSUME NEW x \in V PROVE \E i \in 1 .. n - 1 : rest[i] = x
      OBVIOUS
    <2>1. PICK k \in 1 .. n : list[k] = x
      BY <1>3 DEF Linked
    <2>2. k # 1
      BY <1>4, <2>1
    <2>3. k - 1 \in 1 .. n - 1 /\ (k - 1) + 1 = k
      BY <2>2
    <2> QED
      BY <2>1, <2>3
  <1>9. next[first] = IF n - 1 = 0 THEN Null ELSE rest[1]
    <2>1. next[first] = IF 1 = n THEN Null ELSE list[2]
      BY <1>3, <1>4 DEF Linked
    <2>2. n - 1 # 0 => 1 \in 1 .. n - 1 /\ rest[1] = list[2]
      BY <1>4
    <2> QED
      BY <1>4, <2>1, <2>2
  <1>10. \A i \in 1 .. n - 1 : next[rest[i]] = IF i = n - 1 THEN Null ELSE rest[i + 1]
    <2> SUFFICES ASSUME NEW i \in 1 .. n - 1 PROVE next[rest[i]] = IF i = n - 1 THEN Null ELSE rest[i + 1]
      OBVIOUS
    <2>1. PICK k \in 1 .. n : k = i + 1
      BY <1>5
    <2>2. rest[i] = list[k] /\ next[list[k]] = IF k = n THEN Null ELSE list[k + 1]
      BY <1>3, <2>1 DEF Linked
    <2>3. (k = n <=> i = n - 1) /\ (i # n - 1 => i + 1 \in 1 .. n - 1)
      BY <2>1
    <2>4. i # n - 1 => rest[i + 1] = list[k + 1]
      BY <2>1, <2>3
    <2> QED
      BY <2>2, <2>3, <2>4
  <1> HIDE DEF rest, V
  <1>11. Linked(next[first], next, n - 1, V, rest)
    BY <1>6, <1>7, <1>8, <1>9, <1>10 DEF Linked
  <1>12. Cardinality(V) = n - 1 /\ V \subseteq Nodes
    BY <1>2, <1>4, NodesFinite, FS_RemoveElement DEF V
  <1>13. Chain(next[first], next, V)
    BY <1>11, <1>12, ChainMeans
  <1> QED
    BY <1>4, <1>13 DEF V

(* A node that leads to the first one is put on.                           *)
LEMMA ChainPushed ==
  ASSUME NEW first, NEW next, NEW L, L \subseteq Nodes, Chain(first, next, L),
         NEW x \in Nodes, x \notin L, next[x] = first
  PROVE  Chain(x, next, L \cup {x})
  <1>1. PICK list : Linked(first, next, Cardinality(L), L, list)
    BY ChainMeans
  <1>2. PICK n \in Nat : n = Cardinality(L)
    BY NodesFinite
  <1>3. Linked(first, next, n, L, list)
    BY <1>1, <1>2
  <1> DEFINE more == [k \in 1 .. n + 1 |-> IF k = 1 THEN x ELSE list[k - 1]]
             V == L \cup {x}
  <1>4. /\ \A k \in 1 .. n + 1 : k # 1 => k - 1 \in 1 .. n /\ more[k] = list[k - 1]
        /\ 1 \in 1 .. n + 1 /\ more[1] = x
    OBVIOUS
  <1>5. more \in [1 .. n + 1 -> V]
    BY <1>3, <1>4 DEF Linked
  <1>6. \A i, j \in 1 .. n + 1 : more[i] = more[j] => i = j
    <2> SUFFICES ASSUME NEW i \in 1 .. n + 1, NEW j \in 1 .. n + 1, more[i] = more[j] PROVE i = j
      OBVIOUS
    <2>1. CASE i = 1 \/ j = 1
      BY <1>3, <1>4, <2>1 DEF Linked
    <2>2. CASE i # 1 /\ j # 1
      <3>1. i - 1 = j - 1
        BY <1>3, <1>4, <2>2 DEF Linked
      <3> QED
        BY <3>1
    <2> QED
      BY <2>1, <2>2
  <1>7. \A y \in V : \E i \in 1 .. n + 1 : more[i] = y
    <2> SUFFICES ASSUME NEW y \in V PROVE \E i \in 1 .. n + 1 : more[i] = y
      OBVIOUS
    <2>1. CASE y = x
      BY <1>4, <2>1
    <2>2. CASE y \in L
      <3>1. PICK k \in 1 .. n : list[k] = y
        BY <1>3, <2>2 DEF Linked
      <3>2. k + 1 \in 1 .. n + 1 /\ k + 1 # 1 /\ (k + 1) - 1 = k
        OBVIOUS
      <3> QED
        BY <3>1, <3>2
    <2> QED
      BY <2>1, <2>2
  <1>8. \A i \in 1 .. n + 1 : next[more[i]] = IF i = n + 1 THEN Null ELSE more[i + 1]
    <2> SUFFICES ASSUME NEW i \in 1 .. n + 1 PROVE next[more[i]] = IF i = n + 1 THEN Null ELSE more[i + 1]
      OBVIOUS
    <2>1. CASE i = 1
      <3>1. next[more[i]] = IF n = 0 THEN Null ELSE list[1]
        BY <1>3, <1>4, <2>1 DEF Linked
      <3>2. n # 0 => 2 \in 1 .. n + 1 /\ more[2] = list[1]
        OBVIOUS
      <3> QED
        BY <2>1, <3>1, <3>2
    <2>2. CASE i # 1
      <3>1. PICK k \in 1 .. n : k = i - 1
        BY <2>2
      <3>2. more[i] = list[k] /\ next[list[k]] = IF k = n THEN Null ELSE list[k + 1]
        BY <1>3, <2>2, <3>1 DEF Linked
      <3>3. (k = n <=> i = n + 1) /\ (i # n + 1 => i + 1 \in 1 .. n + 1 /\ i + 1 # 1 /\ (i + 1) - 1 = k + 1)
        BY <3>1
      <3>4. i # n + 1 => more[i + 1] = list[k + 1]
        BY <3>3
      <3> QED
        BY <3>2, <3>3, <3>4
    <2> QED
      BY <2>1, <2>2
  <1> HIDE DEF more, V
  <1>9. Linked(x, next, n + 1, V, more)
    BY <1>4, <1>5, <1>6, <1>7, <1>8 DEF Linked
  <1>10. Cardinality(V) = n + 1 /\ V \subseteq Nodes
    BY <1>2, NodesFinite, FS_AddElement DEF V
  <1> QED
    BY <1>9, <1>10, ChainMeans DEF V

-----------------------------------------------------------------------------
(* References                                                              *)

(* The fields of a thread's locals.                                        *)
LEMMA Fields ==
  ASSUME NEW l \in LocType
  PROVE  /\ l.head \in Links /\ l.next \in Links /\ l.node \in Links /\ l.top \in Links
         /\ l.seen.refs \in Nat /\ l.ret \in {"idle", "alloc", "loadRefs"}
  BY DEF LocType

(* A thread accounts for at most two references, and for one if it adds.   *)
LEMMA ShareType ==
  ASSUME NEW l, NEW n
  PROVE  Share(l, n) \in {0, 1, 2} /\ Share(l, n) \in Nat
  BY DEF Share

(* A step of one thread changes the references accounted for by its own.   *)
LEMMA SharesMove ==
  ASSUME NEW t \in Threads, \A u \in Threads \ {t} : loc'[u] = loc[u], NEW n
  PROVE  /\ Total(Shares(n), Threads) \in Nat /\ Total(Shares(n)', Threads) \in Nat
         /\ Total(Shares(n)', Threads) = Total(Shares(n), Threads) - Share(loc[t], n) + Share(loc'[t], n)
  <1>1. Shares(n) \in [Threads -> Nat] /\ Shares(n)' \in [Threads -> Nat]
    BY ShareType DEF Shares
  <1>2. \A u \in Threads \ {t} : Shares(n)'[u] = Shares(n)[u]
    BY DEF Shares
  <1>3. Shares(n)[t] = Share(loc[t], n) /\ Shares(n)'[t] = Share(loc'[t], n)
    BY DEF Shares
  <1>4. Total(Shares(n), Threads) \in Nat /\ Total(Shares(n)', Threads) \in Nat
    BY <1>1, TotalType, SizesAssumption
  <1>5. Total(Shares(n)', Threads) = Total(Shares(n), Threads) - Shares(n)[t] + Shares(n)'[t]
    BY <1>1, <1>2, TotalUpdate, SizesAssumption
  <1> QED
    BY <1>3, <1>4, <1>5

(* A node has at least the references that one thread accounts for.        *)
LEMMA ShareCounted ==
  ASSUME NEW L, NEW n \in Nodes, NodeInv(n, L), NEW t \in Threads
  PROVE  Share(loc[t], n) <= refs[n] /\ (n \in L => Share(loc[t], n) < refs[n]) /\ refs[n] \in Nat
  <1>1. Shares(n) \in [Threads -> Nat] /\ Shares(n)[t] = Share(loc[t], n)
    BY ShareType DEF Shares
  <1>2. Shares(n)[t] <= Total(Shares(n), Threads) /\ Total(Shares(n), Threads) \in Nat
    BY <1>1, TotalAtLeast, TotalType, SizesAssumption
  <1> QED
    BY <1>1, <1>2, ShareType DEF NodeInv

-----------------------------------------------------------------------------
(* One step                                                                *)

(* A step of t changes nothing about node n.                               *)
Same(t, n, L, M) ==
  /\ refs'[n] = refs[n] /\ should'[n] = should[n]
  /\ n \in inUse' <=> n \in inUse
  /\ n \in M <=> n \in L
  /\ Made(n)' <=> Made(n)
  /\ Share(loc'[t], n) = Share(loc[t], n)
  /\ Adds(loc'[t], n) <=> Adds(loc[t], n)

(* Such a node keeps its invariant.                                        *)
LEMMA NodeKept ==
  ASSUME NEW L, NEW M, NEW t \in Threads, \A u \in Threads \ {t} : loc'[u] = loc[u],
         NEW n \in Nodes, NodeInv(n, L), Same(t, n, L, M)
  PROVE  NodeInv(n, M)'
  <1>1. Total(Shares(n)', Threads) = Total(Shares(n), Threads)
    BY SharesMove, ShareType DEF Same
  <1>2. (\E u \in Threads : Adds(loc'[u], n)) <=> \E u \in Threads : Adds(loc[u], n)
    BY DEF Same
  <1> QED
    BY <1>1, <1>2 DEF NodeInv, Same

(* The other threads keep theirs, if what changes about node x does not    *)
(* concern them.                                                           *)
LEMMA ThreadKept ==
  ASSUME NEW L, NEW M, NEW x, NEW t \in Threads, NEW u \in Threads \ {t}, loc'[u] = loc[u],
         RangeInv, ThreadInv(loc[u], L), freeListNext' = freeListNext,
         \A n \in Nodes \ {x} : Same(t, n, L, M),
         loc[u].pc \in Unreferenced => loc[u].node # x,
         loc[u].pc \in Referenced /\ loc[u].node = x =>
           should'[x] = should[x] /\ inUse' = inUse /\ M = L /\ (Made(x)' <=> Made(x)),
         loc[u].pc = "decTwo" /\ loc[u].head = x => x \in inUse'
  PROVE  ThreadInv(loc[u], M)'
  <1>1. LocalsInv(loc[u])'
    BY DEF ThreadInv, LocalsInv
  <1>2. /\ loc[u].pc \in Adding => loc[u].node \in Nodes
        /\ loc[u].pc = "decTwo" => loc[u].head \in Nodes
    BY DEF ThreadInv, LocalsInv
  <1>3. loc[u].pc \in Unreferenced => refs'[loc[u].node] = 0 /\ should'[loc[u].node]
    BY <1>2 DEF ThreadInv, Same, Adding
  <1>4. loc[u].pc \in Referenced =>
          ~should'[loc[u].node] /\ loc[u].node \notin M \cup inUse' /\ Made(loc[u].node)'
    <2> SUFFICES ASSUME loc[u].pc \in Referenced
                 PROVE  ~should'[loc[u].node] /\ loc[u].node \notin M \cup inUse' /\ Made(loc[u].node)'
      OBVIOUS
    <2>1. PICK n \in Nodes : n = loc[u].node
      BY <1>2 DEF Adding
    <2>2. ~should[n] /\ n \notin L \cup inUse /\ Made(n)
      BY <2>1 DEF ThreadInv
    <2>3. ~should'[n] /\ n \notin M \cup inUse' /\ Made(n)'
      BY <2>1, <2>2 DEF Same
    <2> QED
      BY <2>1, <2>3 DEF Made
  <1>5. loc[u].pc = "decTwo" => loc[u].head \in inUse'
    BY <1>2 DEF ThreadInv, Same
  <1> QED
    BY <1>1, <1>3, <1>4, <1>5 DEF ThreadInv

(* A step of t that may change x.                                          *)
LEMMA StepKeeps ==
  ASSUME NEW L, NEW M, NEW x, NEW t \in Threads, \A u \in Threads \ {t} : loc'[u] = loc[u],
         PoolInv(L), RangeInv', Listed(M)', freeListNext' = freeListNext,
         \A n \in Nodes \ {x} : Same(t, n, L, M),
         \A u \in Threads \ {t} :
           /\ loc[u].pc \in Unreferenced => loc[u].node # x
           /\ loc[u].pc \in Referenced /\ loc[u].node = x =>
                should'[x] = should[x] /\ inUse' = inUse /\ M = L /\ (Made(x)' <=> Made(x))
           /\ loc[u].pc = "decTwo" /\ loc[u].head = x => x \in inUse'
           /\ Adds(loc'[t], x) => ~Adds(loc[u], x),
         ThreadInv(loc[t], M)', x \in Nodes => NodeInv(x, M)'
  PROVE  PoolInv(M)'
  <1>1. \A n \in Nodes : NodeInv(n, M)'
    BY NodeKept DEF PoolInv
  <1>2. \A u \in Threads : ThreadInv(loc[u], M)'
    BY ThreadKept DEF PoolInv
  <1>3. Exclusive'
    BY DEF Exclusive, PoolInv, Same
  <1> QED
    BY <1>1, <1>2, <1>3 DEF PoolInv

(* A step of t that changes nothing but its locals, which account for the  *)
(* same references, or the index of the initial pool beyond its end.       *)
LEMMA LocalStep ==
  ASSUME NEW L, L \subseteq Nodes, PoolInv(L), NEW t \in Threads, NEW l \in LocType, loc' = [loc EXCEPT ![t] = l],
         UNCHANGED <<freeListHead, freeListNext, refs, should, inUse, heap>>,
         initialBlockPoolIndex' \in Nat, \A n \in Nodes : Made(n)' <=> Made(n),
         \A n \in Nodes : Share(l, n) = Share(loc[t], n) /\ (Adds(l, n) <=> Adds(loc[t], n)),
         ThreadInv(l, L)
  PROVE  PoolInv(L)'
  <1>1. loc \in [Threads -> LocType] /\ loc' \in [Threads -> LocType] /\ loc'[t] = l
    BY DEF PoolInv, RangeInv
  <1>2. RangeInv'
    BY <1>1 DEF PoolInv, RangeInv
  <1>3. Listed(L)'
    BY DEF PoolInv, Listed, Chain
  <1>4. \A n \in Nodes : Same(t, n, L, L)
    BY <1>1 DEF Same
  <1>5. ThreadInv(loc[t], L)'
    <2>1. LocalsInv(l)'
      BY DEF ThreadInv, LocalsInv
    <2>2. l.pc \in Referenced => Made(l.node)'
      BY DEF ThreadInv, LocalsInv, Adding
    <2> QED
      BY <1>1, <2>1, <2>2 DEF ThreadInv
  <1>6. \A u \in Threads \ {t} : loc'[u] = loc[u]
    BY <1>1
  <1>7. Null \notin Nodes
    BY DEF Null, Nodes
  <1>8. \A u \in Threads : /\ loc[u].pc \in Adding => loc[u].node \in Nodes
                           /\ loc[u].pc = "decTwo" => loc[u].head \in Nodes
    BY DEF PoolInv, ThreadInv, LocalsInv
  <1>9. ~Adds(loc'[t], Null)
    BY <1>1, <1>7 DEF ThreadInv, LocalsInv, Adds
  <1> QED
    BY <1>2, <1>3, <1>4, <1>5, <1>6, <1>7, <1>8, <1>9, StepKeeps DEF PoolInv, Adding

(* What is known of a thread before its step.                              *)
LEMMA Before ==
  ASSUME NEW L, PoolInv(L), NEW t \in Threads
  PROVE  /\ loc[t] \in LocType /\ ThreadInv(loc[t], L) /\ LocalsInv(loc[t])
         /\ freeListHead \in Links /\ \A n \in Nodes : freeListNext[n] \in Links /\ refs[n] \in Nat
  BY DEF PoolInv, RangeInv, ThreadInv

(* Empty locals.                                                           *)
LEMMA IdleMeans ==
  ASSUME NEW L
  PROVE  /\ Idle \in LocType /\ ThreadInv(Idle, L)
         /\ \A n : Share(Idle, n) = 0 /\ ~Adds(Idle, n)
  <1>1. Idle \in LocType /\ Idle.pc = "idle" /\ Idle.ret = "idle"
    BY DEF Idle, LocType, Links, NoRefs
  <1> QED
    BY <1>1 DEF ThreadInv, LocalsInv, Share, Adds, Adding, Referenced, Unreferenced

(* requisition_block() without a block from the initial pool or the heap.  *)
LEMMA RequisitionStep ==
  ASSUME NEW L, L \subseteq Nodes, PoolInv(L), NEW t \in Threads, NEW c \in BOOLEAN, Requisition(t, c)
  PROVE  PoolInv(L)'
  <1> DEFINE l == [loc[t] EXCEPT !.canAlloc = c, !.pc = IF initialBlockPoolIndex >= PoolSize THEN "loadHead" ELSE "poolAdd"]
  <1>1. loc[t] \in LocType /\ ThreadInv(loc[t], L) /\ loc[t].pc = "idle"
    BY Before DEF Requisition, At
  <1>2. loc' = [loc EXCEPT ![t] = l] /\ UNCHANGED <<initialBlockPoolIndex, freeListHead, freeListNext, refs, should, inUse, heap>>
    BY DEF Requisition, listVars
  <1>3. l \in LocType /\ l.pc \in {"loadHead", "poolAdd"} /\ l.ret = "idle"
    BY <1>1 DEF LocType, ThreadInv, LocalsInv, Adding, Unreferenced, Referenced
  <1> HIDE DEF l
  <1>4. ThreadInv(l, L)
    BY <1>3 DEF ThreadInv, LocalsInv, Adding, Unreferenced, Referenced
  <1>5. \A n \in Nodes : Share(l, n) = Share(loc[t], n) /\ (Adds(l, n) <=> Adds(loc[t], n))
    BY <1>1, <1>3 DEF Share, Adds, Adding, Unreferenced, Referenced
  <1>6. initialBlockPoolIndex' \in Nat /\ \A n \in Nodes : Made(n)' <=> Made(n)
    BY <1>2 DEF PoolInv, RangeInv, Made
  <1> QED
    BY <1>2, <1>3, <1>4, <1>5, <1>6, LocalStep

(* try_get(): the head is loaded.                                          *)
LEMMA LoadHeadStep ==
  ASSUME NEW L, L \subseteq Nodes, PoolInv(L), NEW t \in Threads, LoadHead(t)
  PROVE  PoolInv(L)'
  <1> DEFINE l == [loc[t] EXCEPT !.head = freeListHead, !.pc = Loop(freeListHead)]
  <1>1. loc[t] \in LocType /\ ThreadInv(loc[t], L) /\ LocalsInv(loc[t]) /\ freeListHead \in Links /\ loc[t].pc = "loadHead"
    BY Before DEF LoadHead, At
  <1>2. loc' = [loc EXCEPT ![t] = l] /\ UNCHANGED <<initialBlockPoolIndex, freeListHead, freeListNext, refs, should, inUse, heap>>
    BY <1>1 DEF LoadHead, listVars
  <1>3. l \in LocType /\ l.pc \in {"alloc", "loadRefs"} /\ l.ret = "idle" /\ (l.pc = "loadRefs" => l.head \in Nodes)
    BY <1>1 DEF LocType, LocalsInv, Adding, Unreferenced, Referenced, Links, Loop
  <1> HIDE DEF l
  <1>4. ThreadInv(l, L)
    BY <1>1, <1>3 DEF ThreadInv, LocalsInv, Adding, Unreferenced, Referenced
  <1>5. \A n \in Nodes : Share(l, n) = Share(loc[t], n) /\ (Adds(l, n) <=> Adds(loc[t], n))
    BY <1>1, <1>3 DEF Share, Adds, Adding, Unreferenced, Referenced
  <1>6. initialBlockPoolIndex' \in Nat /\ \A n \in Nodes : Made(n)' <=> Made(n)
    BY <1>2 DEF PoolInv, RangeInv, Made
  <1> QED
    BY <1>2, <1>3, <1>4, <1>5, <1>6, LocalStep

(* A node that nobody refers to is not there any more.                     *)
LEMMA LoadRefsNoneStep ==
  ASSUME NEW L, L \subseteq Nodes, PoolInv(L), NEW t \in Threads, LoadRefs(t), refs[loc[t].head] = 0
  PROVE  PoolInv(L)'
  <1> DEFINE l == [loc[t] EXCEPT !.head = Null, !.pc = "loadHead"]
  <1>1. loc[t] \in LocType /\ ThreadInv(loc[t], L) /\ LocalsInv(loc[t]) /\ freeListHead \in Links /\ loc[t].pc = "loadRefs"
    BY Before DEF LoadRefs, At
  <1>2. loc' = [loc EXCEPT ![t] = l] /\ UNCHANGED <<initialBlockPoolIndex, freeListHead, freeListNext, refs, should, inUse, heap>>
    BY <1>1 DEF LoadRefs, listVars
  <1>3. l \in LocType /\ l.pc = "loadHead" /\ l.ret = "idle"
    BY <1>1 DEF LocType, LocalsInv, Adding, Unreferenced, Referenced, Links
  <1> HIDE DEF l
  <1>4. ThreadInv(l, L)
    BY <1>1, <1>3 DEF ThreadInv, LocalsInv, Adding, Unreferenced, Referenced
  <1>5. \A n \in Nodes : Share(l, n) = Share(loc[t], n) /\ (Adds(l, n) <=> Adds(loc[t], n))
    BY <1>1, <1>3 DEF Share, Adds, Adding, Unreferenced, Referenced
  <1>6. initialBlockPoolIndex' \in Nat /\ \A n \in Nodes : Made(n)' <=> Made(n)
    BY <1>2 DEF PoolInv, RangeInv, Made
  <1> QED
    BY <1>2, <1>3, <1>4, <1>5, <1>6, LocalStep

(* The references of the head are loaded.                                  *)
LEMMA LoadRefsStep ==
  ASSUME NEW L, L \subseteq Nodes, PoolInv(L), NEW t \in Threads, LoadRefs(t), refs[loc[t].head] # 0
  PROVE  PoolInv(L)'
  <1> DEFINE l == [loc[t] EXCEPT !.seen = FreeListRefs(loc[t].head), !.pc = "incRefs"]
  <1>1. loc[t] \in LocType /\ ThreadInv(loc[t], L) /\ LocalsInv(loc[t]) /\ freeListHead \in Links /\ loc[t].pc = "loadRefs"
    BY Before DEF LoadRefs, At
  <1>2. loc' = [loc EXCEPT ![t] = l] /\ UNCHANGED <<initialBlockPoolIndex, freeListHead, freeListNext, refs, should, inUse, heap>>
    BY <1>1 DEF LoadRefs, listVars
  <1>3. l \in LocType /\ l.pc = "incRefs" /\ l.ret = "idle" /\ l.head \in Nodes /\ l.seen.refs # 0
    BY <1>1, Before DEF LocType, LocalsInv, Adding, Unreferenced, Referenced, FreeListRefs, PoolInv, RangeInv
  <1> HIDE DEF l
  <1>4. ThreadInv(l, L)
    BY <1>1, <1>3 DEF ThreadInv, LocalsInv, Adding, Unreferenced, Referenced
  <1>5. \A n \in Nodes : Share(l, n) = Share(loc[t], n) /\ (Adds(l, n) <=> Adds(loc[t], n))
    BY <1>1, <1>3 DEF Share, Adds, Adding, Unreferenced, Referenced
  <1>6. initialBlockPoolIndex' \in Nat /\ \A n \in Nodes : Made(n)' <=> Made(n)
    BY <1>2 DEF PoolInv, RangeInv, Made
  <1> QED
    BY <1>2, <1>3, <1>4, <1>5, <1>6, LocalStep

(* They have changed since.                                                *)
LEMMA IncRefsFailsStep ==
  ASSUME NEW L, L \subseteq Nodes, PoolInv(L), NEW t \in Threads, IncRefs(t), FreeListRefs(loc[t].head) # loc[t].seen
  PROVE  PoolInv(L)'
  <1> DEFINE l == [loc[t] EXCEPT !.seen = NoRefs, !.head = Null, !.pc = "loadHead"]
  <1>1. loc[t] \in LocType /\ ThreadInv(loc[t], L) /\ LocalsInv(loc[t]) /\ freeListHead \in Links /\ loc[t].pc = "incRefs"
    BY Before DEF IncRefs, At
  <1>2. loc' = [loc EXCEPT ![t] = l] /\ UNCHANGED <<initialBlockPoolIndex, freeListHead, freeListNext, refs, should, inUse, heap>>
    BY <1>1 DEF IncRefs, listVars
  <1>3. l \in LocType /\ l.pc = "loadHead" /\ l.ret = "idle"
    BY <1>1 DEF LocType, LocalsInv, Adding, Unreferenced, Referenced, Links, NoRefs
  <1> HIDE DEF l
  <1>4. ThreadInv(l, L)
    BY <1>1, <1>3 DEF ThreadInv, LocalsInv, Adding, Unreferenced, Referenced
  <1>5. \A n \in Nodes : Share(l, n) = Share(loc[t], n) /\ (Adds(l, n) <=> Adds(loc[t], n))
    BY <1>1, <1>3 DEF Share, Adds, Adding, Unreferenced, Referenced
  <1>6. initialBlockPoolIndex' \in Nat /\ \A n \in Nodes : Made(n)' <=> Made(n)
    BY <1>2 DEF PoolInv, RangeInv, Made
  <1> QED
    BY <1>2, <1>3, <1>4, <1>5, <1>6, LocalStep

(* The head is referenced: its freeListNext stays what is loaded here.     *)
LEMMA LoadNextStep ==
  ASSUME NEW L, L \subseteq Nodes, PoolInv(L), NEW t \in Threads, LoadNext(t)
  PROVE  PoolInv(L)'
  <1> DEFINE l == [loc[t] EXCEPT !.next = freeListNext[loc[t].head], !.pc = "casHead"]
  <1>1. loc[t] \in LocType /\ ThreadInv(loc[t], L) /\ LocalsInv(loc[t]) /\ freeListHead \in Links /\ loc[t].pc = "loadNext"
    BY Before DEF LoadNext, At
  <1>2. loc' = [loc EXCEPT ![t] = l] /\ UNCHANGED <<initialBlockPoolIndex, freeListHead, freeListNext, refs, should, inUse, heap>>
    BY <1>1 DEF LoadNext, listVars
  <1>3. l \in LocType /\ l.pc = "casHead" /\ l.ret = "idle" /\ l.head = loc[t].head /\ l.head \in Nodes /\ l.next = freeListNext[l.head]
    BY <1>1, Before DEF LocType, LocalsInv, Adding, Unreferenced, Referenced
  <1> HIDE DEF l
  <1>4. ThreadInv(l, L)
    BY <1>1, <1>3 DEF ThreadInv, LocalsInv, Adding, Unreferenced, Referenced
  <1>5. \A n \in Nodes : Share(l, n) = Share(loc[t], n) /\ (Adds(l, n) <=> Adds(loc[t], n))
    BY <1>1, <1>3 DEF Share, Adds, Adding, Unreferenced, Referenced
  <1>6. initialBlockPoolIndex' \in Nat /\ \A n \in Nodes : Made(n)' <=> Made(n)
    BY <1>2 DEF PoolInv, RangeInv, Made
  <1> QED
    BY <1>2, <1>3, <1>4, <1>5, <1>6, LocalStep

(* The head has changed: the reference is kept until decOne.               *)
LEMMA CasHeadFailsStep ==
  ASSUME NEW L, L \subseteq Nodes, PoolInv(L), NEW t \in Threads, CasHead(t), freeListHead # loc[t].head
  PROVE  PoolInv(L)'
  <1> DEFINE l == [loc[t] EXCEPT !.next = Null, !.node = loc[t].head, !.head = freeListHead, !.pc = "decOne"]
  <1>1. loc[t] \in LocType /\ ThreadInv(loc[t], L) /\ LocalsInv(loc[t]) /\ freeListHead \in Links /\ loc[t].pc = "casHead"
    BY Before DEF CasHead, At
  <1>2. loc' = [loc EXCEPT ![t] = l] /\ UNCHANGED <<initialBlockPoolIndex, freeListHead, freeListNext, refs, should, inUse, heap>>
    BY <1>1 DEF CasHead, listVars
  <1>3. l \in LocType /\ l.pc = "decOne" /\ l.ret = "idle" /\ l.node = loc[t].head /\ l.node \in Nodes
    BY <1>1 DEF LocType, LocalsInv, Adding, Unreferenced, Referenced, Links
  <1> HIDE DEF l
  <1>4. ThreadInv(l, L)
    BY <1>1, <1>3 DEF ThreadInv, LocalsInv, Adding, Unreferenced, Referenced
  <1>5. \A n \in Nodes : Share(l, n) = Share(loc[t], n) /\ (Adds(l, n) <=> Adds(loc[t], n))
    BY <1>1, <1>3 DEF Share, Adds, Adding, Unreferenced, Referenced
  <1>6. initialBlockPoolIndex' \in Nat /\ \A n \in Nodes : Made(n)' <=> Made(n)
    BY <1>2 DEF PoolInv, RangeInv, Made
  <1> QED
    BY <1>2, <1>3, <1>4, <1>5, <1>6, LocalStep

(* add_knowing_refcount_is_zero(): the head is loaded.                     *)
LEMMA LoadTopStep ==
  ASSUME NEW L, L \subseteq Nodes, PoolInv(L), NEW t \in Threads, LoadTop(t)
  PROVE  PoolInv(L)'
  <1> DEFINE l == [loc[t] EXCEPT !.top = freeListHead, !.pc = "storeNext"]
  <1>1. loc[t] \in LocType /\ ThreadInv(loc[t], L) /\ LocalsInv(loc[t]) /\ freeListHead \in Links /\ loc[t].pc = "loadTop"
    BY Before DEF LoadTop, At
  <1>2. loc' = [loc EXCEPT ![t] = l] /\ UNCHANGED <<initialBlockPoolIndex, freeListHead, freeListNext, refs, should, inUse, heap>>
    BY <1>1 DEF LoadTop, listVars
  <1>3. l \in LocType /\ l.pc = "storeNext" /\ l.ret = loc[t].ret /\ l.node = loc[t].node /\ l.head = loc[t].head
    BY <1>1 DEF LocType, Adding, Unreferenced
  <1> HIDE DEF l
  <1>4. ThreadInv(l, L)
    BY <1>1, <1>3 DEF ThreadInv, LocalsInv, Adding, Unreferenced, Referenced
  <1>5. \A n \in Nodes : Share(l, n) = Share(loc[t], n) /\ (Adds(l, n) <=> Adds(loc[t], n))
    BY <1>1, <1>3 DEF Share, Adds, Adding, Unreferenced, Referenced
  <1>6. initialBlockPoolIndex' \in Nat /\ \A n \in Nodes : Made(n)' <=> Made(n)
    BY <1>2 DEF PoolInv, RangeInv, Made
  <1> QED
    BY <1>2, <1>3, <1>4, <1>5, <1>6, LocalStep

(* The head has changed before the node could be put on the list.          *)
LEMMA CasTopFailsStep ==
  ASSUME NEW L, L \subseteq Nodes, PoolInv(L), NEW t \in Threads, CasTop(t), freeListHead # loc[t].top
  PROVE  PoolInv(L)'
  <1> DEFINE l == [loc[t] EXCEPT !.top = freeListHead, !.pc = "giveUp"]
  <1>1. loc[t] \in LocType /\ ThreadInv(loc[t], L) /\ LocalsInv(loc[t]) /\ freeListHead \in Links /\ loc[t].pc = "casTop"
    BY Before DEF CasTop, At
  <1>2. loc' = [loc EXCEPT ![t] = l] /\ UNCHANGED <<initialBlockPoolIndex, freeListHead, freeListNext, refs, should, inUse, heap>>
    BY <1>1 DEF CasTop, listVars
  <1>3. l \in LocType /\ l.pc = "giveUp" /\ l.ret = loc[t].ret /\ l.node = loc[t].node /\ l.head = loc[t].head
    BY <1>1 DEF LocType, Adding, Referenced
  <1> HIDE DEF l
  <1>4. ThreadInv(l, L)
    BY <1>1, <1>3 DEF ThreadInv, LocalsInv, Adding, Unreferenced, Referenced
  <1>5. \A n \in Nodes : Share(l, n) = Share(loc[t], n) /\ (Adds(l, n) <=> Adds(loc[t], n))
    BY <1>1, <1>3 DEF Share, Adds, Adding, Unreferenced, Referenced
  <1>6. initialBlockPoolIndex' \in Nat /\ \A n \in Nodes : Made(n)' <=> Made(n)
    BY <1>2 DEF PoolInv, RangeInv, Made
  <1> QED
    BY <1>2, <1>3, <1>4, <1>5, <1>6, LocalStep

-----------------------------------------------------------------------------
(* Steps that change a node                                                *)

(* The references of node x are accounted for after a step of t that does  *)
(* to them what it does to its own and the list's.                         *)
LEMMA NodeCount ==
  ASSUME NEW L, NEW M, NEW t \in Threads, \A u \in Threads \ {t} : loc'[u] = loc[u],
         NEW x \in Nodes, NodeInv(x, L),
         refs'[x] = refs[x] - Share(loc[t], x) + Share(loc'[t], x)
                      - (IF x \in L THEN 1 ELSE 0) + (IF x \in M THEN 1 ELSE 0)
  PROVE  refs'[x] = Total(Shares(x)', Threads) + (IF x \in M THEN 1 ELSE 0) /\ refs'[x] \in Nat
  <1>1. /\ Total(Shares(x), Threads) \in Nat /\ Total(Shares(x)', Threads) \in Nat
        /\ Total(Shares(x)', Threads) = Total(Shares(x), Threads) - Share(loc[t], x) + Share(loc'[t], x)
    BY SharesMove
  <1>2. refs[x] = Total(Shares(x), Threads) + (IF x \in L THEN 1 ELSE 0)
    BY DEF NodeInv
  <1> QED
    BY <1>1, <1>2, ShareType

(* Who cannot be adding a node.                                            *)
LEMMA NotAdding ==
  ASSUME NEW L, PoolInv(L), NEW x \in Nodes
  PROVE  /\ refs[x] # 0 \/ ~should[x] => \A u \in Threads : loc[u].pc \in Unreferenced => loc[u].node # x
         /\ x \in L \cup inUse \/ should[x] \/ ~Made(x) =>
              \A u \in Threads : loc[u].pc \in Referenced => loc[u].node # x
  BY DEF PoolInv, ThreadInv

(* A node is as it was, but for its references, of which it had and has    *)
(* some.                                                                   *)
LEMMA Recounted ==
  ASSUME NEW L, L \subseteq Nodes, PoolInv(L), NEW t \in Threads, NEW l \in LocType, loc' = [loc EXCEPT ![t] = l],
         UNCHANGED <<initialBlockPoolIndex, freeListHead, freeListNext, should, inUse, heap>>,
         NEW x \in Nodes, NEW r \in Int, refs' = [refs EXCEPT ![x] = r],
         refs[x] # 0, r # 0 \/ ~should[x],
         r = refs[x] - Share(loc[t], x) + Share(l, x),
         \A n \in Nodes : (Adds(l, n) <=> Adds(loc[t], n)),
         \A n \in Nodes \ {x} : Share(l, n) = Share(loc[t], n),
         ThreadInv(l, L), l.pc \notin Unreferenced
  PROVE  PoolInv(L)'
  <1>1. /\ loc \in [Threads -> LocType] /\ loc' \in [Threads -> LocType] /\ loc'[t] = l
        /\ refs'[x] = r /\ \A n \in Nodes \ {x} : refs'[n] = refs[n]
        /\ \A u \in Threads \ {t} : loc'[u] = loc[u]
        /\ NodeInv(x, L) /\ refs[x] \in Nat
    BY DEF PoolInv, RangeInv
  <1>2. refs'[x] = Total(Shares(x)', Threads) + (IF x \in L THEN 1 ELSE 0) /\ r \in Nat
    BY <1>1, NodeCount, ShareType
  <1>3. RangeInv'
    BY <1>1, <1>2 DEF PoolInv, RangeInv
  <1>4. Listed(L)'
    BY DEF PoolInv, Listed, Chain
  <1>5. \A n : Made(n)' <=> Made(n)
    BY DEF Made
  <1>6. \A n \in Nodes \ {x} : Same(t, n, L, L)
    BY <1>1, <1>5 DEF Same
  <1>7. ThreadInv(loc[t], L)'
    <2>1. LocalsInv(l)'
      BY DEF ThreadInv, LocalsInv
    <2> QED
      BY <1>1, <1>5, <2>1 DEF ThreadInv
  <1>8. \A u \in Threads : Adds(loc'[u], x) <=> Adds(loc[u], x)
    BY <1>1
  <1>9. NodeInv(x, L)'
    BY <1>1, <1>2, <1>5, <1>8 DEF NodeInv
  <1>10. \A u \in Threads : loc[u].pc \in Unreferenced => loc[u].node # x
    BY NotAdding
  <1>11. \A u \in Threads \ {t} : loc[u].pc = "decTwo" /\ loc[u].head = x => x \in inUse'
    BY DEF PoolInv, ThreadInv
  <1>12. \A u \in Threads \ {t} : Adds(loc'[t], x) => ~Adds(loc[u], x)
    BY <1>8 DEF PoolInv, Exclusive
  <1> QED
    BY <1>1, <1>3, <1>4, <1>5, <1>6, <1>7, <1>9, <1>10, <1>11, <1>12, StepKeeps

(* try_get() refers to the head, which had a reference: it is not being    *)
(* added with none.                                                        *)
LEMMA IncRefsStep ==
  ASSUME NEW L, L \subseteq Nodes, PoolInv(L), NEW t \in Threads, IncRefs(t), FreeListRefs(loc[t].head) = loc[t].seen
  PROVE  PoolInv(L)'
  <1> DEFINE l == [loc[t] EXCEPT !.seen = NoRefs, !.pc = "loadNext"]
             x == loc[t].head
  <1>1. /\ loc[t] \in LocType /\ LocalsInv(loc[t]) /\ loc[t].pc = "incRefs"
        /\ x \in Nodes /\ refs[x] \in Nat /\ refs[x] # 0
    BY Before DEF IncRefs, At, LocalsInv, FreeListRefs
  <1>2. /\ loc' = [loc EXCEPT ![t] = l] /\ refs' = [refs EXCEPT ![x] = refs[x] + 1]
        /\ UNCHANGED <<initialBlockPoolIndex, freeListHead, freeListNext, should, inUse, heap>>
    BY <1>1 DEF IncRefs
  <1>3. l \in LocType /\ l.pc = "loadNext" /\ l.ret = "idle" /\ l.head = x
    BY <1>1 DEF LocType, NoRefs, LocalsInv, Adding, Unreferenced, Referenced
  <1> HIDE DEF l
  <1>4. ThreadInv(l, L) /\ l.pc \notin Unreferenced
    BY <1>1, <1>3 DEF ThreadInv, LocalsInv, Adding, Unreferenced, Referenced
  <1>5. /\ \A n \in Nodes : Adds(l, n) <=> Adds(loc[t], n)
        /\ \A n \in Nodes \ {x} : Share(l, n) = Share(loc[t], n)
        /\ Share(l, x) = 1 /\ Share(loc[t], x) = 0
    BY <1>1, <1>3 DEF Share, Adds, Adding, Unreferenced, Referenced
  <1>6. refs[x] + 1 \in Int /\ refs[x] + 1 # 0 /\ refs[x] + 1 = refs[x] - Share(loc[t], x) + Share(l, x)
    BY <1>1, <1>5
  <1> QED
    BY <1>1, <1>2, <1>3, <1>4, <1>5, <1>6, Recounted

(* A node that has been taken gives up its two references.                 *)
LEMMA DecTwoStep ==
  ASSUME NEW L, L \subseteq Nodes, PoolInv(L), NEW t \in Threads, DecTwo(t)
  PROVE  PoolInv(L)'
  <1> DEFINE x == loc[t].head
  <1>1. /\ loc[t] \in LocType /\ ThreadInv(loc[t], L) /\ LocalsInv(loc[t]) /\ loc[t].pc = "decTwo"
        /\ x \in Nodes /\ refs[x] \in Nat
    BY Before DEF DecTwo, At, LocalsInv
  <1>2. /\ loc' = [loc EXCEPT ![t] = Idle] /\ refs' = [refs EXCEPT ![x] = refs[x] - 2]
        /\ UNCHANGED <<initialBlockPoolIndex, freeListHead, freeListNext, should, inUse, heap>>
    BY <1>1 DEF DecTwo, Return
  <1>3. Idle \in LocType /\ Idle.pc \notin Unreferenced /\ ThreadInv(Idle, L)
    BY IdleMeans DEF Idle, Unreferenced
  <1>4. /\ \A n \in Nodes : Adds(Idle, n) <=> Adds(loc[t], n)
        /\ \A n \in Nodes \ {x} : Share(Idle, n) = Share(loc[t], n)
        /\ Share(Idle, x) = 0 /\ Share(loc[t], x) = 2
    BY <1>1, IdleMeans DEF Share, Adds, Adding, Unreferenced, Referenced
  <1>5. 2 <= refs[x]
    BY <1>1, <1>4, ShareCounted DEF PoolInv
  <1>6. ~should[x]
    BY <1>1 DEF ThreadInv, PoolInv, NodeInv
  <1>7. refs[x] - 2 \in Int /\ refs[x] # 0 /\ refs[x] - 2 = refs[x] - Share(loc[t], x) + Share(Idle, x)
    BY <1>1, <1>4, <1>5
  <1> QED
    BY <1>1, <1>2, <1>3, <1>4, <1>6, <1>7, Recounted

(* A reference is given up, and there are others or the node is not to be  *)
(* on the list.                                                            *)
LEMMA DecOneStep ==
  ASSUME NEW L, L \subseteq Nodes, PoolInv(L), NEW t \in Threads, DecOne(t), ~(refs[loc[t].node] = 1 /\ should[loc[t].node])
  PROVE  PoolInv(L)'
  <1> DEFINE l == [loc[t] EXCEPT !.node = Null, !.pc = Loop(loc[t].head)]
             x == loc[t].node
  <1>1. /\ loc[t] \in LocType /\ LocalsInv(loc[t]) /\ loc[t].pc = "decOne" /\ x \in Nodes /\ refs[x] \in Nat
    BY Before DEF DecOne, At, LocalsInv
  <1>2. /\ loc' = [loc EXCEPT ![t] = l] /\ refs' = [refs EXCEPT ![x] = refs[x] - 1]
        /\ UNCHANGED <<initialBlockPoolIndex, freeListHead, freeListNext, should, inUse, heap>>
    BY <1>1 DEF DecOne
  <1>3. l \in LocType /\ l.pc \in {"alloc", "loadRefs"} /\ l.ret = "idle" /\ (l.pc = "loadRefs" => l.head \in Nodes)
    BY <1>1 DEF LocType, Loop, LocalsInv, Adding, Unreferenced, Referenced, Links
  <1> HIDE DEF l
  <1>4. ThreadInv(l, L) /\ l.pc \notin Unreferenced
    BY <1>1, <1>3 DEF ThreadInv, LocalsInv, Adding, Unreferenced, Referenced
  <1>5. /\ \A n \in Nodes : Adds(l, n) <=> Adds(loc[t], n)
        /\ \A n \in Nodes \ {x} : Share(l, n) = Share(loc[t], n)
        /\ Share(l, x) = 0 /\ Share(loc[t], x) = 1
    BY <1>1, <1>3 DEF Share, Adds, Adding, Unreferenced, Referenced
  <1>6. 1 <= refs[x]
    BY <1>1, <1>5, ShareCounted DEF PoolInv
  <1>7. /\ refs[x] - 1 \in Int /\ refs[x] # 0 /\ refs[x] - 1 = refs[x] - Share(loc[t], x) + Share(l, x)
        /\ refs[x] - 1 # 0 \/ ~should[x]
    BY <1>1, <1>5, <1>6
  <1> QED
    BY <1>1, <1>2, <1>3, <1>4, <1>5, <1>7, Recounted

(* The locals of t are replaced.                                           *)
LEMMA LocMoved ==
  ASSUME NEW L, PoolInv(L), NEW t \in Threads, NEW l \in LocType, loc' = [loc EXCEPT ![t] = l]
  PROVE  loc' \in [Threads -> LocType] /\ loc'[t] = l /\ \A u \in Threads \ {t} : loc'[u] = loc[u]
  BY DEF PoolInv, RangeInv

(* A step of t that changes node x, which no other thread adds.            *)
LEMMA OneNode ==
  ASSUME NEW L, NEW M, PoolInv(L), NEW t \in Threads, \A u \in Threads \ {t} : loc'[u] = loc[u],
         RangeInv', Listed(M)', freeListNext' = freeListNext, NEW x \in Nodes,
         \A n \in Nodes \ {x} : Same(t, n, L, M),
         \A u \in Threads \ {t} : ~Adds(loc[u], x) /\ (loc[u].pc = "decTwo" /\ loc[u].head = x => x \in inUse'),
         ThreadInv(loc[t], M)',
         refs'[x] = refs[x] - Share(loc[t], x) + Share(loc'[t], x)
                      - (IF x \in L THEN 1 ELSE 0) + (IF x \in M THEN 1 ELSE 0),
         x \in M \cup inUse' => ~should'[x] /\ Made(x)',
         ~(x \in M /\ x \in inUse'),
         Made(x)',
         should'[x] /\ refs'[x] = 0 => Adds(loc'[t], x),
         x \in M \cup inUse' \/ should'[x] \/ Adds(loc'[t], x)
  PROVE  PoolInv(M)'
  <1>1. NodeInv(x, L)
    BY DEF PoolInv
  <1>2. refs'[x] = Total(Shares(x)', Threads) + (IF x \in M THEN 1 ELSE 0)
    BY <1>1, NodeCount
  <1>3. NodeInv(x, M)'
    BY <1>2 DEF NodeInv
  <1>4. \A u \in Threads \ {t} : loc[u].pc \in Adding => loc[u].node # x
    BY DEF Adds
  <1>5. \A u \in Threads \ {t} :
           /\ loc[u].pc \in Unreferenced => loc[u].node # x
           /\ loc[u].pc \in Referenced /\ loc[u].node = x =>
                should'[x] = should[x] /\ inUse' = inUse /\ M = L /\ (Made(x)' <=> Made(x))
           /\ loc[u].pc = "decTwo" /\ loc[u].head = x => x \in inUse'
           /\ Adds(loc'[t], x) => ~Adds(loc[u], x)
    BY <1>4 DEF Adding
  <1> QED
    BY <1>3, <1>5, StepKeeps

(* The last reference is given up: this thread adds the node.              *)
LEMMA DecLastStep ==
  ASSUME NEW L, L \subseteq Nodes, PoolInv(L), NEW t \in Threads, DecOne(t), refs[loc[t].node] = 1, should[loc[t].node]
  PROVE  PoolInv(L)'
  <1> DEFINE l == [loc[t] EXCEPT !.ret = Loop(loc[t].head), !.pc = "loadTop"]
  <1>1. loc[t] \in LocType /\ LocalsInv(loc[t]) /\ loc[t].pc = "decOne" /\ loc[t].node \in Nodes
    BY Before DEF DecOne, At, LocalsInv
  <1>2. PICK x \in Nodes : x = loc[t].node
    BY <1>1
  <1>3. /\ loc' = [loc EXCEPT ![t] = l] /\ refs' = [refs EXCEPT ![x] = refs[x] - 1]
        /\ UNCHANGED <<initialBlockPoolIndex, freeListHead, freeListNext, should, inUse, heap>>
    BY <1>1, <1>2 DEF DecOne
  <1>4. /\ l \in LocType /\ l.pc = "loadTop" /\ l.node = x /\ l.ret \in {"alloc", "loadRefs"}
        /\ (l.ret = "loadRefs" => l.head \in Nodes)
    BY <1>1, <1>2 DEF LocType, Loop, LocalsInv, Adding, Unreferenced, Referenced, Links
  <1> HIDE DEF l
  <1>5. loc' \in [Threads -> LocType] /\ loc'[t] = l /\ \A u \in Threads \ {t} : loc'[u] = loc[u]
    BY <1>3, <1>4, LocMoved
  <1>6. /\ refs[x] = 1 /\ should[x] /\ NodeInv(x, L)
        /\ refs' \in [Nodes -> Nat] /\ refs'[x] = 0 /\ \A n \in Nodes \ {x} : refs'[n] = refs[n]
    BY <1>2, <1>3 DEF PoolInv, RangeInv
  <1>7. /\ \A n \in Nodes \ {x} : Share(l, n) = Share(loc[t], n) /\ (Adds(l, n) <=> Adds(loc[t], n))
        /\ Share(l, x) = 0 /\ Share(loc[t], x) = 1 /\ Adds(l, x)
    BY <1>1, <1>2, <1>4 DEF Share, Adds, Adding, Unreferenced, Referenced
  <1>8. (\A n : Made(n)' <=> Made(n)) /\ Made(x)' /\ x \notin L \cup inUse'
    BY <1>3, <1>6 DEF Made, NodeInv
  <1>9. RangeInv'
    BY <1>3, <1>5, <1>6 DEF PoolInv, RangeInv
  <1>10. Listed(L)'
    BY <1>3 DEF PoolInv, Listed, Chain
  <1>11. \A n \in Nodes \ {x} : Same(t, n, L, L)
    BY <1>3, <1>5, <1>6, <1>7, <1>8 DEF Same
  <1>12. ThreadInv(loc[t], L)'
    BY <1>3, <1>4, <1>5, <1>6 DEF ThreadInv, LocalsInv, Adding, Unreferenced, Referenced
  <1>13. \A u \in Threads : ~Adds(loc[u], x)
    BY <1>6, NotAdding DEF Adds, Adding
  <1>14. \A u \in Threads : loc[u].pc = "decTwo" /\ loc[u].head = x => x \in inUse'
    BY <1>3 DEF PoolInv, ThreadInv
  <1> QED
    BY <1>3, <1>5, <1>6, <1>7, <1>8, <1>9, <1>10, <1>11, <1>12, <1>13, <1>14, OneNode

(* A block is given back: this thread adds it, if nobody refers to it.     *)
LEMMA AddStep ==
  ASSUME NEW L, L \subseteq Nodes, PoolInv(L), NEW t \in Threads, NEW x \in Nodes, Add(t, x)
  PROVE  PoolInv(L)'
  <1> DEFINE l == IF refs[x] = 0 THEN [loc[t] EXCEPT !.node = x, !.pc = "loadTop"] ELSE loc[t]
  <1>1. /\ loc[t] \in LocType /\ LocalsInv(loc[t]) /\ loc[t].pc = "idle" /\ NodeInv(x, L)
        /\ x \in inUse /\ ~should[x] /\ x \notin L /\ Made(x) /\ refs[x] \in Nat
    BY Before DEF Add, At, LocalsInv, PoolInv, NodeInv
  <1>2. /\ loc' = [loc EXCEPT ![t] = l] /\ should' = [should EXCEPT ![x] = TRUE] /\ inUse' = inUse \ {x}
        /\ UNCHANGED <<initialBlockPoolIndex, freeListHead, freeListNext, refs, heap>>
        /\ \A u \in Threads : loc[u].pc = "decTwo" => loc[u].head # x
    BY <1>1 DEF Add, At, PoolInv, RangeInv
  <1>3. /\ l \in LocType /\ l.ret = "idle"
        /\ IF refs[x] = 0 THEN l.pc = "loadTop" /\ l.node = x ELSE l.pc = "idle"
    BY <1>1 DEF LocType, LocalsInv, Adding, Unreferenced, Referenced, Links
  <1> HIDE DEF l
  <1>4. loc' \in [Threads -> LocType] /\ loc'[t] = l /\ \A u \in Threads \ {t} : loc'[u] = loc[u]
    BY <1>2, <1>3, LocMoved
  <1>5. /\ should' \in [Nodes -> BOOLEAN] /\ should'[x] /\ \A n \in Nodes \ {x} : should'[n] = should[n]
        /\ \A n \in Nodes \ {x} : n \in inUse' <=> n \in inUse
        /\ x \notin inUse' /\ inUse' \subseteq Nodes
    BY <1>2 DEF PoolInv, RangeInv
  <1>6. /\ \A n \in Nodes : Share(l, n) = Share(loc[t], n)
        /\ \A n \in Nodes \ {x} : Adds(l, n) <=> Adds(loc[t], n)
        /\ refs[x] = 0 => Adds(l, x)
    BY <1>1, <1>3 DEF Share, Adds, Adding, Unreferenced, Referenced
  <1>7. \A n : Made(n)' <=> Made(n)
    BY <1>2 DEF Made
  <1>8. RangeInv'
    BY <1>2, <1>4, <1>5 DEF PoolInv, RangeInv
  <1>9. Listed(L)'
    BY <1>2 DEF PoolInv, Listed, Chain
  <1>10. \A n \in Nodes \ {x} : Same(t, n, L, L)
    BY <1>2, <1>4, <1>5, <1>6, <1>7 DEF Same
  <1>11. ThreadInv(loc[t], L)'
    BY <1>1, <1>2, <1>3, <1>4, <1>5 DEF ThreadInv, LocalsInv, Adding, Unreferenced, Referenced
  <1>12. \A u \in Threads : ~Adds(loc[u], x)
    BY <1>1, NotAdding DEF Adds, Adding
  <1>13. refs'[x] = refs[x] - Share(loc[t], x) + Share(loc'[t], x) - (IF x \in L THEN 1 ELSE 0) + (IF x \in L THEN 1 ELSE 0)
    BY <1>1, <1>2, <1>4, <1>6, ShareType
  <1> QED
    BY <1>1, <1>2, <1>4, <1>5, <1>6, <1>7, <1>8, <1>9, <1>10, <1>11, <1>12, <1>13, OneNode

(* store(1): the node gets the list's reference before it is on the list.  *)
LEMMA StoreRefsStep ==
  ASSUME NEW L, L \subseteq Nodes, PoolInv(L), NEW t \in Threads, StoreRefs(t)
  PROVE  PoolInv(L)'
  <1> DEFINE l == [loc[t] EXCEPT !.pc = "casTop"]
  <1>1. /\ loc[t] \in LocType /\ ThreadInv(loc[t], L) /\ LocalsInv(loc[t]) /\ loc[t].pc = "storeRefs"
        /\ loc[t].node \in Nodes
    BY Before DEF StoreRefs, At, LocalsInv, Adding, Unreferenced
  <1>2. PICK x \in Nodes : x = loc[t].node
    BY <1>1
  <1>3. /\ loc' = [loc EXCEPT ![t] = l] /\ refs' = [refs EXCEPT ![x] = 1] /\ should' = [should EXCEPT ![x] = FALSE]
        /\ UNCHANGED <<initialBlockPoolIndex, freeListHead, freeListNext, inUse, heap>>
    BY <1>1, <1>2 DEF StoreRefs, Goto
  <1>4. /\ l \in LocType /\ l.pc = "casTop" /\ l.node = x /\ l.ret = loc[t].ret /\ l.head = loc[t].head
        /\ l.top = loc[t].top
    BY <1>1, <1>2 DEF LocType, Adding, Referenced
  <1> HIDE DEF l
  <1>5. loc' \in [Threads -> LocType] /\ loc'[t] = l /\ \A u \in Threads \ {t} : loc'[u] = loc[u]
    BY <1>3, <1>4, LocMoved
  <1>6. refs[x] = 0 /\ should[x] /\ NodeInv(x, L) /\ l.top = freeListNext[x]
    BY <1>1, <1>2, <1>4 DEF PoolInv, ThreadInv, LocalsInv, Unreferenced
  <1>7. /\ refs' \in [Nodes -> Nat] /\ refs'[x] = 1 /\ \A n \in Nodes \ {x} : refs'[n] = refs[n]
        /\ should' \in [Nodes -> BOOLEAN] /\ ~should'[x] /\ \A n \in Nodes \ {x} : should'[n] = should[n]
    BY <1>3 DEF PoolInv, RangeInv
  <1>8. /\ \A n \in Nodes \ {x} : Share(l, n) = Share(loc[t], n) /\ (Adds(l, n) <=> Adds(loc[t], n))
        /\ Share(l, x) = 1 /\ Share(loc[t], x) = 0 /\ Adds(l, x) /\ Adds(loc[t], x)
    BY <1>1, <1>2, <1>4 DEF Share, Adds, Adding, Unreferenced, Referenced
  <1>9. (\A n : Made(n)' <=> Made(n)) /\ Made(x)' /\ x \notin L /\ x \notin inUse'
    BY <1>3, <1>6 DEF Made, NodeInv
  <1>10. RangeInv'
    BY <1>3, <1>5, <1>7 DEF PoolInv, RangeInv
  <1>11. Listed(L)'
    BY <1>3 DEF PoolInv, Listed, Chain
  <1>12. \A n \in Nodes \ {x} : Same(t, n, L, L)
    BY <1>3, <1>5, <1>7, <1>8, <1>9 DEF Same
  <1>13. LocalsInv(loc[t])'
    BY <1>1, <1>2, <1>3, <1>4, <1>5, <1>6 DEF LocalsInv, Adding, Unreferenced, Referenced
  <1>14. ThreadInv(loc[t], L)'
    BY <1>4, <1>5, <1>7, <1>9, <1>13 DEF ThreadInv, Unreferenced, Referenced
  <1>15. \A u \in Threads \ {t} : ~Adds(loc[u], x)
    BY <1>8 DEF PoolInv, Exclusive
  <1>16. \A u \in Threads : loc[u].pc = "decTwo" /\ loc[u].head = x => x \in inUse'
    BY <1>3 DEF PoolInv, ThreadInv
  <1> QED
    BY <1>3, <1>5, <1>6, <1>7, <1>8, <1>9, <1>10, <1>11, <1>12, <1>14, <1>15, <1>16, OneNode

(* The list's reference is taken back: the thread tries again, or leaves   *)
(* the node to those who refer to it.                                      *)
LEMMA GiveUpStep ==
  ASSUME NEW L, L \subseteq Nodes, PoolInv(L), NEW t \in Threads, GiveUp(t)
  PROVE  PoolInv(L)'
  <1> DEFINE l == IF refs[loc[t].node] = 1 THEN [loc[t] EXCEPT !.pc = "storeNext"]
                  ELSE [loc[t] EXCEPT !.node = Null, !.top = Null, !.ret = "idle", !.pc = loc[t].ret]
  <1>1. /\ loc[t] \in LocType /\ ThreadInv(loc[t], L) /\ LocalsInv(loc[t]) /\ loc[t].pc = "giveUp"
        /\ loc[t].node \in Nodes
    BY Before DEF GiveUp, At, LocalsInv, Adding, Referenced
  <1>2. PICK x \in Nodes : x = loc[t].node
    BY <1>1
  <1>3. /\ loc' = [loc EXCEPT ![t] = l] /\ refs' = [refs EXCEPT ![x] = refs[x] - 1]
        /\ should' = [should EXCEPT ![x] = TRUE]
        /\ UNCHANGED <<initialBlockPoolIndex, freeListHead, freeListNext, inUse, heap>>
    BY <1>1, <1>2 DEF GiveUp, Goto, Added
  <1>4. /\ l \in LocType
        /\ IF refs[x] = 1 THEN l.pc = "storeNext" /\ l.node = x /\ l.ret = loc[t].ret /\ l.head = loc[t].head
           ELSE /\ l.pc \in {"idle", "alloc", "loadRefs"} /\ l.ret = "idle"
                /\ l.pc = "loadRefs" => l.head \in Nodes
    BY <1>1, <1>2 DEF LocType, LocalsInv, Adding, Unreferenced, Referenced, Links
  <1> HIDE DEF l
  <1>5. loc' \in [Threads -> LocType] /\ loc'[t] = l /\ \A u \in Threads \ {t} : loc'[u] = loc[u]
    BY <1>3, <1>4, LocMoved
  <1>6. NodeInv(x, L) /\ refs[x] \in Nat /\ ~should[x] /\ x \notin L /\ x \notin inUse /\ Made(x)
    BY <1>1, <1>2, Before DEF PoolInv, ThreadInv, Referenced
  <1>7. /\ \A n \in Nodes \ {x} : Share(l, n) = Share(loc[t], n) /\ (Adds(l, n) <=> Adds(loc[t], n))
        /\ Share(l, x) = 0 /\ Share(loc[t], x) = 1 /\ (refs[x] = 1 => Adds(l, x)) /\ Adds(loc[t], x)
    BY <1>1, <1>2, <1>4 DEF Share, Adds, Adding, Unreferenced, Referenced
  <1>8. 1 <= refs[x]
    BY <1>6, <1>7, ShareCounted
  <1>9. refs[x] - 1 \in Nat /\ (refs[x] - 1 = 0 <=> refs[x] = 1)
    BY <1>6, <1>8
  <1>10. /\ refs' \in [Nodes -> Nat] /\ refs'[x] = refs[x] - 1 /\ \A n \in Nodes \ {x} : refs'[n] = refs[n]
         /\ should' \in [Nodes -> BOOLEAN] /\ should'[x] /\ \A n \in Nodes \ {x} : should'[n] = should[n]
    BY <1>3, <1>9 DEF PoolInv, RangeInv
  <1>11. (\A n : Made(n)' <=> Made(n)) /\ Made(x)' /\ x \notin inUse'
    BY <1>3, <1>6 DEF Made
  <1>12. RangeInv'
    BY <1>3, <1>5, <1>10 DEF PoolInv, RangeInv
  <1>13. Listed(L)'
    BY <1>3 DEF PoolInv, Listed, Chain
  <1>14. \A n \in Nodes \ {x} : Same(t, n, L, L)
    BY <1>3, <1>5, <1>7, <1>10, <1>11 DEF Same
  <1>15. LocalsInv(loc[t])'
    BY <1>1, <1>2, <1>4, <1>5 DEF LocalsInv, Adding, Unreferenced, Referenced
  <1>16. ThreadInv(loc[t], L)'
    BY <1>4, <1>5, <1>9, <1>10, <1>15 DEF ThreadInv, Unreferenced, Referenced
  <1>17. \A u \in Threads \ {t} : ~Adds(loc[u], x)
    BY <1>7 DEF PoolInv, Exclusive
  <1>18. \A u \in Threads : loc[u].pc = "decTwo" /\ loc[u].head = x => x \in inUse'
    BY <1>3 DEF PoolInv, ThreadInv
  <1>19. refs'[x] = refs[x] - Share(loc[t], x) + Share(loc'[t], x) - (IF x \in L THEN 1 ELSE 0) + (IF x \in L THEN 1 ELSE 0)
    BY <1>5, <1>6, <1>7, <1>10
  <1>20. should'[x] /\ refs'[x] = 0 => Adds(loc'[t], x)
    BY <1>5, <1>7, <1>9, <1>10
  <1> QED
    BY <1>3, <1>5, <1>6, <1>10, <1>11, <1>12, <1>13, <1>14, <1>16, <1>17, <1>18, <1>19, <1>20, OneNode

(* The index is beyond the initial pool.                                   *)
LEMMA PoolAddFailsStep ==
  ASSUME NEW L, L \subseteq Nodes, PoolInv(L), NEW t \in Threads, PoolAdd(t), ~(initialBlockPoolIndex < PoolSize)
  PROVE  PoolInv(L)'
  <1> DEFINE l == [loc[t] EXCEPT !.pc = "loadHead"]
  <1>1. loc[t] \in LocType /\ LocalsInv(loc[t]) /\ loc[t].pc = "poolAdd" /\ initialBlockPoolIndex \in Nat
    BY Before DEF PoolAdd, At, PoolInv, RangeInv
  <1>2. /\ loc' = [loc EXCEPT ![t] = l] /\ initialBlockPoolIndex' = initialBlockPoolIndex + 1
        /\ UNCHANGED <<freeListHead, freeListNext, refs, should, inUse, heap>>
    BY DEF PoolAdd, Goto, listVars
  <1>3. l \in LocType /\ l.pc = "loadHead" /\ l.ret = "idle"
    BY <1>1 DEF LocType, LocalsInv, Adding, Unreferenced, Referenced
  <1> HIDE DEF l
  <1>4. ThreadInv(l, L)
    BY <1>3 DEF ThreadInv, LocalsInv, Adding, Unreferenced, Referenced
  <1>5. \A n \in Nodes : Share(l, n) = Share(loc[t], n) /\ (Adds(l, n) <=> Adds(loc[t], n))
    BY <1>1, <1>3 DEF Share, Adds, Adding, Unreferenced, Referenced
  <1>6. initialBlockPoolIndex' \in Nat /\ \A n \in Nodes : Made(n)' <=> Made(n)
    BY <1>1, <1>2, SizesAssumption DEF Made, Nodes
  <1> QED
    BY <1>2, <1>3, <1>4, <1>5, <1>6, LocalStep

(* A block is made, and handed out: no thread knows of it.                 *)
LEMMA MadeStep ==
  ASSUME NEW L, L \subseteq Nodes, PoolInv(L), NEW t \in Threads, loc' = [loc EXCEPT ![t] = Idle],
         loc[t].pc \in {"poolAdd", "alloc"},
         UNCHANGED <<freeListHead, freeListNext, refs, should>>, NEW x \in Nodes, inUse' = inUse \cup {x},
         initialBlockPoolIndex' \in Nat, heap' \subseteq heap,
         ~Made(x), Made(x)', \A n \in Nodes \ {x} : Made(n)' <=> Made(n)
  PROVE  PoolInv(L)'
  <1>1. loc[t] \in LocType /\ LocalsInv(loc[t]) /\ NodeInv(x, L) /\ refs[x] \in Nat
    BY Before DEF PoolInv
  <1>2. Idle \in LocType /\ ThreadInv(Idle, L) /\ \A n : Share(Idle, n) = 0 /\ ~Adds(Idle, n)
    BY IdleMeans
  <1>3. loc' \in [Threads -> LocType] /\ loc'[t] = Idle /\ \A u \in Threads \ {t} : loc'[u] = loc[u]
    BY <1>2, LocMoved
  <1>4. refs[x] = 0 /\ ~should[x] /\ x \notin L /\ x \notin inUse
    BY <1>1 DEF NodeInv
  <1>5. \A n : Share(loc[t], n) = 0 /\ ~Adds(loc[t], n)
    BY DEF Share, Adds, Adding, Unreferenced, Referenced
  <1>6. RangeInv'
    BY <1>3 DEF PoolInv, RangeInv
  <1>7. Listed(L)'
    BY DEF PoolInv, Listed, Chain
  <1>8. \A n \in Nodes \ {x} : Same(t, n, L, L)
    BY <1>2, <1>3, <1>5 DEF Same
  <1>9. ThreadInv(loc[t], L)'
    BY <1>3 DEF ThreadInv, LocalsInv, Adding, Unreferenced, Referenced, Idle
  <1>10. \A u \in Threads : ~Adds(loc[u], x)
    BY <1>4, NotAdding DEF Adds, Adding
  <1>11. refs'[x] = refs[x] - Share(loc[t], x) + Share(loc'[t], x) - (IF x \in L THEN 1 ELSE 0) + (IF x \in L THEN 1 ELSE 0)
    BY <1>1, <1>2, <1>3, <1>4, <1>5
  <1> QED
    BY <1>3, <1>4, <1>6, <1>7, <1>8, <1>9, <1>10, <1>11, OneNode

(* A block of the initial pool.                                            *)
LEMMA PoolAddStep ==
  ASSUME NEW L, L \subseteq Nodes, PoolInv(L), NEW t \in Threads, PoolAdd(t), initialBlockPoolIndex < PoolSize
  PROVE  PoolInv(L)'
  <1>1. initialBlockPoolIndex \in Nat /\ heap \subseteq PoolSize + 1 .. PoolSize + HeapSize /\ loc[t].pc = "poolAdd"
    BY DEF PoolInv, RangeInv, PoolAdd, At
  <1>2. PICK x \in Nodes : x = initialBlockPoolIndex + 1
    BY <1>1, SizesAssumption DEF Nodes
  <1>3. /\ loc' = [loc EXCEPT ![t] = Idle] /\ inUse' = inUse \cup {x} /\ initialBlockPoolIndex' = initialBlockPoolIndex + 1
        /\ UNCHANGED <<freeListHead, freeListNext, refs, should, heap>>
    BY <1>2 DEF PoolAdd, Return, listVars
  <1>4. ~Made(x) /\ Made(x)' /\ \A n \in Nodes \ {x} : Made(n)' <=> Made(n)
    BY <1>1, <1>2, <1>3, SizesAssumption DEF Made, Nodes
  <1>5. initialBlockPoolIndex' \in Nat
    BY <1>1, <1>3
  <1> QED
    BY <1>1, <1>3, <1>4, <1>5, MadeStep

(* A block from the heap, or none.                                         *)
LEMMA AllocStep ==
  ASSUME NEW L, L \subseteq Nodes, PoolInv(L), NEW t \in Threads, Alloc(t)
  PROVE  PoolInv(L)'
  <1>1. /\ initialBlockPoolIndex \in Nat /\ heap \subseteq PoolSize + 1 .. PoolSize + HeapSize /\ loc[t].pc = "alloc"
        /\ loc[t] \in LocType /\ LocalsInv(loc[t])
    BY Before DEF PoolInv, RangeInv, Alloc, At
  <1>2. /\ loc' = [loc EXCEPT ![t] = Idle]
        /\ UNCHANGED <<initialBlockPoolIndex, freeListHead, freeListNext, refs, should>>
    BY DEF Alloc, Return, listVars
  <1>3. CASE \E n \in heap : heap' = heap \ {n} /\ inUse' = inUse \cup {n}
    <2>1. PICK x \in heap : heap' = heap \ {x} /\ inUse' = inUse \cup {x}
      BY <1>3
    <2>2. x \in Nodes /\ x > PoolSize
      BY <1>1, SizesAssumption DEF Nodes
    <2>3. ~Made(x) /\ Made(x)' /\ \A n \in Nodes \ {x} : Made(n)' <=> Made(n)
      BY <1>1, <1>2, <2>1, <2>2, SizesAssumption DEF Made, Nodes
    <2> QED
      BY <1>1, <1>2, <2>1, <2>2, <2>3, MadeStep
  <1>4. CASE UNCHANGED <<heap, inUse>>
    <2>1. \A n \in Nodes : Made(n)' <=> Made(n)
      BY <1>2, <1>4 DEF Made
    <2>2. Idle \in LocType /\ ThreadInv(Idle, L) /\ \A n : Share(Idle, n) = 0 /\ ~Adds(Idle, n)
      BY IdleMeans
    <2>3. \A n : Share(loc[t], n) = 0 /\ ~Adds(loc[t], n)
      BY <1>1 DEF Share, Adds, Adding, Unreferenced, Referenced
    <2> QED
      BY <1>1, <1>2, <1>4, <2>1, <2>2, <2>3, LocalStep
  <1> QED
    BY <1>3, <1>4 DEF Alloc

(* The head is taken off the list: that it has been referenced since its   *)
(* freeListNext was loaded makes the loaded value the list's second node.  *)
LEMMA CasHeadStep ==
  ASSUME NEW L, L \subseteq Nodes, PoolInv(L), NEW t \in Threads, CasHead(t), freeListHead = loc[t].head
  PROVE  \E M \in SUBSET Nodes : PoolInv(M)'
  <1> DEFINE l == [loc[t] EXCEPT !.next = Null, !.pc = "decTwo"]
  <1>1. /\ loc[t] \in LocType /\ LocalsInv(loc[t]) /\ loc[t].pc = "casHead" /\ loc[t].head \in Nodes
        /\ loc[t].next = freeListNext[loc[t].head]
    BY Before DEF CasHead, At, LocalsInv
  <1>2. PICK x \in Nodes : x = loc[t].head
    BY <1>1
  <1>3. /\ loc' = [loc EXCEPT ![t] = l] /\ freeListHead' = freeListNext[x] /\ inUse' = inUse \cup {x}
        /\ UNCHANGED <<initialBlockPoolIndex, freeListNext, refs, should, heap>>
    BY <1>1, <1>2 DEF CasHead
  <1>4. l \in LocType /\ l.pc = "decTwo" /\ l.head = x /\ l.ret = "idle"
    BY <1>1, <1>2 DEF LocType, LocalsInv, Adding, Unreferenced, Referenced, Links
  <1> HIDE DEF l
  <1>5. loc' \in [Threads -> LocType] /\ loc'[t] = l /\ \A u \in Threads \ {t} : loc'[u] = loc[u]
    BY <1>3, <1>4, LocMoved
  <1>6. x \in L /\ Chain(freeListNext[x], freeListNext, L \ {x})
    BY <1>2, ChainPopped DEF PoolInv, Listed
  <1>7. PICK M \in SUBSET Nodes : M = L \ {x}
    OBVIOUS
  <1>8. refs[x] \in Nat /\ ~should[x] /\ x \notin inUse /\ Made(x)
    BY <1>6, Before DEF PoolInv, NodeInv
  <1>9. /\ \A n \in Nodes \ {x} : Share(l, n) = Share(loc[t], n)
        /\ \A n : ~Adds(l, n) /\ ~Adds(loc[t], n)
        /\ Share(l, x) = 2 /\ Share(loc[t], x) = 1
    BY <1>1, <1>2, <1>4 DEF Share, Adds, Adding, Unreferenced, Referenced
  <1>10. (\A n : Made(n)' <=> Made(n)) /\ Made(x)'
    BY <1>3, <1>8 DEF Made
  <1>11. RangeInv'
    BY <1>3, <1>5, Before DEF PoolInv, RangeInv
  <1>12. Listed(M)'
    BY <1>3, <1>6, <1>7 DEF Listed, Chain
  <1>13. \A n \in Nodes \ {x} : Same(t, n, L, M)
    BY <1>3, <1>5, <1>7, <1>9, <1>10 DEF Same
  <1>14. ThreadInv(loc[t], M)'
    BY <1>3, <1>4, <1>5 DEF ThreadInv, LocalsInv, Adding, Unreferenced, Referenced
  <1>15. \A u \in Threads : ~Adds(loc[u], x)
    BY <1>6, <1>8, NotAdding DEF Adds, Adding
  <1>16. refs'[x] = refs[x] - Share(loc[t], x) + Share(loc'[t], x) - (IF x \in L THEN 1 ELSE 0) + (IF x \in M THEN 1 ELSE 0)
    BY <1>3, <1>5, <1>6, <1>7, <1>8, <1>9
  <1>17. x \in inUse' /\ ~should'[x] /\ x \notin M
    BY <1>3, <1>7, <1>8
  <1>18. PoolInv(M)'
    BY <1>3, <1>5, <1>10, <1>11, <1>12, <1>13, <1>14, <1>15, <1>16, <1>17, OneNode
  <1> QED
    BY <1>18

(* The node is put on the list, before the head its freeListNext was set   *)
(* to.                                                                     *)
LEMMA CasTopStep ==
  ASSUME NEW L, L \subseteq Nodes, PoolInv(L), NEW t \in Threads, CasTop(t), freeListHead = loc[t].top
  PROVE  \E M \in SUBSET Nodes : PoolInv(M)'
  <1> DEFINE l == [loc[t] EXCEPT !.node = Null, !.top = Null, !.ret = "idle", !.pc = loc[t].ret]
  <1>1. /\ loc[t] \in LocType /\ ThreadInv(loc[t], L) /\ LocalsInv(loc[t]) /\ loc[t].pc = "casTop"
        /\ loc[t].node \in Nodes /\ loc[t].top = freeListNext[loc[t].node]
    BY Before DEF CasTop, At, LocalsInv, Adding, Referenced
  <1>2. PICK x \in Nodes : x = loc[t].node
    BY <1>1
  <1>3. /\ loc' = [loc EXCEPT ![t] = l] /\ freeListHead' = x
        /\ UNCHANGED <<initialBlockPoolIndex, freeListNext, refs, should, inUse, heap>>
    BY <1>1, <1>2 DEF CasTop, Added
  <1>4. /\ l \in LocType /\ l.pc \in {"idle", "alloc", "loadRefs"} /\ l.ret = "idle"
        /\ l.pc = "loadRefs" => l.head \in Nodes
    BY <1>1, <1>2 DEF LocType, LocalsInv, Adding, Unreferenced, Referenced, Links
  <1> HIDE DEF l
  <1>5. loc' \in [Threads -> LocType] /\ loc'[t] = l /\ \A u \in Threads \ {t} : loc'[u] = loc[u]
    BY <1>3, <1>4, LocMoved
  <1>6. refs[x] \in Nat /\ ~should[x] /\ x \notin L /\ x \notin inUse /\ Made(x)
    BY <1>1, <1>2, Before DEF PoolInv, ThreadInv, Referenced
  <1>7. Chain(x, freeListNext, L \cup {x})
    BY <1>1, <1>2, <1>6, ChainPushed DEF PoolInv, Listed
  <1>8. PICK M \in SUBSET Nodes : M = L \cup {x}
    OBVIOUS
  <1>9. /\ \A n \in Nodes \ {x} : Share(l, n) = Share(loc[t], n) /\ (Adds(l, n) <=> Adds(loc[t], n))
        /\ Share(l, x) = 0 /\ Share(loc[t], x) = 1 /\ ~Adds(l, x) /\ Adds(loc[t], x)
    BY <1>1, <1>2, <1>4 DEF Share, Adds, Adding, Unreferenced, Referenced
  <1>10. (\A n : Made(n)' <=> Made(n)) /\ Made(x)'
    BY <1>3, <1>6 DEF Made
  <1>11. RangeInv'
    BY <1>3, <1>5 DEF PoolInv, RangeInv, Links
  <1>12. Listed(M)'
    BY <1>3, <1>7, <1>8 DEF Listed, Chain
  <1>13. \A n \in Nodes \ {x} : Same(t, n, L, M)
    BY <1>3, <1>5, <1>8, <1>9, <1>10 DEF Same
  <1>14. ThreadInv(loc[t], M)'
    BY <1>4, <1>5 DEF ThreadInv, LocalsInv, Adding, Unreferenced, Referenced
  <1>15. \A u \in Threads \ {t} : ~Adds(loc[u], x)
    BY <1>9 DEF PoolInv, Exclusive
  <1>16. \A u \in Threads : loc[u].pc = "decTwo" /\ loc[u].head = x => x \in inUse'
    BY <1>3 DEF PoolInv, ThreadInv
  <1>17. refs'[x] = refs[x] - Share(loc[t], x) + Share(loc'[t], x) - (IF x \in L THEN 1 ELSE 0) + (IF x \in M THEN 1 ELSE 0)
    BY <1>3, <1>5, <1>6, <1>8, <1>9
  <1>18. x \notin inUse' /\ ~should'[x] /\ x \in M
    BY <1>3, <1>6, <1>8
  <1>19. PoolInv(M)'
    BY <1>3, <1>5, <1>10, <1>11, <1>12, <1>13, <1>14, <1>15, <1>16, <1>17, <1>18, OneNode
  <1> QED
    BY <1>19

(* The freeListNext of a node that nobody refers to is set: no thread's    *)
(* copy of it becomes stale.                                               *)
LEMMA StoreNextStep ==
  ASSUME NEW L, L \subseteq Nodes, PoolInv(L), NEW t \in Threads, StoreNext(t)
  PROVE  PoolInv(L)'
  <1> DEFINE l == [loc[t] EXCEPT !.pc = "storeRefs"]
  <1>1. /\ loc[t] \in LocType /\ ThreadInv(loc[t], L) /\ LocalsInv(loc[t]) /\ loc[t].pc = "storeNext"
        /\ loc[t].node \in Nodes
    BY Before DEF StoreNext, At, LocalsInv, Adding, Unreferenced
  <1>2. PICK x \in Nodes : x = loc[t].node
    BY <1>1
  <1>3. /\ loc' = [loc EXCEPT ![t] = l] /\ freeListNext' = [freeListNext EXCEPT ![x] = loc[t].top]
        /\ UNCHANGED <<initialBlockPoolIndex, freeListHead, refs, should, inUse, heap>>
    BY <1>1, <1>2 DEF StoreNext, Goto
  <1>4. /\ l \in LocType /\ l.pc = "storeRefs" /\ l.node = x /\ l.ret = loc[t].ret /\ l.head = loc[t].head
        /\ l.top = loc[t].top
    BY <1>1, <1>2 DEF LocType, Adding, Unreferenced
  <1> HIDE DEF l
  <1>5. loc' \in [Threads -> LocType] /\ loc'[t] = l /\ \A u \in Threads \ {t} : loc'[u] = loc[u]
    BY <1>3, <1>4, LocMoved
  <1>6. refs[x] = 0 /\ should[x] /\ NodeInv(x, L) /\ x \notin L
    BY <1>1, <1>2 DEF PoolInv, ThreadInv, NodeInv, Unreferenced
  <1>7. /\ freeListNext' \in [Nodes -> Links] /\ freeListNext'[x] = loc[t].top
        /\ \A n \in Nodes \ {x} : freeListNext'[n] = freeListNext[n]
    BY <1>1, <1>3, Fields DEF PoolInv, RangeInv
  <1>8. /\ \A n \in Nodes : Share(l, n) = Share(loc[t], n) /\ (Adds(l, n) <=> Adds(loc[t], n))
        /\ Adds(loc[t], x)
    BY <1>1, <1>2, <1>4 DEF Share, Adds, Adding, Unreferenced, Referenced
  <1>9. \A n : Made(n)' <=> Made(n)
    BY <1>3 DEF Made
  <1>10. RangeInv'
    BY <1>3, <1>5, <1>7 DEF PoolInv, RangeInv
  <1>11. Listed(L)'
    <2>1. Chain(freeListHead, freeListNext, L) /\ \A n \in L : freeListNext'[n] = freeListNext[n]
      BY <1>6, <1>7 DEF PoolInv, Listed
    <2>2. PICK next : next = freeListNext'
      OBVIOUS
    <2>3. Chain(freeListHead, next, L)
      BY <2>1, <2>2, ChainElsewhere
    <2> QED
      BY <1>3, <2>2, <2>3 DEF Listed, Chain
  <1>12. \A n \in Nodes : Same(t, n, L, L)
    BY <1>3, <1>5, <1>8, <1>9 DEF Same
  <1>13. \A n \in Nodes : NodeInv(n, L)'
    BY <1>5, <1>12, NodeKept DEF PoolInv
  <1>14. Exclusive'
    BY <1>5, <1>12 DEF Exclusive, PoolInv, Same
  <1>15. ThreadInv(loc[t], L)'
    <2>1. LocalsInv(loc[t])'
      BY <1>1, <1>2, <1>4, <1>5, <1>7 DEF LocalsInv, Adding, Unreferenced, Referenced
    <2> QED
      BY <1>3, <1>4, <1>5, <1>6, <2>1 DEF ThreadInv, Unreferenced, Referenced
  <1>16. \A u \in Threads \ {t} : ThreadInv(loc[u], L)'
    <2> SUFFICES ASSUME NEW u \in Threads \ {t} PROVE ThreadInv(loc[u], L)'
      OBVIOUS
    <2>1. ThreadInv(loc[u], L) /\ LocalsInv(loc[u])
      BY Before
    <2>2. ~Adds(loc[u], x)
      BY <1>8 DEF PoolInv, Exclusive
    <2>3. ~(loc[u].pc = "casHead" /\ loc[u].head = x)
      <3>1. loc[u].pc = "casHead" /\ loc[u].head = x => Share(loc[u], x) = 1
        BY DEF Share
      <3>2. Share(loc[u], x) <= 0
        BY <1>6, ShareCounted
      <3> QED
        BY <3>1, <3>2
    <2>4. loc[u].pc = "casHead" => loc[u].next = freeListNext'[loc[u].head]
      BY <1>7, <2>1, <2>3 DEF LocalsInv
    <2>5. loc[u].pc \in {"storeRefs", "casTop"} => loc[u].top = freeListNext'[loc[u].node]
      BY <1>7, <2>1, <2>2 DEF LocalsInv, Adds, Adding, Unreferenced, Referenced
    <2>6. LocalsInv(loc[u])'
      BY <1>5, <2>1, <2>4, <2>5 DEF LocalsInv
    <2> QED
      BY <1>3, <1>5, <1>9, <2>1, <2>6 DEF ThreadInv, Made
  <1> QED
    BY <1>10, <1>11, <1>13, <1>14, <1>15, <1>16 DEF PoolInv

-----------------------------------------------------------------------------
(* All steps                                                               *)

IInv == \E L \in SUBSET Nodes : PoolInv(L)

(* With every thread idle nothing is accounted for by a thread.            *)
LEMMA AllIdle ==
  ASSUME \A t \in Threads : loc[t].pc = "idle", NEW n
  PROVE  Total(Shares(n), Threads) = 0 /\ \A t \in Threads : ~Adds(loc[t], n)
  <1>1. \A t \in Threads : Share(loc[t], n) = 0 /\ ~Adds(loc[t], n)
    BY DEF Share, Adds, Adding, Unreferenced, Referenced
  <1>2. Shares(n) \in [Threads -> Nat] /\ \A t \in Threads : Shares(n)[t] = 0
    BY <1>1 DEF Shares
  <1> QED
    BY <1>1, <1>2, TotalZero, SizesAssumption

(* No block is made yet.                                                   *)
LEMMA InitEstablishes ==
  ASSUME Init
  PROVE  IInv
  <1>1. \A t \in Threads : loc[t] = Idle /\ loc[t].pc = "idle"
    BY DEF Init, Idle
  <1>2. RangeInv
    <2>1. Idle \in LocType
      BY IdleMeans
    <2>2. heap \subseteq PoolSize + 1 .. PoolSize + HeapSize
      BY DEF Init
    <2> QED
      BY <2>1, <2>2 DEF Init, RangeInv, Links
  <1>3. Listed({})
    BY ChainEmpty DEF Init, Listed
  <1>4. \A n \in Nodes : Total(Shares(n), Threads) = 0 /\ \A t \in Threads : ~Adds(loc[t], n)
    BY <1>1, AllIdle
  <1>5. Exclusive
    BY <1>4 DEF Exclusive
  <1>6. \A t \in Threads : ThreadInv(loc[t], {})
    BY <1>1, IdleMeans
  <1>7. \A n \in Nodes : ~Made(n) /\ refs[n] = 0 /\ ~should[n] /\ n \notin inUse
    BY SizesAssumption DEF Init, Made, Nodes
  <1>8. \A n \in Nodes : NodeInv(n, {})
    BY <1>4, <1>7 DEF NodeInv
  <1>9. PoolInv({})
    BY <1>2, <1>3, <1>5, <1>6, <1>8 DEF PoolInv
  <1> QED
    BY <1>9 DEF IInv

(* One thread takes a step: each case is a lemma above.                    *)
LEMMA NextKeeps ==
  ASSUME IInv, [Next]_vars
  PROVE  IInv'
  <1>1. PICK L \in SUBSET Nodes : PoolInv(L)
    BY DEF IInv
  <1> SUFFICES \E M \in SUBSET Nodes : PoolInv(M)'
    BY SizesAssumption DEF IInv, Nodes
  <1>2. CASE UNCHANGED vars
    <2>1. RangeInv' /\ Listed(L)' /\ Exclusive'
      BY <1>1, <1>2 DEF PoolInv, RangeInv, Listed, Chain, Exclusive, vars, listVars
    <2>2. \A n : (Made(n)' <=> Made(n)) /\ Shares(n)' = Shares(n)
      BY <1>2 DEF Made, Shares, vars, listVars
    <2>3. \A n \in Nodes : NodeInv(n, L)'
      BY <1>1, <1>2, <2>2 DEF PoolInv, NodeInv, vars, listVars
    <2>4. \A t \in Threads : ThreadInv(loc[t], L)'
      BY <1>1, <1>2, <2>2 DEF PoolInv, ThreadInv, LocalsInv, Made, vars, listVars
    <2> QED
      BY <2>1, <2>3, <2>4 DEF PoolInv
  <1>3. CASE Next
    <2>1. PICK t \in Threads : (\E c \in BOOLEAN : Requisition(t, c)) \/ (\E n \in Nodes : Add(t, n)) \/ Step(t)
      BY <1>3 DEF Next
    <2>2. CASE \E c \in BOOLEAN : Requisition(t, c)
      BY <1>1, <2>2, RequisitionStep
    <2>3. CASE \E n \in Nodes : Add(t, n)
      BY <1>1, <2>3, AddStep
    <2>4. CASE PoolAdd(t) \/ Alloc(t)
      BY <1>1, <2>4, PoolAddStep, PoolAddFailsStep, AllocStep
    <2>5. CASE LoadHead(t) \/ LoadRefs(t)
      BY <1>1, <2>5, LoadHeadStep, LoadRefsStep, LoadRefsNoneStep
    <2>6. CASE IncRefs(t) \/ LoadNext(t)
      BY <1>1, <2>6, IncRefsStep, IncRefsFailsStep, LoadNextStep
    <2>7. CASE CasHead(t)
      BY <1>1, <2>7, CasHeadStep, CasHeadFailsStep
    <2>8. CASE DecTwo(t) \/ DecOne(t)
      BY <1>1, <2>8, DecTwoStep, DecOneStep, DecLastStep
    <2>9. CASE LoadTop(t) \/ StoreNext(t)
      BY <1>1, <2>9, LoadTopStep, StoreNextStep
    <2>10. CASE StoreRefs(t) \/ GiveUp(t)
      BY <1>1, <2>10, StoreRefsStep, GiveUpStep
    <2>11. CASE CasTop(t)
      BY <1>1, <2>11, CasTopStep, CasTopFailsStep
    <2> QED
      BY <2>1, <2>2, <2>3, <2>4, <2>5, <2>6, <2>7, <2>8, <2>9, <2>10, <2>11 DEF Step
  <1> QED
    BY <1>2, <1>3

(* Every reference is the list's or some thread's, and a node is on the    *)
(* list, in use, or has somebody who is to add it.                         *)
THEOREM ReferencesAccounted == Spec => []IInv
  <1>1. Init => IInv
    BY InitEstablishes
  <1>2. IInv /\ [Next]_vars => IInv'
    BY NextKeeps
  <1> QED
    BY <1>1, <1>2, PTL DEF Spec

(* ListSound: try_get() and add() leave the free list a list without a     *)
(* cycle, and requisition_block() hands out no block twice.                *)
THEOREM FreeListSound == Spec => []ListSound
  <1>1. IInv => ListSound
    <2> SUFFICES ASSUME IInv PROVE ListSound
      OBVIOUS
    <2>1. PICK L \in SUBSET Nodes : PoolInv(L)
      BY DEF IInv
    <2>2. inUse \subseteq Nodes /\ \A n \in Nodes : n \in L \cup inUse => n \notin heap /\ ~(n \in L /\ n \in inUse)
      BY <2>1 DEF PoolInv, RangeInv, NodeInv, Made
    <2>3. \A n \in L : refs[n] >= 1
      <3> SUFFICES ASSUME NEW n \in L PROVE refs[n] >= 1
        OBVIOUS
      <3>1. Shares(n) \in [Threads -> Nat]
        BY ShareType DEF Shares
      <3>2. Total(Shares(n), Threads) \in Nat
        BY <3>1, TotalType, SizesAssumption
      <3>3. refs[n] = Total(Shares(n), Threads) + 1
        BY <2>1 DEF PoolInv, NodeInv
      <3> QED
        BY <3>2, <3>3
    <2> QED
      BY <2>1, <2>2, <2>3 DEF ListSound, PoolInv
  <1> QED
    BY <1>1, ReferencesAccounted, PTL

(* NoBlockLost: a thread that leaves a block to those who still refer to   *)
(* it never leaves it to nobody.                                           *)
THEOREM BlocksNeverLost == Spec => []NoBlockLost
  <1>1. IInv => NoBlockLost
    <2> SUFFICES ASSUME IInv, \A t \in Threads : At(t, "idle")
                 PROVE  \E L \in SUBSET Nodes :
                          /\ Listed(L)
                          /\ \A n \in Nodes \ heap :
                               /\ ~should[n]
                               /\ \/ n \in inUse /\ refs[n] = 0
                                  \/ n \in L /\ refs[n] = 1
                                  \/ n > initialBlockPoolIndex /\ n <= PoolSize
      BY DEF NoBlockLost
    <2>1. PICK L \in SUBSET Nodes : PoolInv(L)
      BY DEF IInv
    <2> SUFFICES ASSUME NEW n \in Nodes, n \notin heap
                 PROVE  /\ ~should[n]
                        /\ \/ n \in inUse /\ refs[n] = 0
                           \/ n \in L /\ refs[n] = 1
                           \/ n > initialBlockPoolIndex /\ n <= PoolSize
      BY <2>1 DEF PoolInv
    <2>2. Total(Shares(n), Threads) = 0 /\ \A t \in Threads : ~Adds(loc[t], n)
      BY AllIdle DEF At
    <2>3. NodeInv(n, L)
      BY <2>1 DEF PoolInv
    <2>4. refs[n] = IF n \in L THEN 1 ELSE 0
      BY <2>2, <2>3 DEF NodeInv
    <2>5. ~should[n]
      BY <2>2, <2>3, <2>4 DEF NodeInv
    <2>6. CASE Made(n)
      BY <2>2, <2>3, <2>4, <2>5, <2>6 DEF NodeInv
    <2>7. CASE ~Made(n)
      BY <2>5, <2>7 DEF Made
    <2> QED
      BY <2>6, <2>7
  <1> QED
    BY <1>1, ReferencesAccounted, PTL

-----------------------------------------------------------------------------
(* The bounds                                                              *)

AtPoolAdd == {t \in Threads : loc[t].pc = "poolAdd"}

(* One thread at a time takes a node, and threads that have passed the     *)
(* test of the index before it reached the end are all that can raise it   *)
(* beyond.                                                                 *)
Bounds ==
  /\ \A t, u \in Threads : loc[t].pc = "decTwo" /\ loc[u].pc = "decTwo" /\ loc[t].head = loc[u].head => t = u
  /\ initialBlockPoolIndex >= PoolSize =>
       initialBlockPoolIndex + Cardinality(AtPoolAdd) <= PoolSize + Cardinality(Threads)

(* How threads come to the steps that Bounds is about.                     *)
LEMMA StepMoves ==
  ASSUME IInv, NEW t \in Threads,
         (\E c \in BOOLEAN : Requisition(t, c)) \/ (\E n \in Nodes : Add(t, n)) \/ Step(t)
  PROVE  /\ \A u \in Threads \ {t} : loc'[u] = loc[u]
         /\ loc'[t].pc = "decTwo" => loc[t].pc = "casHead" /\ freeListHead = loc[t].head /\ loc'[t].head = loc[t].head
         /\ loc'[t].pc = "poolAdd" => loc[t].pc = "idle" /\ ~(initialBlockPoolIndex >= PoolSize)
         /\ IF loc[t].pc = "poolAdd" THEN initialBlockPoolIndex' = initialBlockPoolIndex + 1
                                     ELSE initialBlockPoolIndex' = initialBlockPoolIndex
  <1>1. /\ loc \in [Threads -> LocType] /\ loc[t] \in LocType
        /\ loc[t].pc \in Adding => loc[t].ret \in {"idle", "alloc", "loadRefs"}
    BY Before, Fields DEF IInv, PoolInv, RangeInv
  <1> USE <1>1
  <1>2. CASE \E c \in BOOLEAN : Requisition(t, c)
    <2>1. PICK c \in BOOLEAN : Requisition(t, c)
      BY <1>2
    <2> DEFINE p == IF initialBlockPoolIndex >= PoolSize THEN "loadHead" ELSE "poolAdd"
    <2>2. /\ loc' = [loc EXCEPT ![t].canAlloc = c, ![t].pc = p] /\ loc[t].pc = "idle"
          /\ initialBlockPoolIndex' = initialBlockPoolIndex
      BY <2>1 DEF Requisition, At
    <2>3. p # "decTwo" /\ (p = "poolAdd" => ~(initialBlockPoolIndex >= PoolSize))
      OBVIOUS
    <2> HIDE DEF p
    <2>4. loc'[t].pc = p
      BY <2>2 DEF LocType
    <2> QED
      BY <2>2, <2>3, <2>4
  <1>3. CASE \E n \in Nodes : Add(t, n)
    <2>1. PICK n \in Nodes : Add(t, n)
      BY <1>3
    <2>2. loc' = [loc EXCEPT ![t].node = n, ![t].pc = "loadTop"] \/ loc' = loc
      BY <2>1 DEF Add
    <2>3. loc[t].pc = "idle" /\ initialBlockPoolIndex' = initialBlockPoolIndex /\ loc'[t].pc \in {"idle", "loadTop"}
      BY <2>1, <2>2 DEF Add, At, LocType
    <2> QED
      BY <2>2, <2>3
  <1>4. CASE PoolAdd(t) \/ Alloc(t)
    BY <1>4 DEF PoolAdd, Alloc, At, Goto, Return, Idle, LocType
  <1>5. CASE LoadHead(t) \/ LoadRefs(t) \/ IncRefs(t) \/ LoadNext(t)
    BY <1>5 DEF LoadHead, LoadRefs, IncRefs, LoadNext, At, Loop, LocType
  <1>6. CASE CasHead(t)
    BY <1>6 DEF CasHead, At, LocType
  <1>7. CASE DecTwo(t) \/ DecOne(t)
    BY <1>7 DEF DecTwo, DecOne, At, Loop, Return, Idle, LocType
  <1>8. CASE LoadTop(t) \/ StoreNext(t) \/ StoreRefs(t)
    BY <1>8 DEF LoadTop, StoreNext, StoreRefs, At, Goto, LocType
  <1>9. CASE CasTop(t) \/ GiveUp(t)
    BY <1>9 DEF CasTop, GiveUp, At, Goto, Added, LocType, Adding, Referenced
  <1> QED
    BY <1>2, <1>3, <1>4, <1>5, <1>6, <1>7, <1>8, <1>9 DEF Step

LEMMA BoundsKept ==
  ASSUME IInv, Bounds, [Next]_vars
  PROVE  Bounds'
  <1>1. PICK L \in SUBSET Nodes : PoolInv(L)
    BY DEF IInv
  <1>2. CASE UNCHANGED vars
    BY <1>2 DEF Bounds, AtPoolAdd, vars, listVars
  <1>3. CASE Next
    <2>1. PICK t \in Threads : (\E c \in BOOLEAN : Requisition(t, c)) \/ (\E n \in Nodes : Add(t, n)) \/ Step(t)
      BY <1>3 DEF Next
    <2>2. /\ \A u \in Threads \ {t} : loc'[u] = loc[u]
          /\ loc'[t].pc = "decTwo" => loc[t].pc = "casHead" /\ freeListHead = loc[t].head /\ loc'[t].head = loc[t].head
          /\ loc'[t].pc = "poolAdd" => loc[t].pc = "idle" /\ ~(initialBlockPoolIndex >= PoolSize)
          /\ IF loc[t].pc = "poolAdd" THEN initialBlockPoolIndex' = initialBlockPoolIndex + 1
                                      ELSE initialBlockPoolIndex' = initialBlockPoolIndex
      BY <2>1, StepMoves
    <2>3. ASSUME loc'[t].pc = "decTwo" PROVE \A u \in Threads : loc[u].pc = "decTwo" => loc[u].head # loc[t].head
      <3>1. PICK x \in Nodes : x = loc[t].head
        BY <1>1, <2>2, <2>3, Before DEF LocalsInv
      <3>2. x \in L
        BY <1>1, <2>2, <2>3, <3>1, ChainPopped DEF PoolInv, Listed
      <3>3. x \notin inUse
        BY <1>1, <3>2 DEF PoolInv, NodeInv
      <3> QED
        BY <1>1, <3>1, <3>3 DEF PoolInv, ThreadInv
    <2>4. \A v, u \in Threads : loc'[v].pc = "decTwo" /\ loc'[u].pc = "decTwo" /\ loc'[v].head = loc'[u].head => v = u
      BY <2>2, <2>3 DEF Bounds
    <2>5. AtPoolAdd' \ {t} = AtPoolAdd \ {t} /\ AtPoolAdd \subseteq Threads /\ AtPoolAdd' \subseteq Threads
      BY <2>2 DEF AtPoolAdd
    <2>6. /\ IsFiniteSet(AtPoolAdd) /\ Cardinality(AtPoolAdd) <= Cardinality(Threads)
          /\ Cardinality(AtPoolAdd') <= Cardinality(Threads) /\ Cardinality(Threads) \in Nat
      BY <2>5, FS_Subset, FS_CardinalityType, SizesAssumption
    <2>7. /\ Cardinality(AtPoolAdd) \in Nat /\ Cardinality(AtPoolAdd') \in Nat
          /\ Cardinality(AtPoolAdd') = Cardinality(AtPoolAdd)
               + (IF t \in AtPoolAdd' THEN 1 ELSE 0) - (IF t \in AtPoolAdd THEN 1 ELSE 0)
      BY <2>5, <2>6, OneElement
    <2>8. (t \in AtPoolAdd <=> loc[t].pc = "poolAdd") /\ (t \in AtPoolAdd' <=> loc'[t].pc = "poolAdd")
      BY DEF AtPoolAdd
    <2>9. initialBlockPoolIndex \in Nat /\ PoolSize \in Nat
      BY <1>1, SizesAssumption DEF PoolInv, RangeInv
    <2>10. initialBlockPoolIndex' >= PoolSize =>
             initialBlockPoolIndex' + Cardinality(AtPoolAdd') <= PoolSize + Cardinality(Threads)
      <3>1. CASE loc[t].pc = "poolAdd"
        <4>1. /\ initialBlockPoolIndex' = initialBlockPoolIndex + 1
              /\ Cardinality(AtPoolAdd') = Cardinality(AtPoolAdd) - 1
          BY <2>2, <2>7, <2>8, <3>1
        <4> QED
          BY <2>6, <2>7, <2>9, <4>1 DEF Bounds
      <3>2. CASE loc[t].pc # "poolAdd"
        <4>1. /\ initialBlockPoolIndex' = initialBlockPoolIndex
              /\ initialBlockPoolIndex >= PoolSize => Cardinality(AtPoolAdd') = Cardinality(AtPoolAdd)
          BY <2>2, <2>7, <2>8, <3>2
        <4> QED
          BY <2>9, <4>1 DEF Bounds
      <3> QED
        BY <3>1, <3>2
    <2> QED
      BY <2>4, <2>10 DEF Bounds
  <1> QED
    BY <1>2, <1>3

(* A node has at most one reference of each thread and one more: the       *)
(* list's, or the second of the thread that takes the node.                *)
LEMMA FewReferences ==
  ASSUME NEW L, PoolInv(L), Bounds, NEW n \in Nodes
  PROVE  refs[n] \in 0 .. Cardinality(Threads) + 1
  <1>1. /\ Shares(n) \in [Threads -> Nat] /\ \A u \in Threads : Shares(n)[u] = Share(loc[u], n)
        /\ Cardinality(Threads) \in Nat
    BY ShareType, FS_CardinalityType, SizesAssumption DEF Shares
  <1>2. Total(Shares(n), Threads) \in Nat
    BY <1>1, TotalType, SizesAssumption
  <1>3. refs[n] = Total(Shares(n), Threads) + (IF n \in L THEN 1 ELSE 0)
    BY DEF PoolInv, NodeInv
  <1>4. CASE \E t \in Threads : loc[t].pc = "decTwo" /\ loc[t].head = n
    <2>1. PICK t \in Threads : loc[t].pc = "decTwo" /\ loc[t].head = n
      BY <1>4
    <2>2. n \notin L
      BY <2>1 DEF PoolInv, ThreadInv, NodeInv
    <2> DEFINE g == [u \in Threads |-> IF u = t THEN 1 ELSE Shares(n)[u]]
    <2>3. g \in [Threads -> Nat] /\ g[t] = 1 /\ \A u \in Threads \ {t} : g[u] = Shares(n)[u]
      BY <1>1
    <2>4. Shares(n)[t] = 2 /\ \A u \in Threads : g[u] <= 1
      BY <1>1, <2>1, <2>3 DEF Share, Bounds
    <2> HIDE DEF g
    <2>5. Total(g, Threads) = Total(Shares(n), Threads) - 2 + 1
      BY <1>1, <2>3, <2>4, TotalUpdate, SizesAssumption
    <2>6. Total(g, Threads) <= Cardinality(Threads) * 1
      BY <2>3, <2>4, TotalAtMost, SizesAssumption
    <2> QED
      BY <1>1, <1>2, <1>3, <2>2, <2>5, <2>6
  <1>5. CASE ~\E t \in Threads : loc[t].pc = "decTwo" /\ loc[t].head = n
    <2>1. \A u \in Threads : Shares(n)[u] <= 1
      BY <1>1, <1>5 DEF Share
    <2>2. Total(Shares(n), Threads) <= Cardinality(Threads) * 1
      BY <1>1, <2>1, TotalAtMost, SizesAssumption
    <2> QED
      BY <1>1, <1>2, <1>3, <2>2
  <1> QED
    BY <1>4, <1>5

(* TypeOK: freeListRefs never drops below zero and never grows into the    *)
(* bit that says SHOULD_BE_ON_FREELIST, and initialBlockPoolIndex passes   *)
(* the pool by no more than the threads that race for it.                  *)
THEOREM TypeCorrect == Spec => []TypeOK
  <1>1. Init => Bounds
    <2> SUFFICES ASSUME Init PROVE Bounds
      OBVIOUS
    <2>1. AtPoolAdd = {} /\ \A t \in Threads : loc[t].pc = "idle"
      BY DEF Init, Idle, AtPoolAdd
    <2>2. Cardinality(AtPoolAdd) = 0 /\ Cardinality(Threads) \in Nat
      BY <2>1, FS_EmptySet, FS_CardinalityType, SizesAssumption
    <2> QED
      BY <2>1, <2>2, SizesAssumption DEF Init, Bounds
  <1>2. IInv /\ Bounds /\ [Next]_vars => Bounds'
    BY BoundsKept
  <1>3. IInv /\ Bounds => TypeOK
    <2> SUFFICES ASSUME IInv, Bounds PROVE TypeOK
      OBVIOUS
    <2>1. PICK L \in SUBSET Nodes : PoolInv(L)
      BY DEF IInv
    <2>2. \A n \in Nodes : refs[n] \in 0 .. Cardinality(Threads) + 1
      BY <2>1, FewReferences
    <2>3. initialBlockPoolIndex \in 0 .. PoolSize + Cardinality(Threads)
      <3>1. AtPoolAdd \subseteq Threads
        BY DEF AtPoolAdd
      <3>2. Cardinality(AtPoolAdd) \in Nat /\ Cardinality(Threads) \in Nat
        BY <3>1, FS_Subset, FS_CardinalityType, SizesAssumption
      <3> QED
        BY <2>1, <3>2, SizesAssumption DEF Bounds, PoolInv, RangeInv
    <2>4. \A t \in Threads : {loc[t].head, loc[t].next, loc[t].node, loc[t].top} \subseteq Nodes \cup {Null}
      BY <2>1, Before, Fields DEF Links
    <2>5. heap \subseteq Nodes
      BY <2>1, SizesAssumption DEF PoolInv, RangeInv, Nodes
    <2> QED
      BY <2>1, <2>2, <2>3, <2>4, <2>5 DEF TypeOK, PoolInv, RangeInv, Links
  <1> QED
    BY <1>1, <1>2, <1>3, ReferencesAccounted, PTL DEF Spec
=============================================================================
