--------------------- MODULE ImplicitProducerHashProofs ---------------------
(***************************************************************************)
(* Proofs about ImplicitProducerHash, for any finite set of threads, any   *)
(* tokens, hash values, initial size of the table and number of producers: *)
(* the list of producers is complete, no two tokens share a producer, a    *)
(* thread that enqueues without a token finds its producer again, and the  *)
(* hash tables never fill up.                                              *)
(***************************************************************************)
EXTENDS ImplicitProducerHash, CountingLemmas

-----------------------------------------------------------------------------
(* The invariant of the list and of the tokens                             *)

Walking == {"visit", "catch", "load", "push", "got"}
Hashing == {"forward", "count", "loop", "resize", "unlock", "reload", "giveUp"}
NullOr(S) == S \cup {Null}

ListType ==
  /\ producerListTail \in NullOr(Producers)
  /\ created \in Nat /\ created <= MaxProducers /\ producerCount = created
  /\ next \in [Producers -> NullOr(Producers)]
  /\ isExplicit \in [Producers -> BOOLEAN] /\ inactive \in [Producers -> BOOLEAN]
  /\ tokenOf \in [Producers -> Tokens \cup {NoToken}]
  /\ producerOf \in [Tokens -> NullOr(Producers)]
  /\ pc \in [Threads -> {"idle", "release"} \cup Walking \cup Hashing]
  /\ ptr \in [Threads -> NullOr(Producers)]
  /\ want \in [Threads -> Tokens \cup {NoToken}]
  /\ got \in [Threads -> SUBSET Producers]
  /\ alive \in BOOLEAN

(* What a thread knows of the producer it looks at: one that it has made   *)
(* is not in the list until it is pushed; every other one is in the list,  *)
(* and on duty when the thread has got it.                                 *)
PtrInv(t) ==
  /\ pc[t] = "visit" => ptr[t] \in NullOr(List)
  /\ pc[t] = "catch" => ptr[t] \in List /\ isExplicit[ptr[t]] = (want[t] # NoToken)
  /\ pc[t] \in {"load", "push"} =>
       /\ ptr[t] \in 1 .. created /\ ptr[t] \notin List
       /\ isExplicit[ptr[t]] = (want[t] # NoToken)
  /\ pc[t] = "got" /\ ptr[t] # Null =>
       ptr[t] \in List /\ ~inactive[ptr[t]] /\ isExplicit[ptr[t]] = (want[t] # NoToken)
  /\ pc[t] = "release" => ptr[t] \in List /\ ~inactive[ptr[t]] /\ isExplicit[ptr[t]]

(* The token under construction is the thread's own and has nothing yet.   *)
WantInv(t) ==
  want[t] # NoToken => pc[t] \in Walking /\ want[t] \in TokensOf(t) /\ producerOf[want[t]] = Null

(* Has t producer p to itself?                                             *)
Has1(t, p) == pc[t] \in {"load", "push", "got", "release"} /\ ptr[t] = p /\ p # Null

(* Two of the threads that have a producer have different ones; so have    *)
(* the tokens, and the threads that enqueue without one.                   *)
OwnInv ==
  /\ \A t, u \in Threads : \A p \in Producers : Has1(t, p) /\ Has1(u, p) => t = u
  /\ \A t \in Threads, k \in Tokens : producerOf[k] # Null => ~Has1(t, producerOf[k])
  /\ \A t, u \in Threads : \A p \in got[u] : ~Has1(t, p)
  /\ \A t, u \in Threads : \A p \in got[t] \cap got[u] : t = u
  /\ \A t \in Threads : \A p, q \in got[t] : p = q
  /\ \A t \in Threads : \A p \in got[t] : p \in List /\ ~isExplicit[p]

TokenInv ==
  \A k \in Tokens : producerOf[k] # Null =>
    /\ producerOf[k] \in List /\ isExplicit[producerOf[k]] /\ ~inactive[producerOf[k]]
    /\ tokenOf[producerOf[k]] = k

(* Every producer made is in the list or about to be pushed by the thread  *)
(* that has made it, and an explicit one is inactive or somebody's.        *)
CoverInv ==
  /\ List \subseteq 1 .. created
  /\ \A p \in 1 .. created : p \in List \/ \E t \in Threads : pc[t] \in {"load", "push"} /\ ptr[t] = p
  /\ \A p \in Producers : inactive[p] => p \in List /\ isExplicit[p]
  /\ \A p \in List : alive /\ isExplicit[p] /\ ~inactive[p] =>
       \/ \E k \in Tokens : producerOf[k] = p
       \/ \E t \in Threads : pc[t] \in {"got", "release"} /\ ptr[t] = p
  /\ ~alive => (\A t \in Threads : pc[t] = "idle") /\ \A k \in Tokens : producerOf[k] = Null

ListInv ==
  /\ ListType
  /\ \A t \in Threads : PtrInv(t) /\ WantInv(t)
  /\ OwnInv /\ TokenInv /\ CoverInv

-----------------------------------------------------------------------------
(* The invariant of the hash tables                                        *)

Entry == [key : Threads \cup {Empty.key}, value : NullOr(Producers)]
Table == [capacity : Nat \ {0}, entries : UNION {[0 .. c - 1 -> Entry] : c \in Nat}, prev : Nat]

Cap(h) == tables[h].capacity
At(h, i) == tables[h].entries[i]
Probe(h, t, k) == (HashOf[t] + k) % Cap(h)
Limit(h) == Cap(h) \div 2 + Cap(h) \div 4

Underway == {"loop", "resize", "unlock", "reload"}
Chosen(t) == pc[t] \in Walking /\ want[t] = NoToken
Busy(t) == pc[t] \in Underway \/ Chosen(t)

TablesType ==
  /\ tables \in Seq(Table) /\ Len(tables) > 0 /\ implicitProducerHash = Len(tables)
  /\ resizeInProgress \in BOOLEAN
  /\ mainHash \in [Threads -> Nat] /\ newCount \in [Threads -> Nat]
  /\ \A h \in 1 .. Len(tables) : tables[h].prev = h - 1 /\ tables[h].entries \in [0 .. Cap(h) - 1 -> Entry]
  /\ \A g, h \in 1 .. Len(tables) : g <= h => Cap(g) <= Cap(h)

(* A table has an id once, every probe for it comes to it, and with it is  *)
(* the producer that the thread has got.                                   *)
TableInv(h) ==
  /\ \A i, j \in 0 .. Cap(h) - 1 : At(h, i).key = At(h, j).key /\ At(h, i).key # Empty.key => i = j
  /\ \A t \in Threads, k \in 0 .. Cap(h) - 1 : At(h, Probe(h, t, k)).key = t =>
       \A j \in 0 .. k - 1 : At(h, Probe(h, t, j)).key # Empty.key
  /\ \A i \in 0 .. Cap(h) - 1 :
       /\ At(h, i).key = Empty.key => At(h, i) = Empty
       /\ At(h, i).key # Empty.key => got[At(h, i).key] = {At(h, i).value}
EntriesInv == \A h \in 1 .. Len(tables) : TableInv(h)

InTable(h, t) == \E i \in 0 .. Cap(h) - 1 : At(h, i).key = t
UpTo(h, t) == \E g \in 1 .. h : InTable(g, t)

(* What a thread knows at the places of its call: it has no id in the      *)
(* table it is going to put it in, the one that resizes has the main       *)
(* table, and one that has chosen a table has found it less than           *)
(* three-quarters full.                                                    *)
HashLocal(t) ==
  /\ pc[t] \in Hashing \ {"giveUp"} \/ Chosen(t) => mainHash[t] \in 1 .. Len(tables)
  /\ got[t] # {} => UpTo(Len(tables), t)
  /\ pc[t] = "forward" =>
       /\ ~InTable(mainHash[t], t) /\ UpTo(mainHash[t], t)
       /\ ptr[t] \in got[t]
  /\ pc[t] = "count" \/ Busy(t) => got[t] = {}
  /\ Busy(t) => newCount[t] > 0
  /\ pc[t] \in {"resize", "unlock"} => mainHash[t] = Len(tables)
  /\ Chosen(t) => newCount[t] < Limit(mainHash[t])

LockInv ==
  LET holders == {t \in Threads : pc[t] \in {"resize", "unlock", "giveUp"}}
  IN  /\ holders # {} => resizeInProgress
      /\ \A t, u \in holders : t = u

Counted == {t \in Threads : got[t] # {} \/ Busy(t)}

(* The threads that are in table h or an older one, or may get there       *)
(* because they were among the first n to be counted                       *)
Claim(h, n) == {t \in Threads : UpTo(h, t) \/ (Busy(t) /\ newCount[t] <= n)}

RoomInv ==
  /\ implicitProducerHashCount = Cardinality(Counted)
  /\ \A h \in 1 .. Len(tables), n \in Nat : Limit(h) <= n + 1 => Cardinality(Claim(h, n)) <= n

HashInv ==
  /\ TablesType /\ EntriesInv
  /\ \A t \in Threads : HashLocal(t)
  /\ LockInv /\ RoomInv

-----------------------------------------------------------------------------
(* The members of the list                                                 *)

(* The list holds its tail, next does not leave it, and it is within every *)
(* set of which the same is true.                                          *)
LEMMA ListClosed ==
  ASSUME producerListTail \in NullOr(Producers), next \in [Producers -> NullOr(Producers)]
  PROVE  /\ List \subseteq Producers /\ producerListTail \in NullOr(List) /\ Closed(List)
         /\ \A S \in SUBSET Producers : producerListTail \in NullOr(S) /\ Closed(S) => List \subseteq S
  <1>1. List \subseteq Producers /\ producerListTail \in NullOr(List)
    BY DEF List, From, NullOr, Null
  <1>2. \A S \in SUBSET Producers : producerListTail \in NullOr(S) /\ Closed(S) => List \subseteq S
    BY DEF List, From, NullOr
  <1>3. Closed(List)
    <2> SUFFICES ASSUME NEW r \in List, next[r] # Null, NEW S \in SUBSET Producers,
                        producerListTail \in NullOr(S), Closed(S)
                 PROVE  next[r] \in S
      <3>1. \A r \in List : next[r] \in NullOr(Producers)
        BY <1>1
      <3> QED
        BY <3>1 DEF Closed, List, From, NullOr
    <2>1. r \in S
      BY <1>2
    <2> QED
      BY <2>1 DEF Closed, NullOr
  <1> QED
    BY <1>1, <1>2, <1>3

(* The list is a matter of the tail and of next.                           *)
LEMMA ListSame == UNCHANGED <<producerListTail, next>> => List' = List
  BY DEF List, From, Closed

(* Writing next of a producer outside leaves the list as it is.            *)
LEMMA NextOutside ==
  ASSUME producerListTail \in NullOr(Producers), next \in [Producers -> NullOr(Producers)],
         NEW x \in Producers, x \notin List, NEW y \in NullOr(Producers),
         next' = [next EXCEPT ![x] = y], producerListTail' = producerListTail
  PROVE  List' = List
  <1>t. producerListTail' \in NullOr(Producers) /\ next' \in [Producers -> NullOr(Producers)]
    BY DEF NullOr
  <1>1. /\ List \subseteq Producers /\ producerListTail \in NullOr(List) /\ Closed(List)
        /\ \A S \in SUBSET Producers : producerListTail \in NullOr(S) /\ Closed(S) => List \subseteq S
    BY ListClosed
  <1>2. \A r \in Producers \ {x} : next'[r] = next[r]
    OBVIOUS
  <1>3. List' \subseteq List
    <2>1. \A r \in List : next'[r] \in NullOr(List)
      BY <1>1, <1>2 DEF Closed, NullOr
    <2> QED
      BY <1>1, <2>1 DEF List, From, Closed, NullOr
  <1>4. ASSUME NEW q \in List, NEW S \in SUBSET Producers, producerListTail \in NullOr(S),
               \A r \in S : next'[r] \in NullOr(S)
        PROVE  q \in S
    <2> DEFINE T == S \cap List
    <2>1. Closed(T)
      BY <1>1, <1>2, <1>4 DEF Closed, NullOr
    <2>2. producerListTail \in NullOr(T) /\ T \in SUBSET Producers
      BY <1>1, <1>4 DEF NullOr
    <2>3. List \subseteq T
      BY <1>1, <2>1, <2>2
    <2> QED
      BY <2>3
  <1>5. List \subseteq List'
    <2> SUFFICES ASSUME NEW q \in List PROVE q \in List'
      OBVIOUS
    <2>1. q \in Producers
      BY <1>1
    <2>2. \A S \in SUBSET Producers :
            producerListTail \in NullOr(S) /\ (\A r \in S : next'[r] \in NullOr(S)) => q \in S
      BY <1>4
    <2> QED
      BY <2>1, <2>2 DEF List, From, Closed, NullOr
  <1> QED
    BY <1>3, <1>5

(* A producer whose next is the tail, made the tail, is added to the list. *)
LEMMA ListPush ==
  ASSUME producerListTail \in NullOr(Producers), next \in [Producers -> NullOr(Producers)],
         NEW x \in Producers, next[x] = producerListTail, producerListTail' = x, next' = next
  PROVE  List' = List \cup {x}
  <1>1. /\ List \subseteq Producers /\ producerListTail \in NullOr(List) /\ Closed(List)
        /\ \A S \in SUBSET Producers : producerListTail \in NullOr(S) /\ Closed(S) => List \subseteq S
    BY ListClosed
  <1>2. x # Null
    BY DEF Producers, Null
  <1>3. List' \subseteq List \cup {x}
    <2>1. Closed(List \cup {x}) /\ List \cup {x} \in SUBSET Producers
      BY <1>1 DEF Closed, NullOr
    <2> QED
      BY <2>1 DEF List, From, Closed
  <1>4. ASSUME NEW S \in SUBSET Producers, x \in NullOr(S), Closed(S)
        PROVE  List \cup {x} \subseteq S
    <2>1. x \in S
      BY <1>2, <1>4 DEF NullOr
    <2>2. producerListTail \in NullOr(S)
      BY <1>4, <2>1 DEF Closed, NullOr
    <2> QED
      BY <1>1, <1>4, <2>1, <2>2
  <1>5. List \cup {x} \subseteq List'
    <2>1. \A S \in SUBSET Producers : x \in NullOr(S) /\ Closed(S) => List \cup {x} \subseteq S
      BY <1>4
    <2> QED
      BY <1>1, <2>1 DEF List, From, Closed, NullOr
  <1> QED
    BY <1>3, <1>5

-----------------------------------------------------------------------------
(* The steps that leave the list as it is                                  *)

(* A walk for a producer begins.                                           *)
LEMMA RecycleInv ==
  ASSUME ListInv, NEW t \in Threads, NEW k, Recycle(t, k), alive,
         pc[t] \in {"idle"} \cup Hashing, k # NoToken => k \in TokensOf(t) /\ producerOf[k] = Null,
         UNCHANGED <<listVars, tokenVars, got, alive>>
  PROVE  ListInv'
  <1> USE DEF Recycle, Goto, listVars, tokenVars, walkVars
  <1>l. List' = List
    BY ListSame
  <1>p. List \subseteq Producers /\ Closed(List) /\ producerListTail \in NullOr(List) /\ Null \notin Producers
    BY ListClosed DEF ListInv, ListType, Producers, Null
  <1>1. ListType'
    BY <1>p DEF ListInv, ListType, Walking, Hashing, NullOr, TokensOf, Tokens, PtrInv, Closed
  <1>2. ASSUME NEW u \in Threads PROVE PtrInv(u)' /\ WantInv(u)'
    BY <1>l, <1>p, <1>2 DEF ListInv, ListType, PtrInv, WantInv, NullOr, Closed, Walking, Hashing, Has1, OwnInv,
       TokensOf
  <1>3. OwnInv'
    BY <1>l, <1>p DEF ListInv, ListType, PtrInv, OwnInv, TokenInv, Has1, Walking, Hashing, NullOr
  <1>4. TokenInv'
    BY <1>l, <1>p DEF ListInv, ListType, PtrInv, OwnInv, TokenInv, Has1, NullOr
  <1>5. CoverInv'
    BY <1>l, <1>p DEF ListInv, ListType, PtrInv, OwnInv, CoverInv, Has1, Walking, Hashing, NullOr
  <1> QED
    BY <1>1, <1>2, <1>3, <1>4, <1>5 DEF ListInv

(* A step within the hash tables, between other calls.                     *)
LEMMA QuietInv ==
  ASSUME ListInv, NEW t \in Threads, NEW l \in {"idle"} \cup Hashing, Goto(t, l), alive,
         pc[t] \in {"idle"} \cup Hashing, NEW p \in NullOr(Producers), ptr' \in {ptr, [ptr EXCEPT ![t] = p]},
         UNCHANGED <<listVars, tokenVars, want, got, alive>>
  PROVE  ListInv'
  <1> USE DEF Goto, listVars, tokenVars, walkVars
  <1>l. List' = List
    BY ListSame
  <1>p. List \subseteq Producers /\ Closed(List) /\ producerListTail \in NullOr(List) /\ Null \notin Producers
    BY ListClosed DEF ListInv, ListType, Producers, Null
  <1>1. ListType'
    BY <1>p DEF ListInv, ListType, Walking, Hashing, NullOr, TokensOf, Tokens, PtrInv, Closed
  <1>2. ASSUME NEW u \in Threads PROVE PtrInv(u)' /\ WantInv(u)'
    BY <1>l, <1>p, <1>2 DEF ListInv, ListType, PtrInv, WantInv, NullOr, Closed, Walking, Hashing, Has1, OwnInv,
       TokensOf
  <1>3. OwnInv'
    BY <1>l, <1>p DEF ListInv, ListType, PtrInv, OwnInv, TokenInv, Has1, Walking, Hashing, NullOr
  <1>4. TokenInv'
    BY <1>l, <1>p DEF ListInv, ListType, PtrInv, OwnInv, TokenInv, Has1, NullOr
  <1>5. CoverInv'
    BY <1>l, <1>p DEF ListInv, ListType, PtrInv, OwnInv, CoverInv, Has1, Walking, Hashing, NullOr
  <1> QED
    BY <1>1, <1>2, <1>3, <1>4, <1>5 DEF ListInv

(* A thread returns with a producer of its own, or with none.              *)
LEMMA InsertInv ==
  ASSUME ListInv, NEW t \in Threads, pc[t] = "got", want[t] = NoToken, got[t] = {}, Goto(t, "idle"), alive,
         ptr' = [ptr EXCEPT ![t] = Null], got' = [got EXCEPT ![t] = IF ptr[t] = Null THEN @ ELSE @ \cup {ptr[t]}],
         UNCHANGED <<listVars, tokenVars, want, alive>>
  PROVE  ListInv'
  <1> USE DEF Goto, listVars, tokenVars, walkVars
  <1>l. List' = List
    BY ListSame
  <1>p. List \subseteq Producers /\ Closed(List) /\ producerListTail \in NullOr(List) /\ Null \notin Producers
    BY ListClosed DEF ListInv, ListType, Producers, Null
  <1>1. ListType'
    BY <1>p DEF ListInv, ListType, Walking, Hashing, NullOr, TokensOf, Tokens, PtrInv, Closed
  <1>2. ASSUME NEW u \in Threads PROVE PtrInv(u)' /\ WantInv(u)'
    BY <1>l, <1>p, <1>2 DEF ListInv, ListType, PtrInv, WantInv, NullOr, Closed, Walking, Hashing, Has1, OwnInv,
       TokensOf
  <1>3. OwnInv'
    BY <1>l, <1>p DEF ListInv, ListType, PtrInv, OwnInv, TokenInv, Has1, Walking, Hashing, NullOr
  <1>4. TokenInv'
    BY <1>l, <1>p DEF ListInv, ListType, PtrInv, OwnInv, TokenInv, Has1, NullOr
  <1>5. CoverInv'
    BY <1>l, <1>p DEF ListInv, ListType, PtrInv, OwnInv, CoverInv, Has1, Walking, Hashing, NullOr
  <1> QED
    BY <1>1, <1>2, <1>3, <1>4, <1>5 DEF ListInv

(* A producer is looked at.                                                *)
LEMMA VisitInv ==
  ASSUME ListInv, NEW t \in Threads, Visit(t), alive, UNCHANGED <<got, alive>>
  PROVE  ListInv'
  <1> USE DEF Visit, Goto, Wanted, listVars, tokenVars, walkVars
  <1>l. List' = List
    BY ListSame
  <1>p. List \subseteq Producers /\ Closed(List) /\ producerListTail \in NullOr(List) /\ Null \notin Producers
    BY ListClosed DEF ListInv, ListType, Producers, Null
  <1>1. ListType'
    BY <1>p DEF ListInv, ListType, Walking, Hashing, NullOr, TokensOf, Tokens, PtrInv, Closed
  <1>2. ASSUME NEW u \in Threads PROVE PtrInv(u)' /\ WantInv(u)'
    BY <1>l, <1>p, <1>2 DEF ListInv, ListType, PtrInv, WantInv, NullOr, Closed, Walking, Hashing, Has1, OwnInv,
       TokensOf
  <1>3. OwnInv'
    BY <1>l, <1>p DEF ListInv, ListType, PtrInv, OwnInv, TokenInv, Has1, Walking, Hashing, NullOr
  <1>4. TokenInv'
    BY <1>l, <1>p DEF ListInv, ListType, PtrInv, OwnInv, TokenInv, Has1, NullOr
  <1>5. CoverInv'
    BY <1>l, <1>p DEF ListInv, ListType, PtrInv, OwnInv, CoverInv, Has1, Walking, Hashing, NullOr
  <1> QED
    BY <1>1, <1>2, <1>3, <1>4, <1>5 DEF ListInv

(* A producer off duty is taken, by one thread only.                       *)
LEMMA CatchInv ==
  ASSUME ListInv, NEW t \in Threads, Catch(t), alive, UNCHANGED <<got, alive>>
  PROVE  ListInv'
  <1> USE DEF Catch, Goto, listVars, tokenVars, walkVars
  <1>l. List' = List
    BY ListSame
  <1>p. List \subseteq Producers /\ Closed(List) /\ producerListTail \in NullOr(List) /\ Null \notin Producers
    BY ListClosed DEF ListInv, ListType, Producers, Null
  <1>1. ListType'
    BY <1>p DEF ListInv, ListType, Walking, Hashing, NullOr, TokensOf, Tokens, PtrInv, Closed
  <1>2. ASSUME NEW u \in Threads PROVE PtrInv(u)' /\ WantInv(u)'
    BY <1>l, <1>p, <1>2 DEF ListInv, ListType, PtrInv, WantInv, NullOr, Closed, Walking, Hashing, Has1, OwnInv,
       TokensOf
  <1>3. OwnInv'
    BY <1>l, <1>p DEF ListInv, ListType, PtrInv, OwnInv, TokenInv, Has1, Walking, Hashing, NullOr, CoverInv
  <1>4. TokenInv'
    BY <1>l, <1>p DEF ListInv, ListType, PtrInv, OwnInv, TokenInv, Has1, NullOr
  <1>5. CoverInv'
    BY <1>l, <1>p DEF ListInv, ListType, PtrInv, OwnInv, CoverInv, Has1, Walking, Hashing, NullOr
  <1> QED
    BY <1>1, <1>2, <1>3, <1>4, <1>5 DEF ListInv

(* There is no memory for a producer.                                      *)
LEMMA CreateFailsInv ==
  ASSUME ListInv, NEW t \in Threads, CreateFails(t), alive, UNCHANGED <<got, alive>>
  PROVE  ListInv'
  <1> USE DEF CreateFails, Goto, listVars, tokenVars, walkVars
  <1>l. List' = List
    BY ListSame
  <1>p. List \subseteq Producers /\ Closed(List) /\ producerListTail \in NullOr(List) /\ Null \notin Producers
    BY ListClosed DEF ListInv, ListType, Producers, Null
  <1>1. ListType'
    BY <1>p DEF ListInv, ListType, Walking, Hashing, NullOr, TokensOf, Tokens, PtrInv, Closed
  <1>2. ASSUME NEW u \in Threads PROVE PtrInv(u)' /\ WantInv(u)'
    BY <1>l, <1>p, <1>2 DEF ListInv, ListType, PtrInv, WantInv, NullOr, Closed, Walking, Hashing, Has1, OwnInv,
       TokensOf
  <1>3. OwnInv'
    BY <1>l, <1>p DEF ListInv, ListType, PtrInv, OwnInv, TokenInv, Has1, Walking, Hashing, NullOr
  <1>4. TokenInv'
    BY <1>l, <1>p DEF ListInv, ListType, PtrInv, OwnInv, TokenInv, Has1, NullOr
  <1>5. CoverInv'
    BY <1>l, <1>p DEF ListInv, ListType, PtrInv, OwnInv, CoverInv, Has1, Walking, Hashing, NullOr
  <1> QED
    BY <1>1, <1>2, <1>3, <1>4, <1>5 DEF ListInv

(* A token gets its producer.                                              *)
LEMMA TokenConstructedInv ==
  ASSUME ListInv, NEW t \in Threads, TokenConstructed(t), alive, UNCHANGED <<got, alive>>
  PROVE  ListInv'
  <1> USE DEF TokenConstructed, Goto, listVars, tokenVars, walkVars
  <1>l. List' = List
    BY ListSame
  <1>p. List \subseteq Producers /\ Closed(List) /\ producerListTail \in NullOr(List) /\ Null \notin Producers
    BY ListClosed DEF ListInv, ListType, Producers, Null
  <1>w. want[t] \in Tokens /\ producerOf[want[t]] = Null
    BY DEF ListInv, WantInv, TokensOf, Tokens
  <1>1. ListType'
    BY <1>p DEF ListInv, ListType, Walking, Hashing, NullOr, TokensOf, Tokens, PtrInv, Closed
  <1>2. ASSUME NEW u \in Threads PROVE PtrInv(u)' /\ WantInv(u)'
    BY <1>l, <1>p, <1>2 DEF ListInv, ListType, PtrInv, WantInv, NullOr, Closed, Walking, Hashing, Has1, OwnInv,
       TokensOf
  <1>3. OwnInv'
    BY <1>l, <1>p DEF ListInv, ListType, PtrInv, OwnInv, TokenInv, Has1, Walking, Hashing, NullOr
  <1>4. TokenInv'
    BY <1>l, <1>p DEF ListInv, ListType, PtrInv, OwnInv, TokenInv, Has1, NullOr
  <1>5. CoverInv'
    BY <1>l, <1>p, <1>w DEF ListInv, ListType, PtrInv, OwnInv, CoverInv, Has1, Walking, Hashing, NullOr
  <1> QED
    BY <1>1, <1>2, <1>3, <1>4, <1>5 DEF ListInv

(* A producer goes off duty.                                               *)
LEMMA ReleaseTokenInv ==
  ASSUME ListInv, NEW t \in Threads, ReleaseToken(t), alive, UNCHANGED <<got, alive>>
  PROVE  ListInv'
  <1> USE DEF ReleaseToken, Goto, listVars, tokenVars, walkVars
  <1>l. List' = List
    BY ListSame
  <1>p. List \subseteq Producers /\ Closed(List) /\ producerListTail \in NullOr(List) /\ Null \notin Producers
    BY ListClosed DEF ListInv, ListType, Producers, Null
  <1>1. ListType'
    BY <1>p DEF ListInv, ListType, Walking, Hashing, NullOr, TokensOf, Tokens, PtrInv, Closed
  <1>2. ASSUME NEW u \in Threads PROVE PtrInv(u)' /\ WantInv(u)'
    BY <1>l, <1>p, <1>2 DEF ListInv, ListType, PtrInv, WantInv, NullOr, Closed, Walking, Hashing, Has1, OwnInv,
       TokensOf
  <1>3. OwnInv'
    BY <1>l, <1>p DEF ListInv, ListType, PtrInv, OwnInv, TokenInv, Has1, Walking, Hashing, NullOr
  <1>4. TokenInv'
    BY <1>l, <1>p DEF ListInv, ListType, PtrInv, OwnInv, TokenInv, Has1, NullOr
  <1>5. CoverInv'
    BY <1>l, <1>p DEF ListInv, ListType, PtrInv, OwnInv, CoverInv, Has1, Walking, Hashing, NullOr
  <1> QED
    BY <1>1, <1>2, <1>3, <1>4, <1>5 DEF ListInv

(* A token gives its producer back.                                        *)
LEMMA DestroyTokenInv ==
  ASSUME ListInv, NEW t \in Threads, NEW k \in TokensOf(t), DestroyToken(t, k), UNCHANGED <<got, alive>>
  PROVE  ListInv'
  <1> USE DEF DestroyToken, Goto, listVars, tokenVars, walkVars
  <1>l. List' = List
    BY ListSame
  <1>p. List \subseteq Producers /\ Closed(List) /\ producerListTail \in NullOr(List) /\ Null \notin Producers
    BY ListClosed DEF ListInv, ListType, Producers, Null
  <1>k. k \in Tokens /\ producerOf[k] \in List /\ want[t] = NoToken
    BY DEF ListInv, TokenInv, WantInv, Walking, TokensOf, Tokens
  <1>1. ListType'
    BY <1>p, <1>k DEF ListInv, ListType, Walking, Hashing, NullOr, TokensOf, Tokens, PtrInv, Closed
  <1>2. ASSUME NEW u \in Threads PROVE PtrInv(u)' /\ WantInv(u)'
    BY <1>l, <1>p, <1>2, <1>k DEF ListInv, ListType, PtrInv, WantInv, NullOr, Closed, Walking, Hashing, Has1, OwnInv,
       TokensOf, TokenInv
  <1>3. OwnInv'
    BY <1>l, <1>p, <1>k DEF ListInv, ListType, PtrInv, OwnInv, TokenInv, Has1, Walking, Hashing, NullOr
  <1>4. TokenInv'
    BY <1>l, <1>p, <1>k DEF ListInv, ListType, PtrInv, OwnInv, TokenInv, Has1, NullOr
  <1>5. CoverInv'
    BY <1>l, <1>p, <1>k DEF ListInv, ListType, PtrInv, OwnInv, CoverInv, Has1, Walking, Hashing, NullOr, TokenInv
  <1> QED
    BY <1>1, <1>2, <1>3, <1>4, <1>5 DEF ListInv

(* Two tokens of a thread exchange their producers.                        *)
LEMMA SwapTokensInv ==
  ASSUME ListInv, NEW t \in Threads, NEW k \in TokensOf(t), NEW j \in TokensOf(t), SwapTokens(t, k, j), alive,
         UNCHANGED <<got, alive>>
  PROVE  ListInv'
  <1> USE DEF SwapTokens, listVars, tokenVars, walkVars
  <1>l. List' = List
    BY ListSame
  <1>p. List \subseteq Producers /\ Closed(List) /\ producerListTail \in NullOr(List) /\ Null \notin Producers
    BY ListClosed DEF ListInv, ListType, Producers, Null
  <1>k. k \in Tokens /\ j \in Tokens /\ want[t] = NoToken
    BY DEF ListInv, TokenInv, WantInv, Walking, TokensOf, Tokens
  <1>s. /\ producerOf' \in [Tokens -> NullOr(Producers)]
        /\ producerOf'[k] = producerOf[j] /\ producerOf'[j] = producerOf[k]
        /\ \A i \in Tokens \ {k, j} : producerOf'[i] = producerOf[i]
    BY <1>k DEF ListInv, ListType
  <1>1. ListType'
    BY <1>p, <1>k, <1>s DEF ListInv, ListType, Walking, Hashing, NullOr, TokensOf, Tokens, PtrInv, Closed
  <1>2. ASSUME NEW u \in Threads PROVE PtrInv(u)' /\ WantInv(u)'
    BY <1>l, <1>p, <1>2, <1>k, <1>s DEF ListInv, ListType, PtrInv, WantInv, NullOr, Closed, Walking, Hashing, Has1, OwnInv,
       TokensOf
  <1>3. OwnInv'
    BY <1>l, <1>p, <1>k, <1>s DEF ListInv, ListType, PtrInv, OwnInv, TokenInv, Has1, Walking, Hashing, NullOr
  <1>4. TokenInv'
    BY <1>l, <1>p, <1>k, <1>s DEF ListInv, ListType, PtrInv, OwnInv, TokenInv, Has1, NullOr
  <1>5. CoverInv'
    BY <1>l, <1>p, <1>k, <1>s DEF ListInv, ListType, PtrInv, OwnInv, CoverInv, Has1, Walking, Hashing, NullOr, TokenInv
  <1> QED
    BY <1>1, <1>2, <1>3, <1>4, <1>5 DEF ListInv

-----------------------------------------------------------------------------
(* The steps that make producers and add them to the list                  *)

(* A producer is made: it is nobody else's, and not in the list.           *)
LEMMA CreateInv ==
  ASSUME ListInv, NEW t \in Threads, Create(t), alive, UNCHANGED <<got, alive>>
  PROVE  ListInv'
  <1> USE DEF Create, Goto, listVars, tokenVars, walkVars
  <1>l. List' = List
    BY ListSame
  <1>p. List \subseteq Producers /\ Closed(List) /\ producerListTail \in NullOr(List) /\ Null \notin Producers
    BY ListClosed DEF ListInv, ListType, Producers, Null
  <1>c. /\ created + 1 \in Producers /\ created + 1 \notin List /\ 1 .. created' = (1 .. created) \cup {created + 1}
        /\ ~inactive[created + 1] /\ \A u \in Threads : ~Has1(u, created + 1)
    BY BoundAssumption DEF ListInv, ListType, CoverInv, PtrInv, Producers, Has1
  <1>1. ListType'
    BY <1>p, <1>c, BoundAssumption DEF ListInv, ListType, Walking, Hashing, NullOr, TokensOf, Tokens, PtrInv, Closed
  <1>2. ASSUME NEW u \in Threads PROVE PtrInv(u)' /\ WantInv(u)'
    BY <1>l, <1>p, <1>2, <1>c DEF ListInv, ListType, PtrInv, WantInv, NullOr, Closed, Walking, Hashing, Has1, OwnInv,
       TokensOf
  <1>3. OwnInv'
    BY <1>l, <1>p, <1>c DEF ListInv, ListType, PtrInv, OwnInv, TokenInv, Has1, Walking, Hashing, NullOr
  <1>4. TokenInv'
    BY <1>l, <1>p, <1>c DEF ListInv, ListType, PtrInv, OwnInv, TokenInv, Has1, NullOr
  <1>5. CoverInv'
    BY <1>l, <1>p, <1>c DEF ListInv, ListType, PtrInv, OwnInv, CoverInv, Has1, Walking, Hashing, NullOr
  <1> QED
    BY <1>1, <1>2, <1>3, <1>4, <1>5 DEF ListInv

(* The producer made is prepared for the push.                             *)
LEMMA LoadTailInv ==
  ASSUME ListInv, NEW t \in Threads, LoadTail(t), alive, UNCHANGED <<got, alive>>
  PROVE  ListInv'
  <1> USE DEF LoadTail, Goto, listVars, tokenVars, walkVars
  <1>x. ptr[t] \in Producers /\ ptr[t] \notin List
    BY BoundAssumption DEF ListInv, ListType, PtrInv, Producers
  <1>l. List' = List
    BY <1>x, NextOutside DEF ListInv, ListType
  <1>p. List \subseteq Producers /\ Closed(List) /\ producerListTail \in NullOr(List) /\ Null \notin Producers
    BY ListClosed DEF ListInv, ListType, Producers, Null
  <1>1. ListType'
    BY <1>p, <1>x DEF ListInv, ListType, Walking, Hashing, NullOr, TokensOf, Tokens, PtrInv, Closed
  <1>2. ASSUME NEW u \in Threads PROVE PtrInv(u)' /\ WantInv(u)'
    BY <1>l, <1>p, <1>2, <1>x DEF ListInv, ListType, PtrInv, WantInv, NullOr, Closed, Walking, Hashing, Has1, OwnInv,
       TokensOf
  <1>3. OwnInv'
    BY <1>l, <1>p, <1>x DEF ListInv, ListType, PtrInv, OwnInv, TokenInv, Has1, Walking, Hashing, NullOr
  <1>4. TokenInv'
    BY <1>l, <1>p, <1>x DEF ListInv, ListType, PtrInv, OwnInv, TokenInv, Has1, NullOr
  <1>5. CoverInv'
    BY <1>l, <1>p, <1>x DEF ListInv, ListType, PtrInv, OwnInv, CoverInv, Has1, Walking, Hashing, NullOr
  <1> QED
    BY <1>1, <1>2, <1>3, <1>4, <1>5 DEF ListInv

(* The push: the producer made is now in the list, or the tail has changed *)
(* since it was loaded.                                                    *)
LEMMA PushInv ==
  ASSUME ListInv, NEW t \in Threads, Push(t), alive, UNCHANGED <<got, alive>>
  PROVE  ListInv'
  <1> USE DEF Push, Goto, listVars, tokenVars, walkVars
  <1>x. ptr[t] \in Producers /\ ptr[t] \notin List /\ ptr[t] \in 1 .. created
    BY BoundAssumption DEF ListInv, ListType, PtrInv, Producers
  <1>p. List \subseteq Producers /\ Closed(List) /\ producerListTail \in NullOr(List) /\ Null \notin Producers
    BY ListClosed DEF ListInv, ListType, Producers, Null
  <1>1. ListType'
    BY <1>p, <1>x DEF ListInv, ListType, Walking, NullOr
  <1>a. CASE producerListTail = next[ptr[t]]
    <2>l. List' = List \cup {ptr[t]}
      BY <1>a, <1>x, ListPush DEF ListInv, ListType
    <2>i. ~inactive[ptr[t]]
      BY <1>x DEF ListInv, CoverInv
    <2>2. ASSUME NEW u \in Threads PROVE PtrInv(u)' /\ WantInv(u)'
      BY <1>a, <1>p, <1>x, <2>2, <2>i, <2>l DEF ListInv, ListType, PtrInv, WantInv, NullOr, Walking, Has1, OwnInv
    <2>3. OwnInv'
      BY <1>a, <1>p, <1>x, <2>l DEF ListInv, ListType, OwnInv, Has1
    <2>4. TokenInv'
      BY <1>a, <1>p, <1>x, <2>l DEF ListInv, ListType, TokenInv
    <2>5. CoverInv'
      <3>1. \A u \in Threads \ {t} : pc'[u] = pc[u]
        BY DEF ListInv, ListType
      <3>2. pc'[t] = "got"
        BY <1>a DEF ListInv, ListType
      <3>3. List' \subseteq 1 .. created
        BY <1>x, <2>l DEF ListInv, CoverInv
      <3>4. \A p \in 1 .. created : p \in List' \/ \E u \in Threads : pc'[u] \in {"load", "push"} /\ ptr[u] = p
        BY <2>l, <3>1 DEF ListInv, CoverInv
      <3>5. \A p \in List' : alive /\ isExplicit[p] /\ ~inactive[p] =>
              \/ \E k \in Tokens : producerOf[k] = p
              \/ \E u \in Threads : pc'[u] \in {"got", "release"} /\ ptr[u] = p
        BY <2>l, <3>1, <3>2 DEF ListInv, CoverInv
      <3> QED
        BY <2>l, <3>3, <3>4, <3>5 DEF ListInv, CoverInv
    <2> QED
      BY <1>1, <2>2, <2>3, <2>4, <2>5 DEF ListInv
  <1>b. CASE producerListTail # next[ptr[t]]
    <2>l. List' = List
      BY <1>b, <1>x, NextOutside DEF ListInv, ListType
    <2>2. ASSUME NEW u \in Threads PROVE PtrInv(u)' /\ WantInv(u)'
      BY <1>b, <2>2, <2>l DEF ListInv, PtrInv, WantInv
    <2>3. OwnInv' /\ TokenInv' /\ CoverInv'
      BY <1>b, <2>l DEF ListInv, OwnInv, TokenInv, CoverInv, Has1
    <2> QED
      BY <1>1, <2>2, <2>3 DEF ListInv
  <1> QED
    BY <1>a, <1>b

(* The destructor leaves no token with a producer.                         *)
LEMMA DestroyQueueInv == ListInv /\ DestroyQueue => ListInv'
  <1> SUFFICES ASSUME ListInv, DestroyQueue PROVE ListInv'
    OBVIOUS
  <1> USE DEF DestroyQueue, listVars, walkVars, hashVars
  <1>l. List' = List
    BY ListSame
  <1>k. \A k \in Tokens : producerOf'[k] = Null
    BY DEF ListInv, TokenInv
  <1>1. ListType'
    BY <1>k DEF ListInv, ListType, NullOr
  <1>2. ASSUME NEW u \in Threads PROVE PtrInv(u)' /\ WantInv(u)'
    BY <1>2 DEF ListInv, PtrInv, WantInv, Walking
  <1>3. OwnInv' /\ TokenInv' /\ CoverInv'
    BY <1>k, <1>l DEF ListInv, ListType, OwnInv, TokenInv, CoverInv, Has1
  <1> QED
    BY <1>1, <1>2, <1>3 DEF ListInv

(* At first there is no producer.                                          *)
LEMMA ListInit1 == Init => ListInv
  <1> SUFFICES ASSUME Init PROVE ListInv
    OBVIOUS
  <1> USE DEF Init, ListInit
  <1>1. ListType
    BY BoundAssumption DEF ListType, NullOr
  <1>l. List = {}
    <2>1. Closed({}) /\ producerListTail \in NullOr({})
      BY DEF Closed, NullOr
    <2> QED
      BY <1>1, <2>1, ListClosed DEF ListType
  <1>2. ASSUME NEW u \in Threads PROVE PtrInv(u) /\ WantInv(u)
    BY <1>2 DEF PtrInv, WantInv
  <1>3. OwnInv /\ TokenInv /\ CoverInv
    BY <1>l DEF OwnInv, TokenInv, CoverInv, Has1
  <1> QED
    BY <1>1, <1>2, <1>3 DEF ListInv

-----------------------------------------------------------------------------
(* Probes and slots                                                        *)

(* The least element of a set of numbers, as the library defines it.       *)
LEMMA MinIsLeast ==
  ASSUME NEW T, T \subseteq Nat, T # {}
  PROVE  Min(T) \in T /\ \A k \in T : Min(T) <= k
  <1>1. \E m \in T : \A k \in T : m <= k
    BY LeastNumber
  <1> QED
    BY <1>1 DEF Min

(* The greatest of a set of numbers up to a bound.                         *)
LEMMA MaxIsGreatest ==
  ASSUME NEW n \in Nat, NEW T, T \subseteq 0 .. n, T # {}
  PROVE  Max(T) \in T
  <1>1. \E m \in T : \A k \in T : k <= m
    BY GreatestNumber
  <1>2. \E m \in T : \A k \in T : m >= k
    BY <1>1
  <1> QED
    BY <1>2 DEF Max

(* A probe that goes once around comes to every slot ...                   *)
LEMMA ProbeOnto ==
  ASSUME NEW c \in Nat \ {0}, NEW x \in Nat, NEW i \in 0 .. c - 1
  PROVE  \E k \in 0 .. c - 1 : (x + k) % c = i
  <1>1. PICK d \in Int : d = i - x
    OBVIOUS
  <1>2. PICK k \in 0 .. c - 1 : k = d % c
    BY DivMod
  <1>3. ((d % c) + x) % c = (d + x) % c
    <2>1. x \in Int
      OBVIOUS
    <2> QED
      BY <2>1, ModAdd
  <1>4. d + x = i /\ x + k = k + x
    BY <1>1
  <1>5. i % c = i
    BY ModSmall
  <1>6. (x + k) % c = i
    BY <1>2, <1>3, <1>4, <1>5
  <1> QED
    BY <1>6

(* ... and to no slot twice.                                               *)
LEMMA ProbeOnce ==
  ASSUME NEW c \in Nat \ {0}, NEW x \in Nat, NEW k \in 0 .. c - 1, NEW j \in 0 .. c - 1,
         (x + k) % c = (x + j) % c
  PROVE  k = j
  <1>1. x + k \in Int /\ x + j \in Int
    OBVIOUS
  <1>2. (((x + k) % c) - ((x + j) % c)) % c = ((x + k) - (x + j)) % c
    BY <1>1, ModDifference
  <1>3. ((x + k) % c) - ((x + j) % c) = 0 /\ (x + k) - (x + j) = k - j
    BY DivMod, <1>1
  <1>4. (k - j) % c = 0 % c
    BY <1>2, <1>3
  <1>5. (k - j) % c = 0
    BY <1>4
  <1> QED
    BY <1>5

(* A larger table has a higher limit.                                      *)
LEMMA LimitGrows ==
  ASSUME NEW a \in Nat, NEW b \in Nat, a <= b
  PROVE  /\ a \div 2 + a \div 4 \in Nat /\ b \div 2 + b \div 4 \in Nat
         /\ a \div 2 + a \div 4 <= b \div 2 + b \div 4
  <1>1. PICK x \in Nat, y \in Nat : x = a \div 2 /\ y = b \div 2 /\ x <= y
    OBVIOUS
  <1>2. PICK v \in Nat, w \in Nat : v = a \div 4 /\ w = b \div 4 /\ v <= w
    OBVIOUS
  <1> QED
    BY <1>1, <1>2

Room(h) == \E i \in 0 .. Cap(h) - 1 : At(h, i).key = Empty.key

(* What an entry is.                                                       *)
LEMMA TableType ==
  ASSUME TablesType, NEW h \in 1 .. Len(tables)
  PROVE  /\ Cap(h) \in Nat \ {0} /\ tables[h].entries \in [0 .. Cap(h) - 1 -> Entry] /\ tables[h] \in Table
         /\ tables[h].prev = h - 1 /\ h \in Nat
         /\ \A i \in 0 .. Cap(h) - 1 : At(h, i) \in Entry
         /\ \A t \in Threads, k \in Nat : Probe(h, t, k) \in 0 .. Cap(h) - 1
  <1>1. tables[h] \in Table
    BY DEF TablesType
  <1>2. Cap(h) \in Nat \ {0}
    BY <1>1 DEF Table, Cap
  <1>3. tables[h].entries \in [0 .. Cap(h) - 1 -> Entry] /\ tables[h].prev = h - 1
    BY DEF TablesType
  <1>4. \A i \in 0 .. Cap(h) - 1 : At(h, i) \in Entry
    BY <1>3 DEF At
  <1>5. ASSUME NEW t \in Threads, NEW k \in Nat PROVE Probe(h, t, k) \in 0 .. Cap(h) - 1
    <2>1. HashOf[t] + k \in Int
      BY HashAssumption
    <2> QED
      BY <1>2, <2>1, DivMod DEF Probe
  <1> QED
    BY <1>1, <1>2, <1>3, <1>4, <1>5

(* A probe ends, at the id or at an empty slot before which there is no    *)
(* other empty one.                                                        *)
LEMMA SlotFound ==
  ASSUME TablesType, NEW h \in 1 .. Len(tables), NEW t \in Threads, Room(h)
  PROVE  \E m \in 0 .. Cap(h) - 1 :
           /\ Slot(h, t) = Probe(h, t, m)
           /\ At(h, Probe(h, t, m)).key \in {t, Empty.key}
           /\ \A j \in 0 .. m - 1 : At(h, Probe(h, t, j)).key \notin {t, Empty.key}
  <1> DEFINE T == {k \in 0 .. Cap(h) - 1 : At(h, Probe(h, t, k)).key \in {t, Empty.key}}
  <1>0. HashOf[t] \in Nat /\ Cap(h) \in Nat \ {0}
    BY HashAssumption, TableType
  <1>1. T \subseteq Nat /\ T # {}
    <2>1. PICK i \in 0 .. Cap(h) - 1 : At(h, i).key = Empty.key
      BY DEF Room
    <2>2. PICK k \in 0 .. Cap(h) - 1 : Probe(h, t, k) = i
      BY <1>0, ProbeOnto DEF Probe
    <2>3. k \in T
      BY <2>1, <2>2
    <2>4. T \subseteq Nat
      BY <1>0
    <2> HIDE DEF T
    <2> QED
      BY <2>3, <2>4
  <1>2. PICK m \in T : m = Min(T) /\ \A k \in T : m <= k
    <2> HIDE DEF T
    <2> QED
      BY <1>1, MinIsLeast
  <1>3. Slot(h, t) = Probe(h, t, m)
    <2>1. T = {k \in 0 .. tables[h].capacity - 1 :
                 tables[h].entries[(HashOf[t] + k) % tables[h].capacity].key \in {t, Empty.key}}
      BY DEF Cap, At, Probe
    <2> HIDE DEF T
    <2> QED
      BY <1>2, <2>1 DEF Slot, Cap, Probe
  <1>4. ASSUME NEW j \in 0 .. m - 1 PROVE At(h, Probe(h, t, j)).key \notin {t, Empty.key}
    <2>1. m \in 0 .. Cap(h) - 1
      BY <1>2
    <2>2. j \in 0 .. Cap(h) - 1 /\ ~(m <= j)
      BY <1>0, <2>1, <1>4
    <2>3. j \notin T
      BY <1>2, <2>2
    <2> QED
      BY <2>2, <2>3
  <1> QED
    BY <1>2, <1>3, <1>4

(* So a lookup finds the id if the table has it, and otherwise comes to an *)
(* empty slot.                                                             *)
LEMMA SlotHas ==
  ASSUME TablesType, EntriesInv, NEW h \in 1 .. Len(tables), NEW t \in Threads, Room(h)
  PROVE  /\ Slot(h, t) \in 0 .. Cap(h) - 1
         /\ InTable(h, t) => At(h, Slot(h, t)).key = t
         /\ ~InTable(h, t) => At(h, Slot(h, t)) = Empty
         /\ Has(h, t) <=> InTable(h, t)
  <1>0. HashOf[t] \in Nat /\ Cap(h) \in Nat \ {0} /\ \A k \in Nat : Probe(h, t, k) \in 0 .. Cap(h) - 1
    BY HashAssumption, TableType
  <1>1. PICK m \in 0 .. Cap(h) - 1 :
          /\ Slot(h, t) = Probe(h, t, m)
          /\ At(h, Probe(h, t, m)).key \in {t, Empty.key}
          /\ \A j \in 0 .. m - 1 : At(h, Probe(h, t, j)).key \notin {t, Empty.key}
    BY SlotFound
  <1>2. Slot(h, t) \in 0 .. Cap(h) - 1
    BY <1>0, <1>1
  <1>3. ASSUME InTable(h, t) PROVE At(h, Slot(h, t)).key = t
    <2>1. PICK i \in 0 .. Cap(h) - 1 : At(h, i).key = t
      BY <1>3 DEF InTable
    <2>2. PICK k \in 0 .. Cap(h) - 1 : Probe(h, t, k) = i
      BY <1>0, ProbeOnto DEF Probe
    <2>3. \A j \in 0 .. k - 1 : At(h, Probe(h, t, j)).key # Empty.key
      BY <2>1, <2>2 DEF EntriesInv, TableInv
    <2>4. ~(k < m)
      BY <1>1, <2>1, <2>2
    <2>5. CASE k = m
      BY <1>1, <2>1, <2>2, <2>5
    <2>6. CASE m < k
      BY <1>1, <2>3, <2>6
    <2> QED
      BY <2>4, <2>5, <2>6
  <1>4. ASSUME ~InTable(h, t) PROVE At(h, Slot(h, t)) = Empty
    <2>1. At(h, Slot(h, t)).key # t
      BY <1>2, <1>4 DEF InTable
    <2>2. At(h, Slot(h, t)).key = Empty.key
      BY <1>1, <2>1
    <2> QED
      BY <1>2, <2>2 DEF EntriesInv, TableInv
  <1>5. At(h, Slot(h, t)).key = t => InTable(h, t)
    BY <1>2 DEF InTable
  <1> QED
    BY <1>2, <1>3, <1>4, <1>5 DEF Has, At

-----------------------------------------------------------------------------
(* Room in the tables                                                      *)

(* The ids in a table are of threads that claim a place in it, of which    *)
(* there are fewer than slots.                                             *)
LEMMA RoomLeft ==
  ASSUME TablesType, EntriesInv, RoomInv, NEW h \in 1 .. Len(tables)
  PROVE  Room(h)
  <1> SUFFICES ASSUME ~Room(h) PROVE FALSE
    OBVIOUS
  <1>0. Cap(h) \in Nat \ {0} /\ (\A i \in 0 .. Cap(h) - 1 : At(h, i) \in Entry) /\ h \in Nat
    BY TableType
  <1>1. PICK n \in Nat : Limit(h) <= n + 1 /\ n < Cap(h)
    <2>1. Limit(h) \in Nat /\ Limit(h) <= Cap(h)
      BY <1>0 DEF Limit
    <2>2. CASE Limit(h) = 0
      BY <1>0, <2>2
    <2>3. CASE Limit(h) > 0
      <3>1. Limit(h) - 1 \in Nat /\ Limit(h) <= (Limit(h) - 1) + 1 /\ Limit(h) - 1 < Cap(h)
        BY <1>0, <2>1, <2>3
      <3> QED
        BY <3>1
    <2> QED
      BY <2>1, <2>2, <2>3
  <1>2. PICK C : C = Claim(h, n)
    OBVIOUS
  <1>3. IsFiniteSet(C) /\ Cardinality(C) \in Nat /\ Cardinality(C) <= n
    <2>1. C \subseteq Threads
      BY <1>2 DEF Claim
    <2> QED
      BY <1>1, <1>2, <2>1, HashAssumption, FS_Subset, FS_CardinalityType DEF RoomInv
  <1>4. PICK f : f = [i \in 0 .. Cap(h) - 1 |-> At(h, i).key]
    OBVIOUS
  <1>5. \A i \in 0 .. Cap(h) - 1 : At(h, i).key \in Threads
    BY <1>0 DEF Room, Entry
  <1>6. f \in Injection(0 .. Cap(h) - 1, C)
    <2>1. \A i \in 0 .. Cap(h) - 1 : f[i] \in C
      <3> SUFFICES ASSUME NEW i \in 0 .. Cap(h) - 1 PROVE f[i] \in C
        OBVIOUS
      <3>1. UpTo(h, f[i])
        BY <1>0, <1>4 DEF UpTo, InTable
      <3> QED
        BY <1>2, <1>4, <1>5, <3>1 DEF Claim
    <2>2. \A i, j \in 0 .. Cap(h) - 1 : f[i] = f[j] => i = j
      BY <1>4, <1>5, HashAssumption DEF EntriesInv, TableInv, Empty
    <2> QED
      BY <1>4, <2>1, <2>2 DEF Injection, IsInjective
  <1>7. IsFiniteSet(0 .. Cap(h) - 1) /\ Cardinality(0 .. Cap(h) - 1) = Cap(h)
    <2>1. PICK b \in Int : b = Cap(h) - 1 /\ 0 <= b
      BY <1>0
    <2>2. IsFiniteSet(0 .. b) /\ Cardinality(0 .. b) = b - 0 + 1
      BY <2>1, FS_Interval
    <2> QED
      BY <1>0, <2>1, <2>2
  <1>8. Cardinality(0 .. Cap(h) - 1) <= Cardinality(C)
    <2>1. PICK S : S = 0 .. Cap(h) - 1
      OBVIOUS
    <2> QED
      BY <1>3, <1>6, <2>1, FS_Injection
  <1> QED
    BY <1>0, <1>1, <1>3, <1>7, <1>8

(* From the main table all the older ones are met.                         *)
LEMMA BehindAll ==
  ASSUME TablesType, NEW h \in 1 .. Len(tables)
  PROVE  Behind(h) = 1 .. h
  <1>0. Len(tables) \in Nat /\ DOMAIN tables = 1 .. Len(tables)
    BY DEF TablesType
  <1>1. \A g \in 1 .. Len(tables) : tables[g].prev = g - 1
    BY TableType
  <1>2. Behind(h) \subseteq 1 .. h
    <2>1. 1 .. h \in SUBSET DOMAIN tables /\ h \in 1 .. h
      BY <1>0
    <2>2. \A f \in 1 .. h : tables[f].prev \in (1 .. h) \cup {0}
      BY <1>0, <1>1
    <2> QED
      BY <2>1, <2>2 DEF Behind
  <1>3. ASSUME NEW g \in 1 .. h, NEW S \in SUBSET DOMAIN tables, h \in S,
               \A f \in S : tables[f].prev \in S \cup {0}
        PROVE  g \in S
    <2> DEFINE T == {f \in S : g <= f}
    <2>1. T \subseteq Nat /\ h \in T
      BY <1>0, <1>3
    <2>2. PICK m \in T : \A k \in T : m <= k
      <3> HIDE DEF T
      <3> QED
        BY <2>1, LeastNumber
    <2>3. m \in S /\ m \in Nat /\ g <= m /\ m \in 1 .. Len(tables)
      BY <1>0, <2>2
    <2>4. CASE m = g
      BY <2>3, <2>4
    <2>5. CASE m # g
      <3>1. m - 1 \in S
        BY <1>0, <1>1, <1>3, <2>3, <2>5
      <3>2. m - 1 \in T
        BY <1>0, <2>3, <2>5, <3>1
      <3> QED
        BY <2>2, <2>3, <3>2
    <2> QED
      BY <2>4, <2>5
  <1>4. 1 .. h \subseteq Behind(h)
    BY <1>0, <1>3 DEF Behind
  <1> QED
    BY <1>2, <1>4

(* The powers of two are what they are.                                    *)
LEMMA Powers == \A i \in Nat : PowerOfTwo[i] \in Nat /\ i < PowerOfTwo[i] /\ PowerOfTwo[i + 1] = 2 * PowerOfTwo[i]
  <1>1. PowerOfTwo = [i \in Nat |-> IF i = 0 THEN 1 ELSE 2 * PowerOfTwo[i - 1]]
    BY DEF PowerOfTwo
  <1>2. PowerOfTwo[0] = 1
    BY <1>1
  <1>3. \A i \in Nat : PowerOfTwo[i + 1] = 2 * PowerOfTwo[i]
    BY <1>1
  <1> DEFINE T == {i \in Nat : ~(PowerOfTwo[i] \in Nat /\ i < PowerOfTwo[i])}
  <1>4. ASSUME T # {} PROVE FALSE
    <2>1. PICK m \in T : \A k \in T : m <= k
      <3>1. T \subseteq Nat
        OBVIOUS
      <3> HIDE DEF T
      <3> QED
        BY <1>4, <3>1, LeastNumber
    <2>2. m \in Nat /\ m # 0
      BY <1>2, <2>1
    <2>3. m - 1 \in Nat /\ m - 1 \notin T
      BY <2>1, <2>2
    <2>4. PowerOfTwo[m - 1] \in Nat /\ m - 1 < PowerOfTwo[m - 1]
      BY <2>3
    <2>5. PowerOfTwo[m] = 2 * PowerOfTwo[m - 1]
      BY <1>1, <2>2
    <2>6. PowerOfTwo[m] \in Nat /\ m < PowerOfTwo[m]
      BY <2>2, <2>4, <2>5
    <2> QED
      BY <2>1, <2>6
  <1> QED
    BY <1>3, <1>4

(* The new table is larger than the one it replaces.                       *)
LEMMA Grows ==
  ASSUME TablesType, NEW t \in Threads, mainHash[t] \in 1 .. Len(tables)
  PROVE  NewCapacity(t) \in Nat \ {0} /\ Cap(mainHash[t]) <= NewCapacity(t)
  <1>1. PICK c \in Nat \ {0} : c = Cap(mainHash[t])
    BY TableType
  <1>2. PICK n \in Nat : n = newCount[t]
    BY DEF TablesType
  <1>3. \A x \in Nat \ {0} : c * x \in Nat \ {0} /\ c <= c * x /\ x <= c * x
    OBVIOUS
  <1>4. ASSUME NEW i \in Nat PROVE PowerOfTwo[i] \in Nat \ {0}
    <2>1. PowerOfTwo[i] \in Nat /\ i < PowerOfTwo[i]
      BY Powers
    <2> QED
      BY <2>1
  <1> DEFINE T == {d \in {c * PowerOfTwo[i] : i \in 1 .. n + 1} : n < d \div 2}
  <1>5. ASSUME NEW d \in T PROVE d \in Nat \ {0} /\ c <= d
    <2>1. PICK i \in 1 .. n + 1 : d = c * PowerOfTwo[i]
      OBVIOUS
    <2>2. i \in Nat
      BY <2>1
    <2> QED
      BY <1>3, <1>4, <2>1, <2>2
  <1>6. c * PowerOfTwo[n + 1] \in T
    <2>1. PowerOfTwo[n + 1] >= 2 * (n + 1) /\ PowerOfTwo[n + 1] \in Nat
      <3>1. PowerOfTwo[n] \in Nat /\ n < PowerOfTwo[n] /\ PowerOfTwo[n + 1] = 2 * PowerOfTwo[n]
        BY Powers
      <3> QED
        BY <3>1
    <2>2. PICK d \in Nat : d = c * PowerOfTwo[n + 1] /\ 2 * (n + 1) <= d
      <3>1. PICK x \in Nat : x = PowerOfTwo[n + 1]
        BY <2>1
      <3>2. x >= 2 * (n + 1) /\ x # 0
        BY <2>1, <3>1
      <3> QED
        BY <1>3, <3>1, <3>2
    <2>3. n < d \div 2
      BY <2>2
    <2> QED
      BY <2>2, <2>3
  <1>7. NewCapacity(t) = Min(T)
    BY <1>1, <1>2 DEF NewCapacity, Cap
  <1>8. T \subseteq Nat /\ T # {}
    BY <1>5, <1>6
  <1> HIDE DEF T
  <1> QED
    BY <1>1, <1>5, <1>7, <1>8, MinIsLeast

-----------------------------------------------------------------------------
(* The steps that leave the tables as they are                             *)

Still(t) ==
  \A u \in Threads \ {t} :
    /\ pc'[u] = pc[u] /\ want'[u] = want[u] /\ ptr'[u] = ptr[u]
    /\ mainHash'[u] = mainHash[u] /\ newCount'[u] = newCount[u]

(* What is said of the tables does not depend on anything else.            *)
LEMMA TablesSame ==
  ASSUME tables' = tables
  PROVE  /\ \A h : Cap(h)' = Cap(h) /\ Limit(h)' = Limit(h)
         /\ \A h, i : At(h, i)' = At(h, i)
         /\ \A h, t : InTable(h, t)' <=> InTable(h, t)
         /\ \A h, t : UpTo(h, t)' <=> UpTo(h, t)
         /\ \A h, t, k : Probe(h, t, k)' = Probe(h, t, k)
  BY DEF Cap, Limit, At, InTable, UpTo, Probe

(* What is said of one table depends on it and on what its threads got.    *)
LEMMA TableSame ==
  ASSUME NEW h, TableInv(h), tables'[h] = tables[h],
         \A i \in 0 .. Cap(h) - 1 : At(h, i).key # Empty.key => got'[At(h, i).key] = got[At(h, i).key]
  PROVE  TableInv(h)'
  <1>1. Cap(h)' = Cap(h)
    BY DEF Cap
  <1>2. \A i : At(h, i)' = At(h, i)
    BY DEF At
  <1>3. \A t, k : Probe(h, t, k)' = Probe(h, t, k)
    BY <1>1 DEF Probe
  <1> QED
    BY <1>1, <1>2, <1>3 DEF TableInv

(* A step of t that leaves the tables is a matter of what t knows, of the  *)
(* lock and of the counts.                                                 *)
LEMMA MoveInv ==
  ASSUME HashInv, NEW t \in Threads, Still(t), UNCHANGED <<tables, implicitProducerHash, got>>,
         resizeInProgress' \in BOOLEAN, mainHash' \in [Threads -> Nat], newCount' \in [Threads -> Nat],
         HashLocal(t)', LockInv', RoomInv'
  PROVE  HashInv'
  <1>1. TablesType'
    BY DEF HashInv, TablesType, Cap
  <1>2. EntriesInv'
    BY TableSame DEF HashInv, EntriesInv
  <1>3. ASSUME NEW u \in Threads, u # t PROVE HashLocal(u)'
    <2>1. HashLocal(u)
      BY DEF HashInv
    <2>2. /\ pc'[u] = pc[u] /\ want'[u] = want[u] /\ ptr'[u] = ptr[u]
          /\ mainHash'[u] = mainHash[u] /\ newCount'[u] = newCount[u] /\ got'[u] = got[u] /\ tables' = tables
      BY <1>3 DEF Still
    <2> QED
      BY <2>1, <2>2, TablesSame DEF HashLocal, Busy, Chosen, InTable, UpTo, At, Cap, Limit
  <1> QED
    BY <1>1, <1>2, <1>3 DEF HashInv

(* A thread that goes on, or gives its place up, claims nothing new.       *)
LEMMA RoomKept ==
  ASSUME HashInv, NEW t \in Threads, Still(t), UNCHANGED <<tables, got>>,
         Busy(t)' => Busy(t) /\ newCount'[t] = newCount[t],
         implicitProducerHashCount' = implicitProducerHashCount - (IF Busy(t) /\ ~Busy(t)' THEN 1 ELSE 0)
  PROVE  RoomInv'
  <1>1. \A u \in Threads \ {t} : (Busy(u)' <=> Busy(u)) /\ newCount'[u] = newCount[u]
    BY DEF Still, Busy, Chosen
  <1>2. \A h, u : UpTo(h, u)' <=> UpTo(h, u)
    BY TablesSame
  <1>3. \A h, n : Claim(h, n)' \subseteq Claim(h, n)
    BY <1>1, <1>2 DEF Claim
  <1>4. IsFiniteSet(Threads) /\ IsFiniteSet(Counted)
    BY HashAssumption, FS_Subset DEF Counted
  <1>5. Counted' \ {t} = Counted \ {t}
    BY <1>1 DEF Counted
  <1>6. t \in Counted' <=> got[t] # {} \/ Busy(t)'
    BY DEF Counted
  <1>7. t \in Counted <=> got[t] # {} \/ Busy(t)
    BY DEF Counted
  <1>8. Busy(t) => got[t] = {}
    BY DEF HashInv, HashLocal
  <1>9. Cardinality(Counted') = Cardinality(Counted) - (IF Busy(t) /\ ~Busy(t)' THEN 1 ELSE 0)
    <2>1. PICK S : S = Counted
      OBVIOUS
    <2>2. PICK T : T = Counted'
      OBVIOUS
    <2>3. /\ Cardinality(S) \in Nat /\ Cardinality(T) \in Nat
          /\ Cardinality(T) = Cardinality(S) + (IF t \in T THEN 1 ELSE 0) - (IF t \in S THEN 1 ELSE 0)
      BY <1>4, <1>5, <2>1, <2>2, OneElement
    <2> QED
      BY <1>6, <1>7, <1>8, <2>1, <2>2, <2>3
  <1>10. ASSUME NEW h \in 1 .. Len(tables), NEW n \in Nat, Limit(h) <= n + 1
         PROVE  Cardinality(Claim(h, n)') <= n
    <2>1. IsFiniteSet(Claim(h, n)) /\ Cardinality(Claim(h, n)) <= n
      BY <1>4, <1>10, FS_Subset DEF HashInv, RoomInv, Claim
    <2>2. IsFiniteSet(Claim(h, n)') /\ Cardinality(Claim(h, n)') <= Cardinality(Claim(h, n))
      BY <1>3, <2>1, FS_Subset
    <2>3. Cardinality(Claim(h, n)) \in Nat /\ Cardinality(Claim(h, n)') \in Nat
      BY <2>1, <2>2, FS_CardinalityType
    <2> QED
      BY <2>1, <2>2, <2>3
  <1>11. \A h : Limit(h)' = Limit(h)
    BY TablesSame
  <1>12. \A h \in 1 .. Len(tables'), n \in Nat : Limit(h)' <= n + 1 => Cardinality(Claim(h, n)') <= n
    BY <1>10, <1>11
  <1> QED
    BY <1>9, <1>12 DEF HashInv, RoomInv

(* A thread that is counted is the last of them.                           *)
LEMMA RoomCounts ==
  ASSUME HashInv, NEW t \in Threads, Still(t), UNCHANGED <<tables, got>>, got[t] = {},
         Busy(t)', ~Busy(t), implicitProducerHashCount' = implicitProducerHashCount + 1,
         newCount'[t] = implicitProducerHashCount'
  PROVE  RoomInv' /\ newCount'[t] \in Nat \ {0}
  <1>1. \A u \in Threads \ {t} : (Busy(u)' <=> Busy(u)) /\ newCount'[u] = newCount[u]
    BY DEF Still, Busy, Chosen
  <1>2. \A h, u : UpTo(h, u)' <=> UpTo(h, u)
    BY TablesSame
  <1>3. IsFiniteSet(Threads) /\ IsFiniteSet(Counted)
    BY HashAssumption, FS_Subset DEF Counted
  <1>4. t \notin Counted /\ Counted' = Counted \cup {t}
    BY <1>1 DEF Counted
  <1>5. /\ IsFiniteSet(Counted') /\ Cardinality(Counted) \in Nat
        /\ Cardinality(Counted') = Cardinality(Counted) + 1
    BY <1>3, <1>4, FS_AddElement, FS_CardinalityType
  <1>6. implicitProducerHashCount = Cardinality(Counted)
    BY DEF HashInv, RoomInv
  <1>7. ASSUME NEW h \in 1 .. Len(tables), NEW n \in Nat, Limit(h) <= n + 1
        PROVE  Cardinality(Claim(h, n)') <= n
    <2>1. CASE newCount'[t] <= n
      <3>1. Claim(h, n)' \subseteq Counted'
        <4> SUFFICES ASSUME NEW u \in Threads, UpTo(h, u) PROVE got[u] # {}
          BY <1>2 DEF Claim, Counted
        <4>0. PICK g \in 1 .. h : InTable(g, u)
          BY DEF UpTo
        <4>1. PICK i \in 0 .. Cap(g) - 1 : At(g, i).key = u
          BY <4>0 DEF InTable
        <4>2. g \in 1 .. Len(tables)
          BY DEF HashInv, TablesType
        <4>3. u # Empty.key
          BY HashAssumption DEF Empty
        <4>4. got[u] = {At(g, i).value}
          BY <4>1, <4>2, <4>3 DEF HashInv, EntriesInv, TableInv
        <4> QED
          BY <4>4
      <3>2. Cardinality(Claim(h, n)') <= Cardinality(Counted') /\ IsFiniteSet(Claim(h, n)')
        BY <1>5, <3>1, FS_Subset
      <3>3. Cardinality(Claim(h, n)') \in Nat
        BY <3>2, FS_CardinalityType
      <3> QED
        BY <1>5, <1>6, <2>1, <3>2, <3>3
    <2>2. CASE ~(newCount'[t] <= n)
      <3>1. Claim(h, n)' = Claim(h, n)
        BY <1>1, <1>2, <2>2 DEF Claim
      <3> QED
        BY <1>7, <3>1 DEF HashInv, RoomInv
    <2> QED
      BY <2>1, <2>2
  <1>8. \A h : Limit(h)' = Limit(h)
    BY TablesSame
  <1>9. \A h \in 1 .. Len(tables'), n \in Nat : Limit(h)' <= n + 1 => Cardinality(Claim(h, n)') <= n
    BY <1>7, <1>8
  <1> QED
    BY <1>5, <1>6, <1>9 DEF RoomInv

(* A step within the list of producers or of the tokens                    *)
LEMMA ListStepHash ==
  ASSUME ListInv, HashInv, NEW t \in Threads, Still(t), UNCHANGED <<hashVars, localVars>>,
         pc[t] \notin Hashing, pc'[t] \notin Hashing, Chosen(t)' <=> Chosen(t)
  PROVE  HashInv'
  <1> USE DEF hashVars, localVars
  <1>1. HashLocal(t)'
    <2>1. HashLocal(t) /\ got'[t] = got[t] /\ newCount'[t] = newCount[t] /\ mainHash'[t] = mainHash[t]
      BY DEF HashInv
    <2>2. \A h : UpTo(h, t)' <=> UpTo(h, t)
      BY TablesSame
    <2> QED
      BY <2>1, <2>2, TablesSame DEF HashLocal, Busy, Hashing, Underway
  <1>2. LockInv'
    BY DEF HashInv, LockInv, Still, Hashing
  <1>3. RoomInv'
    <2>1. Busy(t)' <=> Busy(t)
      BY DEF Busy, Hashing, Underway
    <2>2. implicitProducerHashCount \in Nat
      BY HashAssumption, FS_Subset, FS_CardinalityType DEF HashInv, RoomInv, Counted
    <2> QED
      BY <2>1, <2>2, RoomKept
  <1> QED
    BY <1>1, <1>2, <1>3, MoveInv DEF HashInv, TablesType

(* Nothing of the hash tables is destroyed before the queue is.            *)
LEMMA DestroyQueueHash ==
  ASSUME HashInv, UNCHANGED <<hashVars, mainHash, newCount, got, pc, ptr, want>>
  PROVE  HashInv'
  <1> USE DEF hashVars
  <1>1. TablesType' /\ LockInv'
    BY DEF HashInv, TablesType, LockInv, Cap
  <1>2. EntriesInv'
    BY TableSame DEF HashInv, EntriesInv
  <1>3. \A h, u : UpTo(h, u)' <=> UpTo(h, u)
    BY TablesSame
  <1>4. ASSUME NEW u \in Threads PROVE HashLocal(u)'
    <2>1. HashLocal(u)
      BY DEF HashInv
    <2> QED
      BY <1>3, <2>1, TablesSame DEF HashLocal, Busy, Chosen
  <1>5. RoomInv'
    <2>1. Counted' = Counted
      BY DEF Counted, Busy, Chosen
    <2>2. \A h, n : Claim(h, n)' = Claim(h, n)
      BY <1>3 DEF Claim, Busy, Chosen
    <2> QED
      BY <2>1, <2>2, TablesSame DEF HashInv, RoomInv
  <1> QED
    BY <1>1, <1>2, <1>4, <1>5 DEF HashInv

(* The flag is cleared after a failure.                                    *)
LEMMA GiveUpHash ==
  ASSUME ListInv, HashInv, NEW t \in Threads, GiveUp(t)
  PROVE  HashInv'
  <1> USE DEF GiveUp, Goto, listVars, tokenVars, walkVars, hashVars, localVars
  <1>h. /\ HashLocal(t) /\ implicitProducerHash = Len(tables)
        /\ Len(tables) \in Nat \ {0} /\ Len(tables) \in 1 .. Len(tables)
    BY DEF HashInv, TablesType
  <1>c. implicitProducerHashCount \in Nat
    BY HashAssumption, FS_Subset, FS_CardinalityType DEF HashInv, RoomInv, Counted
  <1>t. /\ Still(t) /\ tables' = tables /\ got' = got /\ implicitProducerHash' = implicitProducerHash
        /\ mainHash' \in [Threads -> Nat] /\ newCount' \in [Threads -> Nat]
    <2>1. Still(t)
      BY DEF ListInv, ListType, HashInv, TablesType, Still
    <2>2. mainHash' \in [Threads -> Nat] /\ newCount' \in [Threads -> Nat]
      BY <1>h, <1>c DEF HashInv, TablesType
    <2> QED
      BY <2>1, <2>2 DEF ListInv, ListType, HashInv, TablesType
  <1>b. /\ Busy(t)' => Busy(t) /\ newCount'[t] = newCount[t]
        /\ implicitProducerHashCount' = implicitProducerHashCount - (IF Busy(t) /\ ~Busy(t)' THEN 1 ELSE 0)
    BY <1>h, <1>c DEF ListInv, ListType, HashInv, TablesType, Busy, Chosen, Hashing, Underway, Walking
  <1>3. RoomInv'
    BY <1>t, <1>b, RoomKept
  <1>1. HashLocal(t)'
    BY <1>t, <1>h, TablesSame DEF ListInv, ListType, HashInv, TablesType, HashLocal, Busy, Chosen, Hashing, Underway,
       Walking
  <1>2. LockInv'
    BY <1>t DEF ListInv, ListType, HashInv, LockInv, Still, TablesType
  <1> QED
    BY <1>t, <1>1, <1>2, <1>3, MoveInv DEF HashInv, TablesType

(* The main table is loaded again.                                         *)
LEMMA ReloadHash ==
  ASSUME ListInv, HashInv, NEW t \in Threads, Reload(t)
  PROVE  HashInv'
  <1> USE DEF Reload, Goto, listVars, tokenVars, walkVars, hashVars, localVars
  <1>h. /\ HashLocal(t) /\ implicitProducerHash = Len(tables)
        /\ Len(tables) \in Nat \ {0} /\ Len(tables) \in 1 .. Len(tables)
    BY DEF HashInv, TablesType
  <1>c. implicitProducerHashCount \in Nat
    BY HashAssumption, FS_Subset, FS_CardinalityType DEF HashInv, RoomInv, Counted
  <1>t. /\ Still(t) /\ tables' = tables /\ got' = got /\ implicitProducerHash' = implicitProducerHash
        /\ mainHash' \in [Threads -> Nat] /\ newCount' \in [Threads -> Nat]
    <2>1. Still(t)
      BY DEF ListInv, ListType, HashInv, TablesType, Still
    <2>2. mainHash' \in [Threads -> Nat] /\ newCount' \in [Threads -> Nat]
      BY <1>h, <1>c DEF HashInv, TablesType
    <2> QED
      BY <2>1, <2>2 DEF ListInv, ListType, HashInv, TablesType
  <1>b. /\ Busy(t)' => Busy(t) /\ newCount'[t] = newCount[t]
        /\ implicitProducerHashCount' = implicitProducerHashCount - (IF Busy(t) /\ ~Busy(t)' THEN 1 ELSE 0)
    BY <1>h, <1>c DEF ListInv, ListType, HashInv, TablesType, Busy, Chosen, Hashing, Underway, Walking
  <1>3. RoomInv'
    BY <1>t, <1>b, RoomKept
  <1>1. HashLocal(t)'
    BY <1>t, <1>h, TablesSame DEF ListInv, ListType, HashInv, TablesType, HashLocal, Busy, Chosen, Hashing, Underway,
       Walking
  <1>2. LockInv'
    BY <1>t DEF ListInv, ListType, HashInv, LockInv, Still, TablesType
  <1> QED
    BY <1>t, <1>1, <1>2, <1>3, MoveInv DEF HashInv, TablesType

(* The count is taken back.                                                *)
LEMMA ResizeFailsHash ==
  ASSUME ListInv, HashInv, NEW t \in Threads, ResizeFails(t)
  PROVE  HashInv'
  <1> USE DEF ResizeFails, Return, Goto, listVars, tokenVars, walkVars, hashVars, localVars
  <1>h. /\ HashLocal(t) /\ implicitProducerHash = Len(tables)
        /\ Len(tables) \in Nat \ {0} /\ Len(tables) \in 1 .. Len(tables)
    BY DEF HashInv, TablesType
  <1>c. implicitProducerHashCount \in Nat
    BY HashAssumption, FS_Subset, FS_CardinalityType DEF HashInv, RoomInv, Counted
  <1>t. /\ Still(t) /\ tables' = tables /\ got' = got /\ implicitProducerHash' = implicitProducerHash
        /\ mainHash' \in [Threads -> Nat] /\ newCount' \in [Threads -> Nat]
    <2>1. Still(t)
      BY DEF ListInv, ListType, HashInv, TablesType, Still
    <2>2. mainHash' \in [Threads -> Nat] /\ newCount' \in [Threads -> Nat]
      BY <1>h, <1>c DEF HashInv, TablesType
    <2> QED
      BY <2>1, <2>2 DEF ListInv, ListType, HashInv, TablesType
  <1>b. /\ Busy(t)' => Busy(t) /\ newCount'[t] = newCount[t]
        /\ implicitProducerHashCount' = implicitProducerHashCount - (IF Busy(t) /\ ~Busy(t)' THEN 1 ELSE 0)
    BY <1>h, <1>c DEF ListInv, ListType, HashInv, TablesType, Busy, Chosen, Hashing, Underway, Walking
  <1>3. RoomInv'
    BY <1>t, <1>b, RoomKept
  <1>1. HashLocal(t)'
    BY <1>t, <1>h, TablesSame DEF ListInv, ListType, HashInv, TablesType, HashLocal, Busy, Chosen, Hashing, Underway,
       Walking
  <1>2. LockInv'
    BY <1>t DEF ListInv, ListType, HashInv, LockInv, Still, TablesType
  <1> QED
    BY <1>t, <1>1, <1>2, <1>3, MoveInv DEF HashInv, TablesType

(* The head of the loop.                                                   *)
LEMMA LoopHash ==
  ASSUME ListInv, HashInv, NEW t \in Threads, Loop(t)
  PROVE  HashInv'
  <1> USE DEF Loop, Decide, Fits, Recycle, Goto, listVars, tokenVars, walkVars, hashVars, localVars
  <1>h. /\ HashLocal(t) /\ implicitProducerHash = Len(tables)
        /\ Len(tables) \in Nat \ {0} /\ Len(tables) \in 1 .. Len(tables)
    BY DEF HashInv, TablesType
  <1>c. implicitProducerHashCount \in Nat
    BY HashAssumption, FS_Subset, FS_CardinalityType DEF HashInv, RoomInv, Counted
  <1>t. /\ Still(t) /\ tables' = tables /\ got' = got /\ implicitProducerHash' = implicitProducerHash
        /\ mainHash' \in [Threads -> Nat] /\ newCount' \in [Threads -> Nat]
    <2>1. Still(t)
      BY DEF ListInv, ListType, HashInv, TablesType, Still
    <2>2. mainHash' \in [Threads -> Nat] /\ newCount' \in [Threads -> Nat]
      BY <1>h, <1>c DEF HashInv, TablesType
    <2> QED
      BY <2>1, <2>2 DEF ListInv, ListType, HashInv, TablesType
  <1>b. /\ Busy(t)' => Busy(t) /\ newCount'[t] = newCount[t]
        /\ implicitProducerHashCount' = implicitProducerHashCount - (IF Busy(t) /\ ~Busy(t)' THEN 1 ELSE 0)
    BY <1>h, <1>c DEF ListInv, ListType, HashInv, TablesType, Busy, Chosen, Hashing, Underway, Walking
  <1>3. RoomInv'
    BY <1>t, <1>b, RoomKept
  <1>1. HashLocal(t)'
    <2>1. pc[t] = "loop" /\ newCount'[t] = newCount[t] /\ got'[t] = got[t]
      BY <1>t
    <2>2. \/ pc'[t] = "resize" /\ mainHash'[t] = Len(tables)
          \/ pc'[t] = "reload" /\ mainHash'[t] = mainHash[t]
          \/ pc'[t] = "visit" /\ mainHash'[t] = mainHash[t] /\ newCount[t] < Limit(mainHash[t])
      BY <1>h DEF ListInv, ListType, HashInv, TablesType, Limit, Cap
    <2>3. \A h : (UpTo(h, t)' <=> UpTo(h, t)) /\ Limit(h)' = Limit(h)
      BY <1>t, TablesSame
    <2> QED
      BY <1>t, <1>h, <2>1, <2>2, <2>3 DEF HashLocal, Busy, Chosen, Hashing, Underway, Walking
  <1>2. LockInv'
    BY <1>t DEF ListInv, ListType, HashInv, LockInv, Still, TablesType
  <1> QED
    BY <1>t, <1>1, <1>2, <1>3, MoveInv DEF HashInv, TablesType

(* The flag is cleared and the table is chosen, or not.                    *)
LEMMA UnlockHash ==
  ASSUME ListInv, HashInv, NEW t \in Threads, Unlock(t)
  PROVE  HashInv'
  <1> USE DEF Unlock, Decide, Fits, Recycle, Goto, listVars, tokenVars, walkVars, hashVars, localVars
  <1>h. /\ HashLocal(t) /\ implicitProducerHash = Len(tables)
        /\ Len(tables) \in Nat \ {0} /\ Len(tables) \in 1 .. Len(tables)
    BY DEF HashInv, TablesType
  <1>c. implicitProducerHashCount \in Nat
    BY HashAssumption, FS_Subset, FS_CardinalityType DEF HashInv, RoomInv, Counted
  <1>t. /\ Still(t) /\ tables' = tables /\ got' = got /\ implicitProducerHash' = implicitProducerHash
        /\ mainHash' \in [Threads -> Nat] /\ newCount' \in [Threads -> Nat]
    <2>1. Still(t)
      BY DEF ListInv, ListType, HashInv, TablesType, Still
    <2>2. mainHash' \in [Threads -> Nat] /\ newCount' \in [Threads -> Nat]
      BY <1>h, <1>c DEF HashInv, TablesType
    <2> QED
      BY <2>1, <2>2 DEF ListInv, ListType, HashInv, TablesType
  <1>b. /\ Busy(t)' => Busy(t) /\ newCount'[t] = newCount[t]
        /\ implicitProducerHashCount' = implicitProducerHashCount - (IF Busy(t) /\ ~Busy(t)' THEN 1 ELSE 0)
    BY <1>h, <1>c DEF ListInv, ListType, HashInv, TablesType, Busy, Chosen, Hashing, Underway, Walking
  <1>3. RoomInv'
    BY <1>t, <1>b, RoomKept
  <1>1. HashLocal(t)'
    BY <1>t, <1>h, TablesSame DEF ListInv, ListType, HashInv, TablesType, HashLocal, Busy, Chosen, Hashing, Underway,
       Walking, Limit, Cap
  <1>2. LockInv'
    <2>1. \A u \in Threads \ {t} : pc'[u] = pc[u] /\ pc[u] \notin {"resize", "unlock", "giveUp"}
      BY <1>t DEF ListInv, ListType, HashInv, LockInv, Still
    <2>2. pc'[t] \notin {"resize", "unlock", "giveUp"}
      BY DEF ListInv, ListType
    <2> QED
      BY <2>1, <2>2 DEF LockInv
  <1> QED
    BY <1>t, <1>1, <1>2, <1>3, MoveInv DEF HashInv, TablesType

(* The thread is counted.                                                  *)
LEMMA CountHash ==
  ASSUME ListInv, HashInv, NEW t \in Threads, Count(t)
  PROVE  HashInv'
  <1> USE DEF Count, Goto, listVars, tokenVars, walkVars, hashVars, localVars
  <1>h. /\ HashLocal(t) /\ implicitProducerHash = Len(tables)
        /\ Len(tables) \in Nat \ {0} /\ Len(tables) \in 1 .. Len(tables)
    BY DEF HashInv, TablesType
  <1>c. implicitProducerHashCount \in Nat
    BY HashAssumption, FS_Subset, FS_CardinalityType DEF HashInv, RoomInv, Counted
  <1>t. /\ Still(t) /\ tables' = tables /\ got' = got /\ implicitProducerHash' = implicitProducerHash
        /\ mainHash' \in [Threads -> Nat] /\ newCount' \in [Threads -> Nat]
    <2>1. Still(t)
      BY DEF ListInv, ListType, HashInv, TablesType, Still
    <2>2. mainHash' \in [Threads -> Nat] /\ newCount' \in [Threads -> Nat]
      BY <1>h, <1>c DEF HashInv, TablesType
    <2> QED
      BY <2>1, <2>2 DEF ListInv, ListType, HashInv, TablesType
  <1>b. Busy(t)' /\ ~Busy(t) /\ got[t] = {} /\ newCount'[t] = implicitProducerHashCount'
    BY <1>h, <1>c DEF ListInv, ListType, HashInv, TablesType, HashLocal, Busy, Chosen, Underway, Walking
  <1>3. RoomInv' /\ newCount'[t] \in Nat \ {0}
    BY <1>t, <1>b, RoomCounts
  <1>1. HashLocal(t)'
    BY <1>t, <1>h, TablesSame, <1>3 DEF ListInv, ListType, HashInv, TablesType, HashLocal, Busy, Chosen, Hashing, Underway,
       Walking
  <1>2. LockInv'
    BY <1>t DEF ListInv, ListType, HashInv, LockInv, Still, TablesType
  <1> QED
    BY <1>t, <1>1, <1>2, <1>3, MoveInv DEF HashInv, TablesType

(* There is no producer: the count is taken back.                          *)
LEMMA InsertFailsHash ==
  ASSUME ListInv, HashInv, NEW t \in Threads, Insert(t), ptr[t] = Null
  PROVE  HashInv'
  <1> USE DEF Insert, Return, Goto, listVars, tokenVars, walkVars, hashVars, localVars
  <1>h. /\ HashLocal(t) /\ implicitProducerHash = Len(tables)
        /\ Len(tables) \in Nat \ {0} /\ Len(tables) \in 1 .. Len(tables)
    BY DEF HashInv, TablesType
  <1>c. implicitProducerHashCount \in Nat
    BY HashAssumption, FS_Subset, FS_CardinalityType DEF HashInv, RoomInv, Counted
  <1>t. /\ Still(t) /\ tables' = tables /\ got' = got /\ implicitProducerHash' = implicitProducerHash
        /\ mainHash' \in [Threads -> Nat] /\ newCount' \in [Threads -> Nat]
    <2>1. Still(t)
      BY DEF ListInv, ListType, HashInv, TablesType, Still
    <2>2. mainHash' \in [Threads -> Nat] /\ newCount' \in [Threads -> Nat]
      BY <1>h, <1>c DEF HashInv, TablesType
    <2> QED
      BY <2>1, <2>2 DEF ListInv, ListType, HashInv, TablesType
  <1>b. /\ Busy(t)' => Busy(t) /\ newCount'[t] = newCount[t]
        /\ implicitProducerHashCount' = implicitProducerHashCount - (IF Busy(t) /\ ~Busy(t)' THEN 1 ELSE 0)
    BY <1>h, <1>c DEF ListInv, ListType, HashInv, TablesType, Busy, Chosen, Hashing, Underway, Walking
  <1>3. RoomInv'
    BY <1>t, <1>b, RoomKept
  <1>1. HashLocal(t)'
    BY <1>t, <1>h, TablesSame DEF ListInv, ListType, HashInv, TablesType, HashLocal, Busy, Chosen, Hashing, Underway,
       Walking
  <1>2. LockInv'
    BY <1>t DEF ListInv, ListType, HashInv, LockInv, Still, TablesType
  <1> QED
    BY <1>t, <1>1, <1>2, <1>3, MoveInv DEF HashInv, TablesType

(* A lookup finds the ids that are in the tables, and with them what the   *)
(* thread has got.                                                         *)
LEMMA LookupFinds ==
  ASSUME HashInv, NEW t \in Threads
  PROVE  /\ \A h \in 1 .. Len(tables) : h \in Holders(Len(tables), t) <=> InTable(h, t)
         /\ Holders(Len(tables), t) \subseteq 1 .. Len(tables)
         /\ Holders(Len(tables), t) # {} => got[t] = {Value(Len(tables), t)}
  <1>0. TablesType /\ EntriesInv /\ RoomInv /\ Len(tables) \in 1 .. Len(tables) /\ Len(tables) \in Nat
    BY DEF HashInv, TablesType
  <1>1. Behind(Len(tables)) = 1 .. Len(tables)
    BY <1>0, BehindAll
  <1>2. \A h \in 1 .. Len(tables) : /\ Has(h, t) <=> InTable(h, t)
                                    /\ Slot(h, t) \in 0 .. Cap(h) - 1
                                    /\ InTable(h, t) => At(h, Slot(h, t)).key = t
    BY <1>0, RoomLeft, SlotHas
  <1>3. PICK H : H = Holders(Len(tables), t)
    OBVIOUS
  <1>4. \A h : h \in H <=> h \in 1 .. Len(tables) /\ InTable(h, t)
    BY <1>1, <1>2, <1>3 DEF Holders
  <1>5. ASSUME H # {} PROVE got[t] = {Value(Len(tables), t)}
    <2>1. H \subseteq 0 .. Len(tables)
      BY <1>0, <1>4
    <2>2. PICK g \in H : g = Max(H)
      BY <1>0, <1>5, <2>1, MaxIsGreatest
    <2>3. At(g, Slot(g, t)).key = t /\ g \in 1 .. Len(tables) /\ Slot(g, t) \in 0 .. Cap(g) - 1
      BY <1>2, <1>4
    <2>4. t # Empty.key
      BY HashAssumption DEF Empty
    <2>5. got[t] = {At(g, Slot(g, t)).value}
      BY <1>0, <2>3, <2>4 DEF EntriesInv, TableInv
    <2>6. Value(Len(tables), t) = At(g, Slot(g, t)).value
      BY <1>3, <2>2 DEF Value, At
    <2> QED
      BY <2>5, <2>6
  <1> QED
    BY <1>3, <1>4, <1>5

(* A call begins, and may end at once.                                     *)
LEMMA LookupHash ==
  ASSUME ListInv, HashInv, NEW t \in Threads, Lookup(t)
  PROVE  HashInv' /\ got' = got /\ \E p \in NullOr(Producers) : ptr' \in {ptr, [ptr EXCEPT ![t] = p]}
  <1> USE DEF Lookup, Goto, listVars, tokenVars, hashVars, localVars
  <1>h. /\ HashLocal(t) /\ implicitProducerHash = Len(tables)
        /\ Len(tables) \in Nat \ {0} /\ Len(tables) \in 1 .. Len(tables)
    BY DEF HashInv, TablesType
  <1>c. implicitProducerHashCount \in Nat
    BY HashAssumption, FS_Subset, FS_CardinalityType DEF HashInv, RoomInv, Counted
  <1>f. PICK F : F = Holders(Len(tables), t)
    OBVIOUS
  <1>v. PICK v : v = Value(Len(tables), t)
    OBVIOUS
  <1>l. /\ \A g \in 1 .. Len(tables) : g \in F <=> InTable(g, t)
        /\ F \subseteq 1 .. Len(tables)
        /\ F # {} => got[t] = {v}
    BY <1>f, <1>v, LookupFinds
  <1>g. got \in [Threads -> SUBSET Producers] /\ pc[t] = "idle" /\ want[t] = NoToken
    BY DEF ListInv, ListType, WantInv, Walking
  <1>a. \/ Len(tables) \in F /\ got' = [got EXCEPT ![t] = @ \cup {v}] /\ UNCHANGED <<pc, mainHash, ptr>>
        \/ /\ F # {} /\ Len(tables) \notin F /\ mainHash' = [mainHash EXCEPT ![t] = Len(tables)]
           /\ ptr' = [ptr EXCEPT ![t] = v] /\ pc' = [pc EXCEPT ![t] = "forward"] /\ got' = got
        \/ /\ F = {} /\ mainHash' = [mainHash EXCEPT ![t] = Len(tables)]
           /\ pc' = [pc EXCEPT ![t] = "count"] /\ UNCHANGED <<got, ptr>>
    BY <1>h, <1>f, <1>v
  <1>2. got' = got
    BY <1>a, <1>l, <1>g
  <1>3. \E p \in NullOr(Producers) : ptr' \in {ptr, [ptr EXCEPT ![t] = p]}
    <2>1. F # {} => v \in NullOr(Producers)
      BY <1>l, <1>g DEF NullOr
    <2>2. Null \in NullOr(Producers)
      BY DEF NullOr
    <2> QED
      BY <1>a, <2>1, <2>2
  <1>t. Still(t) /\ mainHash' \in [Threads -> Nat] /\ newCount' = newCount
    <2>1. \A u \in Threads \ {t} : pc'[u] = pc[u] /\ ptr'[u] = ptr[u]
      BY <1>a DEF ListInv, ListType
    <2>2. mainHash' \in [Threads -> Nat] /\ \A u \in Threads \ {t} : mainHash'[u] = mainHash[u]
      BY <1>a, <1>h DEF HashInv, TablesType
    <2> QED
      BY <2>1, <2>2 DEF Still
  <1>b. ~Busy(t) /\ ~Busy(t)'
    BY <1>a, <1>g DEF Busy, Chosen, Underway, Walking, ListInv, ListType
  <1>4. RoomInv'
    BY <1>t, <1>2, <1>b, <1>c, RoomKept
  <1>5. LockInv'
    <2>1. \A u \in Threads : pc'[u] \in {"resize", "unlock", "giveUp"} => pc[u] = pc'[u]
      <3>1. pc'[t] \in {"idle", "forward", "count"}
        BY <1>a, <1>g DEF ListInv, ListType
      <3> QED
        BY <1>t, <3>1 DEF Still
    <2> QED
      BY <2>1 DEF HashInv, LockInv
  <1>6. HashLocal(t)'
    <2>1. \A h : (UpTo(h, t)' <=> UpTo(h, t)) /\ (InTable(h, t)' <=> InTable(h, t))
      BY TablesSame
    <2>2. CASE pc' = pc
      BY <1>g, <1>h, <1>2, <2>1, <2>2 DEF HashLocal, Busy, Chosen, Underway, Walking, Hashing
    <2>3. CASE pc'[t] = "forward" /\ mainHash'[t] = Len(tables) /\ F # {} /\ Len(tables) \notin F /\ ptr'[t] = v
      <3>1. UpTo(Len(tables), t)
        BY <1>h, <1>l, <2>3 DEF UpTo
      <3>2. ~InTable(Len(tables), t) /\ v \in got[t]
        BY <1>h, <1>l, <2>3
      <3> QED
        BY <1>h, <1>2, <2>1, <2>3, <3>1, <3>2 DEF HashLocal, Busy, Chosen, Underway, Walking
    <2>4. CASE pc'[t] = "count" /\ mainHash'[t] = Len(tables) /\ F = {}
      <3>1. ~UpTo(Len(tables), t)
        BY <1>h, <1>l, <2>4 DEF UpTo
      <3>2. got[t] = {}
        BY <1>h, <3>1 DEF HashLocal
      <3> QED
        BY <1>h, <1>2, <2>1, <2>4, <3>2 DEF HashLocal, Busy, Chosen, Underway, Walking
    <2> QED
      BY <1>a, <2>2, <2>3, <2>4 DEF ListInv, ListType, HashInv, TablesType
  <1> QED
    BY <1>2, <1>3, <1>t, <1>4, <1>5, <1>6, MoveInv DEF HashInv, TablesType

-----------------------------------------------------------------------------
(* The steps that write into the tables                                    *)

(* An id that is not in table h is written into an empty slot of it.       *)
LEMMA PutInTable ==
  ASSUME TablesType, EntriesInv, NEW h \in 1 .. Len(tables), NEW t \in Threads, Room(h), ~InTable(h, t),
         NEW p \in Producers, PutIn(h, t, p)
  PROVE  /\ tables' \in Seq(Table) /\ Len(tables') = Len(tables) /\ Slot(h, t) \in 0 .. Cap(h) - 1
         /\ \A g \in 1 .. Len(tables) : Cap(g)' = Cap(g) /\ tables'[g].prev = tables[g].prev
         /\ \A g \in (1 .. Len(tables)) \ {h} : tables'[g] = tables[g]
         /\ tables'[h].entries = [tables[h].entries EXCEPT ![Slot(h, t)] = [key |-> t, value |-> p]]
         /\ tables'[h].entries \in [0 .. Cap(h) - 1 -> Entry]
  <1>1. Slot(h, t) \in 0 .. Cap(h) - 1
    BY SlotHas
  <1>2. PICK e : e = [key |-> t, value |-> p]
    OBVIOUS
  <1>3. e \in Entry
    BY <1>2 DEF Entry, NullOr
  <1>4. tables \in Seq(Table) /\ DOMAIN tables = 1 .. Len(tables) /\ Len(tables) \in Nat
    BY DEF TablesType
  <1>5. tables[h] \in Table /\ tables[h].entries \in [0 .. Cap(h) - 1 -> Entry] /\ Cap(h) \in Nat
    BY TableType
  <1>6. PICK E : E = [tables[h].entries EXCEPT ![Slot(h, t)] = e]
    OBVIOUS
  <1>7. E \in [0 .. Cap(h) - 1 -> Entry]
    BY <1>1, <1>3, <1>5, <1>6
  <1>8. PICK r : r = [tables[h] EXCEPT !.entries = E]
    OBVIOUS
  <1>9. r \in Table /\ r.capacity = tables[h].capacity /\ r.prev = tables[h].prev /\ r.entries = E
    BY <1>5, <1>7, <1>8 DEF Table
  <1>10. tables' = [tables EXCEPT ![h] = r]
    BY <1>2, <1>6, <1>8 DEF PutIn
  <1>11. tables' \in Seq(Table) /\ Len(tables') = Len(tables)
    BY <1>4, <1>9, <1>10
  <1>12. tables'[h] = r /\ \A g \in (1 .. Len(tables)) \ {h} : tables'[g] = tables[g]
    BY <1>4, <1>10
  <1>13. \A g \in 1 .. Len(tables) : tables'[g].capacity = tables[g].capacity /\ tables'[g].prev = tables[g].prev
    BY <1>9, <1>12
  <1> QED
    BY <1>1, <1>2, <1>6, <1>7, <1>9, <1>11, <1>12, <1>13 DEF Cap

(* The tables stay as they should be, and have one id more.                *)
LEMMA PutInEntries ==
  ASSUME TablesType, EntriesInv, NEW h \in 1 .. Len(tables), NEW t \in Threads, Room(h), ~InTable(h, t),
         NEW p \in Producers, PutIn(h, t, p),
         got'[t] = {p}, got[t] \in {{}, {p}}, \A u \in Threads \ {t} : got'[u] = got[u]
  PROVE  /\ EntriesInv'
         /\ \A g \in 1 .. Len(tables), u \in Threads : InTable(g, u)' <=> InTable(g, u) \/ (g = h /\ u = t)
  <1>1. PICK s \in 0 .. Cap(h) - 1 : s = Slot(h, t)
    BY PutInTable
  <1>2. /\ Len(tables') = Len(tables) /\ \A g \in 1 .. Len(tables) : Cap(g)' = Cap(g)
        /\ \A g \in (1 .. Len(tables)) \ {h} : tables'[g] = tables[g]
        /\ tables'[h].entries = [tables[h].entries EXCEPT ![s] = [key |-> t, value |-> p]]
    <2>1. Len(tables') = Len(tables) /\ \A g \in 1 .. Len(tables) : Cap(g)' = Cap(g)
      BY PutInTable
    <2>2. \A g \in (1 .. Len(tables)) \ {h} : tables'[g] = tables[g]
      BY PutInTable
    <2>3. tables'[h].entries = [tables[h].entries EXCEPT ![Slot(h, t)] = [key |-> t, value |-> p]]
      BY PutInTable
    <2> QED
      BY <1>1, <2>1, <2>2, <2>3
  <1>3. /\ Cap(h) \in Nat \ {0} /\ tables[h].entries \in [0 .. Cap(h) - 1 -> Entry]
        /\ \A u \in Threads, k \in Nat : Probe(h, u, k) \in 0 .. Cap(h) - 1
    BY TableType
  <1>4. At(h, s)' = [key |-> t, value |-> p] /\ \A i \in (0 .. Cap(h) - 1) \ {s} : At(h, i)' = At(h, i)
    BY <1>2, <1>3 DEF At
  <1>5. At(h, s) = Empty /\ \A i \in 0 .. Cap(h) - 1 : At(h, i).key # t
    BY <1>1, SlotHas DEF InTable
  <1>6. PICK m \in 0 .. Cap(h) - 1 :
          /\ s = Probe(h, t, m)
          /\ \A j \in 0 .. m - 1 : At(h, Probe(h, t, j)).key \notin {t, Empty.key}
    BY <1>1, SlotFound
  <1>7. \A u, k : Probe(h, u, k)' = Probe(h, u, k)
    BY <1>2 DEF Probe
  <1>e. t # Empty.key /\ \A i \in 0 .. Cap(h) - 1 : At(h, i) \in Entry
    BY HashAssumption, TableType DEF Empty
  <1>8. TableInv(h)'
    <2>0. TableInv(h) /\ Cap(h)' = Cap(h)
      BY <1>2 DEF EntriesInv
    <2>1. \A i, j \in 0 .. Cap(h) - 1 : At(h, i)'.key = At(h, j)'.key /\ At(h, i)'.key # Empty.key => i = j
      BY <1>4, <1>5, <2>0 DEF TableInv
    <2>2. ASSUME NEW u \in Threads, NEW k \in 0 .. Cap(h) - 1, At(h, Probe(h, u, k))'.key = u,
                 NEW j \in 0 .. k - 1
          PROVE  At(h, Probe(h, u, j))'.key # Empty.key
      <3>1. k \in Nat /\ j \in Nat /\ Probe(h, u, k) \in 0 .. Cap(h) - 1 /\ Probe(h, u, j) \in 0 .. Cap(h) - 1
        <4>1. k \in Nat /\ j \in Nat
          BY <1>3, <2>2
        <4> QED
          BY <1>3, <4>1
      <3>2. Probe(h, u, j) = s => At(h, Probe(h, u, j))'.key # Empty.key
        BY <1>4, <1>e, <1>7
      <3>3. CASE u = t
        <4>1. Probe(h, t, k) = s
          BY <1>4, <1>5, <1>7, <2>2, <3>1, <3>3
        <4>2. HashOf[t] \in Nat
          BY HashAssumption
        <4>3. k = m
          BY <1>3, <1>6, <4>1, <4>2, ProbeOnce DEF Probe
        <4>4. At(h, Probe(h, t, j)).key # Empty.key
          BY <1>6, <2>2, <4>3
        <4> QED
          BY <1>4, <1>7, <3>1, <3>2, <3>3, <4>4
      <3>4. CASE u # t
        <4>1. At(h, Probe(h, u, k)).key = u
          BY <1>4, <1>7, <2>2, <3>1, <3>4
        <4>2. At(h, Probe(h, u, j)).key # Empty.key
          BY <2>0, <2>2, <4>1 DEF TableInv
        <4> QED
          BY <1>4, <1>7, <3>1, <3>2, <4>2
      <3> QED
        BY <3>3, <3>4
    <2>3. ASSUME NEW i \in 0 .. Cap(h) - 1
          PROVE  /\ At(h, i)'.key = Empty.key => At(h, i)' = Empty
                 /\ At(h, i)'.key # Empty.key => got'[At(h, i)'.key] = {At(h, i)'.value}
      <3>1. CASE i = s
        BY <1>4, <1>e, <3>1
      <3>2. CASE i # s
        <4>1. At(h, i)' = At(h, i) /\ At(h, i).key # t /\ At(h, i) \in Entry
          BY <1>4, <1>5, <1>e, <3>2
        <4>2. At(h, i).key # Empty.key => At(h, i).key \in Threads \ {t}
          BY <4>1 DEF Entry
        <4> QED
          BY <2>0, <4>1, <4>2 DEF TableInv
      <3> QED
        BY <3>1, <3>2
    <2> QED
      BY <2>0, <2>1, <2>2, <2>3, <1>7 DEF TableInv
  <1>9. ASSUME NEW g \in 1 .. Len(tables), g # h PROVE TableInv(g)'
    <2>1. TableInv(g) /\ tables'[g] = tables[g]
      BY <1>2, <1>9 DEF EntriesInv
    <2>2. ASSUME NEW i \in 0 .. Cap(g) - 1, At(g, i).key # Empty.key
          PROVE  got'[At(g, i).key] = got[At(g, i).key]
      <3>1. At(g, i).key \in Threads
        BY <2>2, TableType DEF Entry
      <3>2. got[At(g, i).key] = {At(g, i).value}
        BY <2>1, <2>2 DEF TableInv
      <3> QED
        BY <3>1, <3>2
    <2> QED
      BY <2>1, <2>2, TableSame
  <1>10. EntriesInv'
    BY <1>2, <1>8, <1>9 DEF EntriesInv
  <1>11. ASSUME NEW g \in 1 .. Len(tables), NEW u \in Threads
         PROVE  InTable(g, u)' <=> InTable(g, u) \/ (g = h /\ u = t)
    <2>1. CASE g = h
      <3>1. Cap(h)' = Cap(h)
        BY <1>2
      <3>2. At(h, s)'.key = t /\ At(h, s).key = Empty.key /\ u # Empty.key
        BY <1>4, <1>5, HashAssumption DEF Empty
      <3> QED
        BY <1>4, <1>5, <2>1, <3>1, <3>2 DEF InTable
    <2>2. CASE g # h
      BY <1>2, <2>2 DEF InTable, At, Cap
    <2> QED
      BY <2>1, <2>2
  <1> QED
    BY <1>10, <1>11

(* A thread puts its id into its table: forward, or for the first time.    *)
LEMMA PutInHash ==
  ASSUME HashInv, NEW t \in Threads, NEW p \in Producers, NEW h \in 1 .. Len(tables), ~InTable(h, t), PutIn(h, t, p),
         got'[t] = {p}, got[t] \in {{}, {p}}, \A u \in Threads \ {t} : got'[u] = got[u],
         Still(t), pc'[t] = "idle", pc[t] \notin {"resize", "unlock", "giveUp"}, t \in Counted,
         \A g \in 1 .. Len(tables), n \in Nat : h <= g /\ Limit(g) <= n + 1 => t \in Claim(g, n),
         mainHash' \in [Threads -> Nat], newCount' \in [Threads -> Nat],
         UNCHANGED <<implicitProducerHash, implicitProducerHashCount, resizeInProgress>>
  PROVE  HashInv'
  <1>0. TablesType /\ EntriesInv /\ RoomInv /\ Room(h) /\ Len(tables) \in Nat
    <2>1. TablesType /\ EntriesInv /\ RoomInv
      BY DEF HashInv
    <2>2. Len(tables) \in Nat
      BY <2>1 DEF TablesType
    <2>3. Room(h)
      BY <2>1, RoomLeft
    <2> QED
      BY <2>1, <2>2, <2>3
  <1>1. /\ tables' \in Seq(Table) /\ Len(tables') = Len(tables) /\ Slot(h, t) \in 0 .. Cap(h) - 1
        /\ \A g \in 1 .. Len(tables) : Cap(g)' = Cap(g) /\ tables'[g].prev = tables[g].prev
        /\ \A g \in (1 .. Len(tables)) \ {h} : tables'[g] = tables[g]
        /\ tables'[h].entries \in [0 .. Cap(h) - 1 -> Entry]
    <2>1. /\ tables' \in Seq(Table) /\ Len(tables') = Len(tables) /\ Slot(h, t) \in 0 .. Cap(h) - 1
          /\ \A g \in 1 .. Len(tables) : Cap(g)' = Cap(g) /\ tables'[g].prev = tables[g].prev
      BY <1>0, PutInTable
    <2>2. \A g \in (1 .. Len(tables)) \ {h} : tables'[g] = tables[g]
      BY <1>0, PutInTable
    <2>3. tables'[h].entries \in [0 .. Cap(h) - 1 -> Entry]
      BY <1>0, PutInTable
    <2> QED
      BY <2>1, <2>2, <2>3
  <1>2. /\ EntriesInv'
        /\ \A g \in 1 .. Len(tables), u \in Threads : InTable(g, u)' <=> InTable(g, u) \/ (g = h /\ u = t)
    BY <1>0, PutInEntries
  <1>3. TablesType'
    <2>1. ASSUME NEW g \in 1 .. Len(tables) PROVE tables'[g].entries \in [0 .. Cap(g) - 1 -> Entry]
      <3>1. tables[g].entries \in [0 .. Cap(g) - 1 -> Entry]
        BY <1>0, TableType
      <3>2. CASE g = h
        BY <1>1, <3>2
      <3>3. CASE g # h
        BY <1>1, <3>1, <3>3
      <3> QED
        BY <3>2, <3>3
    <2>2. \A g \in 1 .. Len(tables) : tables'[g].prev = g - 1 /\ tables'[g].entries \in [0 .. Cap(g)' - 1 -> Entry]
      BY <1>0, <1>1, <2>1 DEF TablesType
    <2>3. \A f, g \in 1 .. Len(tables) : f <= g => Cap(f)' <= Cap(g)'
      BY <1>0, <1>1 DEF TablesType
    <2> QED
      BY <1>0, <1>1, <2>2, <2>3 DEF TablesType
  <1>4. \A g \in 1 .. Len(tables), u \in Threads : UpTo(g, u)' <=> UpTo(g, u) \/ (h <= g /\ u = t)
    <2> SUFFICES ASSUME NEW g \in 1 .. Len(tables), NEW u \in Threads
                 PROVE  UpTo(g, u)' <=> UpTo(g, u) \/ (h <= g /\ u = t)
      OBVIOUS
    <2>1. \A f \in 1 .. g : f \in 1 .. Len(tables)
      BY <1>0
    <2>2. h \in 1 .. g <=> h <= g
      BY <1>0
    <2> QED
      BY <1>2, <2>1, <2>2 DEF UpTo
  <1>5. \A g \in 1 .. Len(tables) : Limit(g)' = Limit(g)
    BY <1>1 DEF Limit
  <1>6. ASSUME NEW u \in Threads PROVE HashLocal(u)'
    <2>1. HashLocal(u) /\ Len(tables) \in 1 .. Len(tables) /\ h <= Len(tables)
      BY <1>0 DEF HashInv, TablesType
    <2>2. CASE u = t
      <3>0. PICK n \in 1 .. Len(tables) : n = Len(tables)
        BY <2>1
      <3>1. UpTo(n, u)' /\ n = Len(tables')
        BY <1>1, <1>4, <2>1, <2>2, <3>0
      <3> QED
        BY <2>2, <3>1 DEF HashLocal, Busy, Chosen, Hashing, Underway, Walking
    <2>3. CASE u # t
      <3>1. /\ pc'[u] = pc[u] /\ want'[u] = want[u] /\ ptr'[u] = ptr[u]
            /\ mainHash'[u] = mainHash[u] /\ newCount'[u] = newCount[u] /\ got'[u] = got[u]
        BY <2>3 DEF Still
      <3>2. /\ \A g \in 1 .. Len(tables) : (UpTo(g, u)' <=> UpTo(g, u)) /\ (InTable(g, u)' <=> InTable(g, u))
            /\ Len(tables') = Len(tables)
        BY <1>1, <1>2, <1>4, <2>3
      <3>3. (Busy(u)' <=> Busy(u)) /\ (Chosen(u)' <=> Chosen(u))
        BY <3>1 DEF Busy, Chosen
      <3> QED
        BY <1>5, <2>1, <3>1, <3>2, <3>3 DEF HashLocal, Hashing
    <2> QED
      BY <2>2, <2>3
  <1>7. LockInv'
    BY DEF HashInv, LockInv, Still
  <1>8. RoomInv'
    <2>1. \A u \in Threads \ {t} : (Busy(u)' <=> Busy(u)) /\ newCount'[u] = newCount[u]
      BY DEF Still, Busy, Chosen
    <2>2. Counted' = Counted
      BY <2>1 DEF Counted
    <2>3. ~Busy(t)'
      BY DEF Busy, Chosen, Underway, Walking
    <2>4. ASSUME NEW g \in 1 .. Len(tables), NEW n \in Nat, Limit(g) <= n + 1
          PROVE  Cardinality(Claim(g, n)') <= n
      <3>1. Claim(g, n)' \subseteq Claim(g, n)
        BY <1>4, <2>1, <2>3, <2>4 DEF Claim
      <3>2. IsFiniteSet(Claim(g, n)) /\ Cardinality(Claim(g, n)) <= n
        BY <1>0, <2>4, HashAssumption, FS_Subset DEF RoomInv, Claim
      <3>3. IsFiniteSet(Claim(g, n)') /\ Cardinality(Claim(g, n)') <= Cardinality(Claim(g, n))
        BY <3>1, <3>2, FS_Subset
      <3>4. Cardinality(Claim(g, n)) \in Nat /\ Cardinality(Claim(g, n)') \in Nat
        BY <3>2, <3>3, FS_CardinalityType
      <3> QED
        BY <3>2, <3>3, <3>4
    <2> QED
      BY <1>0, <1>1, <1>5, <2>2, <2>4 DEF RoomInv
  <1> QED
    BY <1>2, <1>3, <1>6, <1>7, <1>8 DEF HashInv

(* An id is moved forward.                                                 *)
LEMMA ForwardHash ==
  ASSUME ListInv, HashInv, NEW t \in Threads, Forward(t)
  PROVE  HashInv' /\ got' = got
  <1> USE DEF Forward, Return, Goto, listVars, tokenVars
  <1>1. /\ HashLocal(t) /\ mainHash[t] \in 1 .. Len(tables) /\ ~InTable(mainHash[t], t) /\ UpTo(mainHash[t], t)
        /\ ptr[t] \in got[t]
    BY DEF HashInv, HashLocal, Hashing
  <1>2. got[t] = {ptr[t]} /\ ptr[t] \in Producers /\ ptr[t] # Null
    <2>1. \A x, y \in got[t] : x = y
      BY DEF ListInv, OwnInv
    <2>2. got[t] \subseteq Producers
      BY DEF ListInv, ListType
    <2> QED
      BY <1>1, <2>1, <2>2 DEF Producers, Null
  <1>3. got' = got
    BY <1>2 DEF ListInv, ListType
  <1>4. Still(t) /\ pc'[t] = "idle" /\ mainHash' \in [Threads -> Nat] /\ newCount' \in [Threads -> Nat]
    BY DEF ListInv, ListType, HashInv, TablesType, Still
  <1>5. t \in Counted
    BY <1>2 DEF Counted
  <1>6. ASSUME NEW g \in 1 .. Len(tables), mainHash[t] <= g, NEW n \in Nat PROVE t \in Claim(g, n)
    <2>1. PICK f \in 1 .. mainHash[t] : InTable(f, t)
      BY <1>1 DEF UpTo
    <2>2. f \in 1 .. g
      BY <1>1, <1>6, <2>1
    <2> QED
      BY <2>1, <2>2 DEF UpTo, Claim
  <1>7. PICK h \in 1 .. Len(tables) : h = mainHash[t]
    BY <1>1
  <1>8. ~InTable(h, t) /\ PutIn(h, t, ptr[t]) /\ \A g \in 1 .. Len(tables), n \in Nat : h <= g => t \in Claim(g, n)
    BY <1>1, <1>6, <1>7
  <1>9. pc[t] \notin {"resize", "unlock", "giveUp"} /\ got'[t] = {ptr[t]}
    BY <1>2, <1>3
  <1> QED
    BY <1>2, <1>3, <1>4, <1>5, <1>8, <1>9, PutInHash

(* The id of a thread that has got a producer is put into the table.       *)
LEMMA InsertHash ==
  ASSUME ListInv, HashInv, NEW t \in Threads, Insert(t), ptr[t] # Null
  PROVE  HashInv'
  <1> USE DEF Insert, Return, Goto, listVars, tokenVars
  <1>1. /\ HashLocal(t) /\ Chosen(t) /\ Busy(t) /\ mainHash[t] \in 1 .. Len(tables) /\ got[t] = {}
        /\ newCount[t] \in Nat /\ newCount[t] < Limit(mainHash[t])
    BY DEF HashInv, TablesType, HashLocal, Chosen, Busy, Walking
  <1>2. PICK h \in 1 .. Len(tables) : h = mainHash[t]
    BY <1>1
  <1>3. ptr[t] \in Producers
    BY DEF ListInv, ListType, NullOr
  <1>4. got'[t] = {ptr[t]} /\ \A u \in Threads \ {t} : got'[u] = got[u]
    BY <1>1 DEF ListInv, ListType
  <1>5. Still(t) /\ pc'[t] = "idle" /\ mainHash' \in [Threads -> Nat] /\ newCount' \in [Threads -> Nat]
    BY DEF ListInv, ListType, HashInv, TablesType, Still
  <1>6. t \in Counted
    BY <1>1 DEF Counted
  <1>7. ~InTable(h, t)
    <2> SUFFICES ASSUME NEW i \in 0 .. Cap(h) - 1, At(h, i).key = t PROVE FALSE
      BY DEF InTable
    <2>1. t # Empty.key
      BY HashAssumption DEF Empty
    <2>2. got[t] = {At(h, i).value}
      BY <2>1 DEF HashInv, EntriesInv, TableInv
    <2> QED
      BY <1>1, <2>2
  <1>8. ASSUME NEW g \in 1 .. Len(tables), NEW n \in Nat, h <= g, Limit(g) <= n + 1 PROVE t \in Claim(g, n)
    <2>1. Cap(h) \in Nat /\ Cap(g) \in Nat /\ Cap(h) <= Cap(g)
      BY <1>8, TableType DEF HashInv, TablesType
    <2>2. Limit(h) <= Limit(g) /\ Limit(h) \in Nat /\ Limit(g) \in Nat
      BY <2>1, LimitGrows DEF Limit
    <2>3. newCount[t] <= n
      BY <1>1, <1>2, <1>8, <2>2
    <2> QED
      BY <1>1, <2>3 DEF Claim
  <1>9. PutIn(h, t, ptr[t]) /\ pc[t] \notin {"resize", "unlock", "giveUp"}
    BY <1>2
  <1> QED
    BY <1>1, <1>3, <1>4, <1>5, <1>6, <1>7, <1>8, <1>9, PutInHash

(* A larger table is put in front of the others.                           *)
LEMMA ResizeHash ==
  ASSUME ListInv, HashInv, NEW t \in Threads, Resize(t)
  PROVE  HashInv'
  <1> USE DEF Resize, Goto, listVars, tokenVars, walkVars
  <1>0. TablesType /\ Len(tables) \in Nat /\ tables \in Seq(Table)
    BY DEF HashInv, TablesType
  <1>1. HashLocal(t) /\ mainHash[t] = Len(tables) /\ Len(tables) \in 1 .. Len(tables)
    BY <1>0 DEF HashInv, HashLocal, TablesType
  <1>2. PICK n \in Nat : n = Len(tables)
    BY <1>0
  <1>3. PICK c \in Nat \ {0} : c = NewCapacity(t) /\ Cap(n) <= c
    BY <1>0, <1>1, <1>2, Grows
  <1>4. PICK r : r = NewTable(c, n)
    OBVIOUS
  <1>5. /\ r \in Table /\ r.capacity = c /\ r.prev = n /\ r.entries = [i \in 0 .. c - 1 |-> Empty]
        /\ r.entries \in [0 .. c - 1 -> Entry]
    <2>1. Empty \in Entry
      BY DEF Empty, Entry, NullOr
    <2>2. [i \in 0 .. c - 1 |-> Empty] \in [0 .. c - 1 -> Entry]
      BY <2>1
    <2>3. [i \in 0 .. c - 1 |-> Empty] \in UNION {[0 .. d - 1 -> Entry] : d \in Nat}
      BY <2>2
    <2> QED
      BY <1>4, <2>2, <2>3 DEF NewTable, Table
  <1>6. tables' = Append(tables, r)
    BY <1>1, <1>2, <1>3, <1>4
  <1>7. /\ tables' \in Seq(Table) /\ Len(tables') = n + 1 /\ tables'[n + 1] = r
        /\ \A g \in 1 .. n : tables'[g] = tables[g]
    BY <1>0, <1>2, <1>5, <1>6
  <1>8. /\ \A g \in 1 .. n : Cap(g)' = Cap(g) /\ Cap(g) \in Nat \ {0} /\ Cap(g) <= Cap(n) /\ Limit(g)' = Limit(g)
        /\ Cap(n + 1)' = c
    <2>1. \A g \in 1 .. n : Cap(g)' = Cap(g) /\ Limit(g)' = Limit(g)
      BY <1>7 DEF Cap, Limit
    <2>2. \A g \in 1 .. n : Cap(g) \in Nat \ {0}
      BY <1>0, <1>2, TableType
    <2>3. \A g \in 1 .. n : Cap(g) <= Cap(n)
      BY <1>0, <1>1, <1>2 DEF TablesType
    <2> QED
      BY <1>5, <1>7, <2>1, <2>2, <2>3 DEF Cap
  <1>9. TablesType'
    <2>1. \A g \in 1 .. n + 1 : g \in 1 .. n \/ g = n + 1
      OBVIOUS
    <2>2. ASSUME NEW g \in 1 .. n + 1
          PROVE  tables'[g].prev = g - 1 /\ tables'[g].entries \in [0 .. Cap(g)' - 1 -> Entry]
      <3>1. CASE g \in 1 .. n
        BY <1>0, <1>2, <1>7, <1>8, <3>1, TableType
      <3>2. CASE g = n + 1
        <4>1. tables'[g] = r /\ Cap(g)' = c
          BY <1>7, <1>8, <3>2
        <4>2. r.prev = g - 1
          BY <1>5, <3>2
        <4>3. [0 .. Cap(g)' - 1 -> Entry] = [0 .. c - 1 -> Entry]
          BY <4>1
        <4>4. r.entries \in [0 .. Cap(g)' - 1 -> Entry]
          BY <1>5, <4>3
        <4> QED
          BY <4>1, <4>2, <4>4
      <3> QED
        BY <2>1, <3>1, <3>2
    <2>3. ASSUME NEW f \in 1 .. n + 1, NEW g \in 1 .. n + 1, f <= g PROVE Cap(f)' <= Cap(g)'
      <3>1. CASE g \in 1 .. n
        <4>1. f \in 1 .. n
          BY <2>3, <3>1
        <4> QED
          BY <1>0, <1>2, <1>8, <2>3, <3>1, <4>1 DEF TablesType
      <3>2. CASE g = n + 1
        <4>1. CASE f = n + 1
          BY <1>8, <3>2, <4>1
        <4>2. CASE f \in 1 .. n
          <5>1. n \in 1 .. n
            BY <1>1, <1>2
          <5> QED
            BY <1>3, <1>8, <3>2, <4>2, <5>1
        <4> QED
          BY <2>1, <4>1, <4>2
      <3> QED
        BY <2>1, <3>1, <3>2
    <2>4. mainHash' \in [Threads -> Nat] /\ implicitProducerHash' = Len(tables') /\ n + 1 > 0
      BY <1>0, <1>7 DEF TablesType
    <2> QED
      BY <1>0, <1>7, <2>2, <2>3, <2>4 DEF TablesType
  <1>10. \A u \in Threads : ~InTable(n + 1, u)'
    <2>1. \A i \in 0 .. c - 1 : At(n + 1, i)'.key = Empty.key
      BY <1>5, <1>7 DEF At
    <2> QED
      BY <1>8, <2>1, HashAssumption DEF InTable, Empty
  <1>11. \A g \in 1 .. n, u \in Threads : InTable(g, u)' <=> InTable(g, u)
    BY <1>7 DEF InTable, At, Cap
  <1>12. \A g \in 1 .. n, u \in Threads : UpTo(g, u)' <=> UpTo(g, u)
    <2>1. \A g \in 1 .. n : \A f \in 1 .. g : f \in 1 .. n
      OBVIOUS
    <2> QED
      BY <1>11, <2>1 DEF UpTo
  <1>13. \A u \in Threads : UpTo(n + 1, u)' <=> UpTo(n, u)
    <2>1. \A f : f \in 1 .. n + 1 <=> f \in 1 .. n \/ f = n + 1
      OBVIOUS
    <2> QED
      BY <1>10, <1>11, <2>1 DEF UpTo
  <1>14. EntriesInv'
    <2>1. ASSUME NEW g \in 1 .. n PROVE TableInv(g)'
      BY <1>2, <1>7, TableSame DEF HashInv, EntriesInv
    <2>2. TableInv(n + 1)'
      <3>1. \A i \in 0 .. c - 1 : At(n + 1, i)' = Empty
        BY <1>5, <1>7 DEF At
      <3>2. \A u \in Threads, k \in Nat : Probe(n + 1, u, k)' \in 0 .. c - 1
        <4>1. ASSUME NEW u \in Threads, NEW k \in Nat PROVE Probe(n + 1, u, k)' \in 0 .. c - 1
          <5>1. PICK x \in Int : x = HashOf[u] + k
            BY HashAssumption
          <5>2. Probe(n + 1, u, k)' = x % c
            BY <1>8, <5>1 DEF Probe
          <5> QED
            BY <5>2, DivMod
        <4> QED
          BY <4>1
      <3>3. \A k \in 0 .. c - 1 : k \in Nat
        OBVIOUS
      <3>4. \A u \in Threads : u # Empty.key
        BY HashAssumption DEF Empty
      <3> QED
        BY <1>8, <3>1, <3>2, <3>3, <3>4 DEF TableInv
    <2>3. \A g \in 1 .. n + 1 : g \in 1 .. n \/ g = n + 1
      OBVIOUS
    <2> QED
      BY <1>7, <2>1, <2>2, <2>3 DEF EntriesInv
  <1>15. \A u \in Threads \ {t} : pc'[u] = pc[u] /\ pc[u] \notin {"resize", "unlock", "giveUp"} /\ mainHash'[u] = mainHash[u]
    BY DEF ListInv, ListType, HashInv, TablesType, LockInv
  <1>16. pc'[t] = "unlock" /\ mainHash'[t] = n + 1
    BY <1>0, <1>7 DEF ListInv, ListType, TablesType
  <1>17. LockInv'
    BY <1>15, <1>16 DEF HashInv, LockInv
  <1>18. \A u \in Threads : (Busy(u)' <=> Busy(u)) /\ (Chosen(u)' <=> Chosen(u))
    BY <1>15, <1>16 DEF Busy, Chosen, Underway, Walking
  <1>19. ASSUME NEW u \in Threads PROVE HashLocal(u)'
    <2>1. HashLocal(u)
      BY DEF HashInv
    <2>2. CASE u = t
      <3>1. n + 1 \in 1 .. n + 1
        OBVIOUS
      <3> QED
        BY <1>2, <1>7, <1>13, <1>16, <1>18, <2>1, <2>2, <3>1 DEF HashLocal, Busy, Chosen, Underway, Walking
    <2>3. CASE u # t
      <3>1. \A g \in 1 .. n : g \in 1 .. n + 1
        OBVIOUS
      <3> QED
        BY <1>2, <1>7, <1>8, <1>11, <1>12, <1>13, <1>15, <1>18, <2>1, <2>3, <3>1 DEF HashLocal, Hashing
    <2> QED
      BY <2>2, <2>3
  <1>20. RoomInv'
    <2>1. Counted' = Counted
      BY <1>18 DEF Counted
    <2>2. \A g \in 1 .. n, m \in Nat : Claim(g, m)' = Claim(g, m)
      BY <1>12, <1>18 DEF Claim
    <2>3. \A m \in Nat : Claim(n + 1, m)' = Claim(n, m)
      BY <1>13, <1>18 DEF Claim
    <2>4. n \in 1 .. n /\ Limit(n) <= Limit(n + 1)' /\ Limit(n) \in Nat /\ Limit(n + 1)' \in Nat
      <3>1. n \in 1 .. n
        BY <1>1, <1>2
      <3>2. Limit(n + 1)' = c \div 2 + c \div 4 /\ Limit(n) = Cap(n) \div 2 + Cap(n) \div 4 /\ Cap(n) \in Nat
        BY <1>8, <3>1 DEF Limit
      <3> QED
        BY <1>3, <3>1, <3>2, LimitGrows
    <2>5. ASSUME NEW g \in 1 .. n + 1, NEW m \in Nat, Limit(g)' <= m + 1 PROVE Cardinality(Claim(g, m)') <= m
      <3>1. CASE g \in 1 .. n
        BY <1>2, <1>8, <2>2, <2>5, <3>1 DEF HashInv, RoomInv
      <3>2. CASE g = n + 1
        <4>1. Limit(n) <= m + 1
          BY <2>4, <2>5, <3>2
        <4> QED
          BY <1>2, <2>3, <2>4, <3>2, <4>1 DEF HashInv, RoomInv
      <3>3. g \in 1 .. n \/ g = n + 1
        OBVIOUS
      <3> QED
        BY <3>1, <3>2, <3>3
    <2> QED
      BY <1>7, <2>1, <2>5 DEF HashInv, RoomInv
  <1> QED
    BY <1>9, <1>14, <1>17, <1>19, <1>20 DEF HashInv

-----------------------------------------------------------------------------
(* The invariant and what follows from it                                  *)

(* At first there is one table, with nothing in it.                        *)
LEMMA HashInit == Init => HashInv
  <1> SUFFICES ASSUME Init PROVE HashInv
    OBVIOUS
  <1> USE DEF Init, ListInit
  <1>1. PICK c \in Nat \ {0} : c = InitialSize
    BY HashAssumption
  <1>2. PICK r : r = NewTable(c, 0)
    OBVIOUS
  <1>3. /\ r \in Table /\ r.capacity = c /\ r.prev = 0 /\ r.entries = [i \in 0 .. c - 1 |-> Empty]
        /\ r.entries \in [0 .. c - 1 -> Entry]
    <2>1. Empty \in Entry
      BY DEF Empty, Entry, NullOr
    <2>2. [i \in 0 .. c - 1 |-> Empty] \in [0 .. c - 1 -> Entry]
      BY <2>1
    <2>3. [i \in 0 .. c - 1 |-> Empty] \in UNION {[0 .. d - 1 -> Entry] : d \in Nat}
      BY <2>2
    <2> QED
      BY <1>2, <2>2, <2>3 DEF NewTable, Table
  <1>4. tables = <<r>>
    BY <1>1, <1>2
  <1>5. tables \in Seq(Table) /\ Len(tables) = 1 /\ tables[1] = r /\ 1 .. Len(tables) = {1} /\ Cap(1) = c
    BY <1>3, <1>4 DEF Cap
  <1>6. TablesType
    <2>1. tables[1].prev = 1 - 1 /\ tables[1].entries \in [0 .. Cap(1) - 1 -> Entry] /\ Cap(1) <= Cap(1)
      BY <1>3, <1>5
    <2>2. implicitProducerHash = Len(tables) /\ Len(tables) > 0
      BY <1>5
    <2>3. resizeInProgress \in BOOLEAN
      OBVIOUS
    <2>4. mainHash \in [Threads -> Nat] /\ newCount \in [Threads -> Nat]
      OBVIOUS
    <2>5. \A g \in 1 .. Len(tables) : g = 1
      BY <1>5
    <2> QED
      BY <1>5, <2>1, <2>2, <2>3, <2>4, <2>5 DEF TablesType
  <1>7. \A i \in 0 .. c - 1 : At(1, i) = Empty
    BY <1>3, <1>5 DEF At
  <1>e. \A t \in Threads : t # Empty.key
    BY HashAssumption DEF Empty
  <1>8. EntriesInv
    <2>1. \A u \in Threads, k \in 0 .. c - 1 : Probe(1, u, k) \in 0 .. c - 1
      BY <1>5, <1>6, TableType
    <2> QED
      BY <1>5, <1>7, <1>e, <2>1 DEF EntriesInv, TableInv
  <1>9. \A t \in Threads : ~Busy(t)
    BY DEF Busy, Chosen, Underway, Walking
  <1>10. \A t \in Threads : HashLocal(t)
    BY <1>9 DEF HashLocal, Hashing, Chosen, Walking
  <1>11. LockInv
    BY DEF LockInv
  <1>12. \A t \in Threads : ~UpTo(1, t)
    <2>1. \A g \in 1 .. 1 : g = 1
      OBVIOUS
    <2> QED
      BY <1>5, <1>7, <1>e, <2>1 DEF UpTo, InTable
  <1>13. RoomInv
    <2>1. Counted = {} /\ \A n : Claim(1, n) = {}
      BY <1>9, <1>12 DEF Counted, Claim
    <2>2. PICK z \in Nat : z = 0 /\ Cardinality({}) = z
      BY FS_EmptySet
    <2>3. \A h \in 1 .. Len(tables), n \in Nat : Cardinality(Claim(h, n)) <= n
      BY <1>5, <2>1, <2>2
    <2> QED
      BY <2>1, <2>2, <2>3 DEF RoomInv
  <1> QED
    BY <1>6, <1>8, <1>10, <1>11, <1>13 DEF HashInv

(* A thread inside a call uses a queue that is alive.                      *)
LEMMA BusyMeansAlive == ListInv => \A t \in Threads : pc[t] # "idle" => alive
  BY DEF ListInv, ListType, CoverInv

(* The steps of the list and of the tokens.                                *)
LEMMA TokenListStep ==
  ASSUME ListInv, HashInv, NEW t \in Threads, TokenStep(t) \/ ListStep(t), UNCHANGED <<hashVars, localVars>>
  PROVE  ListInv' /\ HashInv'
  <1>0. UNCHANGED <<got, alive>>
    BY DEF localVars
  <1>a. pc[t] # "idle" => alive
    BY BusyMeansAlive
  <1>h. ASSUME \A u \in Threads \ {t} : pc'[u] = pc[u] /\ want'[u] = want[u] /\ ptr'[u] = ptr[u],
               pc[t] \notin Hashing, pc'[t] \notin Hashing, Chosen(t)' <=> Chosen(t)
        PROVE  HashInv'
    <2>1. Still(t)
      BY <1>h DEF Still, localVars
    <2> QED
      BY <1>h, <2>1, ListStepHash
  <1> USE DEF Goto, listVars, tokenVars, walkVars
  <1>1. CASE Visit(t)
    <2>1. ListInv'
      BY <1>0, <1>1, <1>a, VisitInv DEF Visit
    <2> QED
      BY <1>1, <1>h, <2>1 DEF Visit, ListInv, ListType, Hashing, Chosen, Walking
  <1>2. CASE Catch(t)
    <2>1. ListInv'
      BY <1>0, <1>2, <1>a, CatchInv DEF Catch
    <2> QED
      BY <1>2, <1>h, <2>1 DEF Catch, ListInv, ListType, Hashing, Chosen, Walking
  <1>3. CASE Create(t)
    <2>1. ListInv'
      BY <1>0, <1>3, <1>a, CreateInv DEF Create
    <2> QED
      BY <1>3, <1>h, <2>1 DEF Create, ListInv, ListType, Hashing, Chosen, Walking
  <1>4. CASE CreateFails(t)
    <2>1. ListInv'
      BY <1>0, <1>4, <1>a, CreateFailsInv DEF CreateFails
    <2> QED
      BY <1>4, <1>h, <2>1 DEF CreateFails, ListInv, ListType, Hashing, Chosen, Walking
  <1>5. CASE LoadTail(t)
    <2>1. ListInv'
      BY <1>0, <1>5, <1>a, LoadTailInv DEF LoadTail
    <2> QED
      BY <1>5, <1>h, <2>1 DEF LoadTail, ListInv, ListType, Hashing, Chosen, Walking
  <1>6. CASE Push(t)
    <2>1. ListInv'
      BY <1>0, <1>6, <1>a, PushInv DEF Push
    <2> QED
      BY <1>6, <1>h, <2>1 DEF Push, ListInv, ListType, Hashing, Chosen, Walking
  <1>7. CASE TokenConstructed(t)
    <2>1. ListInv'
      BY <1>0, <1>7, <1>a, TokenConstructedInv DEF TokenConstructed
    <2> QED
      BY <1>7, <1>h, <2>1 DEF TokenConstructed, ListInv, ListType, Hashing, Chosen, Walking
  <1>8. CASE ReleaseToken(t)
    <2>1. ListInv'
      BY <1>0, <1>8, <1>a, ReleaseTokenInv DEF ReleaseToken
    <2> QED
      BY <1>8, <1>h, <2>1 DEF ReleaseToken, ListInv, ListType, Hashing, Chosen, Walking
  <1>9. ASSUME NEW k \in TokensOf(t), DestroyToken(t, k) PROVE ListInv' /\ HashInv'
    <2>1. ListInv'
      BY <1>0, <1>9, DestroyTokenInv
    <2> QED
      BY <1>9, <1>h, <2>1 DEF DestroyToken, ListInv, ListType, Hashing, Chosen, Walking
  <1>10. ASSUME NEW k \in TokensOf(t), NEW j \in TokensOf(t), alive, SwapTokens(t, k, j) PROVE ListInv' /\ HashInv'
    <2>1. ListInv'
      BY <1>0, <1>10, SwapTokensInv
    <2> QED
      BY <1>10, <1>h, <2>1 DEF SwapTokens, ListInv, ListType, Hashing, Chosen, Walking
  <1>11. ASSUME NEW k \in TokensOf(t), alive, ConstructToken(t, k) PROVE ListInv' /\ HashInv'
    <2>1. ListInv'
      BY <1>0, <1>11, RecycleInv DEF ConstructToken
    <2>2. k # NoToken
      BY DEF TokensOf, NoToken
    <2>3. pc[t] = "idle" /\ pc'[t] = "visit" /\ want'[t] = k
      BY <1>11 DEF ConstructToken, Recycle, ListInv, ListType
    <2>4. \A u \in Threads \ {t} : pc'[u] = pc[u] /\ want'[u] = want[u] /\ ptr'[u] = ptr[u]
      BY <1>11 DEF ConstructToken, Recycle, ListInv, ListType
    <2>5. Chosen(t)' <=> Chosen(t)
      BY <2>2, <2>3 DEF Chosen, Walking
    <2> QED
      BY <1>h, <2>1, <2>3, <2>4, <2>5 DEF Hashing
  <1> QED
    BY <1>1, <1>2, <1>3, <1>4, <1>5, <1>6, <1>7, <1>8, <1>9, <1>10, <1>11 DEF TokenStep, ListStep

(* The steps of get_or_add_implicit_producer().                            *)
LEMMA HashListStep ==
  ASSUME ListInv, HashInv, NEW t \in Threads, Lookup(t) \/ HashStep(t)
  PROVE  ListInv' /\ HashInv'
  <1>a. pc[t] # "idle" => alive
    BY BusyMeansAlive
  <1>n. Null \in NullOr(Producers)
    BY DEF NullOr
  <1> USE DEF Goto, listVars, tokenVars, walkVars, localVars, hashVars
  <1>1. CASE Lookup(t)
    <2>1. HashInv' /\ got' = got /\ \E p \in NullOr(Producers) : ptr' \in {ptr, [ptr EXCEPT ![t] = p]}
      BY <1>1, LookupHash
    <2>2. PICK p \in NullOr(Producers) : ptr' \in {ptr, [ptr EXCEPT ![t] = p]}
      BY <2>1
    <2>3. PICK l \in {"idle"} \cup Hashing : Goto(t, l)
      <3>1. pc' = pc => pc' = [pc EXCEPT ![t] = "idle"]
        BY <1>1 DEF Lookup, ListInv, ListType
      <3> QED
        BY <1>1, <3>1 DEF Lookup, Hashing
    <2>4. UNCHANGED <<listVars, tokenVars, want, alive>> /\ pc[t] = "idle" /\ alive
      BY <1>1 DEF Lookup
    <2> QED
      BY <2>1, <2>2, <2>3, <2>4, QuietInv
  <1>2. CASE Forward(t)
    <2>1. HashInv' /\ got' = got
      BY <1>2, ForwardHash
    <2>2. pc[t] \in Hashing /\ alive /\ UNCHANGED <<listVars, tokenVars, want, alive>>
      BY <1>2, <1>a DEF Forward, Hashing
    <2>3. Goto(t, "idle") /\ ptr' = [ptr EXCEPT ![t] = Null]
      BY <1>2 DEF Forward
    <2> QED
      BY <1>n, <2>1, <2>2, <2>3, QuietInv
  <1>3. CASE Count(t)
    <2>1. pc[t] \in Hashing /\ alive /\ UNCHANGED <<listVars, tokenVars, want, got, alive>> /\ Goto(t, "loop") /\ ptr' = ptr
      BY <1>3, <1>a DEF Count, Hashing
    <2>2. "loop" \in {"idle"} \cup Hashing
      BY DEF Hashing
    <2> QED
      BY <1>3, <1>n, <2>1, <2>2, QuietInv, CountHash
  <1>4. CASE Reload(t)
    <2>1. pc[t] \in Hashing /\ alive /\ UNCHANGED <<listVars, tokenVars, want, got, alive>> /\ Goto(t, "loop") /\ ptr' = ptr
      BY <1>4, <1>a DEF Reload, Hashing
    <2>2. "loop" \in {"idle"} \cup Hashing
      BY DEF Hashing
    <2> QED
      BY <1>4, <1>n, <2>1, <2>2, QuietInv, ReloadHash
  <1>5. CASE Resize(t)
    <2>1. pc[t] \in Hashing /\ alive /\ UNCHANGED <<listVars, tokenVars, want, got, alive>> /\ Goto(t, "unlock") /\ ptr' = ptr
      BY <1>5, <1>a DEF Resize, Hashing
    <2>2. "unlock" \in {"idle"} \cup Hashing
      BY DEF Hashing
    <2> QED
      BY <1>5, <1>n, <2>1, <2>2, QuietInv, ResizeHash
  <1>6. CASE GiveUp(t)
    <2>1. pc[t] \in Hashing /\ alive /\ UNCHANGED <<listVars, tokenVars, want, got, alive>> /\ Goto(t, "idle") /\ ptr' = ptr
      BY <1>6, <1>a DEF GiveUp, Hashing
    <2> QED
      BY <1>6, <1>n, <2>1, QuietInv, GiveUpHash
  <1>7. CASE ResizeFails(t)
    <2>1. pc[t] \in Hashing /\ alive /\ UNCHANGED <<listVars, tokenVars, want, alive>> /\ Goto(t, "giveUp") /\ ptr' = ptr
      BY <1>7, <1>a DEF ResizeFails, Hashing
    <2>2. "giveUp" \in {"idle"} \cup Hashing
      BY DEF Hashing
    <2>3. got' = got
      BY <1>7 DEF ResizeFails, Return, ListInv, ListType
    <2> QED
      BY <1>7, <1>n, <2>1, <2>2, <2>3, QuietInv, ResizeFailsHash
  <1>8. CASE Loop(t)
    <2>1. pc[t] \in Hashing /\ alive /\ UNCHANGED <<listVars, tokenVars, got, alive>>
      BY <1>8, <1>a DEF Loop, Hashing
    <2>2. Recycle(t, NoToken) \/ (UNCHANGED walkVars /\ \E l \in {"idle"} \cup Hashing : Goto(t, l))
      BY <1>8 DEF Loop, Decide, Hashing
    <2>3. ListInv'
      BY <1>n, <2>1, <2>2, QuietInv, RecycleInv
    <2> QED
      BY <1>8, <2>3, LoopHash
  <1>9. CASE Unlock(t)
    <2>1. pc[t] \in Hashing /\ alive /\ UNCHANGED <<listVars, tokenVars, got, alive>>
      BY <1>9, <1>a DEF Unlock, Hashing
    <2>2. Recycle(t, NoToken) \/ (UNCHANGED walkVars /\ \E l \in {"idle"} \cup Hashing : Goto(t, l))
      BY <1>9 DEF Unlock, Decide, Hashing
    <2>3. ListInv'
      BY <1>n, <2>1, <2>2, QuietInv, RecycleInv
    <2> QED
      BY <1>9, <2>3, UnlockHash
  <1>10. CASE Insert(t)
    <2>1. /\ pc[t] = "got" /\ want[t] = NoToken /\ alive /\ UNCHANGED <<listVars, tokenVars, want, alive>>
          /\ Goto(t, "idle") /\ ptr' = [ptr EXCEPT ![t] = Null]
          /\ got' = [got EXCEPT ![t] = IF ptr[t] = Null THEN @ ELSE @ \cup {ptr[t]}]
      BY <1>10, <1>a DEF Insert, Return
    <2>2. got[t] = {}
      BY <2>1 DEF HashInv, HashLocal, Busy, Chosen, Walking
    <2>3. ListInv'
      BY <2>1, <2>2, InsertInv
    <2> QED
      BY <1>10, <2>3, InsertHash, InsertFailsHash
  <1> QED
    BY <1>1, <1>2, <1>3, <1>4, <1>5, <1>6, <1>7, <1>8, <1>9, <1>10 DEF HashStep

(* Every step preserves the invariant.                                     *)
LEMMA Inductive == ListInv /\ HashInv /\ [Next]_vars => ListInv' /\ HashInv'
  <1> SUFFICES ASSUME ListInv, HashInv, [Next]_vars PROVE ListInv' /\ HashInv'
    OBVIOUS
  <1>1. CASE DestroyQueue
    <2>1. ListInv'
      BY <1>1, DestroyQueueInv
    <2>2. UNCHANGED <<hashVars, mainHash, newCount, got, pc, ptr, want>>
      BY <1>1 DEF DestroyQueue, walkVars
    <2> QED
      BY <2>1, <2>2, DestroyQueueHash
  <1>2. CASE UNCHANGED vars
    <2>1. UNCHANGED <<hashVars, mainHash, newCount, got, pc, ptr, want, alive, listVars, tokenVars>>
      BY <1>2 DEF vars, localVars, walkVars
    <2>2. List' = List
      BY <2>1, ListSame DEF listVars
    <2>3. ListInv'
      BY <2>1, <2>2 DEF listVars, tokenVars, ListInv, ListType, PtrInv, WantInv, OwnInv, TokenInv, CoverInv, Has1
    <2> QED
      BY <2>1, <2>3, DestroyQueueHash
  <1> QED
    BY <1>1, <1>2, TokenListStep, HashListStep DEF Next

(* What the invariant says of the list, of the tokens, of the threads and  *)
(* of the tables.                                                          *)
LEMMA ListIsComplete == ListInv => ListComplete
  <1> SUFFICES ASSUME ListInv PROVE ListComplete
    OBVIOUS
  <1>1. PICK n \in Nat : n = created /\ producerCount = n
    BY DEF ListInv, ListType
  <1>2. IsFiniteSet(1 .. n) /\ Cardinality(1 .. n) = n
    BY FS_Interval
  <1>3. List \subseteq 1 .. n
    BY <1>1 DEF ListInv, CoverInv
  <1>4. Cardinality(List) <= n
    BY <1>2, <1>3, FS_Subset
  <1>5. (\A t \in Threads : pc[t] = "idle") => List = 1 .. n
    BY <1>1, <1>3 DEF ListInv, CoverInv
  <1> QED
    BY <1>1, <1>4, <1>5 DEF ListComplete

LEMMA TokensAreExclusive == ListInv => TokensExclusive
  <1> SUFFICES ASSUME ListInv PROVE TokensExclusive
    OBVIOUS
  <1>1. \A k \in Tokens : producerOf[k] # Null =>
          producerOf[k] \in List /\ isExplicit[producerOf[k]] /\ tokenOf[producerOf[k]] = k
    BY DEF ListInv, TokenInv
  <1>2. ASSUME NEW p \in List, isExplicit[p] PROVE Cardinality(Holding(p)) = IF inactive[p] \/ ~alive THEN 0 ELSE 1
    <2>0. p \in Producers /\ p # Null
      BY ListClosed DEF ListInv, ListType, Producers, Null
    <2>1. CASE inactive[p] \/ ~alive
      <3>1. \A k \in Tokens : producerOf[k] # p
        BY <2>0, <2>1 DEF ListInv, TokenInv, CoverInv
      <3>2. \A t \in Threads : ~(pc[t] \in {"got", "release"} /\ ptr[t] = p)
        BY <2>0, <2>1 DEF ListInv, PtrInv, CoverInv
      <3>3. Holding(p) = {}
        BY <3>1, <3>2 DEF Holding
      <3> QED
        BY <2>1, <3>3, FS_EmptySet
    <2>2. CASE ~inactive[p] /\ alive
      <3>1. ASSUME NEW k \in Tokens, producerOf[k] = p PROVE Holding(p) = {k}
        <4>1. \A t \in Threads : ~(pc[t] \in {"got", "release"} /\ ptr[t] = p)
          BY <2>0, <3>1 DEF ListInv, OwnInv, Has1
        <4>2. \A j \in Tokens : producerOf[j] = p => j = k
          BY <1>1, <2>0, <3>1
        <4> QED
          BY <3>1, <4>1, <4>2 DEF Holding
      <3>2. ASSUME NEW t \in Threads, pc[t] \in {"got", "release"}, ptr[t] = p PROVE Holding(p) = {<<t>>}
        <4>1. \A k \in Tokens : producerOf[k] # p
          BY <2>0, <3>2 DEF ListInv, OwnInv, Has1
        <4>2. \A u \in Threads : pc[u] \in {"got", "release"} /\ ptr[u] = p => u = t
          BY <2>0, <3>2 DEF ListInv, OwnInv, Has1
        <4> QED
          BY <3>2, <4>1, <4>2 DEF Holding
      <3>3. \E x : Holding(p) = {x}
        BY <1>2, <2>2, <3>1, <3>2 DEF ListInv, CoverInv
      <3> QED
        BY <2>2, <3>3, FS_Singleton
    <2> QED
      BY <2>1, <2>2 DEF ListInv, ListType
  <1> QED
    BY <1>1, <1>2 DEF TokensExclusive

LEMMA ProducersAreOwned == ListInv => ImplicitProducersOwned
  <1> SUFFICES ASSUME ListInv PROVE ImplicitProducersOwned
    OBVIOUS
  <1>1. ASSUME NEW t \in Threads PROVE Cardinality(got[t]) <= 1
    <2>1. \A p, q \in got[t] : p = q
      BY DEF ListInv, OwnInv
    <2>2. CASE got[t] = {}
      BY <2>2, FS_EmptySet
    <2>3. CASE got[t] # {}
      <3>1. PICK p : got[t] = {p}
        BY <2>1, <2>3
      <3>2. Cardinality(got[t]) = 1
        BY <3>1, FS_Singleton
      <3> QED
        BY <3>2
    <2> QED
      BY <2>2, <2>3
  <1>2. \A t, u \in Threads : t # u => got[t] \cap got[u] = {}
    BY DEF ListInv, OwnInv
  <1>3. \A t \in Threads : \A p \in got[t] : p \in List /\ ~isExplicit[p]
    BY DEF ListInv, OwnInv
  <1>4. UNION {got[t] : t \in Threads} \subseteq {p \in List : ~isExplicit[p]}
    BY <1>3
  <1> QED
    BY <1>1, <1>2, <1>4 DEF ImplicitProducersOwned

LEMMA TablesHaveRoomLeft == HashInv => TablesHaveRoom
  <1> SUFFICES ASSUME HashInv, NEW h \in 1 .. Len(tables) PROVE \E i \in DOMAIN tables[h].entries : At(h, i) = Empty
    BY DEF TablesHaveRoom, At, HashInv, TablesType
  <1>1. TablesType /\ EntriesInv /\ RoomInv
    BY DEF HashInv
  <1>2. PICK i \in 0 .. Cap(h) - 1 : At(h, i).key = Empty.key
    BY <1>1, RoomLeft DEF Room
  <1>3. At(h, i) = Empty
    BY <1>1, <1>2 DEF EntriesInv, TableInv
  <1>4. DOMAIN tables[h].entries = 0 .. Cap(h) - 1
    BY <1>1, TableType
  <1> QED
    BY <1>2, <1>3, <1>4

LEMMA Invariance == Spec => [](ListInv /\ HashInv)
  <1>1. Init => ListInv /\ HashInv
    BY ListInit1, HashInit
  <1> QED
    BY <1>1, Inductive, PTL DEF Spec

(* Every producer whose add_producer() has returned is reachable from the  *)
(* tail of the list, whatever pushes and failed exchanges happened at once.*)
THEOREM ProducersAreListed == Spec => []ListComplete
  BY Invariance, ListIsComplete, PTL

(* No two tokens, and no two threads constructing or destroying one, have  *)
(* the same explicit producer, and one that nobody has is inactive.        *)
THEOREM TokensShareNoProducer == Spec => []TokensExclusive
  BY Invariance, TokensAreExclusive, PTL

(* get_or_add_implicit_producer() returns the same producer to a thread in *)
(* every call, and to no other thread.                                     *)
THEOREM ThreadsKeepTheirProducer == Spec => []ImplicitProducersOwned
  BY Invariance, ProducersAreOwned, PTL

(* No hash table is ever full: every probe ends.                           *)
THEOREM HashTablesNeverFull == Spec => []TablesHaveRoom
  BY Invariance, TablesHaveRoomLeft, PTL
=============================================================================
