-------------------------- MODULE ImplicitProducer --------------------------
(***************************************************************************)
(* ConcurrentQueue::ImplicitProducer (include/concurrentqueue.h): the      *)
(* queue of a thread that enqueues without a token.  Unlike the explicit   *)
(* one it keeps no ring: a block comes from the free list when the tail    *)
(* reaches it, and the consumer that takes its last element returns it.    *)
(* Consumers find a block through an index of entries (key, value); a full *)
(* index is replaced by one of twice the capacity that shares the entries  *)
(* of the old one, and failures rewind its tail.                           *)
(*                                                                         *)
(* An element is represented by the index it was enqueued with.  The       *)
(* counters, and how consumers claim indices with them, are in             *)
(* ProducerBase.  try_enqueue* are enqueue* in the mode CannotAlloc.       *)
(* Accesses are taken to be sequentially consistent.                       *)
(***************************************************************************)
EXTENDS ProducerBase, Sequences

CONSTANTS Blocks,         \* what requisition_block() can return
          NoBlock,        \* nullptr
          Garbage,        \* the value of an atomic that was not initialized
          INITIAL_INDEX_SIZE,   \* IMPLICIT_INITIAL_INDEX_SIZE
          NoexceptCtor,   \* values of MOODYCAMEL_NOEXCEPT_CTOR for the calls made
          Modes,          \* subset of {"CanAlloc", "CannotAlloc"}
          Counts          \* the counts given to enqueue_bulk

ASSUME SizeAssumption ==
  /\ BLOCK_SIZE > 1 /\ INITIAL_INDEX_SIZE \in Nat \ {0}
  /\ {NoBlock, Garbage} \cap Blocks = {} /\ NoBlock # Garbage
  /\ Counts \subseteq Nat \ {0} /\ NoexceptCtor \subseteq BOOLEAN

Raw == -1       \* a slot that holds no element
INVALID_BLOCK_BASE == 1

VARIABLES
  tailBlock,
  elementsCompletelyDequeued,   \* of every block
  slots,            \* of every block and offset, the element or Raw
  pool,             \* blocks that belong to nobody or to another producer
  entries,          \* every BlockIndexEntry
  headers,          \* every BlockIndexHeader; blockIndex points to the last one
  pr,               \* the producer's program counter and locals
  loc               \* what every consumer has read of the index

blockVars == <<tailBlock, elementsCompletelyDequeued, slots, pool>>
indexVars == <<entries, headers>>
consumerVars == <<claims, loc>>
vars == <<counters, blockVars, indexVars, pr, consumerVars>>

-----------------------------------------------------------------------------
(* The block index                                                         *)

Last == headers[Len(headers)]
EntryAt(h, k) == entries[headers[h].index[k]]

(* the position of the entry for index i in header h, whose tail was t     *)
EntryOf(h, t, i) == (t + BlocksAfter(i, EntryAt(h, t).key)) % headers[h].capacity

(* get_block_index_entry_for_index(i), without interruption                *)
EntryFor(i) == Last.index[EntryOf(Len(headers), Last.tail, i)]

(* new_block_index() with a previous one: its entries, from the oldest on, *)
(* and as many new ones                                                    *)
NewHeader ==
  [capacity |-> 2 * Last.capacity, tail |-> Last.capacity - 1,
   index |-> [k \in 0 .. 2 * Last.capacity - 1 |->
     IF k < Last.capacity THEN Last.index[(Last.tail + 1 + k) % Last.capacity]
     ELSE Len(entries) + k - Last.capacity + 1]]

NewEntries(n) == [k \in 1 .. n |-> [key |-> INVALID_BLOCK_BASE, value |-> Garbage]]

(* where insert_block_index_entry() puts the next entry                    *)
NewTail == (Last.tail + 1) % Last.capacity
NextEntry == entries[Last.index[NewTail]]

SetTail(t) == headers' = [headers EXCEPT ![Len(headers)].tail = t]

(* the tail stays                                                          *)
MutRewind == UNCHANGED headers

(* rewind_block_index_tail()                                               *)
Rewind == SetTail((Last.tail - 1) % Last.capacity)

-----------------------------------------------------------------------------
(* Locals, cleared when they are not needed any more.  chain is            *)
(* firstAllocatedBlock and its successors up to tailBlock, need the number *)
(* of blocks to allocate (when reverting, of those reverted), tail is      *)
(* currentTailIndex, entry is idxEntry.                                    *)
Idle == [pc |-> "idle", bulk |-> FALSE, mode |-> "", noexcept |-> FALSE, count |-> 0,
         startBlock |-> NoBlock, chain |-> <<>>, need |-> 0, tail |-> 0, entry |-> 0]

Rest == [pc |-> "loadIndex", header |-> 0, tail |-> 0, pos |-> 0, block |-> NoBlock]

(* After the constructor, whose new_block_index() may have failed; or      *)
(* after Passed blocks of elements have been enqueued and dequeued one by  *)
(* one in block b, which tailBlock still points to.                        *)
Init ==
  LET first(tail) == [capacity |-> INITIAL_INDEX_SIZE, tail |-> tail,
                      index |-> [k \in 0 .. INITIAL_INDEX_SIZE - 1 |-> k + 1]]
      lastKey(k) == Max({j \in 0 .. Passed - 1 : j % INITIAL_INDEX_SIZE = k - 1}) * BLOCK_SIZE
  IN
  /\ CountersInit
  /\ slots = [b \in Blocks |-> [o \in Offsets |-> Raw]]
  /\ pool = Blocks
  /\ pr = Idle /\ loc = [c \in Consumers |-> Rest]
  /\ \/ /\ Passed = 0
        /\ \/ headers = <<>> /\ entries = <<>>
           \/ headers = <<first(INITIAL_INDEX_SIZE - 1)>> /\ entries = NewEntries(INITIAL_INDEX_SIZE)
        /\ tailBlock = NoBlock
        /\ elementsCompletelyDequeued = [b \in Blocks |-> 0]
     \/ /\ Passed > 0
        /\ headers = <<first((Passed - 1) % INITIAL_INDEX_SIZE)>>
        /\ entries = [k \in 1 .. INITIAL_INDEX_SIZE |->
                        IF k > Passed THEN NewEntries(INITIAL_INDEX_SIZE)[k]
                        ELSE [key |-> lastKey(k), value |-> NoBlock]]
        /\ tailBlock \in Blocks
        /\ elementsCompletelyDequeued = [b \in Blocks |-> IF b = tailBlock THEN BLOCK_SIZE ELSE 0]

PGoto(l) == pr' = [pr EXCEPT !.pc = l]
PReturn == pr' = Idle

-----------------------------------------------------------------------------
(* enqueue<mode>() and enqueue_bulk<mode>(n)                               *)

Enqueue(m, x) ==
  /\ pr.pc = "idle" /\ Enqueued < MaxEnqueued
  /\ pr' = IF Offset(tailIndex) = 0
           THEN [Idle EXCEPT !.pc = "insert", !.mode = m, !.noexcept = x, !.count = 1,
                             !.need = 1, !.tail = tailIndex]
           ELSE [Idle EXCEPT !.pc = "construct", !.noexcept = x, !.count = 1]
  /\ UNCHANGED <<counters, blockVars, indexVars, consumerVars>>

(* the first index of the k-th block that enqueue_bulk allocates           *)
NewBase(k) == Plus(Base(Minus(tailIndex, 1)), (k + 1) * BLOCK_SIZE)

EnqueueBulk(m, x, n) ==
  /\ pr.pc = "idle" /\ Enqueued + n <= MaxEnqueued
  /\ LET need == Minus(Base(Plus(tailIndex, n - 1)), Base(Minus(tailIndex, 1))) \div BLOCK_SIZE
     IN pr' = [Idle EXCEPT !.pc = IF need = 0 THEN "fill" ELSE "insert", !.bulk = TRUE, !.mode = m,
                 !.noexcept = x, !.count = n, !.startBlock = tailBlock, !.need = need,
                 !.tail = IF need = 0 THEN 0 ELSE NewBase(0)]
  /\ UNCHANGED <<counters, blockVars, indexVars, consumerVars>>

(* a failure: enqueue returns, enqueue_bulk undoes what it did for the     *)
(* blocks it has already                                                   *)
Fail == pr' = IF pr.chain = <<>> THEN Idle ELSE [pr EXCEPT !.pc = "revert", !.need = 0, !.entry = 0]

(* Leeway and size limit; then insert_block_index_entry(): the entry       *)
(* behind the tail if it is not in use, else a new index, unless           *)
(* allocation is not allowed or fails.                                     *)
Insert ==
  /\ pr.pc = "insert"
  /\ LET hasIndex == headers # <<>>
         usable == hasIndex /\ (NextEntry.key = INVALID_BLOCK_BASE \/ NextEntry.value = NoBlock)
     IN \/ /\ ~Full(pr.tail) /\ usable
           /\ PGoto("storeKey") /\ UNCHANGED indexVars
        \/ /\ ~Full(pr.tail) /\ hasIndex /\ ~usable /\ pr.mode = "CanAlloc"
           /\ headers' = Append(headers, NewHeader)
           /\ entries' = entries \o NewEntries(Last.capacity)
           /\ PGoto("storeKey")
        \/ /\ Full(pr.tail) \/ ~usable
           /\ Fail /\ UNCHANGED indexVars
  /\ UNCHANGED <<counters, blockVars, consumerVars>>

StoreKey ==
  /\ pr.pc = "storeKey"
  /\ entries' = [entries EXCEPT ![Last.index[NewTail]].key = pr.tail]
  /\ pr' = [pr EXCEPT !.entry = Last.index[NewTail], !.pc = "storeTail"]
  /\ UNCHANGED <<counters, blockVars, headers, consumerVars>>

StoreTail ==
  /\ pr.pc = "storeTail"
  /\ SetTail(NewTail)
  /\ PGoto("requisition")
  /\ UNCHANGED <<counters, blockVars, entries, consumerVars>>

(* the counter of the block is left as it is                               *)
MutResetEmpty(b) == UNCHANGED elementsCompletelyDequeued

(* reset_empty<implicit_context>()                                         *)
ResetEmpty(b) == elementsCompletelyDequeued' = [elementsCompletelyDequeued EXCEPT ![b] = 0]

(* idxEntry->value.store(v)                                                *)
StoreValue(v) == entries' = [entries EXCEPT ![pr.entry].value = v]

(* rewind, and the entry is not in use any more                            *)
UndoInsert == Rewind /\ StoreValue(NoBlock)

(* requisition_block() returns a block, or nullptr                         *)
Requisition ==
  /\ pr.pc = "requisition"
  /\ \/ \E b \in pool :
          /\ pool' = pool \ {b}
          /\ ResetEmpty(b)
          /\ pr' = [pr EXCEPT !.chain = Append(@, b), !.pc = IF pr.bulk \/ pr.noexcept THEN "storeValue" ELSE "tryConstruct"]
          /\ UNCHANGED indexVars
     \/ /\ UndoInsert /\ Fail
        /\ UNCHANGED <<pool, elementsCompletelyDequeued>>
  /\ UNCHANGED <<counters, tailBlock, slots, consumerVars>>

(* enqueue: a constructor that may throw runs before the block is put on   *)
(* the index; if it throws the block is returned                           *)
TryConstruct ==
  /\ pr.pc = "tryConstruct"
  /\ LET b == pr.chain[1] IN
     \/ /\ slots' = [slots EXCEPT ![b][0] = tailIndex]
        /\ PGoto("storeValue")
        /\ UNCHANGED <<pool, indexVars>>
     \/ /\ UndoInsert
        /\ pool' = pool \cup {b}
        /\ PReturn
        /\ UNCHANGED slots
  /\ UNCHANGED <<counters, tailBlock, elementsCompletelyDequeued, consumerVars>>

(* The new block is put on the index and becomes the tail block; then the  *)
(* next one, or the elements                                               *)
InsertBlock ==
  /\ pr.pc = "storeValue"
  /\ LET b == pr.chain[Len(pr.chain)] IN StoreValue(b) /\ tailBlock' = b
  /\ pr' = IF pr.need > 1 THEN [pr EXCEPT !.need = @ - 1, !.tail = Plus(@, BLOCK_SIZE), !.entry = 0, !.pc = "insert"]
           ELSE [pr EXCEPT !.need = 0, !.tail = 0, !.entry = 0, !.mode = "",
                   !.pc = IF pr.bulk THEN "fill" ELSE IF pr.noexcept THEN "construct" ELSE "publish"]
  /\ UNCHANGED <<counters, elementsCompletelyDequeued, slots, pool, headers, consumerVars>>

(* enqueue: the element in the current block; its constructor may throw    *)
Construct ==
  /\ pr.pc = "construct"
  /\ \/ /\ slots' = [slots EXCEPT ![tailBlock][Offset(tailIndex)] = tailIndex]
        /\ PGoto("publish")
     \/ /\ ~pr.noexcept /\ PReturn /\ UNCHANGED slots
  /\ UNCHANGED <<counters, tailBlock, elementsCompletelyDequeued, pool, indexVars, consumerVars>>

(* the blocks the new elements of enqueue_bulk go to, in order             *)
Target == (IF Offset(tailIndex) = 0 THEN <<>> ELSE <<pr.startBlock>>) \o pr.chain

(* enqueue_bulk: construct the elements, block by block; if a constructor  *)
(* throws those made so far are destroyed and everything is undone         *)
Fill ==
  /\ pr.pc = "fill"
  /\ LET new == {Plus(tailIndex, k) : k \in 0 .. pr.count - 1}
         block(i) == Target[1 + BlocksAfter(i, Base(tailIndex))]
     IN \/ /\ slots' = [b \in Blocks |-> [o \in Offsets |->
                 IF \E i \in new : block(i) = b /\ Offset(i) = o
                 THEN CHOOSE i \in new : block(i) = b /\ Offset(i) = o ELSE slots[b][o]]]
           /\ PGoto("publish")
        \/ ~pr.noexcept /\ Fail /\ UNCHANGED slots
  /\ UNCHANGED <<counters, tailBlock, elementsCompletelyDequeued, pool, indexVars, consumerVars>>

(* enqueue_bulk gives up: entry by entry from the first on, the entry is   *)
(* not in use any more and the tail is rewound ...                         *)
RevertEntry ==
  /\ pr.pc = "revert" /\ pr.need < Len(pr.chain)
  /\ entries' = [entries EXCEPT ![EntryFor(NewBase(pr.need))].value = NoBlock]
  /\ Rewind
  /\ pr' = [pr EXCEPT !.need = @ + 1]
  /\ UNCHANGED <<counters, blockVars, consumerVars>>

(* ... and its blocks are returned                                         *)
RevertBlocks ==
  /\ pr.pc = "revert" /\ pr.need = Len(pr.chain)
  /\ pool' = pool \cup {pr.chain[k] : k \in DOMAIN pr.chain}
  /\ tailBlock' = pr.startBlock
  /\ PReturn
  /\ UNCHANGED <<counters, elementsCompletelyDequeued, slots, indexVars, consumerVars>>

(* tailIndex.store(newTailIndex)                                           *)
Publish ==
  /\ pr.pc = "publish"
  /\ Advance(pr.count)
  /\ PReturn
  /\ UNCHANGED <<blockVars, indexVars, consumerVars>>

-----------------------------------------------------------------------------
(* dequeue(), dequeue_bulk(): what a consumer does with the indices it has *)
(* claimed.  An assignment that throws changes nothing here: the elements  *)
(* claimed are destroyed and counted all the same.                         *)

At(c, l) == claims[c].pc = "claimed" /\ loc[c].pc = l

(* get_block_index_index_for_index()                                       *)
LoadIndex(c) ==
  /\ At(c, "loadIndex")
  /\ loc' = [loc EXCEPT ![c].header = Len(headers), ![c].pc = "loadTail"]
  /\ UNCHANGED <<counters, blockVars, indexVars, pr, claims>>

LoadTail(c) ==
  /\ At(c, "loadTail")
  /\ loc' = [loc EXCEPT ![c].tail = headers[loc[c].header].tail, ![c].pc = "locate"]
  /\ UNCHANGED <<counters, blockVars, indexVars, pr, claims>>

(* tailBase and idx                                                        *)
Locate(c) ==
  /\ At(c, "locate")
  /\ loc' = [loc EXCEPT ![c].pos = EntryOf(loc[c].header, loc[c].tail, claims[c].index), ![c].tail = 0,
                        ![c].pc = "take"]
  /\ UNCHANGED <<counters, blockVars, indexVars, pr, claims>>

(* one round of the loop over the blocks: move and destroy the elements    *)
Take(c) ==
  /\ At(c, "take")
  /\ LET b == EntryAt(loc[c].header, loc[c].pos).value IN
     /\ slots' = [slots EXCEPT ![b] = [o \in Offsets |-> IF o \in InBlock(c) THEN Raw ELSE @[o]]]
     /\ loc' = [loc EXCEPT ![c].block = b, ![c].pc = "setEmpty"]
  /\ UNCHANGED <<counters, tailBlock, elementsCompletelyDequeued, pool, indexVars, pr, claims>>

(* the next block, if there are elements left                              *)
NextBlock(c) ==
  /\ BlockDone(c)
  /\ loc' = [loc EXCEPT ![c] =
       IF LastBlock(c) THEN Rest
       ELSE [@ EXCEPT !.pos = (@ + 1) % headers[loc[c].header].capacity, !.block = NoBlock, !.pc = "take"]]

(* the block is now empty, if the value before the addition says so        *)
MutNowEmpty(b, n) == elementsCompletelyDequeued[b] = BLOCK_SIZE - 1

(* set_empty and set_many_empty return true: prevVal + count == BLOCK_SIZE *)
NowEmpty(b, n) == elementsCompletelyDequeued[b] + n = BLOCK_SIZE

(* set_many_empty(blockStartIndex, endIndex - blockStartIndex)             *)
SetEmpty(c) ==
  /\ At(c, "setEmpty")
  /\ LET b == loc[c].block
         n == Cardinality(InBlock(c))
     IN /\ elementsCompletelyDequeued' = [elementsCompletelyDequeued EXCEPT ![b] = @ + n]
        /\ IF NowEmpty(b, n)
           THEN loc' = [loc EXCEPT ![c].pc = "release"] /\ UNCHANGED claims
           ELSE NextBlock(c)
  /\ UNCHANGED <<counters, tailBlock, slots, pool, indexVars, pr>>

(* the emptied block: entry->value.store(nullptr)                          *)
Release(c) ==
  /\ At(c, "release")
  /\ entries' = [entries EXCEPT ![headers[loc[c].header].index[loc[c].pos]].value = NoBlock]
  /\ loc' = [loc EXCEPT ![c].pc = "free"]
  /\ UNCHANGED <<counters, blockVars, headers, pr, claims>>

(* add_block_to_free_list(block)                                           *)
FreeBlock(c) ==
  /\ At(c, "free")
  /\ pool' = pool \cup {loc[c].block}
  /\ NextBlock(c)
  /\ UNCHANGED <<counters, tailBlock, elementsCompletelyDequeued, slots, indexVars, pr>>

-----------------------------------------------------------------------------
(* ~ImplicitProducer(), when no call is under way                          *)

Quiet == pr.pc = "idle" /\ NobodyDequeues

Remaining == {Plus(headIndex, k) : k \in 0 .. Minus(tailIndex, headIndex) - 1}

(* the slots whose element the destructor destroys                         *)
Destructed == {<<entries[EntryFor(i)].value, Offset(i)>> : i \in Remaining}

(* the tail block is returned only when the tail is within it              *)
MutFreesTail == Offset(tailIndex) # 0

(* the tail block is not on the free list, unless it was filled and        *)
(* emptied                                                                 *)
FreesTail == tailBlock # NoBlock /\ (headIndex # tailIndex \/ Offset(tailIndex) # 0)

(* the blocks the destructor returns: all that it passes but the last one, *)
(* and the tail block                                                      *)
Returned ==
  {entries[EntryFor(i)].value : i \in {j \in Remaining : Base(j) # Base(Minus(tailIndex, 1))}}
    \cup IF FreesTail THEN {tailBlock} ELSE {}

Destructor ==
  /\ Quiet
  /\ slots' = [b \in Blocks |-> [o \in Offsets |-> IF <<b, o>> \in Destructed THEN Raw ELSE slots[b][o]]]
  /\ pool' = pool \cup Returned
  /\ headers' = <<>> /\ entries' = <<>>
  /\ PGoto("gone")
  /\ UNCHANGED <<counters, tailBlock, elementsCompletelyDequeued, consumerVars>>

-----------------------------------------------------------------------------
Producer ==
  \/ \E m \in Modes, x \in NoexceptCtor : Enqueue(m, x)
  \/ \E m \in Modes, x \in NoexceptCtor, n \in Counts : EnqueueBulk(m, x, n)
  \/ Insert \/ StoreKey \/ StoreTail \/ Requisition \/ TryConstruct
  \/ InsertBlock \/ Construct \/ Fill \/ RevertEntry \/ RevertBlocks \/ Publish

Consumer(c) ==
  \/ /\ \/ pr.pc # "gone" /\ \E m \in Maxes : Dequeue(c, m)
        \/ ClaimStep(c)
     /\ UNCHANGED <<blockVars, indexVars, pr, loc>>
  \/ LoadIndex(c) \/ LoadTail(c) \/ Locate(c) \/ Take(c)
  \/ SetEmpty(c) \/ Release(c) \/ FreeBlock(c)

Next == Producer \/ Destructor \/ \E c \in Consumers : Consumer(c)

Spec == Init /\ [][Next]_vars

-----------------------------------------------------------------------------
(* Every variable stays within its range.                                  *)
TypeOK ==
  /\ {tailIndex, headIndex, dequeueOptimisticCount, dequeueOvercommit} \subseteq Index
  /\ tailBlock \in Blocks \cup {NoBlock}
  /\ elementsCompletelyDequeued \in [Blocks -> 0 .. BLOCK_SIZE]
  /\ slots \in [Blocks -> [Offsets -> Index \cup {Raw}]]
  /\ pool \subseteq Blocks
  /\ \A e \in DOMAIN entries : entries[e].value \in Blocks \cup {NoBlock, Garbage}
  /\ \A h \in 1 .. Len(headers) : headers[h].tail \in 0 .. headers[h].capacity - 1

(* Position k of header h leads to element i: the two asserts of the       *)
(* lookup, and the element is there                                        *)
LeadsTo(h, k, i) ==
  LET e == EntryAt(h, k) IN
  e.key = Base(i) /\ e.value \in Blocks /\ slots[e.value][Offset(i)] = i

Found(h, t, i) == EntryAt(h, t).key # INVALID_BLOCK_BASE /\ LeadsTo(h, EntryOf(h, t, i), i)

(* The asserts of get_block_index_index_for_index() and what they are for: *)
(* every element that is published or claimed is found, by the consumers   *)
(* that have not looked yet through the index as it is, by those under way *)
(* through the header, tail and position they have read, and by the        *)
(* producer the entries it reverts, although the                           *)
(* producer goes on inserting and rewinding, replacing the index and       *)
(* reusing the entries that other consumers have released.                 *)
LookupSound ==
  /\ pr.pc # "gone" => \A i \in Remaining : Found(Len(headers), Last.tail, i)
  /\ pr.pc = "revert" /\ pr.need < Len(pr.chain) =>
       entries[EntryFor(NewBase(pr.need))] = [key |-> NewBase(pr.need), value |-> pr.chain[pr.need + 1]]
  /\ \A c \in Consumers : \A k \in 0 .. claims[c].count - 1 :
       LET i == Plus(claims[c].index, k)
           h == loc[c].header
       IN /\ At(c, "loadIndex") => Found(Len(headers), Last.tail, i)
          /\ At(c, "loadTail") => Found(h, headers[h].tail, i)
          /\ At(c, "locate") => Found(h, loc[c].tail, i)
          /\ At(c, "take") =>
               LeadsTo(h, (loc[c].pos + BlocksAfter(i, Base(claims[c].index))) % headers[h].capacity, i)

(* A block is on the free list or in use, never both, whoever returns it:  *)
(* a consumer takes from and counts in a block of this producer only, just *)
(* one consumer finds that it was the last (assert in set_many_empty), and *)
(* the producer constructs in no block that it does not own, tailBlock     *)
(* being possibly one (comment in enqueue_bulk).                           *)
BlocksOwned ==
  /\ \A c \in Consumers :
       loc[c].block # NoBlock =>
         /\ loc[c].block \notin pool
         /\ At(c, "setEmpty") =>
              elementsCompletelyDequeued[loc[c].block] + Cardinality(InBlock(c)) <= BLOCK_SIZE
  /\ pr.pc = "construct" => tailBlock \notin pool
  /\ pr.pc = "fill" => \A k \in DOMAIN Target : Target[k] \notin pool

(* No block is lost and none is kept: when no call is under way the blocks *)
(* of this producer are those of the elements that remain, and the tail    *)
(* block while it is not full; whatever failed or threw before.            *)
BlocksReturned ==
  Quiet => Blocks \ pool = {entries[EntryFor(i)].value : i \in Remaining}
                             \cup IF Offset(tailIndex) # 0 THEN {tailBlock} ELSE {}

(* The slots that hold an element                                          *)
Constructed == {s \in Blocks \X Offsets : slots[s[1]][s[2]] # Raw}

(* The destructor destroys exactly the elements that were not dequeued and *)
(* returns exactly the blocks that this producer still has.                *)
DestructorExact ==
  Quiet =>
    /\ Destructed = Constructed
    /\ Returned = Blocks \ pool
=============================================================================
