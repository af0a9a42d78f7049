-------------------------- MODULE ExplicitProducer --------------------------
(***************************************************************************)
(* ConcurrentQueue::ExplicitProducer (include/concurrentqueue.h): the      *)
(* queue behind one ProducerToken.  One producer thread enqueues, any      *)
(* number of consumers dequeue.  Elements live in blocks of BLOCK_SIZE     *)
(* slots, linked in a ring of which tailBlock is the newest; consumers     *)
(* find the block of an index through a circular block index whose header  *)
(* is replaced by one of twice the size when it is full.                   *)
(*                                                                         *)
(* An element is represented by the index it was enqueued with.  The       *)
(* counters, and how consumers claim indices with them, are in             *)
(* ProducerBase.  try_enqueue* are enqueue* in the mode CannotAlloc.       *)
(* Accesses are taken to be sequentially consistent.                       *)
(***************************************************************************)
EXTENDS ProducerBase, Sequences

CONSTANTS Blocks,         \* what requisition_block() can return
          NoBlock,        \* nullptr
          INITIAL_INDEX_SIZE,   \* EXPLICIT_INITIAL_INDEX_SIZE
          NoexceptCtor,   \* values of MOODYCAMEL_NOEXCEPT_CTOR for the calls made
          Modes,          \* subset of {"CanAlloc", "CannotAlloc"}
          Counts          \* the counts given to enqueue_bulk

ASSUME SizeAssumption ==
  /\ INITIAL_INDEX_SIZE \in Nat \ {0}
  /\ NoBlock \notin Blocks /\ Counts \subseteq Nat \ {0} /\ NoexceptCtor \subseteq BOOLEAN

Raw == -1       \* a slot that holds no element

VARIABLES
  tailBlock,
  next,             \* the ring
  emptyFlags,       \* of every block, the offsets whose flag is set
  slots,            \* of every block and offset, the element or Raw
  pool,             \* blocks requisition_block() may still return
  headers,          \* every BlockIndexHeader; blockIndex points to the last one
  pr_blockIndexSlotsUsed, pr_blockIndexFront,
  pr,               \* the producer's program counter and locals
  loc               \* what every consumer has read of the index

ringVars == <<tailBlock, next, pool>>
indexVars == <<headers, pr_blockIndexSlotsUsed, pr_blockIndexFront>>
consumerVars == <<claims, loc>>
vars == <<counters, ringVars, emptyFlags, slots, indexVars, pr, consumerVars>>

-----------------------------------------------------------------------------
(* Blocks                                                                  *)

IsEmpty(b) == emptyFlags[b] = Offsets

(* the block k links after b                                               *)
Ahead(b, k) == LET f[i \in 0 .. k] == IF i = 0 THEN b ELSE next[f[i - 1]] IN f[k]

(* the blocks from a to b along the ring                                   *)
Chain(a, b) ==
  LET steps == {k \in 0 .. Cardinality(Blocks) - 1 : Ahead(a, k) = b}
  IN  {Ahead(a, k) : k \in 0 .. Min(steps)}

Ring == IF tailBlock = NoBlock THEN {} ELSE Chain(next[tailBlock], tailBlock)

-----------------------------------------------------------------------------
(* The block index                                                         *)

NoEntry == [base |-> 0, block |-> NoBlock]
Last == headers[Len(headers)]
HasIndex == headers # <<>>
IndexHasRoom == HasIndex /\ pr_blockIndexSlotsUsed # Last.size

(* the entries are copied from the beginning, not from the oldest on       *)
MutNewHeader(expose) ==
  LET size == IF HasIndex THEN 2 * Last.size ELSE INITIAL_INDEX_SIZE
  IN  [size |-> size, front |-> expose - 1,
       entries |-> [k \in 0 .. size - 1 |-> IF k < pr_blockIndexSlotsUsed THEN Last.entries[k] ELSE NoEntry]]

(* new_block_index(expose): twice the size, the entries in use copied to   *)
(* the beginning; front is the last one exposed.                           *)
NewHeader(expose) ==
  LET size == IF HasIndex THEN 2 * Last.size ELSE INITIAL_INDEX_SIZE
      old(k) == Last.entries[(pr_blockIndexFront - pr_blockIndexSlotsUsed + k) % Last.size]
  IN  [size |-> size, front |-> expose - 1,
       entries |-> [k \in 0 .. size - 1 |-> IF k < pr_blockIndexSlotsUsed THEN old(k) ELSE NoEntry]]

new_block_index(expose) ==
  /\ headers' = Append(headers, NewHeader(expose))
  /\ pr_blockIndexFront' = pr_blockIndexSlotsUsed

(* entry = (base, block) at pr_blockIndexFront                             *)
WriteEntry(base, block) ==
  headers' = [headers EXCEPT ![Len(headers)].entries[pr_blockIndexFront] =
                [base |-> base, block |-> block]]

(* the slot of the index that holds the block of index i, seen from front f *)
EntryOf(h, f, i) ==
  (f + BlocksAfter(i, headers[h].entries[f].base)) % headers[h].size

-----------------------------------------------------------------------------
(* Locals, cleared when they are not needed any more                       *)

Idle == [pc |-> "idle", mode |-> "", noexcept |-> FALSE, count |-> 0, startBlock |-> NoBlock, used |-> 0,
         front |-> 0, first |-> NoBlock, need |-> 0, tail |-> 0]

Rest == [pc |-> "loadIndex", header |-> 0, front |-> 0, entry |-> 0, block |-> NoBlock]

(* After the constructor, whose new_block_index(0) may have failed; or     *)
(* after Passed blocks of elements have been enqueued and dequeued one by  *)
(* one, which takes a single block.                                        *)
Init ==
  LET entries(b) == [k \in 0 .. INITIAL_INDEX_SIZE - 1 |->
        IF k < Passed
        THEN [base |-> Max({j \in 0 .. Passed - 1 : j % INITIAL_INDEX_SIZE = k}) * BLOCK_SIZE, block |-> b]
        ELSE NoEntry]
  IN
  /\ CountersInit
  /\ slots = [b \in Blocks |-> [o \in Offsets |-> Raw]]
  /\ pr = Idle /\ loc = [c \in Consumers |-> Rest]
  /\ \/ /\ Passed = 0
        /\ headers \in {<<>>, <<[size |-> INITIAL_INDEX_SIZE, front |-> -1, entries |-> entries(NoBlock)]>>}
        /\ pr_blockIndexSlotsUsed = 0 /\ pr_blockIndexFront = 0
        /\ tailBlock = NoBlock /\ pool = Blocks
        /\ next = [b \in Blocks |-> NoBlock]
        /\ emptyFlags = [b \in Blocks |-> {}]
     \/ /\ Passed > 0
        /\ \E b \in Blocks :
             /\ headers = <<[size |-> INITIAL_INDEX_SIZE, front |-> (Passed - 1) % INITIAL_INDEX_SIZE,
                             entries |-> entries(b)]>>
             /\ pr_blockIndexSlotsUsed = 1 /\ pr_blockIndexFront = Passed % INITIAL_INDEX_SIZE
             /\ tailBlock = b /\ pool = Blocks \ {b}
             /\ next = [x \in Blocks |-> IF x = b THEN b ELSE NoBlock]
             /\ emptyFlags = [x \in Blocks |-> IF x = b THEN Offsets ELSE {}]

PGoto(l) == pr' = [pr EXCEPT !.pc = l]
PReturn == pr' = Idle

-----------------------------------------------------------------------------
(* enqueue<mode>()                                                         *)

Enqueue(m, x) ==
  /\ pr.pc = "idle" /\ Enqueued < MaxEnqueued
  /\ pr' = IF Offset(tailIndex) = 0
           THEN [Idle EXCEPT !.pc = "newBlock", !.mode = m, !.noexcept = x, !.count = 1,
                             !.startBlock = tailBlock, !.used = pr_blockIndexSlotsUsed]
           ELSE [Idle EXCEPT !.pc = "construct", !.noexcept = x, !.count = 1]
  /\ UNCHANGED <<counters, ringVars, emptyFlags, slots, indexVars, consumerVars>>

(* the block ahead is empty, and not one that this call has taken already  *)
CanReuse == tailBlock # NoBlock /\ next[tailBlock] # pr.first /\ IsEmpty(next[tailBlock])

(* The next step once there is a block: a constructor that may throw runs  *)
(* before the block is put on the index.                                   *)
HaveBlock == IF pr.noexcept THEN "addEntry" ELSE "tryConstruct"

(* the block ahead is empty: re-use it                                     *)
ReuseNext ==
  /\ pr.pc = "newBlock" /\ CanReuse
  /\ tailBlock' = next[tailBlock]
  /\ emptyFlags' = [emptyFlags EXCEPT ![tailBlock'] = {}]
  /\ PGoto(HaveBlock)
  /\ UNCHANGED <<counters, next, pool, slots, indexVars, consumerVars>>

NoReuse ==
  /\ pr.pc = "newBlock" /\ ~CanReuse
  /\ PGoto("room")
  /\ UNCHANGED <<counters, ringVars, emptyFlags, slots, indexVars, consumerVars>>

(* Leeway and size limit, then room in the block index: a full one is      *)
(* replaced, unless allocation is not allowed or fails.                    *)
CheckRoom ==
  /\ pr.pc = "room"
  /\ \/ /\ ~Full(tailIndex) /\ IndexHasRoom
        /\ PGoto("requisition") /\ UNCHANGED indexVars
     \/ /\ ~Full(tailIndex) /\ ~IndexHasRoom /\ pr.mode = "CanAlloc"
        /\ new_block_index(pr_blockIndexSlotsUsed)
        /\ PGoto("requisition") /\ UNCHANGED pr_blockIndexSlotsUsed
     \/ /\ Full(tailIndex) \/ ~IndexHasRoom
        /\ PReturn /\ UNCHANGED indexVars
  /\ UNCHANGED <<counters, ringVars, emptyFlags, slots, consumerVars>>

(* link b behind the tail block and make it the tail block                 *)
InsertBlock(b) ==
  /\ pool' = pool \ {b}
  /\ next' = IF tailBlock = NoBlock THEN [next EXCEPT ![b] = b]
             ELSE [next EXCEPT ![b] = next[tailBlock], ![tailBlock] = b]
  /\ tailBlock' = b
  /\ pr_blockIndexSlotsUsed' = pr_blockIndexSlotsUsed + 1

(* requisition_block() returns a block, or nullptr                         *)
Requisition ==
  /\ pr.pc = "requisition"
  /\ \/ \E b \in pool :
          /\ InsertBlock(b)
          /\ emptyFlags' = [emptyFlags EXCEPT ![b] = {}]
          /\ PGoto(HaveBlock)
     \/ PReturn /\ UNCHANGED <<ringVars, emptyFlags, pr_blockIndexSlotsUsed>>
  /\ UNCHANGED <<counters, slots, headers, pr_blockIndexFront, consumerVars>>

(* The constructor of the first element of a block succeeds, or throws and *)
(* the change to the current block is reverted.                            *)
TryConstruct ==
  /\ pr.pc = "tryConstruct"
  /\ \/ /\ slots' = [slots EXCEPT ![tailBlock][0] = tailIndex]
        /\ PGoto("addEntry")
        /\ UNCHANGED <<tailBlock, pr_blockIndexSlotsUsed>>
     \/ /\ pr_blockIndexSlotsUsed' = pr.used
        /\ tailBlock' = IF pr.startBlock = NoBlock THEN tailBlock ELSE pr.startBlock
        /\ PReturn
        /\ UNCHANGED slots
  /\ UNCHANGED <<counters, next, pool, emptyFlags, headers, pr_blockIndexFront, consumerVars>>

AddEntry ==
  /\ pr.pc = "addEntry"
  /\ WriteEntry(tailIndex, tailBlock)
  /\ PGoto("storeFront")
  /\ UNCHANGED <<counters, ringVars, emptyFlags, slots, pr_blockIndexSlotsUsed, pr_blockIndexFront, consumerVars>>

StoreFront ==
  /\ pr.pc = "storeFront"
  /\ headers' = [headers EXCEPT ![Len(headers)].front = pr_blockIndexFront]
  /\ pr_blockIndexFront' = (pr_blockIndexFront + 1) % Last.size
  /\ PGoto(IF pr.noexcept THEN "construct" ELSE "publish")
  /\ UNCHANGED <<counters, ringVars, emptyFlags, slots, pr_blockIndexSlotsUsed, consumerVars>>

(* the element in the current block; its constructor may throw             *)
Construct ==
  /\ pr.pc = "construct"
  /\ \/ /\ slots' = [slots EXCEPT ![tailBlock][Offset(tailIndex)] = tailIndex]
        /\ PGoto("publish")
     \/ /\ ~pr.noexcept /\ PReturn /\ UNCHANGED slots
  /\ UNCHANGED <<counters, ringVars, emptyFlags, indexVars, consumerVars>>

(* tailIndex.store(newTailIndex)                                           *)
Publish ==
  /\ pr.pc = "publish"
  /\ Advance(pr.count)
  /\ PReturn
  /\ UNCHANGED <<ringVars, emptyFlags, slots, indexVars, consumerVars>>

-----------------------------------------------------------------------------
(* enqueue_bulk<mode>(n)                                                   *)

EnqueueBulk(m, x, n) ==
  /\ pr.pc = "idle" /\ Enqueued + n <= MaxEnqueued
  /\ LET base == Base(Minus(tailIndex, 1))
         need == Minus(Base(Plus(tailIndex, n - 1)), base) \div BLOCK_SIZE
     IN pr' = [Idle EXCEPT !.pc = IF need = 0 THEN "fill" ELSE "ahead", !.mode = m, !.noexcept = x, !.count = n,
                 !.startBlock = tailBlock, !.used = pr_blockIndexSlotsUsed,
                 !.front = pr_blockIndexFront, !.need = need, !.tail = base]
  /\ UNCHANGED <<counters, ringVars, emptyFlags, slots, indexVars, consumerVars>>

(* give up: undo the changes, but keep the injected blocks                 *)
Revert ==
  /\ pr_blockIndexFront' = pr.front
  /\ pr_blockIndexSlotsUsed' = pr.used
  /\ tailBlock' = IF pr.startBlock = NoBlock THEN pr.first ELSE pr.startBlock
  /\ PReturn

(* the block becomes the tail block and gets its entry                     *)
TakeBlock(b, tail, l) ==
  /\ WriteEntry(tail, b)
  /\ pr_blockIndexFront' = (pr_blockIndexFront + 1) % Last.size
  /\ pr' = [pr EXCEPT !.first = IF @ = NoBlock THEN b ELSE @, !.tail = tail, !.need = @ - 1, !.pc = l]

(* one round of the loop that takes empty blocks from ahead                *)
BulkAhead ==
  /\ pr.pc = "ahead" /\ pr.need > 0 /\ CanReuse
  /\ tailBlock' = next[tailBlock]
  /\ TakeBlock(next[tailBlock], Plus(pr.tail, BLOCK_SIZE), "ahead")
  /\ UNCHANGED <<counters, next, pool, emptyFlags, slots, pr_blockIndexSlotsUsed, consumerVars>>

BulkAheadEnds ==
  /\ pr.pc = "ahead" /\ (pr.need = 0 \/ ~CanReuse)
  /\ PGoto(IF pr.need = 0 THEN "reset" ELSE "bulkRoom")
  /\ UNCHANGED <<counters, ringVars, emptyFlags, slots, indexVars, consumerVars>>

(* one round of the loop that takes blocks from the pool: leeway and index *)
BulkRoom ==
  /\ pr.pc = "bulkRoom"
  /\ LET tail == Plus(pr.tail, BLOCK_SIZE) IN
     \/ /\ ~Full(tail) /\ IndexHasRoom
        /\ PGoto("bulkRequisition") /\ UNCHANGED <<tailBlock, indexVars>>
     \/ /\ ~Full(tail) /\ ~IndexHasRoom /\ pr.mode = "CanAlloc"
        /\ new_block_index(pr.used)
        /\ pr' = [pr EXCEPT !.front = pr.used, !.pc = "bulkRequisition"]
        /\ UNCHANGED <<tailBlock, pr_blockIndexSlotsUsed>>
     \/ /\ Full(tail) \/ ~IndexHasRoom
        /\ Revert /\ UNCHANGED headers
  /\ UNCHANGED <<counters, next, pool, emptyFlags, slots, consumerVars>>

BulkRequisition ==
  /\ pr.pc = "bulkRequisition"
  /\ \/ \E b \in pool :
          /\ InsertBlock(b)
          /\ emptyFlags' = [emptyFlags EXCEPT ![b] = Offsets]
          /\ TakeBlock(b, Plus(pr.tail, BLOCK_SIZE), IF pr.need = 1 THEN "reset" ELSE "bulkRoom")
     \/ Revert /\ UNCHANGED <<next, pool, emptyFlags, headers>>
  /\ UNCHANGED <<counters, slots, consumerVars>>

(* the front is stored before the entry it names is the newest             *)
MutExposeBlocks == headers' = [headers EXCEPT ![Len(headers)].front = pr_blockIndexFront]

(* front.store(pr_blockIndexFront - 1)                                     *)
ExposeBlocks ==
  headers' = [headers EXCEPT ![Len(headers)].front = (pr_blockIndexFront - 1) % Last.size]

(* all allocations succeeded: reset the blocks' emptiness                  *)
BulkReset ==
  /\ pr.pc = "reset"
  /\ emptyFlags' = [b \in Blocks |-> IF b \in Chain(pr.first, tailBlock) THEN {} ELSE emptyFlags[b]]
  /\ IF pr.noexcept THEN ExposeBlocks ELSE UNCHANGED headers
  /\ PGoto("fill")
  /\ UNCHANGED <<counters, ringVars, slots, pr_blockIndexSlotsUsed, pr_blockIndexFront, consumerVars>>

(* Construct the elements, block by block; if a constructor throws those   *)
(* made so far are destroyed and everything is reverted.                   *)
Fill ==
  /\ pr.pc = "fill"
  /\ LET start == IF Offset(tailIndex) = 0 THEN pr.first ELSE pr.startBlock
         block(i) == Ahead(start, Minus(Base(i), Base(tailIndex)) \div BLOCK_SIZE)
         new == {Plus(tailIndex, k) : k \in 0 .. pr.count - 1}
     IN \/ /\ slots' = [b \in Blocks |-> [o \in Offsets |->
                 IF \E i \in new : block(i) = b /\ Offset(i) = o
                 THEN CHOOSE i \in new : block(i) = b /\ Offset(i) = o ELSE slots[b][o]]]
           /\ PGoto(IF ~pr.noexcept /\ pr.first # NoBlock THEN "expose" ELSE "publish")
           /\ UNCHANGED <<tailBlock, pr_blockIndexSlotsUsed, pr_blockIndexFront>>
        \/ ~pr.noexcept /\ Revert /\ UNCHANGED slots
  /\ UNCHANGED <<counters, next, pool, emptyFlags, headers, consumerVars>>

Expose ==
  /\ pr.pc = "expose"
  /\ ExposeBlocks
  /\ PGoto("publish")
  /\ UNCHANGED <<counters, ringVars, emptyFlags, slots, pr_blockIndexSlotsUsed, pr_blockIndexFront, consumerVars>>

-----------------------------------------------------------------------------
(* dequeue(), dequeue_bulk(): what a consumer does with the indices it has *)
(* claimed.  An assignment that throws changes nothing here: the elements  *)
(* claimed are destroyed and marked all the same.                          *)

At(c, l) == claims[c].pc = "claimed" /\ loc[c].pc = l

LoadIndex(c) ==
  /\ At(c, "loadIndex")
  /\ loc' = [loc EXCEPT ![c].header = Len(headers), ![c].pc = "loadFront"]
  /\ UNCHANGED <<counters, ringVars, emptyFlags, slots, indexVars, pr, claims>>

LoadFront(c) ==
  /\ At(c, "loadFront")
  /\ loc' = [loc EXCEPT ![c].front = headers[loc[c].header].front, ![c].pc = "locate"]
  /\ UNCHANGED <<counters, ringVars, emptyFlags, slots, indexVars, pr, claims>>

(* headBase and indexIndex                                                 *)
Locate(c) ==
  /\ At(c, "locate")
  /\ loc' = [loc EXCEPT ![c].entry = EntryOf(loc[c].header, loc[c].front, claims[c].index), ![c].front = 0,
                        ![c].pc = "take"]
  /\ UNCHANGED <<counters, ringVars, emptyFlags, slots, indexVars, pr, claims>>

(* one round of the loop over the blocks: move and destroy the elements    *)
Take(c) ==
  /\ At(c, "take")
  /\ LET b == headers[loc[c].header].entries[loc[c].entry].block IN
     /\ slots' = [slots EXCEPT ![b] = [o \in Offsets |-> IF o \in InBlock(c) THEN Raw ELSE @[o]]]
     /\ loc' = [loc EXCEPT ![c].block = b, ![c].pc = "setEmpty"]
  /\ UNCHANGED <<counters, ringVars, emptyFlags, indexVars, pr, claims>>

(* the next block, if there are elements left                              *)
NextBlock(c) ==
  /\ BlockDone(c)
  /\ loc' = [loc EXCEPT ![c] =
       IF LastBlock(c) THEN Rest
       ELSE [@ EXCEPT !.entry = (@ + 1) % headers[loc[c].header].size, !.block = NoBlock, !.pc = "take"]]

(* only the first element is marked                                        *)
MutSetEmpty(c) ==
  /\ At(c, "setEmpty")
  /\ emptyFlags' = [emptyFlags EXCEPT ![loc[c].block] = @ \cup {Offset(claims[c].index)}]
  /\ NextBlock(c)
  /\ UNCHANGED <<counters, ringVars, slots, indexVars, pr>>

(* set_many_empty(firstIndexInBlock, endIndex - firstIndexInBlock)         *)
SetEmpty(c) ==
  /\ At(c, "setEmpty")
  /\ emptyFlags' = [emptyFlags EXCEPT ![loc[c].block] = @ \cup InBlock(c)]
  /\ NextBlock(c)
  /\ UNCHANGED <<counters, ringVars, slots, indexVars, pr>>

-----------------------------------------------------------------------------
(* ~ExplicitProducer(), when no call is under way                          *)

Quiet == pr.pc = "idle" /\ NobodyDequeues

(* the first entry in use, from the oldest on, whose block does not end    *)
(* before the head                                                         *)
HalfDequeuedEntry ==
  LET entry(k) == Last.entries[(pr_blockIndexFront - pr_blockIndexSlotsUsed + k) % Last.size]
  IN  entry(Min({k \in 0 .. Last.size - 1 :
                   ~circular_less_than(Plus(entry(k).base, BLOCK_SIZE), headIndex)}))

(* the last slot is taken for the end when the tail is on a boundary       *)
MutLastValid == Offset(tailIndex)

LastValid == IF Offset(tailIndex) = 0 THEN BLOCK_SIZE ELSE Offset(tailIndex)

(* the slots whose element the destructor destroys                         *)
Destructed ==
  {s \in Ring \X Offsets :
     LET b == s[1]
         o == s[2]
     IN  /\ ~IsEmpty(b)
         /\ Offset(headIndex) # 0 /\ b = HalfDequeuedEntry.block => o >= Offset(headIndex)
         /\ b = tailBlock => o < LastValid}

Destructor ==
  /\ Quiet
  /\ slots' = [b \in Blocks |-> [o \in Offsets |-> IF <<b, o>> \in Destructed THEN Raw ELSE slots[b][o]]]
  /\ pool' = pool \cup Ring
  /\ tailBlock' = NoBlock
  /\ headers' = <<>>
  /\ PGoto("gone")
  /\ UNCHANGED <<counters, next, emptyFlags, pr_blockIndexSlotsUsed, pr_blockIndexFront, consumerVars>>

-----------------------------------------------------------------------------
Producer ==
  \/ \E m \in Modes, x \in NoexceptCtor : Enqueue(m, x)
  \/ ReuseNext \/ NoReuse \/ CheckRoom \/ Requisition
  \/ TryConstruct \/ AddEntry \/ StoreFront \/ Construct \/ Publish

BulkProducer ==
  \/ \E m \in Modes, x \in NoexceptCtor, n \in Counts : EnqueueBulk(m, x, n)
  \/ BulkAhead \/ BulkAheadEnds \/ BulkRoom \/ BulkRequisition
  \/ BulkReset \/ Fill \/ Expose

Consumer(c) ==
  \/ /\ \/ pr.pc # "gone" /\ \E m \in Maxes : Dequeue(c, m)
        \/ ClaimStep(c)
     /\ UNCHANGED <<ringVars, emptyFlags, slots, indexVars, pr, loc>>
  \/ LoadIndex(c) \/ LoadFront(c) \/ Locate(c) \/ Take(c) \/ SetEmpty(c)

Next == Producer \/ BulkProducer \/ Destructor \/ \E c \in Consumers : Consumer(c)

Spec == Init /\ [][Next]_vars

-----------------------------------------------------------------------------
(* Every variable stays within its range.                                  *)
TypeOK ==
  /\ {tailIndex, headIndex, dequeueOptimisticCount, dequeueOvercommit} \subseteq Index
  /\ tailBlock \in Blocks \cup {NoBlock}
  /\ next \in [Blocks -> Blocks \cup {NoBlock}]
  /\ emptyFlags \in [Blocks -> SUBSET Offsets]
  /\ slots \in [Blocks -> [Offsets -> Index \cup {Raw}]]
  /\ pool \subseteq Blocks
  /\ \A h \in 1 .. Len(headers) : headers[h].front \in -1 .. headers[h].size - 1
  /\ HasIndex => pr_blockIndexSlotsUsed \in 0 .. Last.size /\ pr_blockIndexFront \in 0 .. Last.size - 1

(* Element i is in the block that entry e of header h names                *)
Holds(h, e, i) ==
  LET b == headers[h].entries[e].block IN b # NoBlock /\ slots[b][Offset(i)] = i

(* Every element that is published or claimed is found: by the consumers   *)
(* that have not looked yet through the index as it is, by those under way *)
(* through the header, front and entry they have read, although the        *)
(* producer goes on reusing blocks, overwriting entries and replacing the  *)
(* index.                                                                  *)
ElementsFound ==
  /\ \A k \in 0 .. Minus(tailIndex, headIndex) - 1 :
       LET i == Plus(headIndex, k) IN
       pr.pc # "gone" => Holds(Len(headers), EntryOf(Len(headers), Last.front, i), i)
  /\ \A c \in Consumers : \A k \in 0 .. claims[c].count - 1 :
       LET i == Plus(claims[c].index, k)
           h == loc[c].header
           further == Minus(Base(i), Base(claims[c].index)) \div BLOCK_SIZE
       IN /\ At(c, "loadIndex") => Holds(Len(headers), EntryOf(Len(headers), Last.front, i), i)
          /\ At(c, "loadFront") => Holds(h, EntryOf(h, headers[h].front, i), i)
          /\ At(c, "locate") => Holds(h, EntryOf(h, loc[c].front, i), i)
          /\ At(c, "take") => Holds(h, (loc[c].entry + further) % headers[h].size, i)

(* Blocks are not lost: once every element has been dequeued, every block  *)
(* of the ring can be reused, except for the tail block when it is not     *)
(* full.                                                                   *)
BlocksReusable ==
  Quiet /\ headIndex = tailIndex => \A b \in Ring : IsEmpty(b) \/ (b = tailBlock /\ Offset(tailIndex) # 0)

(* The slots that hold an element                                          *)
Constructed == {s \in Blocks \X Offsets : slots[s[1]][s[2]] # Raw}

(* The destructor destroys the elements that were not dequeued, each in a  *)
(* slot that holds one, and no others; and the block its search stops at   *)
(* begins before the head (assert).                                        *)
DestructorExact ==
  Quiet =>
    /\ Destructed = Constructed
    /\ Ring # {} /\ Offset(headIndex) # 0 => circular_less_than(HalfDequeuedEntry.base, headIndex)
=============================================================================
