# Formal model of dmlockfree

dmlockfree is a header-only collection of queues and pools for threads of one
process (`include/`, 12 headers). This directory models its concurrent parts in
TLA+, checks them with TLC on small instances and proves with TLAPS, for any number
of threads, any capacity and any width of an index, what most of them promise. All paths below are relative to
the repository; line numbers are in `PROJECT.json` under `map`, one entry per
definition.

## 1. Inventory

| Component | State | Operations | What makes it correct |
|---|---|---|---|
| `CDMAtomicQueue` (`dmatomic_queue.h`) | ring of raw slots, `head_`, `tail_` | one producer: `emplace`, `try_emplace`, `push`, `try_push`, `size`; one consumer: `front`, `pop`, `size`; destructor | objects are constructed in raw slots, read and destroyed while alive; FIFO; `pop()`'s assert; `size()` usable by both sides |
| `ConcurrentQueue` (`concurrentqueue.h`) | list of producers, hash of implicit producers, block pool | `enqueue*`, `try_enqueue*`, `try_dequeue*`, with and without tokens | every element comes out exactly once, per-producer order |
| ... block pool, `FreeList` | initial array, `freeListHead`, per-node reference count and flag | `requisition_block`, `add_block_to_free_list` | no block handed out twice or lost |
| ... `ProducerBase` | `tailIndex`, `headIndex`, `dequeueOptimisticCount`, `dequeueOvercommit` | consumers claim indices optimistically | never more claims than elements |
| ... `ExplicitProducer` | ring of blocks with emptiness flags, circular block index | `enqueue`, `enqueue_bulk`, `dequeue`, `dequeue_bulk`, destructor | consumers find their block although blocks, entries and the index are being replaced |
| ... `ImplicitProducer` | blocks with a counter, index of shared entries | the same | the same, and blocks are returned exactly once, by consumers |
| ... list of producers, producer tokens | lock-free list, `inactive` and `token` of each producer | `recycle_or_create_producer`, `add_producer`, construct, swap and destroy a `ProducerToken` | no producer serves two tokens, none is missing from the list |
| ... hash of implicit producers | a chain of tables, the number of ids, a flag for resizing | `get_or_add_implicit_producer` | a thread finds its one producer again, probing ends |
| ... consumer tokens | `globalExplicitConsumerOffset`, per token its desired and current producer and a count | `try_dequeue`, `try_dequeue_non_interleaved`, `try_dequeue_bulk`, with and without token | "nothing there" means that all were asked, a token passes no producer by |
| `LightweightSemaphore` (`blockingconcurrentqueue.h`) | `m_count`, kernel semaphore | `tryWait*`, `wait*` with and without timeout, `signal` | a counting semaphore without lost wakeups |
| `BlockingConcurrentQueue` (`blockingconcurrentqueue.h`) | `inner`, `sema` | enqueue then signal; acquire then take until served | an element for every unit, a unit for every element |
| `CDMQueue`, `CDMMutexQueue` (`dmqueue.h`, `dmmutexqueue.h`) | ring of pointers with plain indices; the same under a mutex | `PushBack`, `PopFront`, `GetUsedSize` | FIFO; what plain indices give two threads |
| `CDMQueueThreadPool` (`queuethreadpool.hpp`) | N queues in a row, N workers, `running` | `PushTask`, hand a task on or process it, shut down | no task lost or done twice |
| `AtomicKFifo`, `KFifo` (`dmatomic_kfifo.h`, `dmkfifo.h`) | byte ring, free-running 32-bit indices | `put`, `get`, `peek`, `reset`, ... | byte stream FIFO across wrap-around |
| `CAtomicQueue` (`atomic_queue.h`) | ring of atomic pointers | `try_push`, `front`, `pop` | FIFO, each element deleted once |
| `ThreadSafeQueue` (`thread_safe_queue.h`) | `std::queue`, mutex, condition variable | `push`, `pop`, `try_pop` | FIFO, a waiting `pop` is woken |
| `CDMRapidPool` (`dmrapidpool.h`) | thread-local pools of slots, a registry | fetch, release, statistics | a slot is owned once |

Interaction. `BlockingConcurrentQueue` calls `ConcurrentQueue` and the
semaphore, and holds no other state. `ConcurrentQueue` finds a sub-queue
(explicit by token, implicit by thread id), and the sub-queues take blocks from
and return them to the shared pool. Inside a sub-queue one producer thread and
any number of consumers share four counters, the blocks and the block index,
all without locks. `CDMQueueThreadPool` shares a `CDMQueue` between each two
neighbouring threads. The other queues stand alone.

What is hard here: consumers act on indices, index headers and block pointers
that the producer may replace meanwhile; counters wrap around; a free list is
subject to ABA; timeouts race signals; and calls may fail half way, because
memory runs out or an element's constructor or assignment throws. `PROJECT.json`
lists these hazards at their lines with the properties that cover them; the one
without a property says why.

## 2. Modules

| Module | Models | Uses |
|---|---|---|
| `BoundedFifo` | abstract: a FIFO with a bound, and a reader's last look | |
| `DMAtomicQueue` | `CDMAtomicQueue`; refines `BoundedFifo` | `BoundedFifo` |
| `Tally` | sums over threads | |
| `CountingLemmas` | what changes of one member do to sums and cardinalities; division with remainder; the least number of a set | `Tally` |
| `CountingSemaphore` | abstract: units, acquired when available | |
| `LightweightSemaphore` | the semaphore; refines `CountingSemaphore` | `CountingSemaphore`, `Tally` |
| `BlockPool` | `requisition_block`, `FreeList` | |
| `BlockPoolProofs` | theorems about it | `BlockPool`, `CountingLemmas` |
| `ProducerBase` | the counters and the claiming of indices | `Tally` |
| `ExplicitProducer` | the sub-queue behind a token | `ProducerBase` |
| `ExplicitProducerProofs` | theorems about the counters of a sub-queue, and about this one | `ExplicitProducer`, `CountingLemmas` |
| `ImplicitProducer` | the sub-queue of a thread | `ProducerBase` |
| `BlockingConcurrentQueue` | the blocking queue | `CountingSemaphore`, `Tally` |
| `MCBlockingConcurrentQueue` | the semaphore, and beside it the queue on an abstract one | `LightweightSemaphore`, `BlockingConcurrentQueue` |
| `BlockingConcurrentQueueProofs` | theorems about both | `MCBlockingConcurrentQueue`, `CountingLemmas` |
| `ProducerList` | the list of producers and `ProducerToken` | |
| `ImplicitProducerHash` | `get_or_add_implicit_producer`, composed with the list | `ProducerList` |
| `ImplicitProducerHashProofs` | theorems about the list, the tokens and the hash | `ImplicitProducerHash`, `CountingLemmas` |
| `ConsumerTokens` | the choice of a producer in `try_dequeue*`, `ConsumerToken` | |
| `ConsumerTokensProofs` | theorems about it | `ConsumerTokens`, `CountingLemmas` |
| `DMQueue` | what `CDMQueue` computes from its fields | |
| `QueueThreadPool` | `CDMQueueThreadPool` and the accesses to its queues | `DMQueue` |
| `QueueThreadPoolProofs` | theorems about them | `QueueThreadPool`, `CountingLemmas` |
| `ByteFifo` | abstract: a FIFO of bytes with a bound | |
| `KFifo` | what `KFifo` computes from its indices | |
| `AtomicKFifo` | `AtomicKFifo`; refines `ByteFifo` | `KFifo`, `ByteFifo` |
| `CAtomicQueue` | `CAtomicQueue`; refines `BoundedFifo` | `BoundedFifo` |
| `ThreadSafeQueue` | `ThreadSafeQueue` | |
| `RapidPool` | `CDMRapidPool` and `CDynamicRapidPool` | |
| `MCStandalone` | one of `CDMAtomicQueue` and the last four containers per behaviour | these five |
| `StandaloneProofs` | theorems about these five | `MCStandalone`, `CountingLemmas` |
| other `MC*` | constants and symmetry for TLC | the module named |

`BlockingConcurrentQueue` is composed of two abstractions: the semaphore is the
specification that `LightweightSemaphore` is shown to implement, and of the inner
queue only the number of elements per sub-queue is kept.
`ExplicitProducer` and `ImplicitProducer` see the block pool as a set from which
a block may be taken (or not: allocation may fail), which is what `BlockPool`
shows: a block handed out is nobody else's.

### How state and actions correspond to the code

General conventions. Variables have the names of the members they model. Every
atomic access that another thread can observe in between is one action; the
program counter and the locals of a thread are a record that is cleared when the
locals are dead, which keeps the state space small without changing behaviour.
An action stands for the code from one such access to the next, including what
the thread does to its own data. Operators whose names begin with `Mut` are
faulty variants of the definition that follows them; nothing uses them, they
record which mistakes the properties tell from the code.

**DMAtomicQueue.** `PCall`, `PLoadTail`, `PConstruct` or `PThrow`, `PPublish`
are `emplace`/`try_emplace` (`push` and `try_push` forward to them); `CFront`,
`CRead`, `CPop`, `CDestroy`, `CRetire` are `front()`, the caller's use of the
pointer, and `pop()`; `PSize` and `CSize` are `size()` (and `empty()`) on either
side; `Dtor*` the destructor. `slots_` keeps a slot's bytes after `~T()`;
`constructed` is the set of slots in which an object lives. Loads of the other
side's index may be stale: each returns any value the index had since the one
that this thread saw before, which is what one writer, release stores, acquire
loads and coherence give. The two ghost values `psize` and `csize` remember the
last result of `size()` until the thread itself changes the ring.

**LightweightSemaphore.** `TryEnds`/`TryCas`/`TryCasFails` are the loops of
`tryWait` and `tryWaitMany`, `SpinLoad`/`SpinCas` the spinning part and
`FetchSub` the announcement in `waitWithPartialSpinning` and
`waitManyWithPartialSpinning`, `SemaWait`/`Timeout` the kernel call, and
`Adjust*` the loop that takes an announcement back after a timeout; `More` is
the greedy `tryWaitMany` at the end of `waitMany`; `Signal` and `Post` are
`signal`. The kernel semaphore is external: a value that a wait decrements when
it is positive and that each post increments. Waiting for one unit is waiting
for many with a maximum of one, with the same counts.

**BlockPool.** `Requisition`, `PoolAdd` and `Alloc` are `requisition_block`;
`LoadHead` ... `DecOne` one round each of `try_get`, with the reference taken,
lost or given back; `Add`, `LoadTop` ... `GiveUp` are `add` and
`add_knowing_refcount_is_zero`. `freeListRefs` is split into its count (`refs`)
and its top bit (`should`); both are read and written together.

**ProducerBase.** `Dequeue`, `Check`, `Commit`, `Recheck`, `Overcommit` and
`Claim` are the beginning of `dequeue` and `dequeue_bulk`, one load or
read-modify-write each. Indices are integers modulo `IndexRange`, which stands
for 2^64; `Passed` starts an instance just below the wrap-around, as if so
many blocks of elements had gone through already. The free-running
`dequeueOvercommit` wraps too.

**ExplicitProducer.** `Enqueue` ... `Publish` are `enqueue`: reuse the next block
of the ring (`ReuseNext`) or, after the checks and perhaps a larger index
(`CheckRoom`, `NewHeader`), insert a new one (`Requisition`, `InsertBlock`);
construct and perhaps throw (`TryConstruct`), write the entry and the front
(`AddEntry`, `StoreFront`), publish the tail. The types for which
`MOODYCAMEL_NOEXCEPT_CTOR` is true take the other order (`Construct` after
`StoreFront`); the choice is made per call, so instances mix both. `EnqueueBulk`
... `Expose` are `enqueue_bulk` with `Revert` for its failure exits. A consumer
reads the header, the front, and the entry in three steps (`LoadIndex`,
`LoadFront`, `Locate`), takes elements block by block (`Take`, `NextBlock`) and
marks them (`SetEmpty`). An element is the index it was enqueued with, so that a
consumer sent to the wrong slot is noticed.

**ImplicitProducer.** `Insert`, `StoreKey`, `StoreTail` are
`insert_block_index_entry` (the growth in `NewHeader`); `Requisition`,
`TryConstruct`, `InsertBlock`, `Construct`, `Publish` the rest of `enqueue`;
`Fill`, `RevertEntry`, `RevertBlocks` complete `enqueue_bulk`. Consumers load
the index, its tail and the key in three steps and, when they find a block
emptied by them (`SetEmpty`), clear the entry (`Release`) and return the block
(`FreeBlock`). A new entry's `value` is not initialized by the code: it is
`Garbage`, which no lookup may return. A block outside of `pool` belongs to this
producer; what other producers write into blocks of the pool is invisible here,
and the properties show that nobody looks.

**BlockingConcurrentQueue.** `InnerEnqueue` and `Signal` are the two halves of
each enqueue; `Call`, `Miss`, `Acquire`, `Take` and `TakeThrows` each dequeue.

**ProducerList.** `Recycle`, `Visit` and `Catch` walk the list in
`recycle_or_create_producer` (the load and the compare-and-swap of `inactive` are
two steps), `Create`, `CreateFails`, `LoadTail` and `Push` are `add_producer`;
`ConstructToken`/`TokenConstructed`, `SwapTokens`, `DestroyToken`/`ReleaseToken`
are a token's life. A producer is numbered when it is created and never deleted.

**ImplicitProducerHash.** `Lookup` searches the chain of tables, `Forward` moves
an id found in an older table to the main one, `Count` and `Decide` count a new id
and test the load, `Resize`, `ResizeFails`, `Unlock` and `GiveUp` replace the table
under the flag, `Reload` is the retry after another thread's resizing, `Insert`
takes the first free slot. Probing within one table is one step: keys are never
removed and each is inserted by the thread it names, so what the probe looks for
does not change under it. `DestroyQueue` follows the chains that the destructor
deletes.

**ConsumerTokens.** Of a producer only the number of elements is kept, and its
`dequeue` or `dequeue_bulk` is one step, which may take less than there is, or nothing
(`Takes`): a consumer that has loaded an old `dequeueOvercommit` or commits to more than
there is comes back without an element although there is one, and with others dequeuing
it can do so again and again. The modules above model what happens inside.
`Begin`, `Rotate`, `LoadCount`, `Designated`, `Place` are
`update_current_producer_after_rotation`; `Take`, `Turn`, `Wrap`, `Search` the rest
of the calls with a token; `Score`, `Best`, `Sweep` those without. Counters are
taken modulo `Range32`, which stands for 2^32.

**DMQueue, QueueThreadPool.** `PushCheck` and `PushStore` are `PushBack`,
`PopCheck`, `PopRead` and `PopHead` are `PopFront`, one access to shared fields
each. The fields are plain, so these accesses race; the outcome that matters,
which of `PushBack`'s two stores becomes visible first, is chosen from
`StoreOrders`. `Loop`, `HandsOn`/`HandOn` and `OnProcessTask` are the worker's
loop; `DestroyDerived` and `Stop` the two halves of destruction: between them
workers still run, and reach the base class's `OnProcessTask`, which does nothing.

**AtomicKFifo, KFifo.** `Put`, `PutFirst`, `PutRest`, `PutPublish` and `Get`,
`GetFirst`, `GetRest`, `GetPublish` are `put` and `get` (or `peek`), one `memcpy`
each, so that bytes written and read at the same time would show. Indices run
freely modulo `IndexRange`, for 2^32. A load of the other side's index returns any
value from the one seen before to the present one.

**CAtomicQueue.** `try_push`, `StoreElement`, `StoreTail`, `CountPush`; `front`;
`pop`, `Exchange`, `StoreHead`, `CountPop`; loads as in `AtomicKFifo`.

**ThreadSafeQueue.** `push`, `try_pop`, `pop` up to its wait and `Resume` after it
are one step each, since each holds the mutex. The condition variable is external:
`notify_one` wakes one waiting thread, which then needs the mutex, and threads wake
spuriously. Copying an element may throw: where no thread was woken for it nothing
changes, but a woken thread leaves `pop` and the element behind (`ResumeThrows`).
`abandoned` counts these threads until the queue has been empty.

**RapidPool.** A pool belongs to one thread, so nothing interleaves, but
constructors and destructors may call the pool again: the calls under way are a
stack. `Fetch` is `FetchObj` up to the constructor (`Constructed`,
`ConstructorThrows`), `ReleaseObj` the release up to the destructor (`Destroyed`):
the slot is on the free list before `~T()` runs, and a fetch made there may get it.
`refetched` remembers that a destructor under way, or something it called, has fetched.

## 3. Runs

Each run is a configuration for TLC; deadlock is checked unless noted.

| Run | Instance | Shows |
|---|---|---|
| `dm_atomic_queue` | 4 slots, 2 values | object lifetimes, `pop()`'s assert, `size()`, the popped slot's bytes, `emplace` returns, refinement of `BoundedFifo` |
| `semaphore` | 3 threads (one of them both waits and signals), requests of 2, signals of 1 and 2, count up to 1 | sleepers are served |
| `block_pool` | 3 threads, 1 pooled and 1 heap block | list acyclic, no block in use on it or handed out twice, none lost |
| `explicit_single` | 2 consumers, 3 blocks of 2, index grows from 2, 16 indices starting at 14 | claims never pass the tail, counters balance, elements found, blocks reusable, destructor |
| `explicit_bulk` | the same with bulk calls, failing allocations, throwing constructors, an index that needs no growth | elements found |
| `explicit_bulk_injected` | bulk calls with failing allocations and an index that does grow | a violation, see section 5 |
| `implicit` | 2 consumers that ask for 2, up to 5 elements in 3 blocks of 2, singly and in bulk, with failing allocations and throwing constructors; index grows from 2, 16 indices starting at 14 | lookups sound, blocks owned and returned, destructor |
| `blocking` | the queue: 2 producers, 3 consumers, calls of 1 and 3, up to 5 elements; the semaphore: the threads of `semaphore`, requests and signals of 1 and 2, count up to 2 | units backed by elements, size accurate; posts match sleepers, `waitMany`'s assert, refinement of `CountingSemaphore` |
| `producers` | 3 threads with ids that collide, tables from size 2, 4 producers, 1 failed allocation; threads without tokens, with tokens, and both | probes find room, one producer per thread, tokens exclusive, list complete, calls return |
| `consumer_tokens` | 2 consumers, 2 producers added one by one with up to 2 elements, quota 2, counters modulo 3; a token next to a consumer without one, bulk calls, two consumers without | an unsuccessful call has asked every producer there when it began, calls return, a single token asks every producer again and again |
| `thread_pool` | 3 workers, queues of 2, 4 tasks, stores visible in program order | no task lost or doubled, handing on never fails, tasks processed, destructor returns |
| `standalone` | `AtomicKFifo`: indices modulo 8, capacities 3 (rounded to 4) and 5 (rounded to 8, which is 0, hence 2), calls of up to 2 bytes; `CAtomicQueue`: 4 slots; `ThreadSafeQueue`: 4 threads, 3 elements; pools: 2 of 2 slots, calls nested 3 deep | refinement of `ByteFifo` and of `BoundedFifo`, nobody sleeps beside more elements than exceptions left behind, slots accounted for |

The modules keep a type invariant (`TypeOK`) each where one was useful during
development; no run lists it, as the properties above fail where types do.

Why the bounds are enough to be interesting. A block of 2 slots has a first and a
last one; 2 and 3 blocks make the ring reuse one block while another is in use; 16
indices and `Passed = 7` put the wrap-around of `index_t` in the middle of the
run (the code's comparisons need only that all indices alive fit in half of the
range, and `CountersAssumption` keeps that range a multiple of the block size, as
2^64 is). Two consumers suffice for every race of the claim protocol between a
committer, an overcommitter and the producer. Three threads and two blocks give
ABA on the free list: a node taken, used and put back while a third thread has
only read the head. Three threads whose ids collide in every table of up to 2 slots make one resize
while another probes and a third has counted itself already. A quota of 2 and two
producers are the smallest with which a token has somewhere to rotate to. Queues of
2 in a row of 3 fill up while their neighbours drain, and the last worker has nobody
to hand on to. Nested calls 3 deep let a destructor's call reuse the slot that is
being destroyed. `CHECK_DEADLOCK FALSE` is set where a behaviour really ends: the
producer, queue or pool is destroyed, the bound on elements, calls or tasks is
reached, or all threads of a `ThreadSafeQueue` wait.

Named bounds: `MaxEnqueued` (elements enqueued in a run), `MaxCount` (units in the
semaphore), `HeapSize` and `Blocks` (blocks; running out of them is the failing
allocation the code handles), `Passed`, `IndexRange`, `MaxProducers`, `MaxFailures`
and `Budgets` (producers, failed allocations, calls of each thread), `MaxSize`
(elements in a producer), `MaxTasks`, `MaxLen` (bytes in a call), `MaxQueued`
(elements in a `ThreadSafeQueue`), `MaxDepth` (nested calls).

`blocking` runs the queue or the semaphore, never both at once: they share nothing, the
queue is built on the abstract semaphore. The semaphore's liveness is apart from its
safety and has smaller bounds, as TLC's graph for it grows with every value that an idle
thread keeps from its last call. A request of 2 also takes the paths of a request of 1
where a single unit is available, and with a count of at most 1 a signal of 2 still
finds two sleepers. The bounds that `blocking` has were tried with it as well and give
the same answer.

Symmetry is used over consumers, threads or producers in runs without liveness
properties only.

### Fairness

- `DMAtomicQueue`: both threads keep running, a repeated load eventually sees a
  newer value, and the consumer keeps calling `front()` and `pop()`. The first is
  the scheduler's, the second is what C++ asks of implementations ([intro.progress]);
  the third is the caller's and named in the property: `emplace` spins only as long
  as nobody pops.
- `LightweightSemaphore`: a thread inside a call keeps running, spinning ends after
  its 10000 rounds and a timeout elapses. Nobody is obliged to call anything.
- `ImplicitProducerHash`: a thread inside a call goes on. `CallsReturn` thus shows
  that nobody waits for a resizing that failed.
- `ConsumerTokens`: a consumer inside a call goes on, and for `EveryProducerAsked`
  consumers call again and again; both are the scheduler's and the caller's part.
  Producers owe nothing.
- `QueueThreadPool`: workers, and a thread inside `PushTask`, keep running, and the
  destructor of the base class follows that of the derived one. Nobody is obliged
  to push or to destroy the pool.
- No liveness is claimed of the sub-queues: two consumers can take turns for ever
  in committing, finding the tail passed and taking the commitment back, while the
  queue is not empty. The spinning of `BlockingConcurrentQueue`'s dequeue therefore
  is only shown to have an element to find (`UnitsBacked`), not to find it.

## 4. Proofs

Every theorem holds for all values of the constants that satisfy the assumptions of
the modules, which are what the constructors and asserts of the code demand, and for
any finite set of threads. Hypotheses beyond these are part of the theorem and named
below. Each proof shows that an inductive invariant holds to begin with, is
preserved by every action (one lemma or step per action) and implies the property.
Numbers of threads in some state and sums over threads are handled by a few lemmas in
`CountingLemmas`: when one thread moves, a sum changes by what that thread
contributes.

| Property of a run | Theorem | Module | Hypothesis of its own |
|---|---|---|---|
| `SlotLifetime` | `LifetimesRespected` | `StandaloneProofs` | |
| `PopAssertHolds` | `PopNeverAborts` | `StandaloneProofs` | |
| `SizeBounds` | `SizeIsSafe` | `StandaloneProofs` | |
| `PoppedSlotStable` | `PoppedSlotKept` | `StandaloneProofs` | |
| `ImplementsFifo` | `RingImplementsFifo` | `StandaloneProofs` | |
| `PostsMatchSleepers` | `PostsMatch` | `BlockingConcurrentQueueProofs` | |
| `WaitManyAssert` | `WaitManyReturnsUnits` | `BlockingConcurrentQueueProofs` | nobody waits for 0 units |
| `ImplementsSemaphore` | `SemaphoreImplemented` | `BlockingConcurrentQueueProofs` | |
| `UnitsBacked` | `EveryUnitBacked` | `BlockingConcurrentQueueProofs` | |
| `SizeAccurate` | `SizeIsAccurate` | `BlockingConcurrentQueueProofs` | only dequeues of one element throw |
| `ListSound` | `FreeListSound` | `BlockPoolProofs` | |
| `NoBlockLost` | `BlocksNeverLost` | `BlockPoolProofs` | |
| `CountsBalance` | `CountersBalance` | `ExplicitProducerProofs` | |
| `HeadWithinTail` | `HeadStaysWithinTail` | `ExplicitProducerProofs` | `FewOvercommits` |
| `HandOnSucceeds` | `HandingOnSucceeds` | `QueueThreadPoolProofs` | |
| `TasksExact` | `TasksStayExact` | `QueueThreadPoolProofs` | stores visible in program order |
| `OnlyAbandonedWait` | `SleepersMissOnlyAbandoned` | `StandaloneProofs` | |
| `ImplementsPointerFifo` | `AtomicQueueImplementsFifo` | `StandaloneProofs` | a place in the ring, no null element |
| `SlotsAccounted` | `SlotsStayAccounted` | `StandaloneProofs` | a slot in the pool |
| `ImplementsByteFifo` | `KFifoImplementsByteFifo` | `StandaloneProofs` | |
| `ListComplete` | `ProducersAreListed` | `ImplicitProducerHashProofs` | |
| `TokensExclusive` | `TokensShareNoProducer` | `ImplicitProducerHashProofs` | |
| `ImplicitProducersOwned` | `ThreadsKeepTheirProducer` | `ImplicitProducerHashProofs` | |
| `TablesHaveRoom` | `HashTablesNeverFull` | `ImplicitProducerHashProofs` | |
| `NothingMeansAllChecked` | `NothingMeansEmpty` | `ConsumerTokensProofs` | |

Type correctness of the ring, the semaphore, the blocking queue, the block pool and the
consumer tokens is proved too (`TypeCorrect` in four modules, and `QueueTypeCorrect` for
the blocking queue).

None of the provers behind TLAPS takes a theorem with an operator as a parameter, so
there is no rule of induction over data to cite. What needs induction over numbers is
proved from a least counterexample instead (`LeastNumber` in `CountingLemmas`, from the
well-foundedness of `<`), and no definition that a proof expands is recursive but one:
`PowerOfTwo`, a recursive function because `^` means nothing to the provers.
What a list or a chain of tables reaches is defined as the smallest set closed under
its links (`From`, `Behind`).

**DMAtomicQueue.** None of the properties is inductive: that the slot about to be
constructed is raw depends on how old the consumer index is that the producer saw.
The invariant `IInv` says, besides types:

- `ProducerView`: `seenTail`, `tail_` and `head_` lie in this order around the
  ring (distances add up), and past its test the producer has `Succ(head_)`
  different from what it saw. A stale view thus errs to the safe side;
- `ConsumerView`: `tail_`, `seenHead`, `head_` lie in this order, and a consumer
  that was told of an element has `seenHead` past `tail_`;
- `LiveSlots`: the live objects are exactly those from the oldest one not destroyed
  up to `head_`, and the one constructed but not published;
- `DtorAlone`: the destructor runs when both threads are done.

Lemmas about `Succ`, `Dist`, `At` and `Views` carry the modular arithmetic, so that
the proof of the step, one case per action, needs none. The refinement adds that
`contents` is a sequence whose length and elements each action changes as the
abstract one does (`PublishPuts`, `DropRemoves`, `ReadLooks`, `SilentSteps`).

**LightweightSemaphore.** `PostsMatchSleepers` relates `m_count`, the kernel
semaphore, the posts that signallers owe and the number of sleepers. It becomes
inductive with `CallInv`: posts are owed inside `signal` only, a call that still
waits has no unit and wants one, nobody has more than was asked for. A timed wait
that takes its announcement back is a sleeper until its compare-and-swap succeeds or
it takes the post that a signaller made for it, which is the case the count depends
on. `WaitInv` adds that only timed waits give up. The refinement maps the units of
`CountingSemaphore` to the positive count plus the posts made or owed, so a sleeper's
acquisition is the abstract step and the kernel calls stutter. With `0` among the
requests `waitMany(0)` returns `0`, which `assert(result > 0)` does not allow for
(hence the hypothesis; see section 5).

**BlockingConcurrentQueue.** `Surplus`, the elements for which no unit exists
anywhere (available, held by a consumer that still looks, or about to be signalled),
never is negative, which is `UnitsBacked` before a producer's signal is subtracted.
An exception in a bulk dequeue drops units and only makes it larger. When throwing is
confined to dequeues of one element, `Surplus` stays `0`, and at rest that is
`SizeAccurate`.

**BlockPool.** The difficulty is that a node can leave the list and be given back
while threads that once read it as the head still count references to it.
`PoolInv(L)`, for the set `L` of nodes on the list, accounts for every reference: a
node's `freeListRefs` is the number that threads hold according to where they are
(`Share`: one from the increment in `try_get` to the decrement, one more for the
thread that has unlinked it, one for a thread that has stored 1 and not yet linked the
node) and one if the node is in `L` (`NodeInv`). A node with the flag and no
references has a thread that adds it; only one thread at a time adds a node
(`Exclusive`); every block that was made is in use, on the list, flagged or being
added. That is what makes the decrements and the fetch_adds decide correctly who has
to add the node. Links are written only to a node without references, so the `next`
that a referencing thread has loaded is not stale when its compare-and-swap succeeds
(`LocalsInv`), which is why the ABA problem does no harm. A list is a `Chain`: some
numbering of the nodes of `L` that the links follow; `ChainPopped`, `ChainPushed` and
`ChainElsewhere` say what the three kinds of writes do to one. `L` is not a variable:
the invariant says that there is such a set, and the two compare-and-swaps that
succeed change it. For `TypeCorrect`, `Bounds` adds that one thread at a time is
between unlinking a node and its decrement by two, so that `freeListRefs` never exceeds
the number of threads plus one and does not run into the flag's bit.

**ProducerBase, ExplicitProducer.** The first part is about `CounterStep`: the
tail advances within the bound, or a consumer takes one step of its claim. The steps
of `ExplicitProducer` are such steps (`NextCounters`, with `RoomInv`: what the
producer publishes is what it counted when its call began). `CountsBalance` is a sum
over the consumers modulo `IndexRange`, and `ClaimInv` makes it inductive.

`HeadWithinTail` is about comparisons of wrapped differences of counters read at
different times, and no invariant over the wrapped values is inductive. The proof
therefore reasons about the numbers the counters would hold if they did not wrap
(`Unwrapped`: some `T`, `H`, `O` of which the counters are the remainders). Every
consumer that has committed and not looked at the tail again has a *place*, as many
indices as it wants between what is decided and what is committed to, disjoint from
all other places (`Places`, `Apart`). A place ends before the tail or does not begin
behind the index that its consumer computes (`Snapshots`: what a consumer remembers is
old, never new), so what it claims is there. The wrapped comparisons equal the
unwrapped ones as long as the differences stay below half of the range:
`FewOvercommits`. It has to be assumed. Two consumers can overcommit in turns without
bound, and a third that sleeps in between with an old `dequeueOvercommit` compares
with a difference that is off by all of them; after `IndexRange / 2` (2^63 in the
code) overcommits during one call it would claim what is not there. With 16 indices
and three consumers TLC reaches it after 8 overcommits. The comment in `dequeue`
(`concurrentqueue.h:1912`: "the logic still holds since the difference between the two
is maintained") is right about the counters at one moment, which is `CountsBalance`,
not about one that a consumer has remembered.

**QueueThreadPool.** `RoomInv`: what a thread has read of a queue still allows what it
is about to do, although the queue's other side goes on; a worker decides to hand on
only when the next queue is emptier than its own, and nobody else pushes there. This
alone gives `HandOnSucceeds`, for both orders of the stores. `ExactInv` adds where
the pointers are (`Slots`: tasks from head to tail, the stored one behind them) and
which worker a push belongs to (`Links`); the count of each task's places then is
preserved by every step, if the pointer is visible before the tail.

**ThreadSafeQueue.** `SafeInv`: nobody is both waiting and woken, the woken are
finitely many and `abandoned` is a number, so that counting both against the elements is
inductive. A woken thread that throws moves from one count to the other; when the queue
becomes empty both may be forgotten.

**CAtomicQueue.** `RingInv`: seen head, head, tail and head, seen tail, tail go round
the ring in this order; a push under way has a free place, a pop under way an
element; all places between head and tail hold an element, but for one just
exchanged. `HeldSeq` turns the elements of the ring into a sequence, and each step
appends, drops or leaves it.

**RapidPool.** `PoolInv`: a slot is owned, lost to a throwing constructor or under
construction by one call, never two of these. `PoolAccounted` is the property pool by
pool: a list without repetitions that starts at the first free slot, follows the
links and holds what is not taken. `ListPopped` and `ListPushed` take a slot off such
a list and put one on it. `ApartInv` is the last conjunct: a fetch can
only break it while a destructor is under way, and then sets `refetched`; a release takes
its slot from the fetched ones as it adds it to those under destruction; a return only
shortens the stack (`ReturnKeeps`).

**AtomicKFifo.** As with the counters of a sub-queue, nothing about the wrapped indices
is inductive. `ByteInv` says that there are natural numbers S <= O <= C <= I, at most
the capacity apart, of which `out_idx_` as the producer saw it last, `out_idx_`,
`in_idx_` as the consumer saw it last and `in_idx_` are the remainders (`Unwrapped`),
that what the producer has copied lies in the cells from I on (`Putting`) and that what
the consumer has copied is still in the cells from O on (`Getting`). Differences of the
wrapped indices then are the differences of the numbers (`LengthMeans`, `LoadMeans`),
and cells of numbers less than the capacity apart differ (`CellsApart`), so no `memcpy`
of one side touches what the other one reads. A cell is found from the wrapped index only
because the capacity divides the number of index values: `CapacityDivides` shows it of
what `roundup_power_of_two` returns, the overflow to 0 included, from
`RangeAssumption` (that number is a power of two) and `RequestAssumption` (the request
fits the type and is not 0, which the constructor refuses). Two further lemmas turn
cells into the sequence that `ByteFifo` holds: copies behind it append
(`HeldAppended`), copies from its front are its prefix (`HeldPrefix`).

**ProducerList, ImplicitProducerHash.** `ListInv` is about the list and the tokens. A
producer that a thread has made is not in the list until its compare-and-swap succeeds,
and every other one that a thread looks at is (`PtrInv`); `OwnInv` and `TokenInv` say
that two threads or tokens that have a producer have different ones, `CoverInv` that
every producer made is in the list or about to be pushed, and that an explicit one that
nobody has is inactive. The list is the smallest set that contains the tail and is closed
under `next`, so a push adds exactly one member, and no numbering is needed.
`HashInv` is about the tables. `EntriesInv`: an id is in a table at most once, all slots
that a probe for it passes before it are taken, and with it is the producer that its
thread has got; since keys are never removed, that is stable. `HashLocal` is what a thread
knows in each phase and `LockInv` that one at a time resizes. `RoomInv` gives
`TablesHaveRoom`, and is the hard part, because a thread chooses a table by a count that
others change meanwhile, and may put its id there when the table has long been replaced.
It is a counting argument: for a table h and a number n of at least its limit less one
(the limit is three quarters of the capacity), at most n threads are in h or an older
table or are under way with a count of at most n. Each thread under way holds one unit of
`implicitProducerHashCount`, so a new one is counted above all of them.

**ConsumerTokens.** `CallsInv` says for each phase of a call which producers it has
checked if it has found nothing so far. The invariant of the search with a token
(`Searched`) has two halves: going down from the token's place, all producers between the
place and the search have been checked; once the search has gone on from the tail, all
from the place down and all from that tail on. It never mentions the present tail,
only the one that the call has loaded, so producers added meanwhile cost nothing
(`ListGrows`), and other consumers change neither a call's locals nor its token
(`OneConsumer`). `TokenOK`, that the places of a token are in the list, needs that the
rotation counts out places modulo a `producerCount` that may be larger than the list.

Only model-checked, and why:

- liveness (`EmplaceReturns`, `SleepersServed`, `CallsReturn`, `EveryProducerAsked`,
  `TasksProcessed`, `DestructorReturns`): fairness and `ENABLED` are outside the
  prover's reach here;
- `ElementsFound`, `BlocksReusable`, `LookupSound`, `BlocksOwned`, `BlocksReturned`,
  `DestructorExact` of the two sub-queues: their invariant would have to describe a ring
  of blocks and a circular index of them that is replaced while consumers read the old
  one, on top of the counters. Only the counters' part is proved. `ElementsFound` holds
  under restrictions on failing bulk calls only (section 5). The counters of
  `ImplicitProducer` take the same steps as those of `ExplicitProducer` (both extend
  `ProducerBase`), and the argument is not repeated.

## 5. Findings

Ten places where the code does something else than its comments, asserts or tests
say. The first is a run that TLC must find violated; the others have a
configuration of their own beside the runs, and `tlc -config <file> <module>` gives
the behaviour.

- `explicit_bulk_injected` (`concurrentqueue.h:2028`): blocks that a failed
  `enqueue_bulk` leaves in the ring are not counted in
  `pr_blockIndexSlotsUsed`; when they are used later, entries of blocks still in
  use are overwritten.
- `ExplicitFallback.cfg`, `MCExplicitProducer` (`concurrentqueue.h:2036`): an
  `enqueue_bulk` that reuses a block, grows the index and then fails leaves a stale
  entry in it (`ElementsFound`).
- `ExplicitThrow.cfg`, `MCExplicitProducer` (`concurrentqueue.h:1856`): a constructor
  that throws for the first element of a block leaves the block marked as full, so
  the destructor destroys slots that were never constructed (`DestructorExact`).
  `explicit_bulk` therefore does not check the destructor.
- `BlockingThrow.cfg`, `MCBlockingConcurrentQueue` (`blockingconcurrentqueue.h:728`):
  an exception in a bulk dequeue loses the units of elements in other sub-queues
  (`SizeAccurate`).
- `TokensMixed.cfg`, `MCConsumerTokens` (`concurrentqueue.h:1180`): a partial bulk
  call carries the count of a token past the quota without rotating, and single
  calls, which test for equality, then never rotate (`RotatesEveryQuota`).
- `ThreadPoolReordered.cfg`, `MCQueueThreadPool` (`dmqueue.h:56`): the thread pool's
  data race. If the tail becomes visible before the pointer, a task is lost and
  another one done twice (`TasksExact`). On x86, with a compiler that keeps the
  stores in order, it does not happen.
- `RapidPoolThrows.cfg`, `RapidPool` (`dmrapidpool.h:202`): a constructor that throws
  leaves its slot in use for good, and `~CDMRapidPool`'s assert fails
  (`FullWhenReleased`).
- `RapidPoolNested.cfg`, `RapidPool` (`dmrapidpool.h:221`): a destructor that fetches
  an object of its type gets the slot it is destroying, and the new object is
  constructed over the old one (`ObjectsApart`).
- `SafeQueueThrows.cfg`, `ThreadSafeQueue` (`thread_safe_queue.h:20`): a thread woken
  for an element leaves `pop` by an exception, and another one sleeps on beside that
  element (`NobodySleepsBesideAnElement`).
- `WaitForNothing.cfg`, `MCBlockingConcurrentQueue` (`blockingconcurrentqueue.h:392`):
  `waitMany(0)`, which `wait_dequeue_bulk` calls when it is asked for no elements,
  returns 0 and fails its `assert(result > 0)` (`WaitManyAssert`).

The passing runs keep away from these: `explicit_bulk` has an index large enough
for all blocks, `explicit_single` no throwing constructor, `blocking` no bulk call
whose assignment throws and no request for 0 units, `consumer_tokens` no token used for
single and bulk calls, `thread_pool` stores in program order. In `standalone`
constructors and assignments throw and destructors fetch, and the properties say how
far the damage goes: `SlotsAccounted` counts the slots of throwing constructors as taken and keeps objects apart only until
a destructor under way fetches; `OnlyAbandonedWait` allows one element beside a sleeper
for each thread that threw since the queue was last empty.

## 6. Not modelled, and limits

- Stale loads are modelled for `CDMAtomicQueue`, `AtomicKFifo` and `CAtomicQueue`,
  where an index has one writer. The other modules interleave sequentially
  consistent accesses; the memory orders chosen in `concurrentqueue.h` are thus taken
  on trust.
- The counter that large blocks of an explicit producer use instead of flags.
- The exit of a thread with an implicit producer: compiled only with
  `MOODYCAMEL_CPP11_THREAD_LOCAL_SUPPORTED`, which the header leaves undefined.
- Construction, move and swap of `ConcurrentQueue` and `BlockingConcurrentQueue`:
  documented as not thread safe, sequential pointer moves.
- Starvation beside several tokens: tokens with different offsets can rotate in
  lockstep, each over a part of the producers only. `EveryProducerAsked` is about one,
  and says that producers are asked, not that they are served: beside other consumers a
  dequeue can come back empty for ever, with a token or without.
- `AtomicKFifo::reset` while the other side is active: its two stores are not atomic
  and nothing in the code makes that safe. It is modelled as called when nobody else
  uses the queue. `KFifo`'s calls are those of `AtomicKFifo` made by one thread, and
  have no module of actions of their own.
- `~CAtomicQueue` deletes the ring and leaks the elements left in it.
- `CDMMutexQueue`: each call is a call of `CDMQueue` under one mutex.
- `CDMRapidFactory`, a registry of pools under a mutex, read to print statistics. An
  object is to be released by the thread that fetched it; `assert`s say so, and the
  model keeps to it.
- `concurrentqueue_internal_debug.h` is compiled only with debugging macros.
- `thirdparty/` is vendored (spdlog, fmt, googletest): some 47,000 of the
  repository's 51,000 lines of C and C++, none of it used by the headers. The share
  of all lines that `map` covers is small for this reason.
- Cache-line padding, logging and the statistics macros have no effect on the
  properties.

## 7. Plan

Modelled in this order: the ring, the semaphore, the block pool, the two sub-queues
and the blocking queue; then the front end of `ConcurrentQueue`, the thread pool and
the containers that stand alone. Then proofs: the
ring, the semaphore, the blocking queue, the counters of a sub-queue, the thread pool,
`ThreadSafeQueue`, `CAtomicQueue`, the pools, the block pool, the list of producers with
the tokens and the hash, the consumer tokens, and `AtomicKFifo`. What is left:

1. `BlocksReturned` and `BlocksOwned` of the implicit producer: who has a block, without
   the index.
2. `LookupSound` and `ElementsFound`: the block indexes, as unwrapped sequences of which
   the circular arrays hold the last entries.
