# TurboStream in TLA+

TurboStream (module path `github.com/TimeWtr/TurboStream`) is a Go library for
an in-process message channel built from two buffers: writers append to the
active one, a *switch* rotates it into a min-heap ordered by a sequence number,
and readers consume the rotated buffers and recycle them. This directory holds
TLA+ models of it, TLC configurations for small instances, and proofs checked by
TLAPS. Paths below are relative to the repository.

## 1. Inventory

| component | source | state | operations |
|---|---|---|---|
| SmartBuffer | `core/component/smart_buffer.go` | ring of (pointer, size), `head`, `tail`, `count`, `state`, all accessed without a lock | `Write`/`Push`, `Pop`, `Reset`, `SetState`, `Close` |
| DoubleBuffer | `core/double_buffer.go` | `active`, `passive`, `state`, `sequence`, `currentSequence`, `currentBuffer`, `pool`, `pendingHeap`, `stop`, `wg`, `writeLock` | `Write`, `switchChannel` and the goroutine it starts, `swapMonitor`, `RegisterReadMode`, `BlockingRead`, `Close`, `drainProcessor` |
| WaiterManager | `core/waiters.go` | map of registered channels, pool of channels | `register`, `unregister`, `notify`, `Close` |
| SwitchCondition, strategies | `config/config.go`, `core/switch_strategy.go` | configuration with a version, notification channel of one slot | `UpdateConfig`, `GetConfig`, `Register`, `needSwitch` of three strategies |
| WrapHeap | `core/min_heap.go` | binary heap with indexes | `Push`, `Pick` |
| LifeCycleManager | `pools/life_cycle.go` | times of medium messages, reference counts of big ones | `Put`, `IsValid`, `Release`, `Free`, `cleanup` |
| BatchCollectImpl | `core/metrics/batch_collector.go`, `prometheus.go` | atomic counters; Prometheus counters | `Record*`, `report` by the worker and by `Flush`, `Stop` |
| Monitor | `metrics/monitor.go`, `opensource_timeout.go` | `state`, `ctx`, `wg`, `metrics`, `meta`, the worker pool, `observers` | `Start`, `Stop`, `runCollector`, `collectAllMetrics` with its timeout, `NotifyAll`, `Register`, `Unregister` |
| collectors, observers | `metrics/collector.go`, `observer.go` | the disk counters of the last call | `Collect` of five collectors, `Update` of two observers |
| BufferQueue | `core/queue.go` | list, eviction count | `Push`, `Pick`, `Reset`, eviction, `Close`; used by nothing yet |

How they interact. A `Write` pushes to the active SmartBuffer; when it is full
the writer calls `switchChannel` under `writeLock`. `swapMonitor` asks the
strategy at every tick with the count, the time since the last switch and its
copy of the SwitchCondition, and calls `switchChannel` too. A switch is a CAS of
`state` from Writing to Switching, the seal of the active buffer, the swap, and a
`go` statement; the goroutine draws the sequence number, pushes to the heap and
notifies the waiters. A reader picks the buffer whose number is `currentSequence`
(and pushes others back), pops it empty, resets it and puts it into the pool; when
there is nothing it registers with the WaiterManager and blocks. The life-cycle
pools record the pointers of medium and big messages from `Write` to the release
of the chunk a reader got. The Monitor is on its own: its collector goroutine submits
five tasks to a pool at every tick, waits for them or for a timeout, and passes what
they stored in `m.metrics` to the observers.

What is hard here: nearly all shared state is lock-free; checks and updates of
one quantity are several steps apart (`count` of the ring, `count` of the buffer,
`state` of a buffer that a writer has already loaded); goroutines started by
switches overtake each other; buffers and channels are reused through pools;
`Close` competes with switches, readers and blocked clients; reader state is
shared without synchronisation. The Monitor shares its context, its WaitGroup, its
metrics and the disk counters between goroutines that may outlive the call that
started them. `PROJECT.json` lists each hazard with its line
and the properties that watch it.

## 2. Modules

| module | models | interacts with |
|---|---|---|
| `SmartBufferOps` | the operations of one ring on a record | used by the next and by `DoubleBuffer` |
| `SmartBuffer` | the ring under writers, readers and an owner, one atomic access per step | refines `BoundedFifo` |
| `BoundedFifo` | abstract: a bounded queue | |
| `DoubleBuffer` | the channel as a whole: writers, monitor, goroutines of switches, readers, waiters, closers | composes the ring, the waiters and the abstract heap |
| `WaiterManager` | registration and notification with pooled channels | |
| `SwitchStrategy`, `SwitchTrigger` | the arithmetic of the strategies; configuration, monitor and the counting of writes for one or more buffers on one SwitchCondition | |
| `MinHeap` | `WrapHeap` on `container/heap` | refines `PriorityQueue` |
| `PriorityQueue` | abstract: pick the least | what `DoubleBuffer` takes the heap for |
| `LifeCycle` | the two pools of pointers with writes, reads, releases, cleanup | |
| `BatchCollector` | counters and reports, one atomic access per step | |
| `Monitor` | the monitor with its owners, collector goroutines, pool tasks, waiting goroutines and observers | |
| `MC*` | constants for TLC | |
| `*_proofs` | theorems about the module they are named after; the last part of `DoubleBuffer_proofs` ties it to `PriorityQueue` | |

### Correspondence

**SmartBuffer.** The control point of a thread is the next access of `Push`,
`Pop` or `Reset`. A round whose CAS fails changes nothing and keeps nothing, so
only the last round of a call is modelled; its CAS succeeds because the load before
it found the same value, and the two are one step. The plain store of a slot is two steps in either order, because
the Go memory model promises nothing about two plain words seen by another
goroutine. `MaxIndex` is the largest value of the `int32` indexes, which then wrap
to the least; in the instances the number of their values is a multiple of the
capacity, as 2^32 is of a power of two, so that slots stay consecutive through the
wrap (for other capacities see the deviations). A message
is a number, and its pointer and size are both that number, so a torn item is
seen as two different numbers. `OwnerSetState` is the DoubleBuffer storing a state
at any time.

**DoubleBuffer.** A step is one access to shared state, with the accesses next to
it that commute with everything other threads do; the module header lists the
ones put together. The ring is the one of `SmartBufferOps`. `pushers` is the bag
of the goroutines of switches: `sequence` (draw the number), `push` (push to the
heap), `len`, `notify`. `PoolForgets` lets `sync.Pool` drop buffers. Time is not a
variable: a tick may find a switch due at any moment, which `SwitchTrigger`
refines. `d.count` and `lastSwitch` live there. A nil dereference in
`drainProcessor`, or in a reader, ends all threads (`panicked`).

**WaiterManager.** The three methods hold the lock and are one step each. A
channel of the pool is new, empty, full or closed. `Receive` and `GiveUp` are the
`select` of `BlockingRead`.

**SwitchTrigger.** `UpdateConfig` stores the configuration under the lock and
then sends without blocking (`Notify`); the monitor receives (`Tick`), copies
(`GetConfig`), evaluates (`Decide`) and switches. A write is its push and, later,
its `count.Add`; a switch is the swap, the store of zero and the time stamp. Ratios
are compared in integers after multiplication by the denominators; this loses only
the rounding of floats.

**MinHeap.** `Less`, `Swap`, `Push`, `Pop` are translated (`PushBack` and `PopBack`
are the `Push` and `Pop` of `heap.Interface`); `container/heap` is external. An
iteration of its loops `up` and `down` is one step (`UpStep`, `DownStep`), so `Push`
and `Pick` of `WrapHeap` are several steps under the lock: `mu` is the loop its holder
is in and `at` the position it has reached. `Pick` starts with the exchange of the
root and the last item and ends, in `PickEnds`, with cutting it off.

**LifeCycle.** Every message has size 1, time goes in half minutes, and the ring
is a bag of pointers: any message may be read next. A `Write` is two steps: its `Put`
(`WriteMedium`, `WriteBig`) and then either push that succeeds (`PushAccepted`) or the
error after both have failed (`PushRefused`), which leaves the record where it is. Any
push may fail here; when it does is the business of `DoubleBuffer`. A client may write
the same slice again before its message is released, since the code forbids it nowhere.
The history variables `rewritten` and `refused` remember the last two.

**BatchCollector.** `report` is the sequence of its loads, observations and stores
of zero, in the order of the code; `Adds` is the sequence of additions of each
`Record` method. `select` may still serve a tick after `Stop`.

**Monitor.** `Start` is its CAS and, in a second step, its assignments, `wg.Add` and
`go` statement; `Stop` is its CAS, the cancellation, the release of the pool with the
start of the waiting goroutine, and the `select`. A collector is the goroutine of one
`Start`; its `select` takes `m.ctx` when it is entered (`EnterSelect`). The
WaitGroup `m.wg` has the panic of the library: a `Wait` that is released looks at the
count again (`WaitReturn`). A submission is refused by a released or full pool and the
error is dropped, as in the code. A reading is the number of the collection that took
it, so a mixture of collections can be told; for the disk, operations are counted in
`io`, a task first tests `LastCollectTime` and reads the counters (or fails), then
reports the difference and stores the counters; the lookup of the old ones and the store are one step. `timeout` is what the
controller returns on this machine: the conversion of a float64 that does not fit
gives the least value on amd64, for which `time.After` fires at once, and the largest
on arm64, for which it never does. The default ratio (the interval itself, in
nanoseconds) always overflows. `WithCollectInterval` sets `reportInterval`, which only
the timeouts use.

## 3. Runs

| run | shows |
|---|---|
| `ring_mpsc` | two writers pass the test of `count` together on a ring of one slot, with a recycling reader and an owner storing states: types and widths are kept, the overrun is at most one message for each other writer, `count` is not negative, no message is popped twice |
| `ring_spsc` | one writer and one reader: the ring implements `BoundedFifo` with whole items; six messages through two slots, so the indexes wrap several times |
| `waiters_reuse` | three clients, four channels: no channel is shared, pooled channels are clean until `Close`, every waiter can still be woken |
| `trigger` | two updaters, writers with late additions: no update is missed, what is due stays due, and a message never stays in the active channel |
| `db_recycle` | three rotations by a writer and the monitor, so that a buffer is active again, and a pool that forgets: every buffer is in one place, no message is delivered twice, one switch at a time, rotated buffers stay sealed until reset |
| `db_close` | `Close` is final, returns, releases the blocked reader; every `Write` returns; only `drainProcessor` dereferences nil |
| `db_reading` | two rotations whose goroutines overtake each other: types, every sequence number is in exactly one place, a client that keeps reading consumes every rotation, and each read returns |
| `heap_order` | every order of pushes and picks of seven items, with the loops under the lock iteration by iteration: heap order whenever the lock is free, indexes at every step, refinement of `PriorityQueue` |
| `pools` | both read modes, rewritten slices, refused writes: reference counts match the use of a slice not rewritten, but for the one a refused write leaves behind, released entries are reclaimed, messages younger than a minute stay valid, `currentSize` covers the entries |
| `metrics_single` | one reporter: nothing is reported twice, and only what is added between a load and its store of zero is lost |
| `monitor` | one owner, two starts, two collections: observers get the readings of one collection, and no disk operation counts twice, until a collection times out; there is one collector, and `m.wg` is not reused under a waiter, unless a `Stop` gave up; `Stop` returns and collectors end, but for a collection whose tasks were refused under a timeout that never fires |
| `db_order` (violation) | the documentation promises that consumers process messages in strict sequence order; numbers are drawn by the goroutines of the switches, so two rotations can be numbered, and one writer's messages delivered, in the wrong order |

Every property of a passing run has a mutant in `PROJECT.json`: a plausible wrong
version of one operation, under which TLC finds the property violated.

### Deviations

What else the models do that a reader of the comments, tests or documentation
would not expect. Each was seen as a TLC counterexample of the formula on the
given instance (other constants as in the module's runs); the runs above keep to
what holds.

| where | behaviour | instance and formula |
|---|---|---|
| `smart_buffer.go:142` | two readers both see the last item and take `count` to -1, which no longer looks empty | `SmartBuffer`, two readers: `CountNeverNegative` |
| `smart_buffer.go:81` | a capacity that does not divide 2^32 (the tests use 10 and 200): when an index wraps, the next slot is not the neighbour but one that may still be occupied, and its message is overwritten. It takes 2^31 messages without a `Reset`, so it concerns a ring used alone, not the buffers of a `DoubleBuffer`, which are reset before that | `SmartBuffer`, `Capacity` 3, `MaxIndex` 3, `MaxMsgs` 10: `ImplementsFifo` |
| `smart_buffer.go:154` | two readers both return the item of a slot | `SmartBuffer`, two readers: `NoDuplicate`; `DoubleBuffer`, two readers: `NoDuplicateDelivery` |
| `smart_buffer.go:117` | with two writers a `Pop` returns a pointer with another length, since `count` counts the other writer's item | `SmartBuffer`, two writers: `popped[i].size = popped[i].ptr` |
| `waiters.go:83` | one `notify` wakes at most one batch; the larger maximum of its comment (line 64) is never reached | `WaiterManager`: with enough data and waiters, `notify` takes `MaxTotalWaiters` out of `registered` |
| `waiters.go:59` | a channel closed by `Close` returns through the pool to a new waiter, which `waiters_test.go:124-129` says must not happen | `WaiterManager`: `chans[chanOf[c]] # "closed"` after a registration |
| `config.go:70` | two buffers on one SwitchCondition share its channel of one slot, and one misses an update | `SwitchTrigger`, two buffers: `FreshConfig` |
| `double_buffer.go:269` | a write between the swap and `count.Store(0)` is not counted (comment at line 84) | `SwitchTrigger`: `count[d] = stored[d]` when `adding[d] = 0` and `switching[d] = "none"` |
| `double_buffer.go:467` | a rotation that notifies between the first attempt and the registration wakes nobody; the reader waits for its timeout or the next rotation | `DoubleBuffer`: a reader at `select` without a token, with `pushers` empty, has no non-empty buffer of number `currentSequence` in `pendingHeap` |
| `double_buffer.go:205` | a late writer stores into a buffer already reset and pooled | `DoubleBuffer`: pooled buffers hold only `EmptyItem` |
| `double_buffer.go:224` | a write between another thread's seal and swap is refused | `DoubleBuffer`: a slow-path `Write` on an open buffer ends in `PushStore` |
| `double_buffer.go:531` | `Close` during a switch fails its CAS and closes nothing | `DoubleBuffer`: `state = ClosedState` once a closer has returned |
| `double_buffer.go:524` | `drainProcessor` dereferences nil when a reader picks between its two lock sections | `DoubleBuffer`, a closer: `~panicked` |
| `double_buffer.go:316` | two readers overwrite `currentBuffer`, and a buffer is in nobody's hands | `DoubleBuffer`, two readers: `SingleOwner`, `NilOnlyInDrain` |
| `life_cycle.go:173` | a slice written again has one entry with count 1; two releases leave -1, which the cleanup never reclaims | `LifeCycle`: `ref[p] >= 0` |
| `double_buffer.go:446` | a zero-copy read gives up the reference before it returns, so the cleanup deletes the entry of held data | `LifeCycle`, zero copy: `held[p] > 0 => p \in present` |
| `double_buffer.go:198` | a big message is recorded before it is pushed; when `Write` then returns an error (line 230) its entry keeps the reference of `Put`, which no read or release drops and the cleanup passes over, until the slice is written again | `LifeCycle`: `p \in present /\ Live(p) = 0 => ref[p] <= 0`; `BigReclaimed` without `refused` |
| `life_cycle.go:144` | entries of big messages without references are deleted every second by `asyncRecycleWorker`; the comment at lines 31-33 says the manager "does not perform implicit deletion in the background" of large objects. After a safe read this is the only way an entry goes | `LifeCycle`: `CleanupBig`; `BigReclaimed` depends on it |
| `batch_collector.go:178` | `Flush` during the worker's report counts events twice | `BatchCollector`, `Reporters = {"asyncWorker", "flush"}`: `NeverOverReported` |
| `prometheus.go:214` | every report adds one skipped switch (`Inc()` whatever the count) | `BatchCollector`: `total <= recorded` for `skipSwitchCounts` |
| `monitor.go:146` | a `Stop` between the CAS of a `Start` and its assignments cancels nothing; the collector runs on, and a later `Start` adds a second | `Monitor`, two owners: `CollectorsEnd`, `OneCollector` |
| `monitor.go:142` | a `Start` between the CAS of another goroutine's `Stop` and its release of the pool gives two collectors whose collections mix, without any timeout | `Monitor`, two owners: `CoherentUpdates`; with `PoolSize` 4 and `MaxCollections` 3: `DiskReportedOnce` |
| `monitor.go:147` | after a `Stop` that timed out, `Start` reuses the WaitGroup under its waiter, and the process panics | `Monitor`: `~panicked` |
| `monitor.go:165` | after a `Stop` that timed out, the old collector enters its select with the new context and two collectors run | `Monitor`: `Cardinality(Live) <= 1` |
| `monitor.go:226` | `Stop` releases the pool and nothing opens it again: submissions of a collection under way are refused, and where the timeout has overflowed to "never" `Stop` hangs; a monitor started again never notifies | `Monitor`: `~Hung`; conversely `stops > 0 /\ starts = 2 => col[2].pc # "notify"` holds |
| `monitor.go:208` | tasks that outlive their collection store into the metrics of the next | `Monitor`: `~mixed` |
| `collector.go:234` | a late disk task takes the newer counters for a reset and reports all of its own again | `Monitor`, `PoolSize` 4, `MaxCollections` 3, `MaxStarts` 1: `reported <= io` |

The properties marked "(One reader.)", "(One buffer.)", "(One reporter.)" or
"(One owner.)" in the modules are the ones that fail with two, except
`SealedUntilReset`: no counterexample with two readers was found, but the step that
puts `Reset`, the `Put` and the assignment of nil together is exact for one reader
only. The documentation does not restrict the numbers.

### Bounds

Every bound is a constant in a guard (`MaxMsgs`, `MaxRotations`, `MaxPushers`,
`MaxVersion`, `MaxElapsed`, `MaxInFlight`, `MaxLive`, `MaxSize`, `MaxCalls`,
`MaxReports`, `MaxStarts`, `MaxCollections`). They are chosen so that the interesting case happens: a capacity of
one or two so that rings fill and wrap; two rotations are needed for one goroutine
to overtake another and three for a buffer to become active again; a writer
and the monitor are two switchers that compete (`SwitchExclusive` is proved for any
number); `MaxVersion` 3
gives an update that finds the channel of one slot full; a cleanup limit of one
entry gives partial cleanups; two calls and two reports give an addition before,
within and after a report; two live messages per pointer give a rewrite; two starts give a collector
left behind and a WaitGroup reused, two collections a difference of disk counters and
a task that outlives its collection, and `MaxDuration` 9 a timeout that overflows; the
two tasks stand for the five, one of a stateless collector and the disk's. `CHECK_DEADLOCK FALSE` stands where the bounded system
stops (no more calls to make); the ring and the trigger are checked for deadlock.

### Fairness

`FairSpec` of `DoubleBuffer` has weak fairness for each thread inside a call, for
the goroutines of switches, and for the exit of the workers: the Go scheduler
lets every runnable goroutine run, and `writeLock` is a `sync.Mutex`, which starves
nobody; weak fairness suffices for it because calls are bounded. It also has
it for the monitor's switch, since the ticker keeps ticking. `ReadingSpec` adds a
client that keeps calling `BlockingRead` with contexts that time out. Nobody is
required to write or close. In `db_close` no reader has a timeout. `SwitchTrigger`
has fairness of time, ticks and calls under way; `LifeCycle` of the deletion of each
useless entry: the cleanup runs every second until `Close`, and a range over a map
starts anywhere, so the limit of one call does not pass over an entry for ever. `Monitor` has it for the owners inside a call, for the
waiting goroutines, for collectors that are not idle and for tasks: goroutines are
scheduled, readings of the system end, and a timer that can fire does. A collector
whose context is done and whose ticker ticks chooses at random, so it does not take
the tick for ever (weak fairness of `CtxDone`; collections are bounded). Nobody has to
call `Start` or `Stop`.

## 4. Proofs

| theorem | statement | argument |
|---|---|---|
| `RingTypeOK` | `Spec => []TypeOK` of the ring | inductive as it stands; the positions need that `calcPos` stays within the capacity |
| `OverrunBounded` | `Spec => []CountBounded` | inductive with `TypeOK`: a writer joins the set in flight only when it sees `count` below the capacity, at which time at most the other writers are in it; each increment trades one writer in flight for one message |
| `SingleReaderCount` | one reader: `Spec => []CountNeverNegative` | strengthened by "while the reader is between its test of `count` and its decrement, `count` is at least 1" |
| `PoppedOnce` | one reader: `Spec => []NoDuplicate` of the ring | inductive `OnceInv`: a message is at one writer at most, in one slot at most and never in a slot while its writer has yet to store the pointer; what was popped is in no slot, but for the one the reader has read and not yet cleared. The writers may overrun the ring and lap each other |
| `RingIsFifo` | one writer, one reader, no `Reset`, slots in turn (no wrap, or a capacity that divides the number of index values): `Spec => ImplementsFifo`, the refinement of `BoundedFifo` | `FifoInv`: the claims of each side are the messages committed or popped plus the one under way, and the indexes stand for them modulo the capacity; the messages not yet read are in their slots, whole; the slot being stored has the words stored so far; `count` is their number, plus one from the load of a slot to the decrement. Two numbers less than a capacity apart have different slots, so neither the writer nor the reader's clearing touches an unread one. `count++` is `Put`, the load of the slot `Take`, all else stutters |
| `WaiterTypeOK`, `ChannelsNeverShared`, `ChannelsStayClean`, `NoWaiterForgotten` | the four invariants of `waiters_reuse` for any clients and channels | inductive together with `InUseMade`: registered clients have a channel, and channels in use or in the pool were made |
| `OneSwitchAtATime` | `Spec => []SwitchExclusive` of `DoubleBuffer` | strengthened by the type of `pc` and by "a panic leaves every thread dead"; most actions move one thread between labels outside a switch, which is one lemma |
| `CloseIsFinal` | `Spec => ClosedIsFinal` | from the same invariant: only the thread inside the switch stores Writing or swaps, and while it is there the state is Switching |
| `DoubleBufferTypeOK` | `Spec => []TypeOK` of `DoubleBuffer` | strengthened by the references each control point needs (`TypeInv`: a writer past `LoadActive`, a reader at `match` or popping, a goroutine at `push` have a buffer); `SwitchInv` says that only one thread swaps |
| `SingleReaderHasABuffer` | one reader: `Spec => []NilOnlyInDrain` | with `CloserInv` (past its CAS a closer has closed the state, past `CloseStop` the channel) |
| `NoSequenceIsLost` | `Spec => []SequenceComplete`, any number of readers | inductive `SeqInv`: a function maps every number to its one place (not drawn, goroutine, heap, hand, consumed); counting its carriers gives the cardinalities. Numbers are distinct wherever they are |
| `EveryBufferHasOneOwner` | one reader: `Spec => []SingleOwner` | inductive `OwnInv`: every buffer is of exactly one kind (unborn, active, passive, pool, goroutine, heap, hand, current), no two goroutines or heap items have the same one, and a reader looks for a buffer only when it has none, which is what fails with two readers |
| `RotatedBuffersStaySealed` | one reader: `Spec => []SealedUntilReset` | from `OwnInv`: the only store of Writable is to the buffer of the `Reset` or the one made active, and neither is rotated; the buffer a switch is about to swap is sealed already |
| `DeliveredOnce` | one reader: `Spec => []NoDuplicateDelivery` | inductive `MessageInv`: what is in a slot has left its writer and is in no other slot; what the reader has loaded is in no slot but the one it is about to clear; what was delivered is nowhere. It does not need the seal, so it covers the late writers of section 3 |
| `HeapIsUsedAsAQueue` | `Spec => HeapUsedAsQueue` of `DoubleBuffer`, any number of readers: every change of `pendingHeap` is an `Add` or a `RemoveLeast` of `PriorityQueue` on the numbers in it | inductive `NumbersInv` on top of `TypeInv`: no two of the goroutines at `push`, the items of the heap and the readers at `match` have the same number, so what is pushed (or pushed back) is not in the heap yet, and taking an item out takes its number out. This is the guard of `Push` in `MinHeap`, whose items are pushed only while outside |
| `HeapStaysOrdered` | `Spec => []HeapOrdered` of `MinHeap`, any finite set of items | inductive with `RisingInv` (while `up` runs, only the item at `at` may be out of order, and its children are ordered below its parent) and `SinkingInv` (while `down` runs, the last item is the least, and of the others only the children of `at` may be out of order, and those are ordered below its parent). `Swap` is one lemma: two items change places, all else stays, and the indexes follow |
| `HeapIsPriorityQueue` | `Spec => ImplementsPriorityQueue`, the refinement of `PriorityQueue` | the append of `Push` is `Put`, the cut of `PickEnds` is `TakeLeast`, exchanges stutter. That the root is the least needs no induction over the tree: the naturals are well-founded, so the slice has a least item, and an item that is not at the root has a lesser one, its parent |
| `LoopsEnd` | `Spec => LoopsAdvance` of `MinHeap`: an iteration of `up` halves `at`, one of `down` doubles it below the length, which stays | from the same invariant; `at` is the variant of both loops, which is as near as a safety property comes to "the lock is given back" |
| `NoUpdateIsMissed` | one buffer: `Spec => []FreshConfig` of `SwitchTrigger` | inductive with the types: the notification slot is emptied only by the monitor that then copies |
| `DueUntilSwitched` | `Spec => DueStaysDue` | the strategy is monotone in count and time, which only a switch takes back |
| `ReferencesAreExact` | `Spec => []RefMatchesUse` of `LifeCycle` | with `OneLive`: a slice not written again has one live message at most, and none after a refused write. The count is one from `Put` to the last use, and after a refusal, where it stays; it is zero otherwise |
| `EveryEntryIsPaidFor` | `Spec => []SizeCoversEntries` | inductive; `Put` pays for an entry whether or not it replaces one, `Free` gives the price back only with an entry, and the cleanup deletes entries without giving anything back |
| `YoungEntriesSurvive` | `Spec => YoungStaysValid` | every action, for any cleanup limit |
| `NothingReportedTwice`, `LossIsTheWindow` | one reporter: `Spec => []NeverOverReported`, `Spec => []OnlyWindowLost` of `BatchCollector` | `Balanced` for each counter, by the reporter's place before the load, between load and observation, and between observation and store of zero: reported + counter (or the loaded value, or neither) + missed = recorded. The shape of `report` (each counter loaded, observed, zeroed once, in this order) is a lemma per record method |
| `CollectorsDoNotOverlap`, `NoReuseUnderWait` | one owner: `Spec => []OneCollector`, `Spec => []WaitGroupReused` of `Monitor` | `StartStopInv`: until a `Stop` gives up, the collector of the last `Start` is the only one, `m.wg` counts it, and only the goroutine of the `Stop` under way waits |
| `UpdatesAreCoherent` | one owner: `Spec => []CoherentUpdates` | `PoolInv` (the pool is closed before the second `Start`) and `CollectInv`: until a timeout, tasks run only for the collection the first collector waits for, each once, and its WaitGroup is the number of readings missing |
| `DiskIsReportedOnce` | one owner: `Spec => []DiskReportedOnce` | `DiskInv` on top: a reading under way is newer than the counters kept, and the first collection reports nothing |

They hold for every number of threads, capacity, width and bound; the assumptions
on constants are the named ASSUMEs of the modules, which TLC evaluates in the runs:
positive capacities and bounds, disjoint sets of threads (`ThreadsAssumption`), calls
of `BatchCollector` that are record methods (`CallsAssumption`), and a non-empty
sequence of distinct tasks in `Monitor` (the code registers five different
collectors), and a finite set of positive items in `MinHeap` (a number is drawn by
`sequence.Add(1)`). "One reader", "one reporter", "one owner", "one buffer" are hypotheses of
the theorem, and what section 3 says about two of them is why. The inductive
invariants that TLC can evaluate (all but `SeqInv` and the one built from `Balanced`,
which quantify over infinite sets) were also checked as invariants of the runs'
instances, and so were `LoopsAdvance` and `HeapUsedAsQueue`, which no run lists.

The composition: `DoubleBuffer` has a set in place of the heap. `HeapIsPriorityQueue`
says that `WrapHeap` is a priority queue as long as no item is pushed twice, and
`HeapIsUsedAsAQueue` that `DoubleBuffer` uses it only so and needs no more of it.

Only model-checked: all liveness properties (`DataRotated`, `CloseReturns`,
`CloseReleasesReaders`, `WriteReturns`, `EveryRotationConsumed`, `BlockingReadReturns`,
`BigReclaimed`, `StopReturns`, `CollectorsEnd`: the prover handles neither fairness
nor ENABLED). Every invariant, action property and refinement of the runs has a
theorem.

## 5. Not modelled

- The copying of payloads, sizes other than 1, `SmallPool` (a `sync.Pool` of
  scratch slices). An empty slice given to `Write`, and a read before
  `RegisterReadMode`, are outside the inputs of the models.
- `SmartBuffer.Close`, which closes a channel on which nobody sends or waits and which
  nothing calls. Calls of `NotifyAll` by others than the collector of the Monitor.
- `switchLatency`, and the registration of metrics with Prometheus.
- What the readings of `metrics/collector.go` contain, the partitions and their
  filter, the division by the elapsed time; the formatting and the gauges of
  `metrics/observer.go`; the average of the durations in `Meta`.
- `core/queue.go` (`BufferQueue`): nothing constructs it, and what `Push` and
  `autoEvict` do is decided by an eviction policy that has no implementation in the
  repository (and that `Push` hands an empty context). Its two hazards are in
  `PROJECT.json`.
- `utils/log`, `utils/atomicx`, `errorx`: wrappers and declarations. `adapter/`,
  `strategies/`, `examples/`, `core/backpressure.go` are empty; mocks are generated.
- `BatchRead` and `RegisterCallback`: empty bodies.

## 6. Plan

Done, in this order: the ring; the waiters; the double buffer; the trigger; the
heap; the pools; the batch collector; the proofs of section 4; the monitor with its
collectors.

Then proofs of every safety invariant and action property of the runs, of the
refinements of `BoundedFifo` and `PriorityQueue`, and of the use `DoubleBuffer` makes of
the latter.

Next:

1. An abstract specification of `DoubleBuffer` for one writer and one reader, a
   channel of rotations, as a refinement target.
2. `BufferQueue`, once it has an eviction policy.
