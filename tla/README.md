# objlog: TLA+ models, model checks and proofs

objlog is an embedded, partitioned log whose only server is an object store. A
writer process packs records into immutable segment objects and commits them by
replacing one small *head* object per partition with a conditional put; readers
follow the head; a retention policy raises the oldest LSN; a reclaimer deletes
what no head reaches. There is no coordinator: everything that makes the log
correct is in the order of conditional puts, in what a client does when a put
fails without an answer, and in the goroutines of one writer.

## 1. Inventory

| Component | State | Operations | Interacts with |
|---|---|---|---|
| Catalog head mutations (`catengine/tree.go`, `retention.go`) | none (pure) | NewHead, Takeover, Append, ApplyRetention | called by engine and session |
| Catalog engine and session (`catengine/engine.go`, `session_adapter.go`) | the stored head; per session: cached head and token, `stale`, last append, pending retention | Initialize, OpenWriter, AppendSegment, ApplyPendingRetention, ReconcilePendingRetention | object store by Get/CompareAndSwap; other writers only through the head |
| Retention mailbox (`catalog/blob/retention.go`) | one object per partition | RequestRetention, LoadRetentionRequest | operators put, sessions read |
| Partition writer (`internal/writer`) | active segment, `detached` and `ready` queues, in-flight budget, committed snapshot, terminal error, drain | Append, Cut, Flush, Close, Abort, ApplyPendingRetention, State, Committed; finalizeLoop, publishLoop, ageLoop, runDrain | segment sinks, catalog session (through `writeradapter`) |
| Catalog page tree (`tree.go`, `reader.go`) | immutable pages | sealLeaf, sealIndex, push, trim, find, list | head, object store |
| Lifecycle reclaimer (`internal/lifecycle`) | lease and checkpoint object, safe floors | RunPartition: acquire, observe, delete segments, pages and staging, release | head snapshots, object listing and deletes |
| Scrubber (`lifecycle/scrub.go`) | orphan cursors and the page quarantine, in the same state object | ScrubPartition: purge the quarantine, sweep orphan segments, quarantine orphan pages level by level | shares lease, budgets and deletes with the reclaimer |
| Scheduler (`lifecycle/scheduler.go`) | a timer | Run | calls the two passes |
| In-memory catalog (`catalog/memory.go`) | one partition record, sessions and the mailbox under a mutex | the catalog contract | a second implementation of what the engine does |
| Reader (`internal/reader`) | refresh coordinator (cached and watched heads, generations, poll loop), load group, watches, cursors, tailers | Head, Read, Fetch, Consume, timestamp reads, Cursor Next/Checkpoint/Seek/Resume, Watch add/remove/close, Tailer Next/Close, Close | catalog queries, segment reads through the caches |
| Reader caches (`reader/whole_cache.go`, `segment_cache.go`, `blob/cache`) | entries in LRU order, byte reservations, pins, shared flights | acquire, release, evict, close | called by the reader, call the object store |
| Segment writer (`segwriter`) | block buffers, seal and emit queues, first error, packer | Append, Close, Abort; seal workers, emitter | a sink transaction |
| Stream sink and multipart upload (`blob/sink/stream`, `multipart`, `s3`, `gcs`, `azure`) | upload state, active part, jobs, receipts, provider session | Write, Commit, Abort; upload workers | provider uploads; implements the sink transaction |
| Formats, key layout, provider stores, public API | -- | -- | -- |

What is hard here, and where a test hardly reaches (the full list with lines is
under `hazards` in `PROJECT.json`):

* a conditional put that fails may still land, before or after the next step of
  its caller or of another writer (`engine.go:254,719`, `retention.go:58`);
* a writer that was taken over keeps running, with a cached head and requests
  on their way;
* a retention whose outcome is unknown is followed by appends;
* the writer's owner and four goroutines share one mutex, one-slot wake-up
  channels, a budget and a terminal error that one caller must be told, once;
* shutdown hands queued work to a drain while other goroutines hold some of it;
* deletions run from a plan that was made before the head moved, and an orphan
  may become reachable by a head write that was only slow;
* blocks are sealed out of order and an upload can fail, be cancelled or have an
  unknown outcome while later blocks and parts are on their way;
* readers share loads that any of them may give up, cache heads that retention
  has passed, and pin cached segments while others evict and close.

What makes each component correct: the catalog is a fenced, gapless,
append-only history whose acknowledgements are true; the mailbox only moves
forward; the writer loses no accepted record, accounts exactly for its budget,
publishes in order, and always comes to an end; the reclaimer deletes nothing a
head or a reader inside its grace period can reach, and a scrub passes no orphan
by; a segment becomes durable exactly as it was appended or its caller knows that
it did not; readers see the history without gaps and are told the truth about
its ends.

## 2. Modules

| Module | Models | State and actions |
|---|---|---|
| `CatalogHead` | heads and their four mutations | constants and operators only; a head is a record, its page tree the set `log` of segments it reaches |
| `CatalogSession` | `catengine.Engine` and `Session` of several writers on one partition | `store` (head and token), `inflight` (puts that failed for their caller and may land), `mailbox`, `sess[w]`; one action per object-store request of a call |
| `CatalogLog` | the promise of a catalog (abstract) | fence, history, floor, acknowledgements |
| `CatalogRefinement` | `CatalogSession` implements `CatalogLog`; fairness | refinement mapping, `FairSpec`, `CallsReturn` |
| `CatalogInvariant` | the inductive invariants of `CatalogSession` | `IInv`, `KeepInv` and their parts |
| `CatalogSessionProofs` | proofs | type correctness; `IInv`, exact history, fencing; `CatalogSession` implements `CatalogLog`; no retention outcome is swallowed |
| `RetentionMailbox` | `Catalog.RequestRetention` | `file`, `inflight`, `call[c]` |
| `RetentionMailboxProofs` | proofs | the mailbox advances and keeps what it accepted |
| `PartitionWriter` | `writer.Writer` | `wr` is the struct under `Writer.mu`; `client`, `fin`, `pub`, `age` are the control points of the owner and the loops; one action per hold of the mutex or per call made without it |
| `PartitionWriterProofs` | proofs | the writer's invariant, told once, sound snapshots, durable flush, committed snapshot, exact accounts |
| `CatalogTree` | the pages below a head: Append with sealLeaf, sealIndex and push, retention with trimHead and trimPageRef, lookup, reachability | operators only; a page is the value its content-addressed name stands for |
| `Reclaimer` | `lifecycle.Reclaimer.RunPartition` of several workers, over the heads of `CatalogTree` and the objects they are made of | `file` (the leased state object), `work[w]` (locals of a pass), `objects`, `late` (deletes that failed for their caller and may still happen), `clock`, `head`; one action per request of a pass, the parallel deletes of one page being one; writers stage, append, retain and take over |
| `ReclaimerProofs` | proofs | one worker at a time holds the lease of the state object |
| `Scrubber` | `ScrubPartition`, extending `Reclaimer` | adds `proposals` (an append whose objects are put and whose head is not yet), `born`, and one action per listing, catalog query and wave of deletes |
| `MemoryCatalog` | `catalog.MemoryCatalog` | `part`, `request`, `session[w]`; every call is one step |
| `RefreshCoordinator` | `refreshCoordinator` and `loadGroup` | `ref` (cached and watched head, generation, poll loop), `group` (the shared load and abandoned ones), `answer`, `signal`; critical sections as operators and actions |
| `ReaderCaches` | the whole-segment, open-segment and range caches | `whole`, `opened`, `ranges`, `flights`; methods as operators that Reader's actions use |
| `Reader` | the readers of one process, over the three modules above | `cl[c]` (a client's call), `cursor`, `watch`, `rd` (Close), `gone` (objects the reclaimer deleted); one action per catalog query, segment read or critical section |
| `ReaderProofs` | proofs | `MemoryCatalog` implements `CatalogLog`; the shared subscription is exact; the readers' invariant: batches are exact, answers true, nothing is skipped |
| `SegmentWriter` | `segwriter.Writer` and its packer | the caller's `pc`, the channels `jobs` and `out`, `worker[w]`, `emitter`, `firstErr`, `packer`, `txn`, `object` |
| `SegmentWriterProofs` | proofs | the pipeline's invariant, durable is not denied, nothing leaks, a committed object is exact |
| `SinkTxn` | the promise of `segwriter.Txn` (abstract) | bytes accepted, the object, the verdicts given: an answer that denies the object is right for good, until Commit is called again after an unknown outcome |
| `MultipartUpload` | `stream.MultipartUpload` over a provider session; implements `SinkTxn` | upload state, locks, `writer`, `worker[w]`, `client[c]`, and the provider's `staged`, `object`, `late` |
| `MultipartUploadProofs` | proofs | the upload's invariant, nothing leaks, `MultipartUpload` implements `SinkTxn` |
| `DataTheorems` | facts about data | smallest number of a set, induction as a set, `FlattenSeq` and `SumFunction` of sequences; used by the four proof modules that speak of contents |
| `MC...` | instances for TLC | requests, failure sets, workloads, symmetry |

`CatalogSession` and `RetentionMailbox` share one view of the object store: a
conditional put is answered "swapped", or "not swapped" (a different token, or
the provider's own conflict answer to a matching one, `blobstore/s3/s3.go:300`),
or with an error; in the last case it may land at any later moment at which its
token still matches. `CatalogSession` takes the mailbox as an object that only
moves to newer requests; `RetentionMailbox` shows that of the calls that move
it. `PartitionWriter` takes the session as an object that answers, fails, or
fails with unknown outcome, which is what `CatalogSession` shows of it.

`Reclaimer` takes each commit as one step, which `CatalogSession` shows it is.
Object names are numbers in the order in which the store lists the names; a pass
older than MaxPassDuration has an expired context, in which every request but
the deferred release fails. Workers read one clock: the code compares the lease
with the local time and has no allowance for skew.

`SegmentWriter` and `MultipartUpload` meet in `SinkTxn`: the first takes the
transaction as one that writes, fails, commits or has an unknown outcome, the
second shows that the stream over each provider is one. `PartitionWriter` takes the
segment writer as an object that accepts, rejects, fails or finishes. `Reader`
composes the coordinator, the caches and `MemoryCatalog`; a workload (field
`strategy` and the counters of `left`) says which calls an instance may make.
`Scrubber` extends `Reclaimer` and reuses its lease, save, release and delete steps.

Abstractions. A segment is its LSN range, epoch and writer tag; timestamps,
sizes and hashes are left out (an append out of timestamp order is one of the
failures AppendSegment may answer). In `PartitionWriter` a record is its LSN, all
records have one size, the estimate of a segment is its records plus one and the
finished object may be smaller or larger than that. In `SegmentWriter` the object
is the sequence of its pieces and a block the sequence of its records; in
`MultipartUpload` bytes are numbers. In `ReaderCaches` a segment weighs its record
count, and the three reads that open a segment are one range. Backoffs are the step
between two attempts. Definitions whose names end in `Mutant` (and
`PublishReconcileSpin`, `abortWithLeak`, `abortWithTwice`, `discardNoClose`) are deliberate mistakes; each breaks one property, which
shows that the property watches the code.

## 3. Runs

| Run | Instance | Shows |
|---|---|---|
| `catalog_safety` | 2 writers, LSNs 0..1, 1 request, 2 attempts, symmetric | epochs exclusive, no commit behind a successor; acknowledged segments and retentions survive lost, late and refused puts; history exact; no retention result is swallowed; every step is a step of the abstract log |
| `catalog_liveness` | 2 writers, one LSN, 3 generations, fair | every call returns |
| `mailbox` | 3 operators, symmetric | accepted requests are kept, mailbox advances |
| `writer_safety` | 2 in flight; five policies: ageing segments of 2 with 3 records, the same with 2 records and cancelled calls, a writer that uses up its 3 LSNs, 2 records with 2 retentions, 2 records with 1 retention and an observer; between them all failures | records, budget, flush, terminal error, segment writers, wake-ups; retention against publication; observers |
| `writer_drain` | fair; with retention failures, or ageing without failures | calls return, drains complete, aged records are published |
| `segwriter` | 2 seal workers, 3 buffers, blocks of 2, 6 records, 2 faults, 1 cancelled context, fair | the durable object is exactly what was appended although blocks are sealed out of order; Close never denies a durable object; transaction and buffers are given back; calls return |
| `upload` | each provider, 2 upload workers, 2 callers, parts of 2 bytes, 2 parts, 2 faults, 3 calls, fair | the stream implements `SinkTxn`; an abort during uploads leaves nothing staged; buffers are conserved; calls return |
| `upload_abort` | each provider, 1 upload worker, 1 caller, 1 fault, 1 cancelled context, 3 calls | violated: Abort reports success although the object lands afterwards (section 5) |
| `reader` | twelve workloads with 1 or 2 clients, 2 watches, up to 3 LSNs and 2 policies, caches of one segment, fair | batches are gapless parts of the history; errors about the ends of the log are true; cursors and tailers skip nothing; watches count exactly; Close leaves nothing running; cache budget and pins; the catalog implements `CatalogLog`; calls return |
| `reclaimer_lease` | 2 workers, 3 passes, 1 fault, 2 segments, pass 1, lease 3, delay 1, times 0..4 | one worker deletes at a time across expired leases, lost saves and crashes; watermarks only advance and pass nothing left behind |
| `reclaimer_sweep` | 1 worker, 3 passes, LSNs 0..3, leaves and index pages of 2, 2 writer epochs, delay 2, budgets of 6 objects and 2 deletes | nothing reachable, no live upload and nothing within the grace period is deleted; lookups through the page tree are exact; budgets that end inside a listing lose nothing; no pass reaches a state that validateState refuses |
| `reclaimer_scrub` | 1 worker, 3 passes, LSNs 0..1, leaves of 1, 2 epochs, delay 2, 1 delete per pass, 1 fault | nothing a head reaches or will reach is deleted; retained objects keep their grace period; no cursor passes an orphan that stays |

Bounds. Two writers and one LSN boundary suffice for every order of a takeover
and a commit. Two attempts give a first attempt that may land late and a retry.
One in-flight segment is enough to make the owner wait for the budget, two let
the finalizer and the publisher hold one each. `MaxEpoch` is the
number of takeovers; `MaxGeneration` is 3 in `catalog_liveness`, where a writer can
then find the generations used up. In `reclaimer_lease` the times allow a floor to
be observed at 0, promoted at 1, and the lease of that pass to expire at 4; three
passes are an observing, a deleting and a resuming or intruding one. Its budget of
one object per pass makes every deletion end in a resumption. `reclaimer_sweep` has
the page tree (an append that seals a leaf and its index, a retention inside both)
and staging objects of a live and of a fenced writer, without faults; time alone
expires its passes. `reclaimer_scrub` has the orphans of an append that lost its
head, of a stalled one that still lands, and pages trimmed by retention; a
quarantined page needs two passes, the third shows the purge resumed.
`segwriter` has one buffer more than seal workers, so Append waits for a buffer
while a block is out of turn. `upload` has a write that fills one part and begins
another, a pool and a queue that run out, and a commit retried by a second caller;
its providers may hold an object of another session under the key, and may refuse a
commit with no object there. `upload_abort` has the three calls its behaviour needs:
Commit, Commit again, Abort.
`reader` splits its behaviours into workloads, each small in all but one
dimension: writers and operator alone, reads against retention, cursors (four
calls, so that a checkpoint can be resumed after a seek), a load shared by two
clients, tailers against removal, stopping and closing, subscriptions, and the three
read strategies with and without Close. A cache holds one whole segment, so every
second load must evict, wait its turn or fall back to ranges.

Fairness. The steps of a session call are weakly fair: each request carries a
context and ends, and the retry loops are bounded (`engine.go:248,718`). In the
writer every goroutine that can run is run (weak fairness of each loop);
`sync.Mutex` does not starve a waiter (strong fairness of `PublishLock`), and a
retention retried again and again is resolved in the end (strong fairness of
`PublishReconcile`): without the last, publishLoop may retry for ever, as it is
meant to. In `SegmentWriter`, `MultipartUpload` and `Reader` every goroutine is
weakly fair and the store or provider answers each request, which carries a
context; the poll loop's ticker fires again and again. `RetainEnter`, cancellations and new calls have no fairness.

## 4. Proofs

Every theorem below is checked by TLAPS for every value of the constants the
assumptions admit. Each inductive invariant was first checked by TLC as an
invariant of small instances: that of `SegmentWriter` on 32,070 states, that of
`MultipartUpload` on 898,294, and that of `PartitionWriter` on three instances (small
segments with ageing, larger ones, and two retentions with an observer) of
2.2, 2.5 and 3.6 million states.

### Retention mailbox (`RetentionMailboxProofs`)

`MailboxOnlyAdvances` and `MailboxKeepsAccepted`, for any set of operators, any
requests and any number of attempts. Neither property is inductive: a late put is
harmless only because it carries the token of the object it was compared with.
The invariant adds that every put on its way, and every call about to put, has
a current token only if the stored request is older than its own (`PutInv`,
`CallInv`), and that an absent object holds the empty request (`FileInv`).

### Catalog sessions (`CatalogSessionProofs`)

`TypeCorrect` needs more than the types: a mutation is a
head only where the call that applies it has passed the checks of CanAppend or
CanRetain, so the invariant is `TypeOK /\ CallInv`, where `CallInv` says what a
session record means at each point of a call.

`InvariantHolds` adds:

* `StoreInv`: the head describes exactly the retained part of the history
  (`HeadOK`), whose segments tile the LSNs in the order of their epochs, with the
  floor on a boundary (`HistoryOK`). Without the tiling an append at `next` could
  overlap, and without the boundary a retention could cut a segment in two.
* `InflightInv`: a put that can still land has the token of the stored object, and
  its head is then a legal mutation of the stored one. This is why a late put
  does no harm, whoever sent it and whatever its caller was told.
* `SessionInv`: a session with the current token has the stored head in its cache
  (`CacheOK`); its epoch is the head's and the head is its own, or the partition
  has been taken over (`FenceOK`); a session that saw no other fence works on its
  own head and its own segments (`OwnOK`), so what an append that is retried or
  reconciled finds was written by it; what it remembers of its commits is so
  (`MemoryOK`), on which the answers to repeated calls rest.
* `EpochInv` and `AckInv`: epochs are handed out once, and every answer is true.

`LogStaysExact` and `FencingIsSound` follow from it. `SessionsImplementLog` goes
through the actions once more: a put that lands, at once or late, is a takeover, an
append or a retention of `CatalogLog`; an answer is an acknowledgement that `AckInv`
and `MemoryOK` justify; everything else stutters.

`PendingStaysKept` is an action property and needs
`KeepInv` beside `IInv`. A session may find that a *later* request than its pending
one has been applied by another writer, and drops its own. That its floor is
reached as well holds only because all requests in work were in the mailbox once
and agree in version and bound (`RequestInv`), and because the floor of a pending
mutation stays a boundary of the history until the head has passed it
(`FloorInv`). `OpenInv` says that a session which is not serving has nothing pending.

### Partition writer (`PartitionWriterProofs`)

`WriterInvariant` relates the struct, the owner's call, the three loops and the
catalog. Four results are parts of it or follow from it:

* `CauseIsToldOnce`. The count is a function of the struct only if a writer is
  aborted exactly by its first error, whoever records it, and one that ended is
  drained and cancelled (`ErrOK`); a caller between its session call and noting
  the error holds a cause that is not yet counted (`SessionInv`).
* `SnapshotsStaySound`. sessionMu keeps the owner's retention and the publisher
  apart and a retention starts from the snapshot that is still committed
  (`SessionInv`). The catalog's head is then the committed snapshot but for a
  pending retention and for a publication of unknown outcome, which ends
  publishLoop (`HeadOK`); the second is the exception that `InvalidInv` names.
* `FlushedIsDurable`. Flush waits for a counter, segments = 0, and answers about
  LSNs. `QueueOK` connects them: until the writer fails, the committed end, the
  ready queue, the finalizer's item, the detached queue and the active segment
  follow one another without a gap up to nextLSN, and the counter is the number
  of segments in between. `CutOK`, `CutInv` and `CallInv` say who may cut the active
  segment meanwhile; `SettledInv` carries the conclusion from the check to the
  answer, across the unlocks of Flush and Close.
* `CommittedOnlyAdvances`, an action property, from `HeadOK`, `SessionInv` and
  the fact that a drain that is done has joined publishLoop.

`RecordsStayAccounted` needs `AccountInv` beside it. `QueueOK` says which records are
where but not what they weigh: `BytesOK` keeps the byte counter equal to the sum of
the weights of what the queues and the finalizer hold (an estimate until a segment
is finished, its size afterwards), so each step is shown to move one weight from one
place of that sequence to another, to add the one it reserves or to remove the one
it gives back. `SinksInv` counts open segment writers by who holds them: the active
segment, the queue of detached ones, the drain, the finalizer, and a Flush with an
empty one. That a drained writer has none left then follows from where each of
these is when the drain is done. The argument for one waiter on stateWake is that
of the transition flag: the ager and the owner never both cut.

### Segment writer (`SegmentWriterProofs`)

`PipelineInvariant` gives `DurableIsNeverDenied` and `PipelineLeaksNothing`. After
finishPipeline has returned all workers and the emitter have ended, so only the
caller and the cancellation of its context can still record an error (`QuietInv`,
`CallerInv`); an open transaction belongs to a packer that can abort it (`TxnInv`).
Counting the buffers needs sets of blocks: a worker holds a block exactly while
it has one to send (`HolderInv`), and all blocks in the pipeline have different
numbers, because those in sealJobs ascend above everything taken from it
(`OrderInv`, `ApartInv`); without this the emitter's pending set could lose one.

`CommittedStaysExact` needs `ContentInv` on top. Until an error is recorded the blocks
in the pipeline are exactly those numbered nextEmit to nextSeq - 1 (`CoverInv`), each
holding the records its number stands for (`ChunkInv`), and the records not yet in a
block are those after the last one (`ActiveInv`). So the emitter, which writes in
order of number, extends the body by the next block each time (`EmitInv`), Close
ends it with an index of as many entries (`CloseInv`), and an object exists only
with such a body (`ObjectInv`). What remains is data: that the concatenation of the
blocks 0 to n - 1 is 1..count, an induction on n (`DataTheorems`).

### Multipart upload (`MultipartUploadProofs`)

`UploadInvariant` gives `UploadLeaksNothing`. The mutexes exclude (`LockInv`); one
client runs the abort, after the upload was stopped, and no commit request is in
progress then (`AbortInv`); so once a cleanup succeeded nothing can be staged again
(`StagingInv`). `HolderAssumption` says that no client is called "writer" or "none",
the values that stand for the other holders of writeMu.

`UploadImplementsTxn` is the refinement of `SinkTxn`. Every part that was cut, wherever
it is (the queue, an upload worker, the provider), holds the bytes its number stands
for, and numbers are given once (`SourceInv`, `PieceInv`); a commit finds as many
receipts as numbers given, and as these are different numbers, all of them; so a
commit request carries the whole of what was written (`SentInv`), and the object it
makes, at once or late, is `SinkTxn`'s. A dead upload sends no request (`PhaseInv`).
The verdicts are `VerdictInv`, in which the state of the upload tells what may be
said. A stream that runs or has failed, a request about to be sent or just refused, and
an abort that began from such a state are settled: no object is there or on its way and
nobody was told of an unknown outcome. In the unknown state, and in an abort that
began there, the unknown outcome was reported; and only a dead and settled stream was
denied. An upload that is retried leaves the unknown
state for the sealed one, in which the code no longer knows of the first request; that
is why the promise ends there, and `upload_abort` shows that it has to.

### In-process catalog and readers (`ReaderProofs`)

`MemoryImplementsLog` rests on `CatalogInv`: the retained segments span the LSNs from
the floor to the next one without a gap and are exactly the committed ones above the
floor; hence a retry finds its segment by its last position, and a retention cuts at
a boundary. The steps of readers do not disturb it.

`SubscriptionsStayExact` uses that every call on a Watch changes its membership and
the reference count in one critical section; the count of a set of watches, one of
which joins or leaves, is that of `FiniteSetTheorems`.

`ReadersAreSound` is the invariant from which `BatchesStayExact`, `AnswersStayTrue` and
`CursorsSkipNothing` follow. None of the three is inductive, since what a call returns
depends on what it learned many steps before:

* `CoordInv`: every head in the cache, in the subscription, in a load or in an
  answer is one the catalog had (`Known`: its records are still committed and its
  floor and end lie behind the present ones), and deleted objects lie below the
  floor.
* `ClientsInv`: in each phase of a call, its records are those from its start on
  without a gap (`Exact`); the segment it is at holds the next record, unless
  retention has passed the start of the call (`Serves`), which is the one excuse for
  answering corrupt or missing; a timestamp read knows that nothing retained under
  its head before its start is late enough (`First`, `Found`); a hint is a committed
  segment. A cursor has seen all below its position, and so has its checkpoint.
* `FlightsInv`: a shared load answers missing only if the object was deleted; one
  cancelled for want of waiters has none and is joined by none; a client waits for
  a flight of the segment it is at, so what it collects is about that segment.

Working this out showed that the history variables of a cursor must travel with its
checkpoint: a Seek, then a resumption from an older checkpoint, is a legal sequence
in which nothing is skipped although the cursor's position moves backwards. The
checkpoint in `Reader` records them, and the run has the four calls it takes.

### Lease of the reclaimer (`ReclaimerProofs`)

`LeaseStaysExclusive`: of the workers past acquire, one at most has a lease that has
not run out. The property says nothing of the state object, so it is not inductive;
`LeaseInv` adds what each pass knows of it (`Leased`). A pass that took the lease and
has the token of the stored state is its owner, with the expiry it remembers unless
it is about to release; while its lease runs it has that token. A pass about to
acquire with the stored token saw no owner, itself, or a lease that had run out at
its start, which is before now. So whoever may replace the state (`Breaks`) finds no
other lease running, also when the put succeeds and its answer is lost, after which
the pass ends. The argument needs one clock for all workers, as the model has, and
no fact about the catalog's pages. It is about `Reclaimer`; the passes of `Scrubber`
take the same lease with the same actions, and the theorem does not speak of them.

### Assumptions and limits

The assumptions are those the modules state about their constants
(`HeadAssumption`, `SessionAssumption`, `MailboxAssumption`, `WriterAssumption`,
`WorkersAssumption`, `BufferAssumption`, `SizeAssumption`, `ProvidersAssumption`,
`UploadAssumption`, `HolderAssumption`, `ReaderAssumption`, `WorkloadAssumption`,
`ClientsAssumption`, `ReclaimerAssumption` and those of the modules `Reader` extends): bounds are numbers,
limits are positive, the byte budget admits one segment and there is a block buffer
more than there are seal workers, as the code's option checks have it. A workload
of `Reader` is a record of numbers and of sets of names, and no client has the name
of a segment's open, which waits for ranges as clients do. TLC evaluates them in
every run. The theorems speak of `Spec`, without fairness; the faults each admits are
those of the actions, in any number the bounds allow.

Induction over data is done with sets: the library's induction theorems have an
operator as parameter, so `DataTheorems` proves that a nonempty set of numbers has a
smallest one and that a set which holds 0 and the successor of each of its numbers
holds all of them, and applies this to the set of numbers for which a fact holds.

Checked by TLC only:

* liveness (the `CallsReturn` of several modules, drains, aged records): the
  proof system has no rules for fairness and ENABLED here;
* `FindIsExact`, `PassesAreSound` but for the lease, `ReachableIsStored`, `ScrubSkipsNothing`,
  `DeletesOnlyGarbage`, `GraceIsKept` and `WatermarksAdvance` of `Reclaimer` and
  `Scrubber`: they rest on lookups through pages nested to any depth finding a
  segment for every retained LSN (even a watermark is a number only if the head's
  oldest segment is found). That is an induction over the page tree, along the
  recursive functions of `CatalogTree`, which has not been carried out;
* `CachesAreExact` and `QuietAfterClose` of `Reader`: the pins and reserved bytes of
  the whole-segment cache are counts and sums over its list and over the flights,
  which no invariant relates entry by entry yet.

## 5. Where documents and code differ

* `catalog/DESIGN.md:490` lets an append count as not committed when the old head
  is still current, and `engine.go:781` answers a definite error then; the put may
  land afterwards and commit the segment.
* `lifecycle/state.go:34` has every page level processed below the page
  watermark; levels are learned only from the heads that passes load
  (`state.go:235`), so the pages of a level that appeared and was trimmed between
  two passes are never swept (`scrub.go:381` stops at the same level).
* `writer/DESIGN.md:526` has a publication failure recorded and returned;
  publishLoop releases the session before it records the failure
  (`writer.go:662`), and a retention call in between records its own rejection of
  the unexpected head instead. `AnswersAreValid` states this exception.
* `stream/DESIGN.md:44-46` has Abort never report success while the final object may
  be landing, and the comment at `stream.go:365-369` has a retried Commit or Abort
  preserve the ambiguity of an unknown outcome. When Commit is called again the upload
  goes back to sealed (`stream.go:481`); if that call is cancelled before its request
  and Abort follows, Abort finds the state sealed (`stream.go:433`), answers success,
  and the first request may still make the object. The run `upload_abort` shows it
  (`AbortedIsAbsent`), and `SinkTxn` keeps its promise only up to such a retry. In the
  same way a retried request that is refused with no object there is a definite failure
  (`s3.go:388-390`, `gcs.go:402-404`, `azure.go:278-280`), whatever became of the
  first one. The segment writer calls Commit once (`packer.go:105`) and meets neither.
* A read below the floor may answer ErrCorruptData instead of ErrLSNExpired, and
  a cursor may be told ErrCheckpointAhead, when the refresh that should have
  decided joins a load that began before the head moved (`load_group.go:43`,
  against `docs/usage.md:296`). `AnswersAreTrue` asks only that a read so answered
  is below the floor. An abandoned load may also write an older head into the
  cache, which the next refresh repairs.
* A whole-segment load that ends as Close runs is reported as unavailable, so the
  read goes on with ranges after Close, and opens or ranges in flight at Close
  may still fill the cleared caches.

None of these loses an acknowledged record; the upload's has a run of its own. Three further sentences of
`catalog/DESIGN.md:493-496` are not kept to the letter: a session that finds a successor's head answers ErrStaleWriter also when the
segment had been committed and trimmed (`engine.go:778`), an already stale session
does not look at the head (`engine.go:462`), and a page that cannot be read during
reconciliation gives the plain read error (`engine.go:771`). The grace period of
`examples/README.md:139` may be shorter by up to MaxPassDuration, because a floor
pends from the start of the pass that observes it (`lifecycle/state.go:253`);
GraceIsKept states what is kept.

## 6. Plan

The components of the inventory are modelled. The safety of the catalog (both
implementations), the mailbox, the partition writer, the segment writer, the upload
and of what readers return is proved, and the exclusion of the reclaimer's lease.
What is left:

1. The whole-segment cache: `CachesAreExact`, with an invariant that gives each entry
   of the list its pins and each unfinished flight its reserved bytes, and
   `QuietAfterClose`, which follows from it and from the order of `CloseSteps`.
2. `FindIsExact` by induction over the page tree, from which `WatermarksAdvance` and
   the rest of `PassesAreSound` follow; the lease in the passes of `Scrubber`.

## 7. Not modelled

Left out of modelled components:

* Catalog: Session.ApplyRetention (only tests call it), lookup by timestamp in
  the page tree, JSON forms.
* Uploads: a part number put twice, parts (unlike commits) that arrive late, and the
  retries an SDK makes inside one call: a refused commit is taken as the answer to the
  only request of that call.
* Reader: Cursor.Fork and Cursor.Close, stream identities, option checks and
  metrics, static snapshots; the end of a Watch's parent context is its Close, and
  RemovePartition's two critical sections are one step.
* Caches: the lookup in SegmentReaderCache and the start of its open are one step.
* Reclaimer and scrubber: dry runs, keys that do not parse, byte budgets, the rate
  limiter; the reachability query of a page of objects is one step, as are the puts
  of an append's segment and pages; reclaim and scrub passes are not interleaved
  with each other (they share the lease that `reclaimer_lease` shows exclusive).

Whole components: the lifecycle scheduler (a timer around the passes, which the
models start at any time); byte formats, compression, hashes and key formatting
(round-trip and corpus tests cover them, and a model would repeat them); provider
SDK calls; the public facade (option handling and delegation); benchmarks and the
demo.
