--------------------------- MODULE SegmentWriter ---------------------------
(***************************************************************************)
(* The segment writer of internal/segwriter: one goroutine calls Append,   *)
(* Close and Abort; seal workers compress full blocks concurrently; one    *)
(* emitter puts the sealed blocks back in order and writes them through    *)
(* the packer into a sink transaction.  Records are their LSNs 1, 2, ...,  *)
(* a block is the sequence of its records, and the bytes of the object are *)
(* the sequence of the pieces written: file preamble, blocks, index,       *)
(* trailer.  The transaction is the contract of segwriter.Txn.             *)
(***************************************************************************)
EXTENDS Naturals, Sequences, FiniteSets, SequencesExt

CONSTANTS
    Workers,            \* the SealParallelism seal workers
    BlockBufferCount,   \* block buffers, and the capacity of the channels
    BlockRecords,       \* records a block takes before TargetBlockSize
    MaxRecords,         \* bound on the LSNs appended
    MaxFaults,          \* bound on failing seals, sink calls and bad records
    MaxCancels          \* bound on cancelled call contexts

ASSUME WorkersAssumption == IsFiniteSet(Workers) /\ Workers # {}
ASSUME BufferAssumption ==
    BlockBufferCount \in Nat /\ BlockBufferCount >= Cardinality(Workers) + 1
ASSUME SizeAssumption ==
    /\ BlockRecords \in Nat \ {0} /\ MaxRecords \in Nat
    /\ MaxFaults \in Nat /\ MaxCancels \in Nat

VARIABLES
    pc,        \* where the calling goroutine is
    after,     \* what finishPipeline was called for
    ctx,       \* the context of the current call is cancelled
    active,    \* <<>>, or <<the records of the active buffer>>
    free,      \* buffers in freeBuffers
    jobs, jobsClosed,          \* sealJobs
    worker,    \* each seal worker: its state and the block it holds
    out, outClosed,            \* sealedOut
    emitter, pending, nextEmit, index,
    firstErr, done,            \* firstErr and w.ctx
    closed, aborted, count, nextSeq,   \* count: records accepted so far
    packer,    \* the packer
    txn,       \* the transaction at the sink
    object,    \* <<>>, or <<the pieces of the durable object>>
    result,    \* what the last call returned
    faults, cancels

callerVars == <<pc, after, active, closed, aborted, count, nextSeq, result>>
pipeVars == <<free, jobs, jobsClosed, worker, out, outClosed>>
emitVars == <<emitter, pending, nextEmit, index>>
errVars == <<firstErr, done>>
sinkVars == <<packer, txn, object>>
boundVars == <<ctx, faults, cancels>>
vars == <<callerVars, pipeVars, emitVars, errVars, sinkVars, boundVars>>

NoBlock == [seq |-> 0, recs |-> <<>>]
NoPacker == [made |-> FALSE, body |-> <<>>, failed |-> FALSE, sealed |-> FALSE,
             completed |-> FALSE, aborted |-> FALSE, abortFailed |-> FALSE]
Piece(kind, recs) == [kind |-> kind, recs |-> recs]

(* New: all buffers free but the one the writer takes for itself. *)
Init ==
    /\ pc = "idle" /\ after = "none" /\ ctx = FALSE
    /\ active = << <<>> >> /\ free = BlockBufferCount - 1
    /\ jobs = <<>> /\ jobsClosed = FALSE
    /\ worker = [w \in Workers |-> [state |-> "idle", block |-> NoBlock]]
    /\ out = <<>> /\ outClosed = FALSE
    /\ emitter = "recv" /\ pending = {} /\ nextEmit = 0 /\ index = <<>>
    /\ firstErr = "none" /\ done = FALSE
    /\ closed = FALSE /\ aborted = FALSE /\ count = 0 /\ nextSeq = 0
    /\ packer = NoPacker /\ txn = "none" /\ object = <<>>
    /\ result = "none" /\ faults = 0 /\ cancels = 0

-----------------------------------------------------------------------------
(* Helpers                                                                 *)

Fault == faults < MaxFaults /\ faults' = faults + 1 /\ UNCHANGED <<ctx, cancels>>
NoFault == UNCHANGED boundVars

setFirstErrMutant(e) ==
    /\ firstErr' = IF firstErr = "none" THEN e ELSE firstErr
    /\ done' = TRUE

(* setFirstErr keeps the first error, but a real one displaces a           *)
(* cancellation, and stops the pipeline's context.                         *)
setFirstErr(e) ==
    /\ firstErr' = IF firstErr = "none" \/ (firstErr = "cancel" /\ e # "cancel")
                   THEN e ELSE firstErr
    /\ done' = TRUE

(* returnBuffer offers a buffer to freeBuffers or to the cancelled         *)
(* context, whichever select takes.                                        *)
returnBuffers(n) ==
    \/ free' = free + n
    \/ done /\ n > 0 /\ \E k \in 0..(n - 1) : free' = free + k

Return(r) == pc' = "idle" /\ result' = r /\ after' = "none"

abortWithLeak(e, drain) ==
    /\ setFirstErr(e)
    /\ aborted' = TRUE /\ after' = e
    /\ UNCHANGED jobsClosed /\ pc' = "abort"

abortWithTwice(e, drain) ==
    /\ setFirstErr(e)
    /\ aborted' = TRUE /\ after' = e
    /\ jobsClosed' = TRUE /\ pc' = "workers"

(* abortWith(err, drain): the writer is aborted, the pipeline is drained   *)
(* when asked, and the packer is aborted after that.                       *)
abortWith(e, drain) ==
    /\ setFirstErr(e)
    /\ aborted' = TRUE
    /\ IF drain THEN jobsClosed' = TRUE /\ pc' = "workers"
                ELSE UNCHANGED jobsClosed /\ pc' = "abort"
    /\ after' = e

(* packer.write: the piece is appended to what the transaction holds.      *)
Written(piece) == [packer EXCEPT !.body = Append(@, piece)]

(* packer.Abort: not after completion, again only after a failed abort.    *)
packerAbort ==
    IF packer.completed \/ (packer.aborted /\ ~packer.abortFailed)
    THEN UNCHANGED <<sinkVars, boundVars>>
    ELSE \/ /\ packer' = [packer EXCEPT !.aborted = TRUE, !.abortFailed = FALSE]
            /\ txn' = "aborted" /\ NoFault /\ UNCHANGED object
         \/ /\ packer' = [packer EXCEPT !.aborted = TRUE, !.abortFailed = TRUE]
            /\ txn' = "leaked" /\ Fault /\ UNCHANGED object

-----------------------------------------------------------------------------
(* Append                                                                  *)

Full == active # <<>> /\ Len(active[1]) = BlockRecords

AddRecord(recs) ==
    /\ active' = <<Append(recs, count + 1)>>
    /\ count' = count + 1

(* Append up to its first wait: refused for an earlier error or an invalid *)
(* record (validateRecord: LSN gap, time order, exhausted), accepted when  *)
(* the active buffer has room, or waiting for a buffer.                    *)
StartAppend ==
    /\ pc = "idle" /\ ~closed /\ ~aborted /\ count < MaxRecords
    /\ \/ /\ firstErr # "none"
          /\ abortWith(firstErr, TRUE) /\ NoFault
          /\ UNCHANGED <<active, count, result>>
       \/ /\ firstErr = "none"
          /\ abortWith("err", TRUE) /\ Fault
          /\ UNCHANGED <<active, count, result>>
       \/ /\ firstErr = "none" /\ active # <<>> /\ ~Full
          /\ AddRecord(active[1]) /\ Return("ok") /\ NoFault
          /\ UNCHANGED <<jobsClosed, errVars, aborted>>
       \/ /\ firstErr = "none" /\ (active = <<>> \/ Full)
          /\ pc' = IF Full THEN "enqueue" ELSE "take"
          /\ NoFault
          /\ UNCHANGED <<jobsClosed, errVars, aborted, active, count, result, after>>
    /\ UNCHANGED <<closed, nextSeq, free, jobs, worker, out, outClosed, emitVars, sinkVars>>

(* appendCancellation: an error already recorded wins over the caller's    *)
(* own cancellation, which leaves the writer usable.                       *)
appendCancellation ==
    \/ ctx /\ firstErr = "none" /\ Return("notAccepted")
       /\ UNCHANGED <<jobsClosed, errVars, aborted>>
    \/ (ctx \/ done) /\ firstErr # "none" /\ abortWith(firstErr, TRUE)
       /\ UNCHANGED result

TakeFreeBuffer ==
    /\ pc = "take"
    /\ \/ /\ free > 0 /\ free' = free - 1
          /\ AddRecord(<<>>) /\ Return("ok")
          /\ UNCHANGED <<jobsClosed, errVars, aborted>>
       \/ appendCancellation /\ UNCHANGED <<free, active, count>>
    /\ NoFault
    /\ UNCHANGED <<closed, nextSeq, jobs, worker, out, outClosed, emitVars, sinkVars>>

SendJob ==
    /\ Len(jobs) < BlockBufferCount
    /\ jobs' = Append(jobs, [seq |-> nextSeq, recs |-> active[1]])
    /\ nextSeq' = nextSeq + 1
    /\ active' = <<>>

EnqueueActive ==
    /\ pc = "enqueue"
    /\ \/ /\ SendJob /\ pc' = "take"
          /\ UNCHANGED <<jobsClosed, errVars, aborted, result, after>>
       \/ appendCancellation /\ UNCHANGED <<jobs, nextSeq, active>>
    /\ NoFault
    /\ UNCHANGED <<closed, count, free, worker, out, outClosed, emitVars, sinkVars>>

-----------------------------------------------------------------------------
(* Close and Abort                                                         *)

ClosePcs == {"closeEnqueue", "workers", "emitted", "index", "trailer", "commit",
             "committing"}

(* Close up to its first wait.                                             *)
StartClose ==
    /\ pc = "idle" /\ ~closed /\ ~aborted
    /\ \/ /\ firstErr # "none" \/ count = 0
          /\ abortWith(IF firstErr # "none" THEN firstErr ELSE "empty", TRUE)
       \/ /\ firstErr = "none" /\ count > 0
          /\ after' = "close"
          /\ IF active # <<>> /\ active[1] # <<>>
             THEN pc' = "closeEnqueue" /\ UNCHANGED jobsClosed
             ELSE pc' = "workers" /\ jobsClosed' = TRUE
          /\ UNCHANGED <<errVars, aborted>>
    /\ NoFault
    /\ UNCHANGED <<active, closed, count, nextSeq, result, free, jobs, worker, out,
                   outClosed, emitVars, sinkVars>>

(* The last block is sent; a cancelled Close aborts the writer.            *)
CloseEnqueue ==
    /\ pc = "closeEnqueue"
    /\ \/ /\ SendJob /\ pc' = "workers" /\ jobsClosed' = TRUE
          /\ UNCHANGED <<errVars, aborted, after>>
       \/ /\ ctx \/ done
          /\ abortWith(IF firstErr # "none" THEN firstErr ELSE "cancel", TRUE)
          /\ UNCHANGED <<jobs, nextSeq, active>>
    /\ NoFault
    /\ UNCHANGED <<closed, count, result, free, worker, out, outClosed, emitVars,
                   sinkVars>>

(* The AfterFunc Close registers on its context.                           *)
CloseCancellation ==
    /\ ctx /\ after = "close" /\ pc \in ClosePcs \ {"closeEnqueue"} /\ ~done
    /\ setFirstErr("cancel")
    /\ UNCHANGED <<callerVars, pipeVars, emitVars, sinkVars, boundVars>>

StartAbort ==
    /\ pc = "idle" /\ ~closed
    /\ \/ /\ ~aborted /\ aborted' = TRUE /\ setFirstErr("abort")
          /\ jobsClosed' = TRUE /\ pc' = "workers"
       \/ /\ aborted /\ packer.abortFailed /\ pc' = "abort"
          /\ UNCHANGED <<aborted, errVars, jobsClosed>>
    /\ after' = "abort" /\ NoFault
    /\ UNCHANGED <<active, closed, count, nextSeq, result, free, jobs, worker, out,
                   outClosed, emitVars, sinkVars>>

(* finishPipeline: sealJobs is closed, wait for the workers, close         *)
(* sealedOut, and take the emitter's one result.                           *)
WaitWorkers ==
    /\ pc = "workers"
    /\ \A w \in Workers : worker[w].state = "done"
    /\ outClosed' = TRUE /\ pc' = "emitted"
    /\ UNCHANGED <<after, active, closed, aborted, count, nextSeq, result, free, jobs,
                   jobsClosed, worker, out, emitVars, errVars, sinkVars, boundVars>>

WaitEmitter ==
    /\ pc = "emitted" /\ emitter = "done"
    /\ emitter' = "received"
    /\ CASE after # "close" ->
              pc' = "abort" /\ UNCHANGED <<after, jobsClosed, errVars, aborted>>
         [] after = "close" /\ (firstErr # "none" \/ ~packer.made) ->
              abortWith(IF firstErr # "none" THEN firstErr ELSE "empty", FALSE)
         [] OTHER -> pc' = "index" /\ UNCHANGED <<after, jobsClosed, errVars, aborted>>
    /\ NoFault
    /\ UNCHANGED <<active, closed, count, nextSeq, result, free, jobs, worker, out,
                   outClosed, pending, nextEmit, index, sinkVars>>

BlockIndex == Piece("index", [i \in DOMAIN index |-> index[i].at])
Trailer == Piece("trailer", <<count>>)

(* packer.write of Close's own pieces: the block index, then the trailer.  *)
CloseWrite ==
    /\ pc \in {"index", "trailer"}
    /\ \/ /\ ~ctx /\ NoFault
          /\ packer' = IF pc = "index"
                       THEN [Written(BlockIndex) EXCEPT !.sealed = TRUE]
                       ELSE Written(Trailer)
          /\ pc' = IF pc = "index" THEN "trailer" ELSE "commit"
          /\ UNCHANGED <<after, jobsClosed, errVars, aborted>>
       \/ /\ ctx /\ NoFault
          /\ abortWith("cancel", FALSE) /\ UNCHANGED packer
       \/ /\ ~ctx /\ Fault
          /\ packer' = [packer EXCEPT !.failed = TRUE]
          /\ abortWith("err", FALSE)
    /\ UNCHANGED <<active, closed, count, nextSeq, result, free, jobs, worker, out,
                   outClosed, emitVars, txn, object>>

(* packer.Complete checks its context and asks the transaction to commit.  *)
StartCommit ==
    /\ pc = "commit"
    /\ \/ ctx /\ abortWith("cancel", FALSE)
       \/ ~ctx /\ pc' = "committing" /\ UNCHANGED <<after, jobsClosed, errVars, aborted>>
    /\ UNCHANGED <<active, closed, count, nextSeq, result, free, jobs, worker, out,
                   outClosed, emitVars, sinkVars, boundVars>>

(* The commit is done, fails for certain, fails with an unknown outcome,   *)
(* or reports an object that is not the one written, which is aborted.     *)
Complete ==
    /\ pc = "committing"
    /\ \/ /\ NoFault
          /\ object' = <<packer.body>> /\ txn' = "committed"
          /\ packer' = [packer EXCEPT !.completed = TRUE]
          /\ closed' = TRUE /\ done' = TRUE /\ Return("closed")
          /\ UNCHANGED <<firstErr, aborted, jobsClosed>>
       \/ /\ Fault
          /\ \/ abortWith("err", FALSE) /\ UNCHANGED <<packer, txn, object>>
             \/ /\ abortWith("indet", FALSE) /\ UNCHANGED <<packer, txn>>
                /\ object' \in {object, <<packer.body>>}
             \/ /\ abortWith("contract", FALSE) /\ object' = <<packer.body>>
                /\ \E failed \in BOOLEAN :
                      /\ packer' = [packer EXCEPT !.failed = TRUE, !.aborted = TRUE,
                                                  !.abortFailed = failed]
                      /\ txn' = IF failed THEN "leaked" ELSE "aborted"
          /\ UNCHANGED <<closed, result>>
    /\ UNCHANGED <<active, count, nextSeq, free, jobs, worker, out, outClosed, emitVars>>

(* The packer abort that ends a failed call or an Abort.                   *)
AbortPacker ==
    /\ pc = "abort"
    /\ IF packer.made THEN packerAbort ELSE UNCHANGED <<sinkVars, boundVars>>
    /\ Return(after)
    /\ UNCHANGED <<active, closed, aborted, count, nextSeq, pipeVars, emitVars, errVars>>

-----------------------------------------------------------------------------
(* Seal workers                                                            *)

Seal(w) ==
    /\ worker[w].state = "idle" /\ jobs # <<>>
    /\ jobs' = Tail(jobs)
    /\ \/ /\ worker' = [worker EXCEPT ![w] = [state |-> "sealed", block |-> Head(jobs)]]
          /\ NoFault /\ UNCHANGED errVars
       \/ /\ worker' = [worker EXCEPT ![w] = [state |-> "failed", block |-> Head(jobs)]]
          /\ Fault /\ setFirstErr("err")
    /\ UNCHANGED <<callerVars, free, jobsClosed, out, outClosed, emitVars, sinkVars>>

(* The result goes to sealedOut unless the cancelled context is taken      *)
(* first; the worker returns after a failure.                              *)
SendSealed(w) ==
    /\ worker[w].state \in {"sealed", "failed"}
    /\ \/ /\ Len(out) < BlockBufferCount
          /\ out' = Append(out, [block |-> worker[w].block,
                                 ok |-> worker[w].state = "sealed"])
          /\ worker' = [worker EXCEPT ![w] =
                [state |-> IF @.state = "sealed" THEN "idle" ELSE "done", block |-> NoBlock]]
       \/ /\ done /\ UNCHANGED out
          /\ worker' = [worker EXCEPT ![w] = [state |-> "done", block |-> NoBlock]]
    /\ UNCHANGED <<callerVars, free, jobs, jobsClosed, outClosed, emitVars, errVars,
                   sinkVars, boundVars>>

WorkerExit(w) ==
    /\ worker[w].state = "idle" /\ jobs = <<>> /\ jobsClosed
    /\ worker' = [worker EXCEPT ![w].state = "done"]
    /\ UNCHANGED <<callerVars, free, jobs, jobsClosed, out, outClosed, emitVars,
                   errVars, sinkVars, boundVars>>

-----------------------------------------------------------------------------
(* The emitter                                                             *)

(* One result of sealedOut: dropped after an error, else held until its    *)
(* turn.                                                                   *)
EmitRecv ==
    /\ emitter = "recv" /\ out # <<>>
    /\ out' = Tail(out)
    /\ LET r == Head(out) IN
       IF r.ok /\ firstErr = "none"
       THEN /\ pending' = pending \cup {r.block} /\ emitter' = "emit"
            /\ UNCHANGED <<free, errVars>>
       ELSE /\ returnBuffers(1)
            /\ IF r.ok THEN UNCHANGED errVars ELSE setFirstErr("err")
            /\ UNCHANGED <<emitter, pending>>
    /\ UNCHANGED <<callerVars, jobs, jobsClosed, worker, outClosed, nextEmit, index,
                   sinkVars, boundVars>>

TurnMutant == pending

(* The block the emitter writes next.                                      *)
Turn == {b \in pending : b.seq = nextEmit}

(* The emit loop has nothing to write: an error drops what is pending.     *)
EmitPause ==
    /\ emitter = "emit" /\ (firstErr # "none" \/ Turn = {})
    /\ emitter' = "recv"
    /\ IF firstErr # "none"
       THEN returnBuffers(Cardinality(pending)) /\ pending' = {}
       ELSE UNCHANGED <<free, pending>>
    /\ UNCHANGED <<callerVars, jobs, jobsClosed, worker, out, outClosed, nextEmit, index,
                   errVars, sinkVars, boundVars>>

(* emitContext: Close's context is added to the pipeline's own.            *)
EmitCancelled == done \/ (ctx /\ after = "close")

(* A failed emission: the buffer is returned and the error recorded.       *)
EmitFails(e) ==
    /\ pending' = {} /\ emitter' = "recv"
    /\ returnBuffers(Cardinality(pending))
    /\ setFirstErr(e)
    /\ UNCHANGED <<nextEmit, index>>

(* ensurePacker begins the transaction and writes the file preamble; when  *)
(* that write fails the transaction is aborted on the spot.                *)
EnsurePacker ==
    /\ emitter = "emit" /\ firstErr = "none" /\ Turn # {} /\ ~packer.made
    /\ \/ /\ ~done /\ NoFault
          /\ packer' = [NoPacker EXCEPT !.made = TRUE, !.body = <<Piece("preamble", <<1>>)>>]
          /\ txn' = "open"
          /\ UNCHANGED <<pending, emitter, free, errVars, nextEmit, index>>
       \/ /\ EmitCancelled /\ NoFault
          /\ EmitFails("cancel") /\ UNCHANGED <<packer, txn>>
       \/ /\ Fault /\ EmitFails("err")
          /\ txn' \in {txn, "aborted", "leaked"} /\ UNCHANGED packer
    /\ UNCHANGED <<callerVars, jobs, jobsClosed, worker, out, outClosed, object>>

(* emitSealed writes the block whose turn it is and indexes it.            *)
EmitBlock ==
    /\ emitter = "emit" /\ firstErr = "none" /\ packer.made
    /\ \E b \in Turn :
       \/ /\ ~done /\ NoFault
          /\ packer' = Written(Piece("block", b.recs))
          /\ index' = Append(index, [at |-> Len(packer.body) + 1, recs |-> b.recs])
          /\ nextEmit' = nextEmit + 1
          /\ pending' = pending \ {b} /\ returnBuffers(1)
          /\ UNCHANGED <<emitter, errVars>>
       \/ /\ EmitCancelled /\ NoFault
          /\ EmitFails("cancel") /\ UNCHANGED packer
       \/ /\ Fault /\ EmitFails("err")
          /\ packer' = [packer EXCEPT !.failed = TRUE]
    /\ UNCHANGED <<callerVars, jobs, jobsClosed, worker, out, outClosed, txn, object>>

EmitEnd ==
    /\ emitter = "recv" /\ out = <<>> /\ outClosed
    /\ emitter' = "done"
    /\ IF firstErr # "none"
       THEN returnBuffers(Cardinality(pending)) /\ pending' = {}
       ELSE UNCHANGED <<free, pending>>
    /\ UNCHANGED <<callerVars, jobs, jobsClosed, worker, out, outClosed, nextEmit, index,
                   errVars, sinkVars, boundVars>>

-----------------------------------------------------------------------------
(* The context of the call in progress is cancelled.                       *)
CancelCall ==
    /\ pc # "idle" /\ ~ctx /\ cancels < MaxCancels
    /\ ctx' = TRUE /\ cancels' = cancels + 1
    /\ UNCHANGED <<callerVars, pipeVars, emitVars, errVars, sinkVars, faults>>

(* The next call comes with a context of its own.                          *)
FreshContext ==
    /\ pc = "idle" /\ ctx /\ ctx' = FALSE
    /\ UNCHANGED <<callerVars, pipeVars, emitVars, errVars, sinkVars, faults, cancels>>

Caller ==
    \/ TakeFreeBuffer \/ EnqueueActive \/ CloseEnqueue \/ WaitWorkers
    \/ WaitEmitter \/ CloseWrite \/ StartCommit \/ Complete \/ AbortPacker
Worker(w) == Seal(w) \/ SendSealed(w) \/ WorkerExit(w)
Emitter == EmitRecv \/ EmitPause \/ EnsurePacker \/ EmitBlock \/ EmitEnd

Next ==
    \/ StartAppend \/ StartClose \/ StartAbort \/ Caller
    \/ \E w \in Workers : Worker(w)
    \/ Emitter
    \/ CloseCancellation \/ CancelCall \/ FreshContext

(* The Go scheduler runs every goroutine that can run, and the sink's      *)
(* calls return.                                                           *)
Fairness ==
    /\ WF_vars(Caller) /\ WF_vars(Emitter)
    /\ \A w \in Workers : WF_vars(Worker(w))

Spec == Init /\ [][Next]_vars /\ Fairness

-----------------------------------------------------------------------------
(* Properties                                                              *)

Kinds(body) == [i \in DOMAIN body |-> body[i].kind]
Blocks(body) == SubSeq(body, 2, Len(body) - 2)
Records(blocks) == FlattenSeq([i \in DOMAIN blocks |-> blocks[i].recs])

(* The object that becomes durable is the segment that was appended: the   *)
(* preamble, then blocks holding every accepted record once and in LSN     *)
(* order although the workers seal out of order, an index that points at   *)
(* each block, and a trailer with the record count.                        *)
CommittedIsExact ==
    object # <<>> =>
        LET body == object[1]
            n == Len(Blocks(body))
        IN /\ Kinds(body) = <<"preamble">> \o [i \in 1..n |-> "block"]
                            \o <<"index", "trailer">>
           /\ Records(Blocks(body)) = [i \in 1..count |-> i]
           /\ body[n + 2].recs = [i \in 1..n |-> i + 1]
           /\ body[n + 3].recs = <<count>>

(* Close never reports a definite failure for an object that is durable:   *)
(* the error it keeps is the unknown outcome, also when the call's         *)
(* cancellation was recorded first.                                        *)
DurableIsNotDenied ==
    object # <<>> => closed \/ firstErr \in {"indet", "contract"}

(* When a call has left the writer aborted or closed, no goroutine can     *)
(* still open or write the transaction, and it was committed, aborted or   *)
(* its abort failed.                                                       *)
NoTxnLeak ==
    pc = "idle" /\ (aborted \/ closed) =>
        /\ emitter = "received" /\ \A w \in Workers : worker[w].state = "done"
        /\ txn # "open"

(* Until an error stops the pipeline every block buffer is in exactly one  *)
(* place, so Append cannot run out of them.                                *)
BuffersConserved ==
    firstErr = "none" =>
        BlockBufferCount = free + Len(active) + Len(jobs) + Len(out)
            + Cardinality(pending)
            + Cardinality({w \in Workers : worker[w].block # NoBlock})

(* What the pipeline borrows it gives back: the sink's transaction and the *)
(* block buffers.                                                          *)
NothingLeaks == NoTxnLeak /\ BuffersConserved

(* Append, Close and Abort return: no wait on a buffer, a worker or the    *)
(* emitter's single result is for ever, whatever failed before.            *)
CallsReturn == pc # "idle" ~> pc = "idle"
=============================================================================
