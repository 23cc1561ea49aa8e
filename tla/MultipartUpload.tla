-------------------------- MODULE MultipartUpload --------------------------
(***************************************************************************)
(* The ordered upload stream of internal/blob/sink/stream on top of a      *)
(* provider session of internal/blob/sink/{s3,gcs,azure}.  One goroutine   *)
(* writes; any number of clients call Commit and Abort; upload workers put *)
(* the parts; the provider keeps staged parts and the final object, and    *)
(* may lose the answer of a commit request or carry it out late.           *)
(* Bytes are the numbers 1, 2, ... in the order written.                   *)
(***************************************************************************)
EXTENDS Naturals, Sequences, FiniteSets, SequencesExt

CONSTANTS
    Providers,     \* the providers to consider: "s3", "gcs", "azure"
    Clients,       \* goroutines calling Commit and Abort
    Workers,       \* UploadParallelism upload workers
    QueueSize,     \* UploadQueueSize, the capacity of the jobs channel
    PoolBuffers,   \* buffers of the pool
    PartSize,      \* bytes per part
    WriteSizes,    \* bytes a Write may bring
    ComposeLimit,  \* sources of one GCS compose
    MaxParts,      \* MaxPartCount of the provider
    MaxFaults,     \* bound on failing provider requests
    MaxCalls,      \* bound on Commit and Abort calls
    MaxCancels     \* bound on cancelled call contexts

ASSUME ProvidersAssumption == Providers \subseteq {"s3", "gcs", "azure"}
ASSUME UploadAssumption ==
    /\ IsFiniteSet(Workers) /\ Workers # {} /\ IsFiniteSet(Clients)
    /\ QueueSize \in Nat \ {0} /\ PoolBuffers \in Nat \ {0}
    /\ PartSize \in Nat \ {0} /\ WriteSizes \subseteq Nat \ {0} /\ MaxParts \in Nat \ {0}
    /\ ComposeLimit \in Nat \ {0}
    /\ MaxFaults \in Nat /\ MaxCalls \in Nat /\ MaxCancels \in Nat
(* A mutex names its holder: a client, the writer, or nobody.               *)
ASSUME HolderAssumption == Clients \cap {"writer", "none"} = {}

VARIABLES
    provider,
    state, failed,           \* the upload's state and firstErr
    stopped,                 \* runCtx is cancelled
    active, offset, nextPart,
    jobs, jobsClosed, receipts,
    leased,                  \* buffers leased from the pool
    writeMu, commitMu,       \* who holds them
    writer,                  \* the Write call: [pc, left, accepted]
    worker,                  \* each worker: [pc, job]
    client, ctx,             \* each client: where it is; its context is cancelled
    abortErr, abortUnknown,  \* abortErr/cleanupErr, abortWasIndeterminate
    finishing,               \* finishAbort goroutine: "none", "ok", "err"
    sess,                    \* the provider session
    staged,                  \* staged parts and composites at the provider
    object,                  \* <<>>, or <<the bytes of the final object>>
    foreign,                 \* an object of someone else is at the key
    late,                    \* a commit request may still be carried out
    told,                    \* verdicts of Commit and Abort; "retried" after "unknown"
    faults, calls, cancels

streamVars == <<state, failed, stopped, active, offset, nextPart, jobs, jobsClosed,
                receipts, leased, abortErr, abortUnknown, finishing>>
lockVars == <<writeMu, commitMu>>
callVars == <<writer, client, ctx, told, calls, cancels>>
providerVars == <<sess, staged, object, late>>
vars == <<provider, foreign, streamVars, lockVars, callVars, worker, providerVars, faults>>

Content == [i \in 1..offset |-> i]
NoJob == [number |-> 0, bytes |-> <<>>]
Idle == [pc |-> "idle", left |-> 0, accepted |-> FALSE]

Init ==
    /\ provider \in Providers /\ foreign \in BOOLEAN
    /\ state = "open" /\ failed = FALSE /\ stopped = FALSE
    /\ active = <<>> /\ offset = 0 /\ nextPart = 1
    /\ jobs = <<>> /\ jobsClosed = FALSE /\ receipts = {} /\ leased = 0
    /\ writeMu = "none" /\ commitMu = "none"
    /\ writer = Idle
    /\ worker = [w \in Workers |-> [pc |-> "idle", job |-> NoJob]]
    /\ client = [c \in Clients |-> "idle"] /\ ctx = [c \in Clients |-> FALSE]
    /\ abortErr = FALSE /\ abortUnknown = FALSE /\ finishing = "none"
    /\ sess = [parts |-> {}, committing |-> FALSE, committed |-> FALSE,
               cleaned |-> FALSE]
    /\ staged = {} /\ object = <<>> /\ late = FALSE
    /\ told = {}
    /\ faults = 0 /\ calls = 0 /\ cancels = 0

-----------------------------------------------------------------------------
(* Helpers                                                                 *)

Fault == faults < MaxFaults /\ faults' = faults + 1
NoFault == UNCHANGED faults

Live == {"open", "sealing", "sealed"}
Ended == {"aborting", "aborted"}

(* The pool: a buffer is leased while there is one and the upload runs.    *)
CanAcquire == leased < PoolBuffers /\ ~stopped
Release(n) == leased' = leased - n

discardNoClose ==
    /\ active' = <<>> /\ UNCHANGED jobsClosed
    /\ Release(IF active # <<>> THEN 1 ELSE 0)

(* discardAndCloseLocked: the active buffer goes back, jobs is closed.     *)
discardAndClose ==
    /\ active' = <<>>
    /\ Release(IF active # <<>> THEN 1 ELSE 0)
    /\ jobsClosed' = TRUE

(* recordFailure: an aborting upload keeps no failure; any other stops.    *)
recordFailure ==
    IF state \in Ended
    THEN UNCHANGED <<state, failed, stopped>>
    ELSE /\ failed' = TRUE /\ stopped' = TRUE
         /\ state' = IF state \in Live THEN "failed" ELSE state

-----------------------------------------------------------------------------
(* Write: holds writeMu for the whole call                                 *)

StartWrite(n) ==
    /\ writer.pc = "idle" /\ writeMu = "none" /\ state = "open"
    /\ offset + n <= PartSize * MaxParts
    /\ writeMu' = "writer"
    /\ writer' = [pc |-> "acquire", left |-> n, accepted |-> FALSE]
    /\ UNCHANGED <<provider, foreign, streamVars, commitMu, client, ctx, told, calls, cancels, worker,
                   providerVars, faults>>

EndWrite == writer' = Idle /\ writeMu' = "none"

(* A part's buffer is leased when there is none, and filled.               *)
FillActive ==
    /\ writer.pc = "acquire"
    /\ active # <<>> \/ CanAcquire
    /\ LET room == PartSize - Len(active)
           n == IF writer.left < room THEN writer.left ELSE room
       IN /\ active' = active \o [i \in 1..n |-> offset + i]
          /\ offset' = offset + n
          /\ leased' = IF active = <<>> THEN leased + 1 ELSE leased
          /\ IF n = room
             THEN /\ writer' = [pc |-> "enqueue", left |-> writer.left - n, accepted |-> TRUE]
                  /\ UNCHANGED writeMu
             ELSE EndWrite
    /\ UNCHANGED <<provider, foreign, state, failed, stopped, nextPart, jobs, jobsClosed, receipts,
                   abortErr, abortUnknown, finishing, commitMu, client, ctx, told, calls,
                   cancels, worker, providerVars, faults>>

SendPart ==
    /\ Len(jobs) < QueueSize
    /\ jobs' = Append(jobs, [number |-> nextPart, bytes |-> active])
    /\ active' = <<>> /\ nextPart' = nextPart + 1

EnqueuePart ==
    /\ writer.pc = "enqueue" /\ SendPart
    /\ IF writer.left = 0 THEN EndWrite
       ELSE writer' = [writer EXCEPT !.pc = "acquire"] /\ UNCHANGED writeMu
    /\ UNCHANGED <<provider, foreign, state, failed, stopped, offset, jobsClosed, receipts, leased,
                   abortErr, abortUnknown, finishing, commitMu, client, ctx, told, calls,
                   cancels, worker, providerVars, faults>>

(* failWriteLocked: a Write that is stopped, or cancelled by its caller,   *)
(* fails the upload when some of its bytes were accepted.                  *)
WriteFails ==
    /\ writer.pc = "enqueue" \/ (writer.pc = "acquire" /\ active = <<>>)
    /\ \/ stopped /\ UNCHANGED cancels
       \/ ~stopped /\ cancels < MaxCancels /\ cancels' = cancels + 1
    /\ IF writer.accepted
       THEN recordFailure /\ discardAndClose
       ELSE UNCHANGED <<state, failed, stopped, active, leased, jobsClosed>>
    /\ EndWrite
    /\ UNCHANGED <<provider, foreign, offset, nextPart, jobs, receipts, abortErr, abortUnknown,
                   finishing, commitMu, client, ctx, told, calls, worker, providerVars, faults>>

-----------------------------------------------------------------------------
(* Commit: holds commitMu for the whole call                               *)

streamRest == <<offset, nextPart, receipts, abortErr, abortUnknown, finishing>>

StartCall(c) ==
    /\ client[c] = "idle" /\ calls < MaxCalls
    /\ calls' = calls + 1
    /\ client' = [client EXCEPT ![c] = "commitMu"]
    /\ UNCHANGED <<provider, foreign, streamVars, lockVars, writer, ctx, told, cancels,
                   worker, providerVars, faults>>

TakeCommitMu(c) ==
    /\ client[c] = "commitMu" /\ commitMu = "none"
    /\ commitMu' = c /\ client' = [client EXCEPT ![c] = "seal"]
    /\ UNCHANGED <<provider, foreign, streamVars, writeMu, writer, ctx, told, calls,
                   cancels, worker, providerVars, faults>>

(* A call returns; v is the verdict it gives: {} when it tells nothing,    *)
(* "absent" is a definite failure of Commit, "aborted" an Abort without    *)
(* error, "unknown" an ErrCommitIndeterminate of either.                   *)
Reply(c, v) ==
    /\ client' = [client EXCEPT ![c] = "idle"]
    /\ ctx' = [ctx EXCEPT ![c] = FALSE]
    /\ told' = told \cup v
CommitReply(c, v) == Reply(c, v) /\ commitMu' = "none"

(* The switch of beginSealLocked.                                          *)
BeginSeal(c) ==
    /\ client[c] = "seal" /\ writeMu = "none"
    /\ \/ /\ state = "completed" \/ (state = "open" /\ offset = 0) \/ state \in Ended
          /\ CommitReply(c, IF state = "completed" THEN {"committed"} ELSE {})
          /\ UNCHANGED <<state, active, leased, jobsClosed, writeMu>>
       \/ /\ state = "failed"
          /\ discardAndClose /\ CommitReply(c, {"absent"})
          /\ UNCHANGED <<state, writeMu>>
       \/ /\ state \in {"open", "sealing", "sealed", "unknown"}
          /\ ~(state = "open" /\ offset = 0)
          /\ state' = CASE state = "open" -> "sealing"
                        [] state = "unknown" -> "sealed"
                        [] OTHER -> state
          /\ told' = told \cup (IF state = "unknown" THEN {"retried"} ELSE {})
          /\ IF jobsClosed THEN client' = [client EXCEPT ![c] = "wait"] /\ UNCHANGED writeMu
                           ELSE client' = [client EXCEPT ![c] = "flush"] /\ writeMu' = c
          /\ UNCHANGED <<active, leased, jobsClosed, commitMu, ctx>>
    /\ UNCHANGED <<provider, foreign, failed, stopped, jobs, streamRest, writer, calls,
                   cancels, worker, providerVars, faults>>

(* The rest of beginSealLocked: the last part is queued and jobs is        *)
(* closed, or the queue is full until the context or the upload ends.      *)
SealFlush(c) ==
    /\ client[c] = "flush" /\ writeMu' = "none"
    /\ \/ /\ IF active = <<>> THEN UNCHANGED <<jobs, active, nextPart>> ELSE SendPart
          /\ jobsClosed' = TRUE
          /\ state' = IF state = "sealing" THEN "sealed" ELSE state
          /\ IF state \in Live
             THEN client' = [client EXCEPT ![c] = "wait"] /\ UNCHANGED <<commitMu, ctx, told>>
             ELSE CommitReply(c, IF state = "failed" THEN {"absent"} ELSE {})
          /\ UNCHANGED leased
       \/ /\ active # <<>> /\ (ctx[c] \/ stopped)
          /\ state' = IF state = "sealing" THEN "open" ELSE state
          /\ IF state \in Ended \cup {"failed"} THEN discardAndClose
             ELSE UNCHANGED <<active, leased, jobsClosed>>
          /\ CommitReply(c, IF state = "failed" THEN {"absent"} ELSE {})
          /\ UNCHANGED <<jobs, nextPart>>
    /\ UNCHANGED <<provider, foreign, failed, stopped, offset, receipts, abortErr,
                   abortUnknown, finishing, writer, calls, cancels, worker, providerVars,
                   faults>>

AllDone == \A w \in Workers : worker[w].pc = "done"

(* Wait for every part, then decide under mu whether to commit.            *)
CommitWait(c) ==
    /\ client[c] = "wait"
    /\ \/ /\ ctx[c] /\ CommitReply(c, {}) /\ UNCHANGED <<state, failed>>
       \/ /\ AllDone /\ state \in Ended
          /\ CommitReply(c, {}) /\ UNCHANGED <<state, failed>>
       \/ /\ AllDone /\ state \notin Ended
          /\ failed \/ Cardinality(receipts) # nextPart - 1
          /\ state' = "failed" /\ failed' = TRUE /\ CommitReply(c, {"absent"})
       \/ /\ AllDone /\ state = "sealed" /\ ~failed /\ ~ctx[c]
          /\ Cardinality(receipts) = nextPart - 1
          /\ state' = "committing" /\ client' = [client EXCEPT ![c] = "request"]
          /\ UNCHANGED <<failed, commitMu, ctx, told>>
    /\ UNCHANGED <<provider, foreign, stopped, active, jobs, jobsClosed, leased, streamRest,
                   writeMu, writer, calls, cancels, worker, providerVars, faults>>

-----------------------------------------------------------------------------
(* The provider session: commit                                            *)

Assembled ==
    FlattenSeq([n \in 1..(nextPart - 1) |-> (CHOOSE r \in receipts : r.number = n).bytes])
Parts == {r.number : r \in receipts}

(* The intermediate objects of a GCS commit, which composes in rounds of   *)
(* ComposeLimit sources.                                                   *)
Composites ==
    IF provider = "gcs" /\ Cardinality(Parts) > ComposeLimit THEN {0} ELSE {}

(* What is staged after the request landed: S3 and Azure consume the       *)
(* parts; GCS keeps sources and composites until cleanupStagingBestEffort  *)
(* deletes them.                                                           *)
S3Landing == {}
AzureLanding == {}
GCSLanding == staged \cup Composites
AfterLanding ==
    CASE provider = "s3" -> S3Landing
      [] provider = "gcs" -> GCSLanding
      [] provider = "azure" -> AzureLanding

(* What a cleanup that may fail leaves of s: GCS deletes the staged        *)
(* objects one by one, S3 aborts the multipart upload as a whole.          *)
Undeleted(s) == IF provider = "gcs" THEN SUBSET s ELSE {s}

EndCommit(done) == sess' = [sess EXCEPT !.committing = FALSE, !.committed = done]

(* The commit succeeded, and the stream is complete.                       *)
Committed(c) ==
    /\ EndCommit(TRUE)
    /\ state' = "completed" /\ stopped' = TRUE
    /\ CommitReply(c, {"committed"})
    /\ UNCHANGED failed

NotCommittedMutant(c, definite) ==
    /\ EndCommit(FALSE)
    /\ state' = "failed" /\ failed' = TRUE /\ stopped' = TRUE
    /\ CommitReply(c, {"absent"})

(* It failed: the outcome is a definite failure or unknown, whatever an    *)
(* earlier attempt's outcome was.                                          *)
NotCommitted(c, definite) ==
    /\ EndCommit(FALSE)
    /\ state' = IF definite THEN "failed" ELSE "unknown"
    /\ failed' = definite /\ stopped' = TRUE
    /\ CommitReply(c, IF definite THEN {"absent"} ELSE {"unknown"})

(* The request ended without an object to report: pc says how.             *)
LookFor(c, pc) ==
    /\ client' = [client EXCEPT ![c] = pc]
    /\ sess' = [sess EXCEPT !.committing = TRUE]
    /\ UNCHANGED <<state, failed, stopped, commitMu, ctx, told>>

(* session.Commit sends CompleteMultipartUpload, Compose or                *)
(* CommitBlockList, conditional on no object being there.  It is carried   *)
(* out; or it fails, its answer lost or late; or the provider refuses it   *)
(* (ErrPreconditionFailed): an object is there or, as S3's                 *)
(* ConditionalRequestConflict and a GCS composite found in place, none is. *)
CommitRequest(c) ==
    /\ client[c] = "request" /\ ~sess.cleaned
    /\ \/ /\ object = <<>> /\ ~foreign /\ NoFault
          /\ object' = <<Assembled>> /\ late' = FALSE
          /\ staged' \in Undeleted(AfterLanding)
          /\ Committed(c)
       \/ /\ object = <<>> /\ ~foreign /\ Fault
          /\ object' = <<Assembled>> /\ staged' = AfterLanding /\ late' = FALSE
          /\ LookFor(c, "reconcile")
       \/ /\ Fault
          /\ late' \in {late, object = <<>> /\ ~foreign}
          /\ staged' \in {staged, staged \cup Composites}
          /\ LookFor(c, "reconcile") /\ UNCHANGED object
       \/ /\ Fault \/ (NoFault /\ (object # <<>> \/ foreign))
          /\ staged' \in {staged, staged \cup Composites}
          /\ LookFor(c, "refused") /\ UNCHANGED <<object, late>>
    /\ UNCHANGED <<provider, foreign, active, jobs, jobsClosed, leased, streamRest, writeMu,
                   writer, calls, cancels, worker>>

(* finishCommitError and reconcile: the object found is ours or someone    *)
(* else's; with no object a refusal is a definite failure and any other    *)
(* error an unknown outcome; and so it is when the look fails.             *)
Reconcile(c) ==
    /\ client[c] \in {"reconcile", "refused"}
    /\ \/ /\ object # <<>> /\ NoFault
          /\ staged' \in Undeleted(staged) /\ Committed(c)
       \/ /\ object = <<>> /\ NoFault
          /\ NotCommitted(c, foreign \/ client[c] = "refused") /\ UNCHANGED staged
       \/ Fault /\ NotCommitted(c, FALSE) /\ UNCHANGED staged
    /\ UNCHANGED <<provider, foreign, active, jobs, jobsClosed, leased, streamRest, writeMu,
                   writer, calls, cancels, worker, object, late>>

(* A request whose answer was lost is carried out, if its parts are there. *)
LateLanding ==
    /\ late /\ object = <<>> /\ Parts \subseteq staged
    /\ object' = <<Assembled>> /\ late' = FALSE /\ staged' = AfterLanding
    /\ UNCHANGED <<provider, foreign, streamVars, lockVars, callVars, worker, sess, faults>>

-----------------------------------------------------------------------------
(* Abort                                                                   *)

(* What an abort that is over reports: abortErr, joined by                 *)
(* ErrCommitIndeterminate when the state was indeterminate at its start.   *)
AbortVerdict ==
    CASE abortUnknown -> {"unknown"}
      [] ~abortUnknown /\ abortErr -> {}
      [] OTHER -> {"aborted"}

(* The switch of Abort, and the cancellation of runCtx.                    *)
StartAbort(c) ==
    /\ client[c] = "idle" /\ calls < MaxCalls /\ calls' = calls + 1
    /\ \/ /\ state \in {"completed", "committing"}
          /\ UNCHANGED <<state, stopped, abortUnknown, client, told>>
       \/ /\ state = "aborted" /\ ~abortErr
          /\ told' = told \cup AbortVerdict
          /\ UNCHANGED <<state, stopped, abortUnknown, client>>
       \/ /\ state = "aborting"
          /\ client' = [client EXCEPT ![c] = "waitAbort"]
          /\ UNCHANGED <<state, stopped, abortUnknown, told>>
       \/ /\ state \in Live \cup {"failed", "unknown"} \/ (state = "aborted" /\ abortErr)
          /\ state' = "aborting" /\ stopped' = TRUE
          /\ abortUnknown' = IF state = "aborted" THEN abortUnknown ELSE state = "unknown"
          /\ client' = [client EXCEPT ![c] = "discard"] /\ UNCHANGED told
    /\ UNCHANGED <<provider, foreign, failed, active, offset, nextPart, jobs, jobsClosed,
                   receipts, leased, abortErr, finishing, lockVars, writer, ctx, cancels,
                   worker, providerVars, faults>>

AbortDiscard(c) ==
    /\ client[c] = "discard" /\ writeMu = "none"
    /\ discardAndClose
    /\ client' = [client EXCEPT ![c] = "cleanup"]
    /\ UNCHANGED <<provider, foreign, state, failed, stopped, offset, nextPart, jobs, receipts,
                   abortErr, abortUnknown, finishing, lockVars, writer, ctx, told, calls,
                   cancels, worker, providerVars, faults>>

(* session.Cleanup up to its first wait.  S3 gives up when its context is  *)
(* done, else closes the session and waits for the parts in flight.        *)
S3Cleanup(c) ==
    \/ /\ ctx[c] /\ finishing' = "err" /\ client' = [client EXCEPT ![c] = "waitAbort"]
       /\ UNCHANGED sess
    \/ /\ ~ctx[c] /\ sess' = [sess EXCEPT !.cleaned = TRUE]
       /\ client' = [client EXCEPT ![c] = "cleanupWait"] /\ UNCHANGED finishing

(* GCS closes the session whatever its context says.                       *)
GCSCleanup(c) ==
    /\ sess' = [sess EXCEPT !.cleaned = TRUE]
    /\ client' = [client EXCEPT ![c] = "cleanupWait"] /\ UNCHANGED finishing

(* Azure has nothing to delete: uncommitted blocks expire.                 *)
AzureCleanup(c) ==
    /\ \/ ctx[c] /\ finishing' = "err" /\ UNCHANGED sess
       \/ /\ ~ctx[c] /\ finishing' = "ok"
          /\ sess' = [sess EXCEPT !.cleaned = TRUE, !.parts = {}]
    /\ client' = [client EXCEPT ![c] = "waitAbort"]

StartCleanup(c) ==
    /\ client[c] = "cleanup"
    /\ \/ provider = "s3" /\ S3Cleanup(c)
       \/ provider = "gcs" /\ GCSCleanup(c)
       \/ provider = "azure" /\ AzureCleanup(c)
    /\ UNCHANGED <<provider, foreign, state, failed, stopped, active, offset, nextPart, jobs,
                   jobsClosed, receipts, leased, abortErr, abortUnknown, lockVars, writer, ctx,
                   told, calls, cancels, worker, staged, object, late, faults>>

InFlight == {w \in Workers : worker[w].pc = "put"}

FinishCleanupMutant(c) ==
    /\ client[c] = "cleanupWait" /\ NoFault
    /\ staged' = {} /\ finishing' = "ok"
    /\ sess' = [sess EXCEPT !.parts = {}]
    /\ client' = [client EXCEPT ![c] = "waitAbort"]
    /\ UNCHANGED <<provider, foreign, state, failed, stopped, active, offset, nextPart, jobs,
                   jobsClosed, receipts, leased, abortErr, abortUnknown, lockVars, writer, ctx,
                   told, calls, cancels, worker, object, late>>

(* When no part is in flight the staging is discarded.                     *)
FinishCleanup(c) ==
    /\ client[c] = "cleanupWait"
    /\ \/ /\ InFlight = {} /\ NoFault
          /\ staged' = {} /\ finishing' = "ok"
          /\ sess' = [sess EXCEPT !.parts = {}]
       \/ /\ InFlight = {} /\ Fault
          /\ staged' \in Undeleted(staged) /\ finishing' = "err"
          /\ sess' = [sess EXCEPT !.parts = {}]
       \/ /\ InFlight # {} /\ ctx[c] /\ NoFault
          /\ finishing' = "err" /\ UNCHANGED staged
          /\ sess' = [sess EXCEPT !.parts = {}]
    /\ client' = [client EXCEPT ![c] = "waitAbort"]
    /\ UNCHANGED <<provider, foreign, state, failed, stopped, active, offset, nextPart, jobs,
                   jobsClosed, receipts, leased, abortErr, abortUnknown, lockVars, writer, ctx,
                   told, calls, cancels, worker, object, late>>

(* finishAbort waits for the workers and wakes everyone in waitAbort.      *)
FinishAbort ==
    /\ finishing # "none" /\ AllDone
    /\ state' = "aborted" /\ abortErr' = (finishing = "err") /\ finishing' = "none"
    /\ client' = [c \in Clients |-> IF client[c] = "waitAbort" THEN "abortDone" ELSE client[c]]
    /\ UNCHANGED <<provider, foreign, failed, stopped, active, offset, nextPart, jobs,
                   jobsClosed, receipts, leased, abortUnknown, lockVars, writer, ctx, told,
                   calls, cancels, worker, providerVars, faults>>

(* waitAbort returns abortErr, or the context's error.                     *)
WaitAbort(c) ==
    /\ \/ client[c] = "abortDone" /\ Reply(c, AbortVerdict)
       \/ client[c] = "waitAbort" /\ ctx[c] /\ Reply(c, {})
    /\ UNCHANGED <<provider, foreign, streamVars, lockVars, writer, calls, cancels, worker,
                   providerVars, faults>>

CancelCall(c) ==
    /\ client[c] # "idle" /\ ~ctx[c] /\ cancels < MaxCancels
    /\ ctx' = [ctx EXCEPT ![c] = TRUE] /\ cancels' = cancels + 1
    /\ UNCHANGED <<provider, foreign, streamVars, lockVars, writer, client, told, calls,
                   worker, providerVars, faults>>

-----------------------------------------------------------------------------
(* Upload workers                                                          *)

(* reservePart enters the part into the session, finishPart drops one that *)
(* failed.                                                                 *)
ReservePart(n) == sess' = [sess EXCEPT !.parts = @ \cup {n}]
DropPart(n) == sess' = [sess EXCEPT !.parts = @ \ {n}]

(* The next job: dropped once the upload stopped, else reserved (a session *)
(* is cleaned only after the upload stopped) and put.                      *)
TakeJob(w) ==
    /\ worker[w].pc = "idle" /\ jobs # <<>>
    /\ jobs' = Tail(jobs)
    /\ LET job == Head(jobs) IN
       IF stopped
       THEN /\ Release(1)
            /\ UNCHANGED <<worker, sess>>
       ELSE /\ worker' = [worker EXCEPT ![w] = [pc |-> "put", job |-> job]]
            /\ ReservePart(job.number)
            /\ UNCHANGED leased
    /\ UNCHANGED <<provider, foreign, state, failed, stopped, active, offset, nextPart,
                   jobsClosed, receipts, abortErr, abortUnknown, finishing, lockVars, callVars,
                   staged, object, late, faults>>

(* finishPart and the stream's receipt: a part that arrives after Cleanup  *)
(* has begun is not acknowledged.                                          *)
PutSucceeds(w) ==
    /\ worker[w].pc = "put"
    /\ staged' = staged \cup {worker[w].job.number}
    /\ Release(1)
    /\ IF sess.cleaned
       THEN /\ worker' = [worker EXCEPT ![w] = [pc |-> "failed", job |-> NoJob]]
            /\ recordFailure /\ UNCHANGED receipts
       ELSE /\ worker' = [worker EXCEPT ![w] = [pc |-> "idle", job |-> NoJob]]
            /\ receipts' = receipts \cup {worker[w].job}
            /\ UNCHANGED <<state, failed, stopped>>
    /\ UNCHANGED <<provider, foreign, active, offset, nextPart, jobs, jobsClosed, abortErr,
                   abortUnknown, finishing, lockVars, callVars, sess, object, late, faults>>

(* The put fails, or is cancelled with runCtx; it may have been staged.    *)
PutFails(w) ==
    /\ worker[w].pc = "put"
    /\ (stopped /\ NoFault) \/ Fault
    /\ staged' \in {staged, staged \cup {worker[w].job.number}}
    /\ DropPart(worker[w].job.number)
    /\ Release(1)
    /\ worker' = [worker EXCEPT ![w] = [pc |-> "failed", job |-> NoJob]]
    /\ recordFailure
    /\ UNCHANGED <<provider, foreign, active, offset, nextPart, jobs, jobsClosed, receipts,
                   abortErr, abortUnknown, finishing, lockVars, callVars, object, late>>

(* After a failure the worker closes the stream under writeMu and goes on  *)
(* draining jobs.                                                          *)
WorkerDiscard(w) ==
    /\ worker[w].pc = "failed" /\ writeMu = "none"
    /\ discardAndClose
    /\ worker' = [worker EXCEPT ![w].pc = "idle"]
    /\ UNCHANGED <<provider, foreign, state, failed, stopped, offset, nextPart, jobs, receipts,
                   abortErr, abortUnknown, finishing, lockVars, callVars, providerVars, faults>>

WorkerExit(w) ==
    /\ worker[w].pc = "idle" /\ jobs = <<>> /\ jobsClosed
    /\ worker' = [worker EXCEPT ![w].pc = "done"]
    /\ UNCHANGED <<provider, foreign, streamVars, lockVars, callVars, providerVars, faults>>

-----------------------------------------------------------------------------
Writer == FillActive \/ EnqueuePart \/ WriteFails
Client(c) ==
    \/ TakeCommitMu(c) \/ BeginSeal(c) \/ SealFlush(c) \/ CommitWait(c)
    \/ CommitRequest(c) \/ Reconcile(c)
    \/ AbortDiscard(c) \/ StartCleanup(c) \/ FinishCleanup(c) \/ WaitAbort(c)
Worker(w) == TakeJob(w) \/ PutSucceeds(w) \/ PutFails(w) \/ WorkerDiscard(w) \/ WorkerExit(w)

Next ==
    \/ \E n \in WriteSizes : StartWrite(n)
    \/ Writer
    \/ \E c \in Clients : StartCall(c) \/ StartAbort(c) \/ Client(c) \/ CancelCall(c)
    \/ \E w \in Workers : Worker(w)
    \/ FinishAbort \/ LateLanding

(* Goroutines that can run do run, locks are granted, and the provider     *)
(* answers every request.                                                  *)
Fairness ==
    /\ WF_vars(Writer) /\ WF_vars(FinishAbort)
    /\ \A c \in Clients : WF_vars(Client(c))
    /\ \A w \in Workers : WF_vars(Worker(w))

Spec == Init /\ [][Next]_vars /\ Fairness

-----------------------------------------------------------------------------
(* Properties                                                              *)

Txn == INSTANCE SinkTxn WITH content <- Content

(* The stream over any provider keeps the transaction's promise: the       *)
(* object is exactly the bytes written, a commit reported done is durable, *)
(* and no call denies an object that is there or still lands: neither the  *)
(* Commit whose request was lost or late, nor an Abort after it.  The      *)
(* promise ends when Commit is called again after an unknown outcome.      *)
ImplementsTxn == Txn!Spec

(* What stream/DESIGN.md promises of Abort: it never reports success while *)
(* the final object may be landing.  The code does not keep it: a Commit   *)
(* called again after an unknown outcome resets the state to sealed, and   *)
(* when it ends without settling the matter, Abort forgets the first one.  *)
AbortedIsAbsent == "aborted" \in told => object = <<>>

(* A clean abort leaves no staged part or composite on a provider that has *)
(* a cleanup, although the abort runs while workers are still uploading.   *)
StagingIsCleaned ==
    state = "aborted" /\ ~abortErr /\ provider # "azure" => staged = {}

(* The buffers leased from the pool are the active one, the queued ones    *)
(* and those of the workers: none is lost or given back twice.             *)
BuffersConserved ==
    leased = (IF active # <<>> THEN 1 ELSE 0) + Len(jobs) + Cardinality(InFlight)

(* Neither a staged object nor a pooled buffer is leaked, whichever of the *)
(* writer, the workers and the aborting callers ends the stream.           *)
NothingLeaks == StagingIsCleaned /\ BuffersConserved

(* Write, Commit and Abort return: as calls stop coming (MaxCalls, and the *)
(* provider's part limit), everyone is idle in the end and no goroutine    *)
(* waits for a lock, a buffer, a worker or an abort for ever.              *)
CallsReturn == <>[](writer.pc = "idle" /\ \A c \in Clients : client[c] = "idle")
=============================================================================
