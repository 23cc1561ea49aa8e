-------------------------- MODULE PartitionWriter --------------------------
(***************************************************************************)
(* internal/writer.Writer: one owner appends records, three goroutines      *)
(* (finalizeLoop, publishLoop, ageLoop) turn full segments into catalog     *)
(* commits behind its back, and a drain goroutine ends them all.            *)
(*                                                                         *)
(* `wr' is the struct that Writer.mu protects.  A step is what runs under   *)
(* one hold of mu, or one call a goroutine makes without it.  Public calls  *)
(* that mutate the writer are serialized by its owner (`client').  Records  *)
(* are their LSNs; a segment is its first LSN and its number of records.    *)
(* `cat' is the catalog session behind writeradapter.Session (external: see *)
(* CatalogSession), reduced to what the writer checks of its answers.       *)
(***************************************************************************)
EXTENDS Integers, Sequences, FiniteSets, SequencesExt

CONSTANTS
  MaxLSN,               \* the LSN no record may have (math.MaxUint64)
  Policies,             \* the options a writer may be made with and what it meets:
                        \* records is MaxSegmentRecords, ageing that ageLoop runs
                        \* (MaxSegmentAge > 0), appends bounds the records appended,
                        \* retentions the retention policies requested, observed is
                        \* that a goroutine follows Committed() and State(), failures
                        \* are those of sinks, catalog and contexts considered
  MaxInflightSegments,  \* QueuePolicy.MaxInflightSegments
  MaxInflightBytes      \* QueuePolicy.MaxInflightBytes

\* estimateInflightBytes, and what a finished object may weigh instead.
Estimate(n) == n + 1
ObjectSizes(n) == {n, n + 2}

ASSUME WriterAssumption ==
  /\ MaxLSN \in Nat
  /\ Policies \subseteq [records : Nat \ {0}, ageing : BOOLEAN, appends : Nat,
                         retentions : Nat, observed : BOOLEAN,
                         failures : SUBSET {"start", "append", "reject", "finalize",
                                            "empty", "publish", "retain", "cancel"}]
  /\ MaxInflightSegments \in Nat \ {0}
  /\ MaxInflightBytes \in Nat
  /\ \A p \in Policies : Estimate(p.records) <= MaxInflightBytes  \* normalizeOptionsForPartition

VARIABLES
  wr,         \* the Writer struct
  client,     \* the owner's call in progress and the last answer
  fin,        \* finalizeLoop
  pub,        \* publishLoop
  age,        \* ageLoop
  sessionMu,  \* who holds Writer.sessionMu
  cat,        \* the catalog session
  watch,      \* an observer of Committed()
  told        \* history: how many calls returned the terminal cause

vars == <<wr, client, fin, pub, age, sessionMu, cat, watch, told>>

NoActive == [base |-> 0, records |-> 0, open |-> FALSE, old |-> FALSE]
NoItem == [base |-> 0, records |-> 0, size |-> 0]
Empty == [next |-> 0, ret |-> 0]

Init ==
  /\ \E p \in Policies : wr =
          [policy |-> p, committed |-> Empty, nextLSN |-> 0, active |-> NoActive,
           transition |-> "none", segments |-> 0, bytes |-> 0,
           detached |-> <<>>, ready |-> <<>>,
           firstErr |-> "none", surfaced |-> FALSE, closed |-> FALSE, aborted |-> FALSE,
           stateWake |-> FALSE, finalizeWake |-> FALSE, publishWake |-> FALSE, ageWake |-> FALSE,
           cancelled |-> FALSE, drain |-> "off", handed |-> 0, sinks |-> 0]
  /\ client = [op |-> "none", pc |-> "idle", woken |-> FALSE, answer |-> "none", current |-> Empty]
  /\ fin = [pc |-> "top", item |-> NoItem]
  /\ pub = [pc |-> "top", item |-> NoItem, err |-> "none"]
  /\ age = [pc |-> IF wr.policy.ageing THEN "top" ELSE "exit", woken |-> FALSE, base |-> 0]
  /\ sessionMu = "none"
  /\ cat = [head |-> Empty, pending |-> 0]
  /\ watch = [pc |-> IF wr.policy.observed THEN "get" ELSE "off", woken |-> FALSE, seen |-> Empty]
  /\ told = 0

-----------------------------------------------------------------------------
(* Terminal errors and the drain.  Operators on w return the struct after   *)
(* the method of the same name.                                             *)

\* signalAllLocked; the terminal close of committedChanged is watched below.
SignalAll(w) ==
  [w EXCEPT !.stateWake = TRUE, !.finalizeWake = TRUE, !.publishWake = TRUE, !.ageWake = TRUE]

\* `handed' counts the segment writers handed to runDrain.
StartDrain(w, handed) ==
  IF w.drain # "off" THEN w
  ELSE SignalAll([w EXCEPT !.drain = "cleanup", !.cancelled = TRUE, !.handed = handed])

Shutdown(w, handed) ==
  StartDrain([w EXCEPT !.aborted = TRUE, !.active = NoActive, !.detached = <<>>, !.ready = <<>>],
             handed)

\* The writers of the active and of the detached segments.
Writers(w) == Len(w.detached) + (IF w.active.open THEN 1 ELSE 0)

\* failWithSurfaceLocked and noteTerminalErr: the first terminal error is the
\* cause, and a caller has been told of it only when it is that caller's own.
Fail(w, err, surfaced) ==
  Shutdown([w EXCEPT !.firstErr = IF @ = "none" THEN err ELSE @,
                     !.surfaced = @ \/ (surfaced /\ w.firstErr = "none")],
           Writers(w))

\* What a call returns after noteForegroundErr: its own error, which is the
\* terminal cause unless there was one already.
OwnErr(w, err) == IF w.firstErr = "none" THEN err ELSE "own"

\* abortedErrLocked: the cause until it has been surfaced, ErrAborted then.
AbortedErr(w) ==
  IF w.firstErr # "none" /\ ~w.surfaced THEN w.firstErr ELSE "errAborted"

SurfaceReturnedMutant(w, err) == w

\* surfaceReturnedErrLocked
SurfaceReturned(w, err) ==
  IF w.aborted /\ err = w.firstErr THEN [w EXCEPT !.surfaced = TRUE] ELSE w

-----------------------------------------------------------------------------
(* Cutting the active segment.                                              *)

CanReserve(w, bytes) ==
  /\ w.segments <= MaxInflightSegments - 1
  /\ w.bytes <= MaxInflightBytes - bytes

Minus(a, b) == IF a >= b THEN a - b ELSE 0

EndTransition(w) == [w EXCEPT !.transition = "none"]

\* startSegmentLocked; its failure leaves the writer as it was.
StartSegment(w) ==
  [w EXCEPT !.active = [base |-> w.nextLSN, records |-> 0, open |-> TRUE, old |-> FALSE],
            !.sinks = @ + 1]

\* The reserved active segment goes to the finalizer's queue.
Detach(w) ==
  [w EXCEPT !.detached = Append(@, [base |-> w.active.base, records |-> w.active.records]),
            !.active = NoActive, !.finalizeWake = TRUE,
            !.segments = @ + 1, !.bytes = @ + Estimate(w.active.records)]

\* Outcomes that exist only when the failure f is considered.
If(f, outs) == IF f \in wr.policy.failures THEN outs ELSE {}

ReserveMutant(w, detachOnly) ==
  IF w.aborted THEN {[w |-> EndTransition(w), res |-> AbortedErr(w)]}
  ELSE IF ~CanReserve(w, Estimate(w.active.records)) THEN {[w |-> w, res |-> "wait"]}
  ELSE IF detachOnly THEN {[w |-> EndTransition(Detach(w)), res |-> "ok"]}
  ELSE {[w |-> EndTransition(StartSegment(Detach(w))), res |-> "ok"]}
       \cup If("start", {[w |-> EndTransition([w EXCEPT !.active = NoActive]), res |-> "rejected"]})

\* reserveInflightLocked and what follows it, under one hold of mu by the
\* owner of the transition.  cutLocked starts the next segment before it
\* lets go of the old one, and gives the reservation back if it cannot;
\* detachActiveLocked starts none.
Reserve(w, detachOnly) ==
  IF w.aborted THEN {[w |-> EndTransition(w), res |-> AbortedErr(w)]}
  ELSE IF ~CanReserve(w, Estimate(w.active.records)) THEN {[w |-> w, res |-> "wait"]}
  ELSE IF detachOnly THEN {[w |-> EndTransition(Detach(w)), res |-> "ok"]}
  ELSE {[w |-> EndTransition(StartSegment(Detach(w))), res |-> "ok"]}
       \cup If("start", {[w |-> EndTransition([w EXCEPT !.stateWake = TRUE]), res |-> "rejected"]})

\* cutLocked or detachActiveLocked once no other transition is in progress.
Cut(w, who, detachOnly) ==
  IF w.closed THEN {[w |-> w, res |-> "errClosed"]}
  ELSE IF w.aborted THEN {[w |-> w, res |-> AbortedErr(w)]}
  ELSE IF w.active.records = 0 THEN {[w |-> w, res |-> "ok"]}
  ELSE Reserve([w EXCEPT !.transition = who], detachOnly)

\* shouldCutBeforeLocked and shouldCutAfterLocked.  Records are of one size,
\* so the limit on raw bytes is the limit on records.
ShouldCut(w) == w.active.records >= w.policy.records \/ w.active.old

-----------------------------------------------------------------------------
(* Public calls.  An outcome says where the call stands when mu is          *)
(* released: waiting at a pc, or idle with an answer.                       *)

At(w, pc) == {[w |-> w, pc |-> pc, answer |-> "none"]}
Answer(w, a) == {[w |-> SurfaceReturned(w, a), pc |-> "idle", answer |-> a]}

\* Close returns a terminal error only after it joined the drain.
EndErr(w, op, err) ==
  IF op = "close" /\ w.aborted
  THEN {[w |-> SurfaceReturned(w, err), pc |-> "join", answer |-> err]}
  ELSE Answer(w, err)

\* tryCutAfterAppendLocked: the record is accepted already, a boundary that
\* fails now is left to the next call.
AfterAppend(o) ==
  IF o.res = "wait" THEN At(o.w, "after")
  ELSE {[w |-> IF o.res = "ok" THEN o.w ELSE [o.w EXCEPT !.stateWake = TRUE],
         pc |-> "idle", answer |-> "appended"]}

AcceptedMutant(w) ==
  LET v == [w EXCEPT !.nextLSN = @ + 1, !.active.records = @ + 1]
  IN  IF ShouldCut(v) THEN UNION {AfterAppend(o) : o \in Cut(v, "client", FALSE)}
      ELSE Answer(v, "appended")

\* The record is accepted: it has its LSN, and the segment may be full.
Accepted(w) ==
  LET v == [w EXCEPT !.nextLSN = @ + 1, !.active.records = @ + 1,
                     !.ageWake = @ \/ w.active.records = 0]
  IN  IF ShouldCut(v) THEN UNION {AfterAppend(o) : o \in Cut(v, "client", FALSE)}
      ELSE Answer(v, "appended")

WriteRecord(w) ==
  Accepted(w)
  \cup If("reject", Answer(w, "rejected"))              \* ErrAppendNotAccepted
  \cup If("append", Answer(Fail(w, "cause", TRUE), "cause"))

\* Append from the point where the boundary before the record is settled.
AppendRecord(w) ==
  IF w.active.open THEN WriteRecord(w)
  ELSE WriteRecord(StartSegment(w)) \cup If("start", Answer(w, "rejected"))

AfterCutBefore(o) ==
  CASE o.res = "wait" -> At(o.w, "reserve")
    [] o.res = "ok" -> AppendRecord(o.w)
    [] OTHER -> Answer(o.w, o.res)

\* Append once no transition is in progress: ErrLSNExhausted and a record out
\* of timestamp order are terminal, one that exceeds the budget is rejected.
AppendCall(w) ==
  IF w.closed THEN Answer(w, "errClosed")
  ELSE IF w.aborted THEN Answer(w, AbortedErr(w))
  ELSE IF w.nextLSN = MaxLSN THEN Answer(Fail(w, "cause", TRUE), "cause")
  ELSE (IF w.active.records > 0 /\ ShouldCut(w)
        THEN UNION {AfterCutBefore(o) : o \in Cut(w, "client", FALSE)}
        ELSE AppendRecord(w))
       \cup If("append", Answer(Fail(w, "cause", TRUE), "cause"))
       \cup If("reject", Answer(w, "rejected"))

AfterCut(o) ==
  IF o.res = "wait" THEN At(o.w, "reserve") ELSE Answer(o.w, o.res)

\* Flush and Close after detachActiveLocked: an empty active segment is
\* taken out, to be aborted without mu.
TakeEmpty(w) ==
  IF w.active.open /\ w.active.records = 0 THEN At([w EXCEPT !.active = NoActive], "empty")
  ELSE At(w, "drained")

AfterDetach(o, op) ==
  CASE o.res = "wait" -> At(o.w, "reserve")
    [] o.res = "ok" -> TakeEmpty(o.w)
    [] OTHER -> EndErr(o.w, op, o.res)

WaitDrainedMutant(w, op) ==
  IF w.aborted THEN EndErr(w, op, AbortedErr(w))
  ELSE IF w.detached # <<>> THEN At(w, "waitDrained")
  ELSE IF op = "close" THEN At(StartDrain([w EXCEPT !.closed = TRUE], 0), "join")
  ELSE Answer(w, "flushed")

\* waitDrainedLocked, one round, and what Flush and Close do after it.
WaitDrained(w, op) ==
  IF w.aborted THEN EndErr(w, op, AbortedErr(w))
  ELSE IF w.segments # 0 THEN At(w, "waitDrained")
  ELSE IF op = "close" THEN At(StartDrain([w EXCEPT !.closed = TRUE], 0), "join")
  ELSE Answer(w, "flushed")

\* The part of a call behind waitActiveTransitionLocked.
Through(w, op) ==
  CASE op = "append" -> AppendCall(w)
    [] op = "cut" -> UNION {AfterCut(o) : o \in Cut(w, "client", FALSE)}
    [] OTHER -> UNION {AfterDetach(o, op) : o \in Cut(w, "client", TRUE)}

\* waitActiveTransitionLocked
Transition(w, op) ==
  IF w.transition = "none" THEN Through(w, op) ELSE At(w, "transition")

\* foregroundErrLocked: an error that is returned, and so surfaced.
ForegroundErr(w) == Answer(w, IF w.closed THEN "errClosed" ELSE AbortedErr(w))

CloseAborted(w) ==
  {[w |-> SurfaceReturned(w, AbortedErr(w)), pc |-> "join", answer |-> AbortedErr(w)]}

AbortCall(w) ==
  IF w.closed THEN At(w, "join")
  ELSE IF w.aborted THEN
    IF w.firstErr # "none" /\ ~w.surfaced THEN CloseAborted(w) ELSE At(w, "join")
  ELSE At(Shutdown([w EXCEPT !.firstErr = "errAborted", !.surfaced = TRUE], Writers(w)), "join")

\* A public call from its start to the point where it first waits.
\* Flush and Close leave a segment without records to TakeEmpty.
Enter(w, op) ==
  CASE op = "append" -> Transition(w, op)
    [] op = "abort" -> AbortCall(w)
    [] op = "close" /\ w.closed -> At(w, "join")
    [] op = "close" /\ ~w.closed /\ w.aborted -> CloseAborted(w)
    [] op \in {"cut", "flush"} /\ (w.closed \/ w.aborted) -> ForegroundErr(w)
    [] op = "cut" /\ ~w.closed /\ ~w.aborted -> Transition(w, op)
    [] OTHER -> IF w.active.records > 0 THEN Transition(w, op) ELSE TakeEmpty(w)

\* reserveInflightLocked goes round again.
Again(w, op, pc) ==
  CASE pc = "after" -> UNION {AfterAppend(o) : o \in Reserve(w, FALSE)}
    [] pc = "reserve" /\ op = "append" -> UNION {AfterCutBefore(o) : o \in Reserve(w, FALSE)}
    [] pc = "reserve" /\ op = "cut" -> UNION {AfterCut(o) : o \in Reserve(w, FALSE)}
    [] OTHER -> UNION {AfterDetach(o, op) : o \in Reserve(w, TRUE)}

\* The caller's context ends while it waits.
Cancelled(w, op, pc) ==
  CASE pc = "after" -> AfterAppend([w |-> EndTransition(w), res |-> "cancelled"])
    [] pc = "reserve" -> EndErr(EndTransition(w), op, "cancelled")
    [] OTHER -> EndErr(w, op, "cancelled")

-----------------------------------------------------------------------------
(* The observer: it takes the channel, reads the state and then waits.      *)

Signalled(v) ==
  watch' = [watch EXCEPT !.woken = @ \/ (watch.pc \in {"read", "wait"} /\ v)]

\* A committed snapshot is new, or the writer becomes terminal.
Broadcast == Signalled(wr'.drain # wr.drain /\ wr.drain = "off")

WatchGet ==
  /\ watch.pc = "get"
  /\ watch' = [watch EXCEPT !.pc = "read", !.woken = wr.drain # "off"]
  /\ UNCHANGED <<wr, client, fin, pub, age, sessionMu, cat, told>>

WatchRead ==
  /\ watch.pc = "read"
  /\ watch' = [watch EXCEPT !.pc = "wait", !.seen = wr.committed]
  /\ UNCHANGED <<wr, client, fin, pub, age, sessionMu, cat, told>>

WatchWake ==
  /\ watch.pc = "wait" /\ watch.woken
  /\ watch' = [watch EXCEPT !.pc = "get", !.woken = FALSE]
  /\ UNCHANGED <<wr, client, fin, pub, age, sessionMu, cat, told>>

-----------------------------------------------------------------------------
(* The owner's actions.                                                     *)

Causes == {"cause", "invalid"}

Moves(outs, op) ==
  \E o \in outs :
    /\ wr' = o.w
    /\ client' = [client EXCEPT !.op = IF o.pc = "idle" THEN "none" ELSE op, !.pc = o.pc, !.woken = FALSE, !.answer = o.answer,
                                 !.current = Empty]
    /\ told' = IF o.answer \in Causes THEN told + 1 ELSE told
    /\ Broadcast
    /\ UNCHANGED <<fin, pub, age>>

\* Append, Cut, Flush, Close, Abort
Call(op) ==
  /\ client.pc = "idle" /\ (op = "append" => wr.nextLSN < wr.policy.appends)
  /\ Moves(Enter(wr, op), op)
  /\ UNCHANGED <<sessionMu, cat>>

\* The transition the call waited for has ended.
CallTransition ==
  /\ client.pc = "transition" /\ wr.transition = "none"
  /\ Moves(Through(wr, client.op), client.op)
  /\ UNCHANGED <<sessionMu, cat>>

OnStateWake == {"reserve", "after", "waitDrained"}

\* A receive from stateWake, and the check it leads to.
CallWake ==
  /\ client.pc \in OnStateWake /\ ~client.woken /\ wr.stateWake
  /\ client' = [client EXCEPT !.woken = TRUE]
  /\ wr' = [wr EXCEPT !.stateWake = FALSE]
  /\ UNCHANGED <<fin, pub, age, sessionMu, cat, watch, told>>

CallCheck ==
  /\ client.pc \in OnStateWake /\ client.woken
  /\ Moves(IF client.pc = "waitDrained" THEN WaitDrained(wr, client.op)
           ELSE Again(wr, client.op, client.pc), client.op)
  /\ UNCHANGED <<sessionMu, cat>>

\* Flush and Close abort the empty segment they took out.
CallEmpty ==
  /\ client.pc = "empty"
  /\ LET w == [wr EXCEPT !.sinks = @ - 1]
         err == OwnErr(w, "cause")
     IN  Moves(At(w, "drained") \cup If("empty", EndErr(Fail(w, "cause", TRUE), client.op, err)),
               client.op)
  /\ UNCHANGED <<sessionMu, cat>>

CallDrained ==
  /\ client.pc = "drained"
  /\ Moves(WaitDrained(wr, client.op), client.op)
  /\ UNCHANGED <<sessionMu, cat>>

\* waitDrain: Close and Abort join the one drain.
CallJoin ==
  /\ client.pc = "join" /\ wr.drain = "done"
  /\ client' = [client EXCEPT !.op = "none", !.pc = "idle",
                  !.answer = IF @ # "none" THEN @ ELSE IF client.op = "close" THEN "closed" ELSE "ended"]
  /\ UNCHANGED <<wr, fin, pub, age, sessionMu, cat, watch, told>>

CallCancel ==
  /\ "cancel" \in wr.policy.failures
  /\ client.pc \in {"transition", "join"} \cup OnStateWake /\ ~client.woken
  /\ IF client.pc = "join"
     THEN /\ client' = [client EXCEPT !.op = "none", !.pc = "idle",
                                           !.answer = IF @ # "none" THEN @ ELSE "cancelled"]
          /\ UNCHANGED <<wr, fin, pub, age, watch, told>>
     ELSE Moves(Cancelled(wr, client.op, client.pc), client.op)
  /\ UNCHANGED <<sessionMu, cat>>

-----------------------------------------------------------------------------
(* Retention.  cat.pending is the version of a retention whose outcome the  *)
(* session does not know, 0 for none; cat.head is the durable head.         *)

\* validateRetentionSnapshot
ValidRetention(current, result, applied) ==
  /\ result.next = current.next /\ result.ret >= current.ret
  /\ applied \/ result = current

\* acceptRetentionLocked on a valid result
AcceptRetention(current, result) ==
  /\ wr' = [wr EXCEPT !.committed = result, !.stateWake = TRUE]
  /\ Signalled(result # current)

\* The session acknowledges a pending operation before it polls for another.
Version == IF cat.pending # 0 THEN cat.pending ELSE cat.head.ret + 1

RetentionDone ==
  /\ Version <= wr.policy.retentions
  /\ cat' = [head |-> [cat.head EXCEPT !.ret = Version], pending |-> 0]

\* The operation may or may not have reached the catalog.
RetentionUnknown ==
  /\ Version <= wr.policy.retentions
  /\ \E ret \in {cat.head.ret, Version} :
       cat' = [head |-> [cat.head EXCEPT !.ret = ret], pending |-> Version]

\* ApplyPendingRetention
RetainEnter ==
  /\ client.pc = "idle" /\ sessionMu = "none"
  /\ IF wr.closed \/ wr.aborted
     THEN Moves(ForegroundErr(wr), "retain") /\ UNCHANGED <<sessionMu, cat>>
     ELSE /\ client' = [client EXCEPT !.op = "retain", !.pc = "session", !.answer = "none",
                                      !.current = wr.committed]
          /\ sessionMu' = "client"
          /\ UNCHANGED <<wr, fin, pub, age, cat, watch, told>>

\* sessionMu is released before the error is noted.
RetainFails(err) ==
  /\ client' = [client EXCEPT !.pc = "note", !.answer = err, !.current = Empty]
  /\ UNCHANGED <<wr, fin, pub, age, watch, told>>

\* The call returned a result: it is validated and becomes the snapshot.
RetainResult ==
  /\ client.pc = "session"
  /\ sessionMu' = "none"
  /\ \E applied \in BOOLEAN :
       /\ IF applied THEN RetentionDone ELSE cat.pending = 0 /\ UNCHANGED cat
       /\ IF ValidRetention(client.current, cat'.head, applied)
          THEN /\ AcceptRetention(client.current, cat'.head)
               /\ client' = [client EXCEPT !.op = "none", !.pc = "idle", !.answer = "retained",
                                                !.current = Empty]
               /\ UNCHANGED <<fin, pub, age, told>>
          ELSE RetainFails("invalid")

RetainErrorMutant ==
  /\ client.pc = "session" /\ "retain" \in wr.policy.failures
  /\ \/ /\ sessionMu' = "none"
        /\ RetentionUnknown \/ UNCHANGED cat
        /\ Moves(Answer(wr, "rejected"), "retain")
     \/ UNCHANGED <<sessionMu, cat>> /\ RetainFails("cause")

\* It returned an error: only a stale writer is finished by it.
RetainError ==
  /\ client.pc = "session" /\ "retain" \in wr.policy.failures
  /\ sessionMu' = "none"
  /\ \/ (RetentionUnknown \/ UNCHANGED cat) /\ Moves(Answer(wr, "rejected"), "retain")
     \/ UNCHANGED cat /\ RetainFails("cause")

\* noteForegroundErr
RetainNote ==
  /\ client.pc = "note"
  /\ Moves(Answer(Fail(wr, client.answer, TRUE), OwnErr(wr, client.answer)), "retain")
  /\ UNCHANGED <<sessionMu, cat>>

-----------------------------------------------------------------------------
(* finalizeLoop                                                             *)

Finalizer(w, pc, item) ==
  /\ wr' = w
  /\ fin' = [pc |-> pc, item |-> item]
  /\ Broadcast
  /\ UNCHANGED <<client, pub, age, sessionMu, cat, told>>

FinalizeTop ==
  /\ fin.pc = "top"
  /\ IF wr.detached # <<>>
     THEN Finalizer([wr EXCEPT !.detached = Tail(@)], "close",
                    [base |-> Head(wr.detached).base, records |-> Head(wr.detached).records, size |-> 0])
     ELSE Finalizer(wr, IF wr.cancelled THEN "exit" ELSE "wait", NoItem)

FinalizeWake ==
  /\ fin.pc = "wait"
  /\ \/ wr.finalizeWake /\ Finalizer([wr EXCEPT !.finalizeWake = FALSE], "top", NoItem)
     \/ wr.cancelled /\ Finalizer(wr, "exit", NoItem)

\* The object is complete: its size replaces the estimate and it waits for
\* its turn to be published, in a writer that has failed meanwhile too.
FinalizeClose ==
  /\ fin.pc = "close"
  /\ \E size \in ObjectSizes(fin.item.records) :
       LET est == Estimate(fin.item.records)
       IN  Finalizer([wr EXCEPT !.bytes = IF size > est THEN @ + (size - est) ELSE Minus(@, est - size),
                                !.ready = Append(@, [fin.item EXCEPT !.size = size]),
                                !.publishWake = TRUE, !.stateWake = TRUE, !.sinks = @ - 1],
                     "top", NoItem)

FinalizeError ==
  /\ fin.pc = "close"
  /\ LET w == [wr EXCEPT !.sinks = @ - 1]
     IN  \/ wr.cancelled /\ Finalizer(w, "exit", NoItem)
         \/ ~wr.cancelled /\ "finalize" \in wr.policy.failures /\ Finalizer(Fail(w, "cause", FALSE), "exit", NoItem)

-----------------------------------------------------------------------------
(* publishLoop                                                              *)

Publisher(pc, item) ==
  /\ pub' = [pub EXCEPT !.pc = pc, !.item = item]
  /\ UNCHANGED <<client, fin, age, told>>

\* sessionMu is released before the error is noted.
PublishFails(err) ==
  /\ pub' = [pc |-> "note", item |-> NoItem, err |-> err]
  /\ sessionMu' = "none"
  /\ UNCHANGED <<wr, client, fin, age, watch, told>>

PublishTop ==
  /\ pub.pc = "top"
  /\ IF wr.ready # <<>> THEN Publisher("lock", Head(wr.ready))
     ELSE Publisher(IF wr.cancelled THEN "exit" ELSE "wait", NoItem)
  /\ UNCHANGED <<wr, sessionMu, cat, watch>>

PublishWake ==
  /\ pub.pc = "wait"
  /\ \/ wr.publishWake /\ wr' = [wr EXCEPT !.publishWake = FALSE] /\ Publisher("top", NoItem)
     \/ wr.cancelled /\ UNCHANGED wr /\ Publisher("exit", NoItem)
  /\ UNCHANGED <<sessionMu, cat, watch>>

PublishLock ==
  /\ pub.pc = "lock" /\ sessionMu = "none"
  /\ sessionMu' = "publisher"
  /\ Publisher("reconcile", pub.item)
  /\ UNCHANGED <<wr, cat, watch>>

PublishReconcileMutant ==
  /\ pub.pc = "reconcile"
  /\ Publisher("publish", pub.item) /\ UNCHANGED <<wr, sessionMu, cat, watch>>

PublishReconcileSpin ==
  /\ pub.pc = "reconcile"
  /\ IF cat.pending = 0
     THEN Publisher("publish", pub.item) /\ UNCHANGED <<wr, sessionMu, cat, watch>>
     ELSE Publisher("backoff", NoItem) /\ sessionMu' = "none" /\ UNCHANGED <<wr, cat, watch>>

\* reconcileRetentionLocked succeeds: nothing is pending any more, and the
\* committed snapshot has what was.
PublishReconcile ==
  /\ pub.pc = "reconcile"
  /\ IF cat.pending = 0
     THEN Publisher("publish", pub.item) /\ UNCHANGED <<wr, sessionMu, cat, watch>>
     ELSE /\ RetentionDone
          /\ IF ValidRetention(wr.committed, cat'.head, TRUE)
             THEN /\ AcceptRetention(wr.committed, cat'.head)
                  /\ Publisher("publish", pub.item) /\ UNCHANGED sessionMu
             ELSE PublishFails("invalid")

\* It fails: while the earlier retention is unknown the segments stay queued,
\* and the session is free for the owner to retry.
PublishReconcileError ==
  /\ pub.pc = "reconcile" /\ cat.pending # 0 /\ ("retain" \in wr.policy.failures \/ wr.cancelled)
  /\ \/ /\ sessionMu' = "none" /\ UNCHANGED <<wr, watch>>
        /\ IF wr.cancelled THEN Publisher("exit", NoItem) /\ UNCHANGED cat
           ELSE Publisher("backoff", NoItem) /\ RetentionUnknown
     \/ ~wr.cancelled /\ PublishFails("cause") /\ UNCHANGED cat

PublishBackoff ==
  /\ pub.pc = "backoff"
  /\ Publisher(IF wr.cancelled THEN "exit" ELSE "top", NoItem)
  /\ UNCHANGED <<wr, sessionMu, cat, watch>>

\* What the catalog holds once it has committed the item.  AppendSegment
\* resolves a pending retention itself, whose result stays unacknowledged.
Published == [next |-> pub.item.base + pub.item.records,
              ret |-> IF cat.pending # 0 THEN cat.pending ELSE cat.head.ret]

\* validatePublishedSnapshot
ValidPublish(current, next, item) ==
  /\ item.base = current.next
  /\ next = [current EXCEPT !.next = item.base + item.records]

\* The published item leaves the queue, unless a shutdown emptied it.
Popped(w, item) ==
  IF w.ready # <<>> /\ Head(w.ready).base = item.base
  THEN [w EXCEPT !.ready = Tail(@), !.segments = Minus(@, 1), !.bytes = Minus(@, item.size)]
  ELSE w

\* PublishSegment returned a snapshot.
PublishCommit ==
  /\ pub.pc = "publish" /\ pub.item.base = cat.head.next
  /\ cat' = [cat EXCEPT !.head = Published]
  /\ IF ValidPublish(wr.committed, Published, pub.item)
     THEN LET w == [Popped(wr, pub.item) EXCEPT !.committed = Published, !.stateWake = TRUE]
          IN  /\ wr' = w /\ sessionMu' = "none"
              /\ Signalled(TRUE)
              /\ Publisher(IF w.cancelled /\ w.segments = 0 THEN "exit" ELSE "top", NoItem)
     ELSE PublishFails("invalid")

\* It returned an error, and the commit may have happened all the same.
PublishError ==
  /\ pub.pc = "publish"
  /\ "publish" \in wr.policy.failures \/ wr.cancelled \/ pub.item.base # cat.head.next
  /\ \/ UNCHANGED cat
     \/ pub.item.base = cat.head.next /\ cat' = [cat EXCEPT !.head = Published]
  /\ PublishFails("cause")

\* noteAsyncErr
PublishNote ==
  /\ pub.pc = "note"
  /\ wr' = Fail(wr, pub.err, FALSE)
  /\ Broadcast
  /\ Publisher("exit", NoItem)
  /\ UNCHANGED <<sessionMu, cat>>

-----------------------------------------------------------------------------
(* ageLoop, and the clock it follows.                                       *)

\* MaxSegmentAge has passed since the first record of the active segment.
Elapse ==
  /\ wr.policy.ageing /\ wr.active.records > 0 /\ ~wr.active.old
  /\ wr' = [wr EXCEPT !.active.old = TRUE]
  /\ UNCHANGED <<client, fin, pub, age, sessionMu, cat, watch, told>>

Ager(w, pc, woken, base) ==
  /\ wr' = w
  /\ age' = [pc |-> pc, woken |-> woken, base |-> base]
  /\ Broadcast
  /\ UNCHANGED <<client, fin, pub, sessionMu, cat, told>>

\* The end of cutLocked in ageLoop: only a segment that could not be started
\* is retried.
AgerCut(outs) ==
  \E o \in outs :
    CASE o.res = "ok" -> Ager(o.w, "top", FALSE, 0)
      [] o.res = "wait" -> Ager(o.w, "reserve", FALSE, 0)
      [] o.res \notin {"ok", "wait"} /\ o.w.cancelled -> Ager(o.w, "exit", FALSE, 0)
      [] o.res = "rejected" /\ ~o.w.cancelled -> Ager(o.w, "backoff", FALSE, 0)
      [] OTHER -> Ager(Fail(o.w, o.res, FALSE), "exit", FALSE, 0)

\* The drained wake-up describes a state that has been looked at.
AgeTop ==
  /\ age.pc = "top"
  /\ LET w == [wr EXCEPT !.ageWake = FALSE]
     IN  IF wr.cancelled THEN Ager(wr, "exit", FALSE, 0)
         ELSE IF wr.active.records = 0 THEN Ager(wr, "idle", FALSE, 0)
         ELSE IF ~wr.active.old THEN Ager(w, "timer", FALSE, wr.active.base)
         ELSE IF wr.transition # "none" THEN Ager(w, "transition", FALSE, 0)
         ELSE AgerCut(Cut(w, "ager", FALSE))

\* The timer belongs to the segment it was made for.
AgeWake ==
  \/ /\ age.pc \in {"idle", "timer", "backoff"} /\ wr.ageWake
     /\ Ager([wr EXCEPT !.ageWake = FALSE], "top", FALSE, 0)
  \/ /\ age.pc = "timer" /\ (wr.active.base # age.base \/ wr.active.records = 0 \/ wr.active.old)
     /\ Ager(wr, "top", FALSE, 0)
  \/ age.pc = "backoff" /\ Ager(wr, "top", FALSE, 0)

AgeTransition ==
  /\ age.pc = "transition" /\ wr.transition = "none"
  /\ AgerCut(Cut(wr, "ager", FALSE))

AgeReserve ==
  \/ /\ age.pc = "reserve" /\ ~age.woken /\ wr.stateWake
     /\ Ager([wr EXCEPT !.stateWake = FALSE], "reserve", TRUE, 0)
  \/ /\ age.pc = "reserve" /\ age.woken
     /\ AgerCut(Reserve(wr, FALSE))

\* workerCtx ends while the loop waits.
AgeExit ==
  /\ wr.cancelled /\ age.pc \in {"idle", "timer", "backoff", "transition", "reserve"} /\ ~age.woken
  /\ Ager(IF age.pc = "reserve" THEN EndTransition(wr) ELSE wr, "exit", FALSE, 0)

-----------------------------------------------------------------------------
(* runDrain                                                                 *)

WorkersMutant == {fin.pc, age.pc}

\* Whom workersWG waits for.
Workers == {fin.pc, pub.pc, age.pc}

DrainCleanup ==
  /\ wr.drain = "cleanup"
  /\ wr' = [wr EXCEPT !.drain = "join", !.sinks = @ - wr.handed, !.handed = 0]
  /\ UNCHANGED <<client, fin, pub, age, sessionMu, cat, watch, told>>

DrainJoin ==
  /\ wr.drain = "join" /\ Workers = {"exit"}
  /\ wr' = [wr EXCEPT !.drain = "done"]
  /\ UNCHANGED <<client, fin, pub, age, sessionMu, cat, watch, told>>

-----------------------------------------------------------------------------
Resume == \/ CallTransition \/ CallWake \/ CallCheck \/ CallEmpty \/ CallDrained \/ CallJoin
          \/ RetainResult \/ RetainNote
FinalizeLoop == FinalizeTop \/ FinalizeWake \/ FinalizeClose \/ FinalizeError
PublishLoop == \/ PublishTop \/ PublishWake \/ PublishLock \/ PublishReconcile
               \/ PublishReconcileError \/ PublishBackoff \/ PublishCommit \/ PublishError
               \/ PublishNote
AgeLoop == AgeTop \/ AgeWake \/ AgeTransition \/ AgeReserve \/ AgeExit
RunDrain == DrainCleanup \/ DrainJoin
Observer == WatchGet \/ WatchRead \/ WatchWake

Next ==
  \/ \E op \in {"append", "cut", "flush", "close", "abort"} : Call(op)
  \/ RetainEnter \/ RetainError \/ CallCancel
  \/ Resume \/ FinalizeLoop \/ PublishLoop \/ AgeLoop \/ RunDrain \/ Elapse
  \/ Observer

Spec == Init /\ [][Next]_vars

-----------------------------------------------------------------------------
\* Every variable has its type; no LSN beyond the last one is handed out.
TypeOK ==
  /\ wr.nextLSN \in 0..MaxLSN /\ wr.segments \in Nat /\ wr.bytes \in Nat /\ wr.sinks \in Nat
  /\ wr.transition \in {"none", "client", "ager"}
  /\ wr.firstErr \in {"none", "errAborted"} \cup Causes
  /\ wr.drain \in {"off", "cleanup", "join", "done"}
  /\ client.pc \in {"idle", "transition", "empty", "drained", "join", "session", "note"} \cup OnStateWake
  /\ fin.pc \in {"top", "wait", "close", "exit"}
  /\ pub.pc \in {"top", "wait", "lock", "reconcile", "publish", "backoff", "note", "exit"}
  /\ age.pc \in {"top", "idle", "timer", "transition", "reserve", "backoff", "exit"}
  /\ sessionMu \in {"none", "client", "publisher"}
  /\ cat.pending \in 0..wr.policy.retentions /\ cat.head.ret \in 0..wr.policy.retentions

Held == IF fin.pc = "close" THEN <<fin.item>> ELSE <<>>
Queue == wr.ready \o Held \o wr.detached

\* Every accepted record is in exactly one place: the committed log, the
\* queues between the goroutines in LSN order, or the active segment.
NoRecordIsLost ==
  ~wr.aborted =>
    LET all == IF wr.active.open THEN Append(Queue, wr.active) ELSE Queue
        ends == <<wr.committed.next>> \o [i \in DOMAIN all |-> all[i].base + all[i].records]
    IN  /\ \A i \in DOMAIN all : all[i].base = ends[i]
        /\ ends[Len(ends)] = wr.nextLSN

\* The budget of reserveInflightLocked is what the queues hold: a reservation
\* is neither leaked nor given back twice, however the three goroutines and
\* the owner interleave.
InflightExact ==
  /\ ~wr.aborted =>
       /\ wr.segments = Len(Queue)
       /\ wr.bytes = SumFunction([i \in DOMAIN Queue |->
                              IF i <= Len(wr.ready) THEN Queue[i].size ELSE Estimate(Queue[i].records)])
  /\ wr.segments <= MaxInflightSegments

\* A Flush or Close that returned success left nothing behind: all accepted
\* records are in the snapshot it returned and in the catalog.
FlushIsDurable ==
  client.pc = "idle" /\ client.answer \in {"flushed", "closed"} =>
    wr.committed.next = wr.nextLSN /\ cat.head.next = wr.nextLSN

\* The terminal cause is reported by exactly one public call, the first that
\* can; the goroutines that meet it do not use that report up.
CauseToldOnce ==
  told = IF wr.firstErr \in Causes /\ wr.surfaced THEN 1 ELSE 0

\* The writer never rejects an answer of its own session: a retention of
\* unknown outcome is acknowledged before the next publication, whose
\* snapshot would otherwise differ in more than the segment.  The one exception
\* is a retention call that gets the session between a publication whose
\* outcome is unknown and the moment publishLoop notes that error.
AnswersAreValid ==
  /\ pub.err # "invalid"
  /\ wr.firstErr = "invalid" => pub.err = "cause" /\ cat.head.next # wr.committed.next

\* When the drain is done every segment writer has been closed or aborted,
\* exactly once, but for the empty one a Flush is about to abort.
NoSinkLeak ==
  wr.drain = "done" => wr.sinks = IF client.pc = "empty" THEN 1 ELSE 0

\* stateWake has one slot: it must never have two goroutines waiting on it.
OneStateWaiter == ~(age.pc = "reserve" /\ client.pc \in OnStateWake)

\* The queues between the owner and the goroutines account for every record,
\* reservation, sink and wake-up, however their steps interleave and whatever
\* fails in between.
RecordsAccounted ==
  TypeOK /\ NoRecordIsLost /\ InflightExact /\ NoSinkLeak /\ OneStateWaiter

\* An observer that takes the channel, reads the state and waits has not
\* missed a snapshot.
ObserverIsCurrent ==
  watch.pc = "wait" /\ ~watch.woken => watch.seen = wr.committed

\* The committed snapshot agrees with the catalog session's answers and with
\* what observers have seen.
SnapshotsAreSound == AnswersAreValid /\ ObserverIsCurrent

\* The committed snapshot only moves forward, by one segment or one retention
\* at a time, and not at all once the drain is done, but for a retention
\* call that was in progress.
CommittedAdvances ==
  [][/\ wr'.committed.next >= wr.committed.next /\ wr'.committed.ret >= wr.committed.ret
     /\ wr'.committed.next > wr.committed.next =>
          wr'.committed.ret = wr.committed.ret /\ wr.drain # "done"]_vars

-----------------------------------------------------------------------------
\* The Go scheduler runs every goroutine that can run, and sync.Mutex does
\* not starve one that waits for it.  A retention whose outcome is unknown
\* is resolved in the end if it is retried again and again.
Fairness ==
  /\ WF_vars(Resume) /\ WF_vars(FinalizeLoop) /\ WF_vars(PublishLoop)
  /\ WF_vars(AgeLoop) /\ WF_vars(RunDrain) /\ WF_vars(Elapse)
  /\ SF_vars(PublishLock) /\ SF_vars(PublishReconcile)

FairSpec == Spec /\ Fairness

\* Every public call returns without its context having to end.
CallsReturn == client.pc # "idle" ~> client.pc = "idle"

\* Once begun, the drain completes, whoever waits for it.
DrainCompletes == wr.drain # "off" ~> wr.drain = "done"

\* Where segments age, every accepted record is published though nobody
\* calls the writer again, unless the writer ends.
RecordsArePublished ==
  \A n \in 1..MaxLSN :
    wr.policy.ageing /\ wr.nextLSN >= n ~> wr.committed.next >= n \/ wr.aborted
=============================================================================
