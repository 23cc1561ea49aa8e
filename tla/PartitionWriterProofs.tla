----------------------- MODULE PartitionWriterProofs -----------------------
(***************************************************************************)
(* The partition writer for every policy, budget, LSN bound and set of     *)
(* failures: the terminal cause is told once, the committed snapshot moves *)
(* forward and agrees with the session and with its observers, a Flush or  *)
(* Close that succeeded left nothing behind, and the accounts of records,  *)
(* budget and segment writers balance (AccountInv).                        *)
(***************************************************************************)
EXTENDS PartitionWriter, DataTheorems

SnapType == [next : Nat, ret : Nat]
ActiveType == [base : Nat, records : Nat, open : BOOLEAN, old : BOOLEAN]
SegmentType == [base : Nat, records : Nat]
ItemType == [base : Nat, records : Nat, size : Nat]
Errors == {"none", "errAborted", "cause", "invalid"}

(* The Writer struct.                                                      *)
WrType ==
  [policy : Policies, committed : SnapType, nextLSN : Nat, active : ActiveType,
   transition : {"none", "client", "ager"}, segments : Nat, bytes : Nat,
   detached : Seq(SegmentType), ready : Seq(ItemType),
   firstErr : Errors, surfaced : BOOLEAN, closed : BOOLEAN, aborted : BOOLEAN,
   stateWake : BOOLEAN, finalizeWake : BOOLEAN, publishWake : BOOLEAN, ageWake : BOOLEAN,
   cancelled : BOOLEAN, drain : {"off", "cleanup", "join", "done"}, handed : Int,
   sinks : Int]

(* Where a call stands when mu is released, and what it may answer.        *)
Cutting == {"reserve", "after"}
Draining == {"empty", "drained", "waitDrained"}
OutPcs == {"idle", "transition", "join"} \cup Cutting \cup Draining
Answers ==
  Errors \cup {"ok", "own", "errClosed", "appended", "rejected", "cancelled", "flushed"}

ClientType ==
  [op : {"none", "append", "cut", "flush", "close", "abort", "retain"},
   pc : OutPcs \cup {"session", "note"}, woken : BOOLEAN,
   answer : Answers \cup {"closed", "ended", "retained"}, current : SnapType]
FinType == [pc : {"top", "wait", "close", "exit"}, item : ItemType]
PubType ==
  [pc : {"top", "wait", "lock", "reconcile", "publish", "backoff", "note", "exit"},
   item : ItemType, err : Errors]
CatType == [head : SnapType, pending : Nat]
WatchType == [pc : {"off", "get", "read", "wait"}, woken : BOOLEAN, seen : SnapType]

TypeInv ==
  /\ wr \in WrType /\ client \in ClientType /\ fin \in FinType /\ pub \in PubType
  /\ cat \in CatType /\ watch \in WatchType

-----------------------------------------------------------------------------
(* The terminal error                                                      *)

(* A writer is aborted by its first error, which the caller of Abort knows *)
(* at once; a closed writer never fails; one that ended is drained, and    *)
(* its goroutines are cancelled.                                           *)
ErrOK(w) ==
  /\ w.aborted <=> w.firstErr # "none"
  /\ w.surfaced => w.firstErr # "none"
  /\ w.firstErr = "errAborted" => w.surfaced
  /\ w.closed => ~w.aborted
  /\ w.closed \/ w.aborted => w.drain # "off"
  /\ w.drain # "off" => w.cancelled
  /\ w.cancelled => w.closed \/ w.aborted

(* How often the terminal cause of w has been told.                        *)
Told(w) == IF w.firstErr \in Causes /\ w.surfaced THEN 1 ELSE 0

-----------------------------------------------------------------------------
(* The session and the committed snapshot                                  *)

Ended == {"note", "exit"}

(* sessionMu excludes the owner's retention from the publisher, and the    *)
(* snapshot the retention started from is still the committed one.         *)
SessionInv ==
  /\ client.pc = "session" => sessionMu = "client" /\ client.current = wr.committed
  /\ pub.pc \in {"reconcile", "publish"} => sessionMu = "publisher"
  /\ client.pc = "note" => client.answer \in Causes
  /\ pub.pc = "note" => pub.err \in Causes
  /\ pub.pc \notin Ended => pub.err = "none"
  /\ wr.drain = "done" => pub.pc = "exit"

(* The catalog's head is the committed snapshot but for a publication of   *)
(* unknown outcome, which ends publishLoop, and a pending retention.       *)
HeadOK(w, p, c) ==
  /\ c.head.next # w.committed.next => p.pc \in Ended /\ p.err = "cause"
  /\ c.head.next = w.committed.next /\ c.pending = 0 => c.head.ret = w.committed.ret
  /\ w.committed.ret <= c.head.ret
  /\ c.pending # 0 => w.committed.ret <= c.pending
  /\ p.pc = "publish" => c.pending = 0

(* No answer of the session is invalid, but for a retention that meets a   *)
(* publication of unknown outcome before publishLoop has noted it.         *)
InvalidInv ==
  /\ pub.err # "invalid"
  /\ wr.firstErr = "invalid" \/ (client.pc = "note" /\ client.answer = "invalid") =>
       pub.err = "cause" /\ cat.head.next # wr.committed.next

-----------------------------------------------------------------------------
(* The records in the queues                                               *)

(* Where the segments of s end, when they begin at b without a gap.        *)
Linked(s, b) ==
  \A i \in DOMAIN s : s[i].base = IF i = 1 THEN b ELSE s[i - 1].base + s[i - 1].records
End(s, b) == IF s = <<>> THEN b ELSE s[Len(s)].base + s[Len(s)].records

(* From b on the detached segments and the active one reach nextLSN.       *)
TailOK(w, b) ==
  /\ Linked(w.detached, b)
  /\ IF w.active.open
     THEN /\ w.active.base = End(w.detached, b)
          /\ w.active.base + w.active.records = w.nextLSN
     ELSE w.active.records = 0 /\ w.nextLSN = End(w.detached, b)

(* Where the published records, the ready segments and the finalizer's end. *)
HeldEnd(w, f) ==
  IF f.pc = "close" THEN f.item.base + f.item.records ELSE End(w.ready, w.committed.next)

(* Until the writer fails the queues hold the records in LSN order, and    *)
(* the publisher's item is the head of its queue.                          *)
QueueOK(w, f, p) ==
  ~w.aborted =>
    /\ Linked(w.ready, w.committed.next)
    /\ f.pc = "close" => f.item.base = End(w.ready, w.committed.next)
    /\ TailOK(w, HeldEnd(w, f))
    /\ w.segments = Len(w.ready) + (IF f.pc = "close" THEN 1 ELSE 0) + Len(w.detached)
    /\ p.pc \in {"lock", "reconcile", "publish", "note"} => w.ready # <<>>
    /\ p.pc \in {"lock", "reconcile", "publish"} => p.item = w.ready[1]
    /\ p.pc = "exit" => p.err = "none"

(* One goroutine at a time cuts the active segment, and it has records.    *)
CutOK(w) == w.transition # "none" => w.aborted \/ w.active.records > 0
CutInv ==
  /\ client.pc \in Cutting <=> wr.transition = "client"
  /\ age.pc = "reserve" <=> wr.transition = "ager"

(* Nothing accepted is left to publish.                                    *)
Settled(w, c) ==
  /\ ~w.aborted /\ ~w.active.open /\ w.segments = 0
  /\ w.committed.next = w.nextLSN /\ c.head.next = w.nextLSN

(* Where a Flush or Close stands once the active segment is gone, and what *)
(* its success says.                                                       *)
SettledInv ==
  /\ client.pc \in Draining => ~wr.active.open /\ client.op \in {"flush", "close"}
  /\ wr.closed => Settled(wr, cat) /\ client.pc \in {"idle", "transition", "join"}
  /\ client.pc = "idle" /\ client.answer = "flushed" => Settled(wr, cat)
  /\ client.pc = "idle" /\ client.answer = "closed" => wr.closed
  /\ client.pc = "join" =>
       /\ client.answer \notin {"flushed", "closed"}
       /\ client.op = "close" /\ client.answer = "none" => wr.closed

(* A call that waits is one of those that can wait there.                  *)
CallInv ==
  /\ client.pc \in {"transition"} \cup Cutting => client.op \in {"append", "cut", "flush", "close"}
  /\ client.pc \in {"session", "note"} => client.op = "retain"

(* The inductive invariant.                                                *)
IInv ==
  /\ TypeInv /\ ErrOK(wr) /\ CutOK(wr) /\ CauseToldOnce
  /\ SessionInv /\ HeadOK(wr, pub, cat) /\ InvalidInv /\ ObserverIsCurrent
  /\ QueueOK(wr, fin, pub) /\ CutInv /\ SettledInv /\ CallInv

-----------------------------------------------------------------------------
(* What the steps of the owner and of ageLoop do to the struct             *)

Core(w) == w \in WrType /\ ErrOK(w) /\ CutOK(w)

(* The fields the argument is about, besides the wake-ups and counters.    *)
Alike(w, v) ==
  /\ v.committed = w.committed /\ v.nextLSN = w.nextLSN /\ v.active = w.active
  /\ v.segments = w.segments /\ v.detached = w.detached /\ v.ready = w.ready
  /\ v.firstErr = w.firstErr /\ v.surfaced = w.surfaced
  /\ v.closed = w.closed /\ v.aborted = w.aborted

(* Nothing is queued or active.                                            *)
Done(w) == w.segments = 0 /\ ~w.aborted /\ ~w.active.open

(* Until the writer fails, the records stay in the queues: segments move   *)
(* from active to detached, and the budget follows.                        *)
Flows(w, v) ==
  ~v.aborted =>
    /\ ~w.aborted /\ v.ready = w.ready
    /\ v.segments - Len(v.detached) = w.segments - Len(w.detached)
    /\ \A b \in Nat : TailOK(w, b) => TailOK(v, b)

(* What every such step keeps: the committed snapshot, a drain that began, *)
(* and a closed writer as it is.                                           *)
Keeps(w, v) ==
  /\ Core(v)
  /\ v.committed = w.committed
  /\ v.drain = w.drain \/ (w.drain = "off" /\ v.drain = "cleanup")
  /\ w.closed => /\ v.closed /\ v.nextLSN = w.nextLSN /\ v.segments = w.segments
                 /\ v.active.open = w.active.open
  /\ v.closed => w.closed \/ Done(v)
  /\ Flows(w, v)

(* Only a retention's answer can be invalid: no other step blames that.    *)
Blames(w, v) == v.firstErr = w.firstErr \/ (w.firstErr = "none" /\ v.firstErr # "invalid")

Follows(w, v) == Keeps(w, v) /\ Blames(w, v)

(* A step that changes nothing.                                            *)
LEMMA FollowsSelf == ASSUME NEW w, Core(w) PROVE Follows(w, w)
BY DEF Follows, Keeps, Blames, Flows

(* Two steps under one hold of mu are one.                                 *)
LEMMA KeepsTrans ==
  ASSUME NEW u, NEW v, NEW w, Core(u), Keeps(u, v), Keeps(v, w) PROVE Keeps(u, w)
<1>1. Flows(u, w)
  BY DEF Keeps, Flows
<1>2. w.closed => u.closed \/ Done(w)
  BY DEF Keeps, Done, Core, ErrOK
<1> QED
  BY <1>1, <1>2 DEF Keeps, Core, ErrOK

(* So they are with the error they blame.                                  *)
LEMMA FollowsTrans ==
  ASSUME NEW u, NEW v, NEW w, Core(u), Follows(u, v), Follows(v, w) PROVE Follows(u, w)
<1>1. Keeps(u, w)
  BY KeepsTrans DEF Follows
<1> QED
  BY <1>1 DEF Follows, Blames

(* A step on fields the argument is not about.                             *)
LEMMA AlikeFollows ==
  ASSUME NEW w, NEW v \in WrType, Core(w), Alike(w, v), CutOK(v),
         v.drain = w.drain, v.cancelled = w.cancelled
  PROVE  Follows(w, v) /\ Told(v) = Told(w)
<1>1. ErrOK(v)
  BY DEF ErrOK, Alike, Core
<1>2. Flows(w, v)
  BY DEF Flows, Alike, TailOK
<1> QED
  BY <1>1, <1>2 DEF Follows, Keeps, Blames, Alike, Core, Told

(* No segment is active.                                                   *)
LEMMA NoActiveType == NoActive \in ActiveType /\ ~NoActive.open /\ NoActive.records = 0
BY DEF NoActive, ActiveType

(* The drain starts once, and cancels the goroutines.                      *)
LEMMA StartDrainFields ==
  ASSUME NEW w \in WrType, NEW h \in Int
  PROVE  /\ StartDrain(w, h) \in WrType /\ Alike(w, StartDrain(w, h))
         /\ StartDrain(w, h).transition = w.transition
         /\ StartDrain(w, h).drain = IF w.drain = "off" THEN "cleanup" ELSE w.drain
         /\ StartDrain(w, h).cancelled = (w.drain = "off" \/ w.cancelled)
<1>1. CASE w.drain # "off"
  <2>1. StartDrain(w, h) = w
    BY <1>1 DEF StartDrain
  <2> QED
    BY <1>1, <2>1 DEF Alike, WrType
<1>2. CASE w.drain = "off"
  <2> DEFINE v == [w EXCEPT !.drain = "cleanup", !.cancelled = TRUE, !.handed = h]
  <2>1. v \in WrType
    BY DEF WrType
  <2>2. Alike(w, v) /\ v.transition = w.transition /\ v.drain = "cleanup" /\ v.cancelled
    BY DEF Alike, WrType
  <2>3. StartDrain(w, h) = SignalAll(v)
    BY <1>2 DEF StartDrain
  <2> HIDE DEF v
  <2>4. /\ SignalAll(v) \in WrType /\ Alike(v, SignalAll(v))
        /\ SignalAll(v).transition = v.transition
        /\ SignalAll(v).drain = v.drain /\ SignalAll(v).cancelled = v.cancelled
    BY <2>1 DEF SignalAll, Alike, WrType
  <2> QED
    BY <1>2, <2>2, <2>3, <2>4 DEF Alike
<1> QED
  BY <1>1, <1>2

(* A shutdown empties the queues and starts the drain.                     *)
LEMMA ShutdownFields ==
  ASSUME NEW w \in WrType, NEW h \in Int, NEW v, v = Shutdown(w, h)
  PROVE  /\ v \in WrType /\ v.aborted /\ v.active = NoActive
         /\ v.committed = w.committed /\ v.nextLSN = w.nextLSN /\ v.segments = w.segments
         /\ v.firstErr = w.firstErr /\ v.surfaced = w.surfaced /\ v.closed = w.closed
         /\ v.transition = w.transition
         /\ v.drain = IF w.drain = "off" THEN "cleanup" ELSE w.drain
         /\ v.cancelled = (w.drain = "off" \/ w.cancelled)
<1> DEFINE u == [w EXCEPT !.aborted = TRUE, !.active = NoActive, !.detached = <<>>,
                          !.ready = <<>>]
<1>1. u \in WrType
  <2>1. <<>> \in Seq(SegmentType) /\ <<>> \in Seq(ItemType)
    OBVIOUS
  <2> QED
    BY <2>1, NoActiveType DEF WrType
<1>2. /\ u.aborted /\ u.active = NoActive
      /\ u.committed = w.committed /\ u.nextLSN = w.nextLSN /\ u.segments = w.segments
      /\ u.firstErr = w.firstErr /\ u.surfaced = w.surfaced /\ u.closed = w.closed
      /\ u.transition = w.transition /\ u.drain = w.drain /\ u.cancelled = w.cancelled
  BY DEF WrType
<1>3. v = StartDrain(u, h)
  BY DEF Shutdown
<1> HIDE DEF u
<1>4. /\ StartDrain(u, h) \in WrType /\ Alike(u, StartDrain(u, h))
      /\ StartDrain(u, h).transition = u.transition
      /\ StartDrain(u, h).drain = IF u.drain = "off" THEN "cleanup" ELSE u.drain
      /\ StartDrain(u, h).cancelled = (u.drain = "off" \/ u.cancelled)
  BY <1>1, StartDrainFields
<1> QED
  BY <1>2, <1>3, <1>4 DEF Alike

(* The segment writers handed to the drain are a number.                   *)
LEMMA WritersInt == ASSUME NEW w \in WrType PROVE Writers(w) \in Int
<1>1. Len(w.detached) \in Nat
  BY DEF WrType
<1> QED
  BY <1>1 DEF Writers

(* Fail and the shutdown of Abort.                                         *)
LEMMA FailFields ==
  ASSUME NEW w \in WrType, NEW err \in Errors, NEW s \in BOOLEAN, NEW v, v = Fail(w, err, s)
  PROVE  /\ v \in WrType /\ v.aborted /\ ~v.active.open
         /\ v.committed = w.committed /\ v.closed = w.closed /\ v.transition = w.transition
         /\ v.firstErr = IF w.firstErr = "none" THEN err ELSE w.firstErr
         /\ v.surfaced = (w.surfaced \/ (s /\ w.firstErr = "none"))
         /\ v.drain = IF w.drain = "off" THEN "cleanup" ELSE w.drain
         /\ v.cancelled = (w.drain = "off" \/ w.cancelled)
<1> DEFINE u == [w EXCEPT !.firstErr = IF @ = "none" THEN err ELSE @,
                          !.surfaced = @ \/ (s /\ w.firstErr = "none")]
<1>1. u \in WrType
  BY ZenonT(40) DEF WrType, Errors
<1>2. /\ u.firstErr = IF w.firstErr = "none" THEN err ELSE w.firstErr
      /\ u.surfaced = (w.surfaced \/ (s /\ w.firstErr = "none"))
      /\ u.committed = w.committed /\ u.closed = w.closed /\ u.transition = w.transition
      /\ u.drain = w.drain /\ u.cancelled = w.cancelled
  BY DEF WrType
<1>3. v = Shutdown(u, Writers(w)) /\ Writers(w) \in Int
  BY WritersInt DEF Fail
<1> HIDE DEF u
<1> QED
  BY <1>1, <1>2, <1>3, ShutdownFields, NoActiveType

(* A writer that is not closed may fail, in any state.                     *)
LEMMA FailKeeps ==
  ASSUME NEW w, Core(w), ~w.closed, NEW err \in Causes, NEW s \in BOOLEAN
  PROVE  /\ Keeps(w, Fail(w, err, s)) /\ Fail(w, err, s).aborted
         /\ Fail(w, err, s).firstErr = IF w.firstErr = "none" THEN err ELSE w.firstErr
         /\ Fail(w, err, s).surfaced = (w.surfaced \/ (s /\ w.firstErr = "none"))
         /\ Fail(w, err, s).transition = w.transition /\ ~Fail(w, err, s).closed
         /\ Told(Fail(w, err, s)) = Told(w) + (IF s /\ w.firstErr = "none" THEN 1 ELSE 0)
<1> DEFINE v == Fail(w, err, s)
<1>1. err \in Errors /\ err # "none"
  BY DEF Causes, Errors
<1>2. /\ v \in WrType /\ v.aborted /\ ~v.active.open
      /\ v.committed = w.committed /\ v.closed = w.closed /\ v.transition = w.transition
      /\ v.firstErr = IF w.firstErr = "none" THEN err ELSE w.firstErr
      /\ v.surfaced = (w.surfaced \/ (s /\ w.firstErr = "none"))
      /\ v.drain = IF w.drain = "off" THEN "cleanup" ELSE w.drain
      /\ v.cancelled = (w.drain = "off" \/ w.cancelled)
  BY <1>1, FailFields DEF Core
<1> HIDE DEF v
<1>3. Core(v)
  BY <1>1, <1>2 DEF Core, ErrOK, CutOK, Causes
<1>4. Keeps(w, v)
  BY <1>1, <1>2, <1>3 DEF Keeps, Flows
<1>5. Told(v) = Told(w) + (IF s /\ w.firstErr = "none" THEN 1 ELSE 0)
  <2>1. CASE w.firstErr = "none"
    <3>1. ~w.surfaced /\ v.firstErr = err /\ v.surfaced = s
      BY <2>1, <1>2 DEF Core, ErrOK
    <3>2. Told(w) = 0
      BY <3>1 DEF Told
    <3>3. Told(v) = IF s THEN 1 ELSE 0
      BY <3>1 DEF Told
    <3> QED
      BY <2>1, <3>2, <3>3
  <2>2. CASE w.firstErr # "none"
    <3>1. v.firstErr = w.firstErr /\ v.surfaced = w.surfaced
      BY <2>2, <1>2 DEF Core, WrType
    <3>2. Told(v) = Told(w) /\ Told(w) \in {0, 1}
      BY <3>1 DEF Told
    <3> QED
      BY <2>2, <3>2
  <2> QED
    BY <2>1, <2>2
<1> QED
  BY <1>2, <1>4, <1>5 DEF v

(* The writer fails with err, and a caller is told of it, or nobody is.    *)
Notes(w, err, tells, v) ==
  /\ Keeps(w, v) /\ v.aborted /\ v.transition = w.transition /\ ~v.closed
  /\ v.firstErr = IF w.firstErr = "none" THEN err ELSE w.firstErr
  /\ v.surfaced = IF w.firstErr = "none" /\ tells = 1 THEN TRUE ELSE w.surfaced
  /\ Told(v) = Told(w) + (IF w.firstErr = "none" THEN tells ELSE 0)

(* The caller returns its own error, the cause if it is the first.         *)
LEMMA FailTells ==
  ASSUME NEW w, Core(w), ~w.closed, NEW err \in Causes
  PROVE  Notes(w, err, 1, Fail(w, err, TRUE))
<1>1. PICK s \in BOOLEAN : s
  OBVIOUS
<1>2. Fail(w, err, TRUE) = Fail(w, err, s)
  BY <1>1 DEF Fail
<1> DEFINE v == Fail(w, err, s)
<1>3. /\ Keeps(w, v) /\ v.aborted
      /\ v.firstErr = IF w.firstErr = "none" THEN err ELSE w.firstErr
      /\ v.surfaced = (w.surfaced \/ (s /\ w.firstErr = "none"))
      /\ v.transition = w.transition /\ ~v.closed
      /\ Told(v) = Told(w) + (IF s /\ w.firstErr = "none" THEN 1 ELSE 0)
  BY FailKeeps
<1> HIDE DEF v
<1>4. w.surfaced \in BOOLEAN
  BY DEF Core, WrType
<1>5. (IF s /\ w.firstErr = "none" THEN 1 ELSE 0) = (IF w.firstErr = "none" THEN 1 ELSE 0)
  BY <1>1
<1>6. v.surfaced = IF w.firstErr = "none" /\ 1 = 1 THEN TRUE ELSE w.surfaced
  BY <1>1, <1>3, <1>4
<1>7. Notes(w, err, 1, v)
  BY <1>3, <1>5, <1>6 DEF Notes
<1> QED
  BY <1>2, <1>7 DEF v

(* A goroutine that fails tells nobody.                                    *)
LEMMA FailQuiet ==
  ASSUME NEW w, Core(w), ~w.closed, NEW err \in Causes
  PROVE  Notes(w, err, 0, Fail(w, err, FALSE))
<1>1. PICK s \in BOOLEAN : ~s
  OBVIOUS
<1>2. Fail(w, err, FALSE) = Fail(w, err, s)
  BY <1>1 DEF Fail
<1> DEFINE v == Fail(w, err, s)
<1>3. /\ Keeps(w, v) /\ v.aborted
      /\ v.firstErr = IF w.firstErr = "none" THEN err ELSE w.firstErr
      /\ v.surfaced = (w.surfaced \/ (s /\ w.firstErr = "none"))
      /\ v.transition = w.transition /\ ~v.closed
      /\ Told(v) = Told(w) + (IF s /\ w.firstErr = "none" THEN 1 ELSE 0)
  BY FailKeeps
<1> HIDE DEF v
<1>4. w.surfaced \in BOOLEAN
  BY DEF Core, WrType
<1>5. (IF s /\ w.firstErr = "none" THEN 1 ELSE 0) = (IF w.firstErr = "none" THEN 0 ELSE 0)
  BY <1>1
<1>6. v.surfaced = IF w.firstErr = "none" /\ 0 = 1 THEN TRUE ELSE w.surfaced
  BY <1>1, <1>3, <1>4
<1>7. Notes(w, err, 0, v)
  BY <1>3, <1>5, <1>6 DEF Notes
<1> QED
  BY <1>2, <1>7 DEF v

-----------------------------------------------------------------------------
(* What a call leaves behind when it releases mu                           *)

OutOK(w, op, o) ==
  /\ o \in [w : WrType, pc : OutPcs, answer : Answers]
  /\ Follows(w, o.w)
  /\ Told(o.w) = Told(w) + (IF o.answer \in Causes THEN 1 ELSE 0)
  /\ o.pc \in Cutting <=> o.w.transition = "client"
  /\ o.w.transition = "ager" <=> w.transition = "ager"
  /\ o.pc \in Cutting \cup Draining => ~o.w.closed
  /\ o.pc \in Draining => ~o.w.active.open /\ op \in {"flush", "close"}
  /\ o.answer = "flushed" => Done(o.w)
  /\ o.pc = "join" => o.answer # "flushed" /\ (op = "close" /\ o.answer = "none" => o.w.closed)

(* A step on the struct that tells nobody of an error.                     *)
Silent(w, v) ==
  /\ Follows(w, v) /\ Told(v) = Told(w)
  /\ v.transition = "ager" <=> w.transition = "ager"

(* The cause has been told a number of times.                              *)
LEMMA ToldNat == ASSUME NEW w PROVE Told(w) \in Nat
BY DEF Told

(* An outcome of what follows a silent step is one of both.                *)
LEMMA OutTrans ==
  ASSUME NEW u, NEW w, NEW op, NEW o, Core(u), Silent(u, w), OutOK(w, op, o)
  PROVE  OutOK(u, op, o)
<1>1. Follows(u, o.w)
  BY FollowsTrans DEF Silent, OutOK
<1> QED
  BY <1>1 DEF Silent, OutOK

(* A call that waits, or goes on to the drain, with no answer yet.         *)
LEMMA AtOK ==
  ASSUME NEW w, Core(w), NEW op, NEW pc \in OutPcs, NEW o \in At(w, pc),
         pc \in Cutting <=> w.transition = "client",
         pc \in Cutting \cup Draining => ~w.closed,
         pc \in Draining => ~w.active.open /\ op \in {"flush", "close"},
         pc = "join" /\ op = "close" => w.closed
  PROVE  OutOK(w, op, o)
<1>1. o = [w |-> w, pc |-> pc, answer |-> "none"]
  BY DEF At
<1>2. o.w = w /\ o.pc = pc /\ o.answer = "none"
  BY <1>1
<1>3. o \in [w : WrType, pc : OutPcs, answer : Answers]
  BY <1>1 DEF Answers, Errors, Core
<1>4. Told(w) = Told(w) + 0
  BY ToldNat
<1> QED
  BY <1>2, <1>3, <1>4, FollowsSelf DEF OutOK, Causes

(* surfaceReturnedErrLocked: the cause counts as told from here on.        *)
LEMMA SurfaceFields ==
  ASSUME NEW w, Core(w), NEW a, NEW v, v = SurfaceReturned(w, a)
  PROVE  /\ Follows(w, v) /\ v.transition = w.transition /\ v.closed = w.closed
         /\ v.active = w.active /\ v.segments = w.segments /\ v.aborted = w.aborted
         /\ v.firstErr = w.firstErr
         /\ v.surfaced = (w.surfaced \/ (w.aborted /\ a = w.firstErr))
<1>1. CASE w.aborted /\ a = w.firstErr
  <2>1. v = [w EXCEPT !.surfaced = TRUE]
    BY <1>1 DEF SurfaceReturned
  <2>2. v \in WrType
    BY <2>1 DEF Core, WrType
  <2>3. /\ v.committed = w.committed /\ v.nextLSN = w.nextLSN /\ v.active = w.active
        /\ v.segments = w.segments /\ v.detached = w.detached /\ v.ready = w.ready
        /\ v.firstErr = w.firstErr /\ v.surfaced /\ v.transition = w.transition
        /\ v.closed = w.closed /\ v.aborted = w.aborted
        /\ v.drain = w.drain /\ v.cancelled = w.cancelled
    BY <2>1 DEF Core, WrType
  <2>4. Core(v)
    BY <1>1, <2>2, <2>3 DEF Core, ErrOK, CutOK
  <2>5. Follows(w, v)
    BY <1>1, <2>3, <2>4 DEF Follows, Keeps, Blames, Flows
  <2> QED
    BY <1>1, <2>3, <2>5
<1>2. CASE ~(w.aborted /\ a = w.firstErr)
  <2>1. v = w
    BY <1>2 DEF SurfaceReturned
  <2>2. w.surfaced \in BOOLEAN
    BY DEF Core, WrType
  <2> QED
    BY <1>2, <2>1, <2>2, FollowsSelf
<1> QED
  BY <1>1, <1>2

(* An error is told by the call that returns it, once.                     *)
LEMMA ToldBySurface ==
  ASSUME NEW w, Core(w), NEW a, NEW v, v = SurfaceReturned(w, a),
         a \in Causes => w.aborted /\ a = w.firstErr /\ ~w.surfaced
  PROVE  Told(v) = Told(w) + (IF a \in Causes THEN 1 ELSE 0)
<1>1. v.firstErr = w.firstErr /\ v.surfaced = (w.surfaced \/ (w.aborted /\ a = w.firstErr))
  BY SurfaceFields
<1>2. CASE a \in Causes
  <2>1. Told(w) = 0 /\ Told(v) = 1
    BY <1>1, <1>2 DEF Told
  <2> QED
    BY <1>2, <2>1
<1>3. CASE a \notin Causes
  <2>1. w.firstErr \in Causes => v.surfaced = w.surfaced
    BY <1>1, <1>3 DEF Core, WrType
  <2>2. Told(v) = Told(w)
    BY <1>1, <2>1 DEF Told
  <2> QED
    BY <1>3, <2>2, ToldNat
<1> QED
  BY <1>2, <1>3

(* A call returns a, or waits in Close for the drain before it does.       *)
LEMMA ReturnOK ==
  ASSUME NEW w, Core(w), NEW op, NEW a \in Answers \ {"none"}, NEW pc \in {"idle", "join"},
         w.transition # "client",
         a \in Causes => w.aborted /\ a = w.firstErr /\ ~w.surfaced,
         a = "flushed" => Done(w) /\ pc = "idle"
  PROVE  OutOK(w, op, [w |-> SurfaceReturned(w, a), pc |-> pc, answer |-> a])
<1> DEFINE v == SurfaceReturned(w, a)
           o == [w |-> v, pc |-> pc, answer |-> a]
<1>1. /\ Follows(w, v) /\ v.transition = w.transition /\ v.closed = w.closed
      /\ v.active = w.active /\ v.segments = w.segments /\ v.aborted = w.aborted
  BY SurfaceFields
<1>2. Told(v) = Told(w) + (IF a \in Causes THEN 1 ELSE 0)
  BY ToldBySurface
<1> HIDE DEF v
<1>3. /\ o.w = v /\ o.pc = pc /\ o.answer = a /\ pc \notin Cutting \cup Draining
      /\ a # "none" /\ (a = "flushed" => pc = "idle")
  BY DEF Cutting, Draining
<1>4. o \in [w : WrType, pc : OutPcs, answer : Answers]
  BY <1>1 DEF OutPcs, Follows, Keeps, Core
<1> HIDE DEF o
<1>5. a = "flushed" => Done(v)
  BY <1>1 DEF Done
<1>6. OutOK(w, op, o)
  BY <1>1, <1>2, <1>3, <1>4, <1>5 DEF OutOK
<1> QED
  BY <1>6 DEF o, v

(* A call that returns.                                                    *)
LEMMA AnswerOK ==
  ASSUME NEW w, Core(w), NEW op, NEW a \in Answers \ {"none"}, NEW o \in Answer(w, a),
         w.transition # "client",
         a \in Causes => w.aborted /\ a = w.firstErr /\ ~w.surfaced,
         a = "flushed" => Done(w)
  PROVE  OutOK(w, op, o)
<1>1. o = [w |-> SurfaceReturned(w, a), pc |-> "idle", answer |-> a]
  BY DEF Answer
<1> QED
  BY <1>1, ReturnOK

(* A Flush or Close that returns an error, Close by way of the drain.      *)
LEMMA EndErrOK ==
  ASSUME NEW w, Core(w), NEW op, NEW a \in Answers \ {"none", "flushed"},
         NEW o \in EndErr(w, op, a), w.transition # "client",
         a \in Causes => w.aborted /\ a = w.firstErr /\ ~w.surfaced
  PROVE  OutOK(w, op, o)
<1>1. CASE op = "close" /\ w.aborted
  <2>1. o = [w |-> SurfaceReturned(w, a), pc |-> "join", answer |-> a]
    BY <1>1 DEF EndErr
  <2> QED
    BY <2>1, ReturnOK
<1>2. CASE ~(op = "close" /\ w.aborted)
  BY <1>2, AnswerOK DEF EndErr
<1> QED
  BY <1>1, <1>2

(* abortedErrLocked answers the cause only while it is untold.             *)
LEMMA AbortedErrOK ==
  ASSUME NEW w, Core(w), w.aborted
  PROVE  /\ AbortedErr(w) \in {"errAborted", "cause", "invalid"}
         /\ AbortedErr(w) \in Causes => AbortedErr(w) = w.firstErr /\ ~w.surfaced
BY DEF AbortedErr, Core, ErrOK, WrType, Errors, Causes

-----------------------------------------------------------------------------
(* Cutting the active segment                                              *)

Results == Errors \cup {"ok", "wait", "rejected", "errClosed"}
Open == {"ok", "wait", "rejected"}

(* What the owner of a transition, `who', has done when it releases mu.    *)
ResOK(w, who, detachOnly, o) ==
  /\ o \in [w : WrType, res : Results] /\ o.res # "none"
  /\ Follows(w, o.w)
  /\ o.w.firstErr = w.firstErr /\ o.w.surfaced = w.surfaced
  /\ o.w.closed = w.closed /\ o.w.aborted = w.aborted
  /\ o.w.transition = IF o.res = "wait" THEN who ELSE "none"
  /\ o.res \in Open <=> ~w.closed /\ ~w.aborted
  /\ o.res = "ok" /\ detachOnly => o.w.active.records = 0
  /\ o.res \in Causes => w.aborted /\ o.res = w.firstErr /\ ~w.surfaced

(* A cut is silent: it tells nobody of an error.                           *)
LEMMA ResSilent ==
  ASSUME NEW w, Core(w), NEW who \in {"client", "ager"}, NEW d, NEW o, ResOK(w, who, d, o),
         w.transition \in {"none", who}
  PROVE  Follows(w, o.w) /\ Told(o.w) = Told(w)
BY DEF ResOK, Told

(* Segments follow one another when one is appended at their end.          *)
LEMMA LinkedAppend ==
  ASSUME NEW S, NEW s \in Seq(S), NEW b, NEW e \in S,
         Linked(s, b), e.base = End(s, b)
  PROVE  Linked(Append(s, e), b) /\ End(Append(s, e), b) = e.base + e.records
<1> DEFINE t == Append(s, e)
<1>1. /\ Len(s) \in Nat /\ DOMAIN s = 1..Len(s) /\ Len(t) = Len(s) + 1 /\ DOMAIN t = 1..(Len(s) + 1)
      /\ t[Len(s) + 1] = e /\ \A i \in 1..Len(s) : t[i] = s[i]
  OBVIOUS
<1>2. t # <<>> /\ (s = <<>> <=> Len(s) = 0)
  <2>1. s = <<>> <=> Len(s) = 0
    OBVIOUS
  <2> HIDE DEF t
  <2>2. t # <<>>
    <3>1. Len(<<>>) = 0
      OBVIOUS
    <3> QED
      BY <1>1, <3>1
  <2> QED
    BY <2>1, <2>2
<1> HIDE DEF t
<1>3. End(t, b) = e.base + e.records
  BY <1>1, <1>2 DEF End
<1>4. ASSUME NEW i \in DOMAIN t
      PROVE  t[i].base = IF i = 1 THEN b ELSE t[i - 1].base + t[i - 1].records
  <2>1. CASE i \in 1..Len(s)
    <3>1. i = 1 \/ i - 1 \in 1..Len(s)
      BY <1>1, <2>1
    <3> QED
      BY <1>1, <2>1, <3>1 DEF Linked
  <2>2. CASE i = Len(s) + 1
    <3>1. CASE Len(s) = 0
      BY <1>1, <1>2, <2>2, <3>1 DEF End
    <3>2. CASE Len(s) # 0
      <4>1. i - 1 = Len(s) /\ i # 1 /\ i - 1 \in 1..Len(s)
        BY <1>1, <2>2, <3>2
      <4>2. e.base = s[Len(s)].base + s[Len(s)].records
        BY <1>2, <3>2 DEF End
      <4> QED
        BY <1>1, <2>2, <4>1, <4>2
    <3> QED
      BY <3>1, <3>2
  <2> QED
    BY <1>1, <2>1, <2>2
<1>5. Linked(t, b)
  BY <1>4 DEF Linked
<1> QED
  BY <1>3, <1>5 DEF t

(* The estimate is a size.                                                 *)
LEMMA EstimateNat == ASSUME NEW n \in Nat PROVE Estimate(n) \in Nat
BY DEF Estimate

(* The active segment goes to the end of the finalizer's queue.            *)
LEMMA DetachFields ==
  ASSUME NEW w \in WrType, NEW v, v = Detach(w)
  PROVE  /\ v \in WrType /\ v.active = NoActive
         /\ v.detached = Append(w.detached, [base |-> w.active.base, records |-> w.active.records])
         /\ v.segments = w.segments + 1
         /\ v.committed = w.committed /\ v.nextLSN = w.nextLSN /\ v.ready = w.ready
         /\ v.firstErr = w.firstErr /\ v.surfaced = w.surfaced
         /\ v.closed = w.closed /\ v.aborted = w.aborted /\ v.transition = w.transition
         /\ v.drain = w.drain /\ v.cancelled = w.cancelled
<1> DEFINE e == [base |-> w.active.base, records |-> w.active.records]
<1>1. w.active \in ActiveType /\ w.detached \in Seq(SegmentType) /\ w.segments \in Nat /\ w.bytes \in Nat
  BY DEF WrType
<1>2. e \in SegmentType /\ w.active.records \in Nat
  BY <1>1 DEF ActiveType, SegmentType
<1> HIDE DEF e
<1>3. Append(w.detached, e) \in Seq(SegmentType)
  BY <1>1, <1>2
<1>4. w.segments + 1 \in Nat /\ w.bytes + Estimate(w.active.records) \in Nat
  <2>1. Estimate(w.active.records) \in Nat
    BY <1>2, EstimateNat
  <2> QED
    BY <1>1, <2>1
<1>5. v = [w EXCEPT !.detached = Append(w.detached, e), !.active = NoActive, !.finalizeWake = TRUE,
                    !.segments = w.segments + 1,
                    !.bytes = w.bytes + Estimate(w.active.records)]
  BY DEF Detach, WrType, e
<1>6. v \in WrType
  BY <1>3, <1>4, <1>5, NoActiveType, ZenonT(40) DEF WrType
<1> QED
  BY <1>5, <1>6 DEF WrType, e

(* The records go with the segment that is detached.                       *)
LEMMA DetachTail ==
  ASSUME NEW w \in WrType, w.active.records # 0, NEW b \in Nat, TailOK(w, b)
  PROVE  TailOK(Detach(w), b) /\ w.nextLSN = End(Detach(w).detached, b)
<1> DEFINE v == Detach(w)
           e == [base |-> w.active.base, records |-> w.active.records]
<1>1. v.detached = Append(w.detached, e) /\ v.active = NoActive /\ v.nextLSN = w.nextLSN
  BY DetachFields
<1>2. w.active.open /\ w.active.base = End(w.detached, b)
      /\ w.active.base + w.active.records = w.nextLSN
  BY DEF TailOK
<1>3. w.active \in ActiveType /\ w.detached \in Seq(SegmentType)
  BY DEF WrType
<1>4. e \in SegmentType /\ e.base = w.active.base /\ e.records = w.active.records
  BY <1>3 DEF ActiveType, SegmentType
<1> HIDE DEF v, e
<1>5. Linked(w.detached, b)
  BY DEF TailOK
<1>6. Linked(v.detached, b) /\ End(v.detached, b) = e.base + e.records
  BY <1>1, <1>2, <1>3, <1>4, <1>5, LinkedAppend
<1> QED
  BY <1>1, <1>2, <1>4, <1>6, NoActiveType DEF TailOK, v

(* What startSegmentLocked changes.                                        *)
LEMMA StartFields ==
  ASSUME NEW w \in WrType, NEW v, v = StartSegment(w)
  PROVE  /\ v \in WrType
         /\ v.active = [base |-> w.nextLSN, records |-> 0, open |-> TRUE, old |-> FALSE]
         /\ v.detached = w.detached /\ v.segments = w.segments
         /\ v.committed = w.committed /\ v.nextLSN = w.nextLSN /\ v.ready = w.ready
         /\ v.firstErr = w.firstErr /\ v.surfaced = w.surfaced
         /\ v.closed = w.closed /\ v.aborted = w.aborted /\ v.transition = w.transition
         /\ v.drain = w.drain /\ v.cancelled = w.cancelled
<1> DEFINE a == [base |-> w.nextLSN, records |-> 0, open |-> TRUE, old |-> FALSE]
<1>1. w.nextLSN \in Nat /\ w.sinks + 1 \in Int
  BY DEF WrType
<1>2. a \in ActiveType
  BY <1>1 DEF ActiveType
<1>3. v = [w EXCEPT !.active = a, !.sinks = w.sinks + 1]
  BY DEF StartSegment, WrType
<1> HIDE DEF a
<1>4. v \in WrType
  BY <1>1, <1>2, <1>3 DEF WrType
<1>5. v.active = a
  BY <1>3 DEF WrType
<1> QED
  BY <1>3, <1>4, <1>5 DEF WrType, a

(* What the end of a transition changes.                                   *)
LEMMA EndFields ==
  ASSUME NEW w \in WrType, NEW v, v = EndTransition(w)
  PROVE  /\ v \in WrType /\ v.transition = "none" /\ Alike(w, v)
         /\ v.drain = w.drain /\ v.cancelled = w.cancelled
BY DEF EndTransition, WrType, Alike

(* A segment starts where no segment is: the next LSN.                     *)
LEMMA StartTail ==
  ASSUME NEW w \in WrType, NEW b, ~w.active.open, TailOK(w, b)
  PROVE  TailOK(StartSegment(w), b)
<1> DEFINE v == StartSegment(w)
<1>1. /\ v.active = [base |-> w.nextLSN, records |-> 0, open |-> TRUE, old |-> FALSE]
      /\ v.detached = w.detached /\ v.nextLSN = w.nextLSN /\ w.nextLSN \in Nat
  BY StartFields DEF WrType
<1> HIDE DEF v
<1>2. v.active.open /\ v.active.base = w.nextLSN /\ v.active.records = 0
  BY <1>1
<1>3. v.active.base + v.active.records = v.nextLSN
  BY <1>1, <1>2
<1> QED
  BY <1>1, <1>2, <1>3 DEF TailOK, v

(* reserveInflightLocked and what follows it.                              *)
LEMMA ReserveOK ==
  ASSUME NEW w, Core(w), ~w.closed, NEW who \in {"client", "ager"}, w.transition = who,
         NEW d \in BOOLEAN, NEW o \in Reserve(w, d)
  PROVE  ResOK(w, who, d, o)
<1>0. w \in WrType /\ w.active \in ActiveType
  BY DEF Core, WrType
<1>1. CASE w.aborted
  <2>1. o = [w |-> EndTransition(w), res |-> AbortedErr(w)]
    BY <1>1 DEF Reserve
  <2>2. o.w = EndTransition(w) /\ o.res = AbortedErr(w)
    BY <2>1
  <2>3. /\ o.w \in WrType /\ o.w.transition = "none" /\ Alike(w, o.w)
        /\ o.w.drain = w.drain /\ o.w.cancelled = w.cancelled
    BY <1>0, <2>2, EndFields
  <2>4. CutOK(o.w)
    BY <2>3 DEF CutOK
  <2>5. Follows(w, o.w)
    BY <2>3, <2>4, AlikeFollows
  <2>6. /\ o.res \in {"errAborted", "cause", "invalid"}
        /\ o.res \in Causes => o.res = w.firstErr /\ ~w.surfaced
    BY <1>1, <2>2, AbortedErrOK
  <2>7. o \in [w : WrType, res : Results]
    BY <2>1, <2>2, <2>3, <2>6 DEF Results, Errors
  <2> QED
    BY <1>1, <2>3, <2>5, <2>6, <2>7 DEF ResOK, Open, Alike
<1>2. CASE ~w.aborted /\ ~CanReserve(w, Estimate(w.active.records))
  <2>1. o = [w |-> w, res |-> "wait"]
    BY <1>2 DEF Reserve
  <2>2. o.w = w /\ o.res = "wait" /\ o \in [w : WrType, res : Results]
    BY <1>0, <2>1 DEF Results
  <2> QED
    BY <1>2, <2>2, FollowsSelf DEF ResOK, Open, Causes
<1>3. CASE ~w.aborted /\ CanReserve(w, Estimate(w.active.records))
  <2>0. w.active.records # 0
    BY <1>3 DEF Core, CutOK
  <2> DEFINE u == Detach(w)
  <2>1. /\ u \in WrType /\ u.active = NoActive
        /\ u.detached = Append(w.detached, [base |-> w.active.base, records |-> w.active.records])
        /\ u.segments = w.segments + 1
        /\ u.committed = w.committed /\ u.nextLSN = w.nextLSN /\ u.ready = w.ready
        /\ u.firstErr = w.firstErr /\ u.surfaced = w.surfaced
        /\ u.closed = w.closed /\ u.aborted = w.aborted /\ u.transition = w.transition
        /\ u.drain = w.drain /\ u.cancelled = w.cancelled
    BY <1>0, DetachFields
  <2>2. u.segments - Len(u.detached) = w.segments - Len(w.detached)
    <3>1. w.segments \in Nat /\ w.detached \in Seq(SegmentType)
      BY <1>0 DEF WrType
    <3>2. Len(u.detached) = Len(w.detached) + 1 /\ Len(w.detached) \in Nat
      BY <2>1, <3>1
    <3> QED
      BY <2>1, <3>1, <3>2
  <2>3. \A b \in Nat : TailOK(w, b) => TailOK(u, b)
    BY <1>0, <2>0, DetachTail
  <2> HIDE DEF u
  <2>4. CASE d
    <3>1. o = [w |-> EndTransition(u), res |-> "ok"]
      BY <1>3, <2>4 DEF Reserve, u
    <3>2. o.w = EndTransition(u) /\ o.res = "ok"
      BY <3>1
    <3>3. /\ o.w \in WrType /\ o.w.transition = "none" /\ Alike(u, o.w)
          /\ o.w.drain = u.drain /\ o.w.cancelled = u.cancelled
      BY <2>1, <3>2, EndFields
    <3>4. Core(o.w)
      BY <2>1, <3>3 DEF Core, ErrOK, CutOK, Alike
    <3>5. Flows(w, o.w)
      BY <1>3, <2>1, <2>2, <2>3, <3>3 DEF Flows, TailOK, Alike
    <3>6. Follows(w, o.w)
      BY <2>1, <3>3, <3>4, <3>5 DEF Follows, Keeps, Blames, Alike
    <3>7. o \in [w : WrType, res : Results] /\ o.w.active.records = 0
      BY <2>1, <3>1, <3>2, <3>3, NoActiveType DEF Results, Alike
    <3> QED
      BY <1>3, <2>1, <3>2, <3>3, <3>6, <3>7 DEF ResOK, Open, Causes, Alike
  <2>5. CASE ~d
    <3>1. \/ o = [w |-> EndTransition(StartSegment(u)), res |-> "ok"]
          \/ o = [w |-> EndTransition([w EXCEPT !.stateWake = TRUE]), res |-> "rejected"]
      BY <1>3, <2>5 DEF Reserve, If, u
    <3>2. CASE o = [w |-> EndTransition(StartSegment(u)), res |-> "ok"]
      <4> DEFINE s == StartSegment(u)
      <4>1. /\ s \in WrType
            /\ s.detached = u.detached /\ s.segments = u.segments
            /\ s.committed = u.committed /\ s.nextLSN = u.nextLSN /\ s.ready = u.ready
            /\ s.firstErr = u.firstErr /\ s.surfaced = u.surfaced
            /\ s.closed = u.closed /\ s.aborted = u.aborted /\ s.transition = u.transition
            /\ s.drain = u.drain /\ s.cancelled = u.cancelled
        BY <2>1, StartFields
      <4>2. \A b \in Nat : TailOK(w, b) => TailOK(s, b)
        BY <2>1, <2>3, StartTail, NoActiveType
      <4> HIDE DEF s
      <4>3. o.w = EndTransition(s) /\ o.res = "ok"
        BY <3>2 DEF s
      <4>4. /\ o.w \in WrType /\ o.w.transition = "none" /\ Alike(s, o.w)
            /\ o.w.drain = s.drain /\ o.w.cancelled = s.cancelled
        BY <4>1, <4>3, EndFields
      <4>5. Core(o.w)
        BY <2>1, <4>1, <4>4 DEF Core, ErrOK, CutOK, Alike
      <4>6. Flows(w, o.w)
        BY <1>3, <2>1, <2>2, <4>1, <4>2, <4>4 DEF Flows, TailOK, Alike
      <4>7. Follows(w, o.w)
        BY <2>1, <4>1, <4>4, <4>5, <4>6 DEF Follows, Keeps, Blames, Alike
      <4>8. o \in [w : WrType, res : Results]
        BY <3>2, <4>3, <4>4 DEF Results
      <4> QED
        BY <1>3, <2>1, <2>5, <4>1, <4>3, <4>4, <4>7, <4>8 DEF ResOK, Open, Causes, Alike
    <3>3. CASE o = [w |-> EndTransition([w EXCEPT !.stateWake = TRUE]), res |-> "rejected"]
      <4> DEFINE s == [w EXCEPT !.stateWake = TRUE]
      <4>1. s \in WrType /\ Alike(w, s) /\ s.drain = w.drain /\ s.cancelled = w.cancelled
        BY <1>0 DEF WrType, Alike
      <4> HIDE DEF s
      <4>2. o.w = EndTransition(s) /\ o.res = "rejected"
        BY <3>3 DEF s
      <4>3. /\ o.w \in WrType /\ o.w.transition = "none" /\ Alike(s, o.w)
            /\ o.w.drain = s.drain /\ o.w.cancelled = s.cancelled
        BY <4>1, <4>2, EndFields
      <4>4. Alike(w, o.w) /\ CutOK(o.w)
        BY <4>1, <4>3 DEF Alike, CutOK
      <4>5. Follows(w, o.w)
        BY <4>1, <4>3, <4>4, AlikeFollows
      <4>6. o \in [w : WrType, res : Results]
        BY <3>3, <4>2, <4>3 DEF Results
      <4> QED
        BY <1>3, <4>2, <4>3, <4>4, <4>5, <4>6 DEF ResOK, Open, Causes, Alike
    <3> QED
      BY <3>1, <3>2, <3>3
  <2> QED
    BY <2>4, <2>5
<1> QED
  BY <1>1, <1>2, <1>3

(* cutLocked and detachActiveLocked, from their start.                     *)
LEMMA CutResult ==
  ASSUME NEW w, Core(w), NEW who \in {"client", "ager"}, w.transition = "none",
         NEW d \in BOOLEAN, NEW o \in Cut(w, who, d)
  PROVE  ResOK(w, who, d, o)
<1>0. w \in WrType /\ w.active \in ActiveType
  BY DEF Core, WrType
<1>1. CASE w.closed
  <2>1. o = [w |-> w, res |-> "errClosed"]
    BY <1>1 DEF Cut
  <2>2. o.w = w /\ o.res = "errClosed" /\ o \in [w : WrType, res : Results]
    BY <1>0, <2>1 DEF Results
  <2> QED
    BY <1>1, <2>2, FollowsSelf DEF ResOK, Open, Causes
<1>2. CASE ~w.closed /\ w.aborted
  <2>1. o = [w |-> w, res |-> AbortedErr(w)]
    BY <1>2 DEF Cut
  <2>2. /\ AbortedErr(w) \in {"errAborted", "cause", "invalid"}
        /\ AbortedErr(w) \in Causes => AbortedErr(w) = w.firstErr /\ ~w.surfaced
    BY <1>2, AbortedErrOK
  <2>3. o.w = w /\ o.res = AbortedErr(w) /\ o \in [w : WrType, res : Results]
    BY <1>0, <2>1, <2>2 DEF Results, Errors
  <2> QED
    BY <1>2, <2>2, <2>3, FollowsSelf DEF ResOK, Open
<1>3. CASE ~w.closed /\ ~w.aborted /\ w.active.records = 0
  <2>1. o = [w |-> w, res |-> "ok"]
    BY <1>3 DEF Cut
  <2>2. o.w = w /\ o.res = "ok" /\ o \in [w : WrType, res : Results]
    BY <1>0, <2>1 DEF Results
  <2> QED
    BY <1>3, <2>2, FollowsSelf DEF ResOK, Open, Causes
<1>4. CASE ~w.closed /\ ~w.aborted /\ w.active.records # 0
  <2> DEFINE u == [w EXCEPT !.transition = who]
  <2>1. /\ u \in WrType /\ Alike(w, u) /\ u.transition = who
        /\ u.drain = w.drain /\ u.cancelled = w.cancelled
    BY <1>0 DEF WrType, Alike
  <2>2. w.active.records > 0
    BY <1>0, <1>4 DEF ActiveType
  <2>3. o \in Reserve(u, d)
    BY <1>4 DEF Cut
  <2> HIDE DEF u
  <2>4. CutOK(u)
    BY <2>1, <2>2 DEF CutOK, Alike
  <2>5. Follows(w, u)
    BY <2>1, <2>4, AlikeFollows
  <2>6. Core(u) /\ ~u.closed
    BY <1>4, <2>1, <2>5 DEF Follows, Keeps, Alike
  <2>7. ResOK(u, who, d, o)
    BY <2>1, <2>3, <2>6, ReserveOK
  <2>8. Follows(w, o.w)
    BY <2>5, <2>7, FollowsTrans DEF ResOK
  <2> QED
    BY <2>1, <2>7, <2>8 DEF ResOK, Alike
<1> QED
  BY <1>1, <1>2, <1>3, <1>4

-----------------------------------------------------------------------------
(* The public calls                                                        *)

Mine(w) == Core(w) /\ w.transition \in {"none", "client"}

(* What a cut leaves to the owner's call.                                  *)
LEMMA ResCall ==
  ASSUME NEW w, Mine(w), NEW d, NEW o, ResOK(w, "client", d, o)
  PROVE  /\ Silent(w, o.w) /\ Core(o.w) /\ o.res \in Results \ {"none"}
         /\ o.res = "wait" => o.w.transition = "client"
         /\ o.res # "wait" => o.w.transition = "none"
         /\ o.res \in Open => ~o.w.closed /\ ~o.w.aborted
         /\ o.res \in Causes => o.w.aborted /\ o.res = o.w.firstErr /\ ~o.w.surfaced
         /\ o.res = "ok" /\ d => o.w.active.records = 0
<1>1. Follows(w, o.w) /\ Told(o.w) = Told(w)
  BY ResSilent DEF Mine
<1>2. Core(o.w)
  BY <1>1 DEF Follows, Keeps
<1>3. o.res \in Results \ {"none"}
  BY DEF ResOK
<1> QED
  BY <1>1, <1>2, <1>3 DEF ResOK, Silent, Mine, Open

(* A step on fields the argument is not about is silent.                   *)
LEMMA AlikeSilent ==
  ASSUME NEW w, Core(w), NEW v \in WrType, Alike(w, v), v.transition = w.transition,
         v.drain = w.drain, v.cancelled = w.cancelled
  PROVE  Silent(w, v) /\ Core(v)
<1>1. CutOK(v)
  BY DEF CutOK, Alike, Core
<1>2. Follows(w, v) /\ Told(v) = Told(w)
  BY <1>1, AlikeFollows
<1> QED
  BY <1>2 DEF Silent, Follows, Keeps

(* tryCutAfterAppendLocked leaves the accepted record where it is.         *)
LEMMA AfterAppendOK ==
  ASSUME NEW w, Mine(w), ~w.closed, NEW d, NEW r, ResOK(w, "client", d, r), NEW op,
         NEW o \in AfterAppend(r)
  PROVE  OutOK(w, op, o)
<1>1. /\ Silent(w, r.w) /\ Core(r.w) /\ r.res \in Results \ {"none"}
      /\ r.res = "wait" => r.w.transition = "client"
      /\ r.res # "wait" => r.w.transition = "none"
      /\ r.res \in Open => ~r.w.closed /\ ~r.w.aborted
  BY ResCall
<1>2. Core(w)
  BY DEF Mine
<1>3. CASE r.res = "wait"
  <2>1. o \in At(r.w, "after")
    BY <1>3 DEF AfterAppend
  <2>2. "after" \in OutPcs /\ "after" \in Cutting /\ "after" \notin Draining
    BY DEF OutPcs, Cutting, Draining
  <2>3. ~r.w.closed
    BY <1>1, <1>3 DEF Open
  <2>4. OutOK(r.w, op, o)
    BY <1>1, <1>3, <2>1, <2>2, <2>3, AtOK
  <2> QED
    BY <1>1, <1>2, <2>4, OutTrans
<1>4. CASE r.res # "wait"
  <2> DEFINE v == IF r.res = "ok" THEN r.w ELSE [r.w EXCEPT !.stateWake = TRUE]
  <2>1. o = [w |-> v, pc |-> "idle", answer |-> "appended"]
    BY <1>4 DEF AfterAppend
  <2>2. /\ v \in WrType /\ Alike(r.w, v) /\ v.transition = r.w.transition
        /\ v.drain = r.w.drain /\ v.cancelled = r.w.cancelled
    <3>1. r.w \in WrType
      BY <1>1 DEF Core
    <3>2. CASE r.res = "ok"
      BY <3>1, <3>2 DEF Alike
    <3>3. CASE r.res # "ok"
      BY <3>1, <3>3 DEF Alike, WrType
    <3> QED
      BY <3>2, <3>3
  <2> HIDE DEF v
  <2>3. Silent(r.w, v) /\ Core(v)
    BY <1>1, <2>2, AlikeSilent
  <2>4. o.w = v /\ o.pc = "idle" /\ o.answer = "appended" /\ o.pc \notin Cutting \cup Draining
    BY <2>1 DEF Cutting, Draining
  <2>5. o \in [w : WrType, pc : OutPcs, answer : Answers]
    BY <2>1, <2>2 DEF OutPcs, Answers
  <2>6. Follows(r.w, v) /\ Told(v) = Told(r.w) + 0 /\ v.transition = "none"
    BY <1>1, <1>4, <2>2, <2>3, ToldNat DEF Silent
  <2>7. OutOK(r.w, op, o)
    BY <1>1, <1>4, <2>4, <2>5, <2>6 DEF OutOK, Causes
  <2> QED
    BY <1>1, <1>2, <2>7, OutTrans
<1> QED
  BY <1>3, <1>4

(* The record is accepted: the active segment grows with nextLSN.          *)
LEMMA AcceptedOK ==
  ASSUME NEW w, Core(w), w.transition = "none", ~w.closed, ~w.aborted, w.active.open,
         NEW op, NEW o \in Accepted(w)
  PROVE  OutOK(w, op, o)
<1> DEFINE v == [w EXCEPT !.nextLSN = @ + 1, !.active.records = @ + 1,
                          !.ageWake = @ \/ w.active.records = 0]
<1>1. w \in WrType /\ w.active \in ActiveType /\ w.nextLSN \in Nat /\ w.ageWake \in BOOLEAN
  BY DEF Core, WrType
<1>2. w.active.records \in Nat /\ w.active.base \in Nat
  BY <1>1 DEF ActiveType
<1> DEFINE a == [w.active EXCEPT !.records = w.active.records + 1]
<1>3. /\ a \in ActiveType /\ a.base = w.active.base /\ a.open
      /\ a.records = w.active.records + 1
  BY <1>1, <1>2 DEF ActiveType
<1>4. v = [w EXCEPT !.nextLSN = w.nextLSN + 1, !.active = a,
                    !.ageWake = (w.ageWake \/ w.active.records = 0)]
  BY <1>1 DEF WrType
<1> HIDE DEF a
<1>5. /\ v \in WrType /\ v.active = a /\ v.nextLSN = w.nextLSN + 1
      /\ v.committed = w.committed /\ v.segments = w.segments /\ v.detached = w.detached
      /\ v.ready = w.ready /\ v.firstErr = w.firstErr /\ v.surfaced = w.surfaced
      /\ v.closed = w.closed /\ v.aborted = w.aborted /\ v.transition = w.transition
      /\ v.drain = w.drain /\ v.cancelled = w.cancelled
  <2> HIDE DEF v
  <2>0. w.nextLSN + 1 \in Nat /\ (w.ageWake \/ w.active.records = 0) \in BOOLEAN
    BY <1>1
  <2>1. v \in WrType
    BY <1>1, <1>3, <1>4, <2>0 DEF WrType
  <2> QED
    BY <1>1, <1>4, <2>1 DEF WrType
<1>6. \/ \E r \in Cut(v, "client", FALSE) : o \in AfterAppend(r)
      \/ o \in Answer(v, "appended")
  BY DEF Accepted
<1> HIDE DEF v
<1>7. Core(v)
  BY <1>5 DEF Core, ErrOK, CutOK
<1>8. \A b \in Nat : TailOK(w, b) => TailOK(v, b)
  <2> SUFFICES ASSUME NEW b \in Nat, TailOK(w, b) PROVE TailOK(v, b)
    OBVIOUS
  <2>1. /\ Linked(w.detached, b) /\ w.active.base = End(w.detached, b)
        /\ w.active.base + w.active.records = w.nextLSN
    BY DEF TailOK
  <2>2. a.base + a.records = w.nextLSN + 1
    BY <1>2, <1>3, <2>1
  <2> QED
    BY <1>3, <1>5, <2>1, <2>2 DEF TailOK
<1>9. Silent(w, v)
  <2>1. Flows(w, v)
    BY <1>5, <1>8 DEF Flows
  <2> QED
    BY <1>5, <1>7, <2>1 DEF Silent, Follows, Keeps, Blames, Told
<1>10. OutOK(v, op, o)
  <2>1. CASE o \in Answer(v, "appended")
    <3>1. "appended" \in Answers \ {"none"} /\ "appended" \notin Causes
      BY DEF Answers, Errors, Causes
    <3> QED
      BY <1>5, <1>7, <2>1, <3>1, AnswerOK
  <2>2. ASSUME NEW r \in Cut(v, "client", FALSE), o \in AfterAppend(r) PROVE OutOK(v, op, o)
    <3>1. ResOK(v, "client", FALSE, r)
      BY <1>5, <1>7, CutResult
    <3>2. Mine(v) /\ ~v.closed
      BY <1>5, <1>7 DEF Mine
    <3> QED
      BY <2>2, <3>1, <3>2, AfterAppendOK
  <2> QED
    BY <1>6, <2>1, <2>2
<1> QED
  BY <1>9, <1>10, OutTrans

(* A call whose own error is the terminal cause: it has told it.           *)
LEMMA FailAnswerOK ==
  ASSUME NEW w, Core(w), ~w.closed, ~w.aborted, w.transition = "none", NEW op,
         NEW o \in Answer(Fail(w, "cause", TRUE), "cause")
  PROVE  OutOK(w, op, o)
<1> DEFINE v == Fail(w, "cause", TRUE)
           u == SurfaceReturned(v, "cause")
<1>1. "cause" \in Causes /\ w.firstErr = "none" /\ "cause" \in Answers
  BY DEF Causes, Core, ErrOK, Answers, Errors
<1>2. /\ Keeps(w, v) /\ v.aborted /\ v.firstErr = "cause" /\ v.surfaced
      /\ v.transition = "none" /\ ~v.closed /\ Told(v) = Told(w) + 1
  <2>1. Notes(w, "cause", 1, v)
    BY <1>1, FailTells
  <2> HIDE DEF v
  <2> QED
    BY <1>1, <2>1 DEF Notes
<1>3. o = [w |-> u, pc |-> "idle", answer |-> "cause"]
  BY DEF Answer
<1> HIDE DEF v
<1>4. /\ Follows(v, u) /\ u.transition = v.transition /\ u.firstErr = v.firstErr
      /\ u.surfaced
  <2>1. Core(v)
    BY <1>2 DEF Keeps
  <2>2. /\ Follows(v, u) /\ u.transition = v.transition /\ u.firstErr = v.firstErr
        /\ u.surfaced = (v.surfaced \/ (v.aborted /\ "cause" = v.firstErr))
    BY <2>1, SurfaceFields
  <2> QED
    BY <1>2, <2>2
<1> HIDE DEF u
<1>5. Told(u) = Told(w) + 1
  BY <1>2, <1>4 DEF Told
<1>6. Follows(w, u)
  <2>1. Follows(w, v)
    BY <1>1, <1>2 DEF Follows, Blames
  <2> QED
    BY <1>4, <2>1, FollowsTrans
<1>7. /\ o.w = u /\ o.pc = "idle" /\ o.answer = "cause" /\ o.pc \notin Cutting \cup Draining
      /\ o \in [w : WrType, pc : OutPcs, answer : Answers]
  BY <1>1, <1>3, <1>4 DEF Cutting, Draining, OutPcs, Follows, Keeps, Core
<1> QED
  BY <1>1, <1>2, <1>4, <1>5, <1>6, <1>7 DEF OutOK

(* A call that returns something else than the cause.                      *)
LEMMA PlainAnswerOK ==
  ASSUME NEW w, Core(w), w.transition # "client", NEW op,
         NEW a \in {"appended", "rejected", "errClosed", "cancelled", "ok", "own"},
         NEW o \in Answer(w, a)
  PROVE  OutOK(w, op, o)
<1>1. a \in Answers \ {"none"} /\ a \notin Causes /\ a # "flushed"
  BY DEF Answers, Errors, Causes
<1> QED
  BY <1>1, AnswerOK

(* The record is accepted, rejected, or fails the writer.                  *)
LEMMA WriteRecordOK ==
  ASSUME NEW w, Core(w), w.transition = "none", ~w.closed, ~w.aborted, w.active.open,
         NEW op, NEW o \in WriteRecord(w)
  PROVE  OutOK(w, op, o)
<1>1. \/ o \in Accepted(w) \/ o \in Answer(w, "rejected")
      \/ o \in Answer(Fail(w, "cause", TRUE), "cause")
  BY DEF WriteRecord, If
<1>2. CASE o \in Accepted(w)
  BY <1>2, AcceptedOK
<1>3. CASE o \in Answer(w, "rejected")
  BY <1>3, PlainAnswerOK
<1>4. CASE o \in Answer(Fail(w, "cause", TRUE), "cause")
  BY <1>4, FailAnswerOK
<1> QED
  BY <1>1, <1>2, <1>3, <1>4

(* A segment that starts holds nothing yet.                                *)
LEMMA StartSilent ==
  ASSUME NEW w, Core(w), w.transition = "none", ~w.closed, ~w.active.open
  PROVE  /\ Silent(w, StartSegment(w)) /\ Core(StartSegment(w))
         /\ StartSegment(w).active.open /\ StartSegment(w).transition = "none"
         /\ StartSegment(w).closed = w.closed /\ StartSegment(w).aborted = w.aborted
<1> DEFINE v == StartSegment(w)
<1>1. /\ v \in WrType
      /\ v.active = [base |-> w.nextLSN, records |-> 0, open |-> TRUE, old |-> FALSE]
      /\ v.detached = w.detached /\ v.segments = w.segments
      /\ v.committed = w.committed /\ v.nextLSN = w.nextLSN /\ v.ready = w.ready
      /\ v.firstErr = w.firstErr /\ v.surfaced = w.surfaced
      /\ v.closed = w.closed /\ v.aborted = w.aborted /\ v.transition = w.transition
      /\ v.drain = w.drain /\ v.cancelled = w.cancelled
  BY StartFields DEF Core
<1>2. \A b \in Nat : TailOK(w, b) => TailOK(v, b)
  BY StartTail DEF Core
<1> HIDE DEF v
<1>3. Core(v)
  BY <1>1 DEF Core, ErrOK, CutOK
<1>4. Flows(w, v)
  BY <1>1, <1>2 DEF Flows
<1>5. Silent(w, v)
  BY <1>1, <1>3, <1>4 DEF Silent, Follows, Keeps, Blames, Told
<1> QED
  BY <1>1, <1>3, <1>5 DEF v

(* Append, once the boundary before the record is settled.                 *)
LEMMA AppendRecordOK ==
  ASSUME NEW w, Core(w), w.transition = "none", ~w.closed, ~w.aborted,
         NEW op, NEW o \in AppendRecord(w)
  PROVE  OutOK(w, op, o)
<1>1. CASE w.active.open
  BY <1>1, WriteRecordOK DEF AppendRecord
<1>2. CASE ~w.active.open
  <2>1. o \in WriteRecord(StartSegment(w)) \/ o \in Answer(w, "rejected")
    BY <1>2 DEF AppendRecord, If
  <2>2. CASE o \in Answer(w, "rejected")
    BY <2>2, PlainAnswerOK
  <2>3. CASE o \in WriteRecord(StartSegment(w))
    <3>1. /\ Silent(w, StartSegment(w)) /\ Core(StartSegment(w))
          /\ StartSegment(w).active.open /\ StartSegment(w).transition = "none"
          /\ ~StartSegment(w).closed /\ ~StartSegment(w).aborted
      BY <1>2, StartSilent
    <3>2. OutOK(StartSegment(w), op, o)
      BY <2>3, <3>1, WriteRecordOK
    <3> QED
      BY <3>1, <3>2, OutTrans
  <2> QED
    BY <2>1, <2>2, <2>3
<1> QED
  BY <1>1, <1>2

(* Append, after the cut before the record.                                *)
LEMMA AfterCutBeforeOK ==
  ASSUME NEW w, Mine(w), NEW r, ResOK(w, "client", FALSE, r), NEW op, NEW o \in AfterCutBefore(r)
  PROVE  OutOK(w, op, o)
<1>1. /\ Silent(w, r.w) /\ Core(r.w) /\ r.res \in Results \ {"none"}
      /\ r.res = "wait" => r.w.transition = "client"
      /\ r.res # "wait" => r.w.transition = "none"
      /\ r.res \in Open => ~r.w.closed /\ ~r.w.aborted
      /\ r.res \in Causes => r.w.aborted /\ r.res = r.w.firstErr /\ ~r.w.surfaced
  BY ResCall
<1>2. CASE r.res = "wait"
  <2>1. o \in At(r.w, "reserve")
    BY <1>2 DEF AfterCutBefore
  <2>2. "reserve" \in OutPcs /\ "reserve" \in Cutting /\ "reserve" \notin Draining
    BY DEF OutPcs, Cutting, Draining
  <2>3. ~r.w.closed
    BY <1>1, <1>2 DEF Open
  <2> QED
    BY <1>1, <1>2, <2>1, <2>2, <2>3, AtOK, OutTrans DEF Mine
<1>3. CASE r.res = "ok"
  <2>1. o \in AppendRecord(r.w)
    BY <1>3 DEF AfterCutBefore
  <2>2. OutOK(r.w, op, o)
    BY <1>1, <1>3, <2>1, AppendRecordOK DEF Open
  <2> QED
    BY <1>1, <2>2, OutTrans DEF Mine
<1>4. CASE r.res \notin {"wait", "ok"}
  <2>1. o \in Answer(r.w, r.res)
    BY <1>4 DEF AfterCutBefore
  <2>2. r.res \in Answers \ {"none"} /\ r.res # "flushed"
    BY <1>1, <1>4 DEF Results, Answers, Errors
  <2>3. OutOK(r.w, op, o)
    BY <1>1, <1>4, <2>1, <2>2, AnswerOK
  <2> QED
    BY <1>1, <2>3, OutTrans DEF Mine
<1> QED
  BY <1>2, <1>3, <1>4

(* Append, once no transition is in progress.                              *)
LEMMA AppendCallOK ==
  ASSUME NEW w, Core(w), w.transition = "none", NEW op, NEW o \in AppendCall(w)
  PROVE  OutOK(w, op, o)
<1>1. CASE w.closed
  BY <1>1, PlainAnswerOK DEF AppendCall
<1>2. CASE ~w.closed /\ w.aborted
  <2>1. o \in Answer(w, AbortedErr(w))
    BY <1>2 DEF AppendCall
  <2>2. /\ AbortedErr(w) \in {"errAborted", "cause", "invalid"}
        /\ AbortedErr(w) \in Causes => AbortedErr(w) = w.firstErr /\ ~w.surfaced
    BY <1>2, AbortedErrOK
  <2>3. AbortedErr(w) \in Answers \ {"none"} /\ AbortedErr(w) # "flushed"
    BY <2>2 DEF Answers, Errors
  <2> QED
    BY <1>2, <2>1, <2>2, <2>3, AnswerOK
<1>3. CASE ~w.closed /\ ~w.aborted
  <2>1. \/ o \in Answer(Fail(w, "cause", TRUE), "cause")
        \/ \E r \in Cut(w, "client", FALSE) : o \in AfterCutBefore(r)
        \/ o \in AppendRecord(w)
        \/ o \in Answer(w, "rejected")
    BY <1>3 DEF AppendCall, If
  <2>2. CASE o \in Answer(Fail(w, "cause", TRUE), "cause")
    BY <1>3, <2>2, FailAnswerOK
  <2>3. ASSUME NEW r \in Cut(w, "client", FALSE), o \in AfterCutBefore(r)
        PROVE  OutOK(w, op, o)
    <3>1. ResOK(w, "client", FALSE, r) /\ Mine(w)
      BY CutResult DEF Mine
    <3> QED
      BY <2>3, <3>1, AfterCutBeforeOK
  <2>4. CASE o \in AppendRecord(w)
    BY <1>3, <2>4, AppendRecordOK
  <2>5. CASE o \in Answer(w, "rejected")
    BY <2>5, PlainAnswerOK
  <2> QED
    BY <2>1, <2>2, <2>3, <2>4, <2>5
<1> QED
  BY <1>1, <1>2, <1>3

(* Cut, after the cut.                                                     *)
LEMMA AfterCutOK ==
  ASSUME NEW w, Mine(w), NEW r, ResOK(w, "client", FALSE, r), NEW op, NEW o \in AfterCut(r)
  PROVE  OutOK(w, op, o)
<1>1. /\ Silent(w, r.w) /\ Core(r.w) /\ r.res \in Results \ {"none"}
      /\ r.res = "wait" => r.w.transition = "client"
      /\ r.res # "wait" => r.w.transition = "none"
      /\ r.res \in Open => ~r.w.closed /\ ~r.w.aborted
      /\ r.res \in Causes => r.w.aborted /\ r.res = r.w.firstErr /\ ~r.w.surfaced
  BY ResCall
<1>2. CASE r.res = "wait"
  <2>1. o \in At(r.w, "reserve")
    BY <1>2 DEF AfterCut
  <2>2. "reserve" \in OutPcs /\ "reserve" \in Cutting /\ "reserve" \notin Draining
    BY DEF OutPcs, Cutting, Draining
  <2>3. ~r.w.closed
    BY <1>1, <1>2 DEF Open
  <2> QED
    BY <1>1, <1>2, <2>1, <2>2, <2>3, AtOK, OutTrans DEF Mine
<1>3. CASE r.res # "wait"
  <2>1. o \in Answer(r.w, r.res)
    BY <1>3 DEF AfterCut
  <2>2. r.res \in Answers \ {"none"} /\ r.res # "flushed"
    BY <1>1, <1>3 DEF Results, Answers, Errors
  <2>3. OutOK(r.w, op, o)
    BY <1>1, <1>3, <2>1, <2>2, AnswerOK
  <2> QED
    BY <1>1, <2>3, OutTrans DEF Mine
<1> QED
  BY <1>2, <1>3

(* An empty active segment is taken out: no record goes with it.           *)
LEMMA TakeEmptyOK ==
  ASSUME NEW w, Core(w), w.transition = "none", ~w.closed, ~w.aborted, w.active.records = 0,
         NEW op \in {"flush", "close"}, NEW o \in TakeEmpty(w)
  PROVE  OutOK(w, op, o)
<1>0. w.active \in ActiveType /\ w \in WrType
  BY DEF Core, WrType
<1>1. CASE w.active.open
  <2> DEFINE v == [w EXCEPT !.active = NoActive]
  <2>1. o \in At(v, "empty")
    BY <1>1 DEF TakeEmpty
  <2>2. /\ v \in WrType /\ v.active = NoActive /\ v.nextLSN = w.nextLSN
        /\ v.committed = w.committed /\ v.segments = w.segments /\ v.detached = w.detached
        /\ v.ready = w.ready /\ v.firstErr = w.firstErr /\ v.surfaced = w.surfaced
        /\ v.closed = w.closed /\ v.aborted = w.aborted /\ v.transition = w.transition
        /\ v.drain = w.drain /\ v.cancelled = w.cancelled
    BY <1>0, NoActiveType DEF WrType
  <2> HIDE DEF v
  <2>3. Core(v)
    BY <2>2 DEF Core, ErrOK, CutOK
  <2>4. \A b \in Nat : TailOK(w, b) => TailOK(v, b)
    <3> SUFFICES ASSUME NEW b \in Nat, TailOK(w, b) PROVE TailOK(v, b)
      OBVIOUS
    <3>1. /\ Linked(w.detached, b) /\ w.active.base = End(w.detached, b)
          /\ w.active.base + w.active.records = w.nextLSN
      BY <1>1 DEF TailOK
    <3>2. w.active.base = w.nextLSN
      BY <1>0, <3>1 DEF ActiveType
    <3> QED
      BY <2>2, <3>1, <3>2, NoActiveType DEF TailOK
  <2>5. Silent(w, v)
    <3>1. Flows(w, v)
      BY <2>2, <2>4 DEF Flows
    <3> QED
      BY <2>2, <2>3, <3>1 DEF Silent, Follows, Keeps, Blames, Told
  <2>6. "empty" \in OutPcs /\ "empty" \notin Cutting /\ "empty" \in Draining
    BY DEF OutPcs, Cutting, Draining
  <2>7. OutOK(v, op, o)
    BY <2>1, <2>2, <2>3, <2>6, AtOK, NoActiveType
  <2> QED
    BY <2>5, <2>7, OutTrans
<1>2. CASE ~w.active.open
  <2>1. o \in At(w, "drained")
    BY <1>2 DEF TakeEmpty
  <2>2. "drained" \in OutPcs /\ "drained" \notin Cutting /\ "drained" \in Draining
    BY DEF OutPcs, Cutting, Draining
  <2> QED
    BY <1>2, <2>1, <2>2, AtOK
<1> QED
  BY <1>1, <1>2

(* Flush and Close, after the active segment was detached.                 *)
LEMMA AfterDetachOK ==
  ASSUME NEW w, Mine(w), NEW r, ResOK(w, "client", TRUE, r), NEW op \in {"flush", "close"},
         NEW o \in AfterDetach(r, op)
  PROVE  OutOK(w, op, o)
<1>1. /\ Silent(w, r.w) /\ Core(r.w) /\ r.res \in Results \ {"none"}
      /\ r.res = "wait" => r.w.transition = "client"
      /\ r.res # "wait" => r.w.transition = "none"
      /\ r.res \in Open => ~r.w.closed /\ ~r.w.aborted
      /\ r.res \in Causes => r.w.aborted /\ r.res = r.w.firstErr /\ ~r.w.surfaced
      /\ r.res = "ok" /\ TRUE => r.w.active.records = 0
  <2>1. PICK d \in BOOLEAN : d
    OBVIOUS
  <2>2. ResOK(w, "client", d, r)
    BY <2>1 DEF ResOK
  <2> QED
    BY <2>1, <2>2, ResCall
<1>2. CASE r.res = "wait"
  <2>1. o \in At(r.w, "reserve")
    BY <1>2 DEF AfterDetach
  <2>2. "reserve" \in OutPcs /\ "reserve" \in Cutting /\ "reserve" \notin Draining
    BY DEF OutPcs, Cutting, Draining
  <2>3. ~r.w.closed
    BY <1>1, <1>2 DEF Open
  <2> QED
    BY <1>1, <1>2, <2>1, <2>2, <2>3, AtOK, OutTrans DEF Mine
<1>3. CASE r.res = "ok"
  <2>1. o \in TakeEmpty(r.w)
    BY <1>3 DEF AfterDetach
  <2>2. OutOK(r.w, op, o)
    BY <1>1, <1>3, <2>1, TakeEmptyOK DEF Open
  <2> QED
    BY <1>1, <2>2, OutTrans DEF Mine
<1>4. CASE r.res \notin {"wait", "ok"}
  <2>1. o \in EndErr(r.w, op, r.res)
    BY <1>4 DEF AfterDetach
  <2>2. r.res \in Answers \ {"none", "flushed"}
    BY <1>1, <1>4 DEF Results, Answers, Errors
  <2>3. OutOK(r.w, op, o)
    BY <1>1, <1>4, <2>1, <2>2, EndErrOK
  <2> QED
    BY <1>1, <2>3, OutTrans DEF Mine
<1> QED
  BY <1>2, <1>3, <1>4

(* waitDrainedLocked: Flush returns and Close ends the writer only when    *)
(* nothing is queued.                                                      *)
LEMMA WaitDrainedOK ==
  ASSUME NEW w, Core(w), w.transition # "client", ~w.closed, ~w.active.open,
         NEW op \in {"flush", "close"}, NEW o \in WaitDrained(w, op)
  PROVE  OutOK(w, op, o)
<1>0. w \in WrType
  BY DEF Core
<1>1. CASE w.aborted
  <2>1. o \in EndErr(w, op, AbortedErr(w))
    BY <1>1 DEF WaitDrained
  <2>2. /\ AbortedErr(w) \in {"errAborted", "cause", "invalid"}
        /\ AbortedErr(w) \in Causes => AbortedErr(w) = w.firstErr /\ ~w.surfaced
    BY <1>1, AbortedErrOK
  <2>3. AbortedErr(w) \in Answers \ {"none", "flushed"}
    BY <2>2 DEF Answers, Errors
  <2> QED
    BY <1>1, <2>1, <2>2, <2>3, EndErrOK
<1>2. CASE ~w.aborted /\ w.segments # 0
  <2>1. o \in At(w, "waitDrained")
    BY <1>2 DEF WaitDrained
  <2>2. "waitDrained" \in OutPcs /\ "waitDrained" \notin Cutting /\ "waitDrained" \in Draining
    BY DEF OutPcs, Cutting, Draining
  <2> QED
    BY <2>1, <2>2, AtOK
<1>3. CASE ~w.aborted /\ w.segments = 0 /\ op = "close"
  <2> DEFINE u == [w EXCEPT !.closed = TRUE]
             v == StartDrain(u, 0)
  <2>1. o \in At(v, "join")
    BY <1>3 DEF WaitDrained
  <2>2. /\ u \in WrType /\ u.closed /\ u.transition = w.transition
        /\ u.drain = w.drain /\ u.cancelled = w.cancelled
        /\ u.committed = w.committed /\ u.nextLSN = w.nextLSN /\ u.active = w.active
        /\ u.segments = w.segments /\ u.detached = w.detached /\ u.ready = w.ready
        /\ u.firstErr = w.firstErr /\ u.surfaced = w.surfaced /\ u.aborted = w.aborted
    BY <1>0 DEF WrType
  <2> HIDE DEF u
  <2>3. /\ v \in WrType /\ Alike(u, v) /\ v.transition = u.transition
        /\ v.drain = IF u.drain = "off" THEN "cleanup" ELSE u.drain
        /\ v.cancelled = (u.drain = "off" \/ u.cancelled)
    BY <2>2, StartDrainFields
  <2> HIDE DEF v
  <2>4. Core(v)
    BY <1>3, <2>2, <2>3 DEF Core, ErrOK, CutOK, Alike
  <2>5. Done(v) /\ v.closed /\ v.transition = w.transition
    BY <1>3, <2>2, <2>3 DEF Done, Alike
  <2>6. Silent(w, v)
    <3>1. Flows(w, v)
      BY <1>3, <2>2, <2>3 DEF Flows, Alike, TailOK
    <3> QED
      BY <2>2, <2>3, <2>4, <2>5, <3>1 DEF Silent, Follows, Keeps, Blames, Told, Alike
  <2>7. "join" \in OutPcs /\ "join" \notin Cutting \cup Draining
    BY DEF OutPcs, Cutting, Draining
  <2>8. OutOK(v, op, o)
    BY <2>1, <2>4, <2>5, <2>7, AtOK
  <2> QED
    BY <2>6, <2>8, OutTrans
<1>4. CASE ~w.aborted /\ w.segments = 0 /\ op # "close"
  <2>1. o \in Answer(w, "flushed")
    BY <1>4 DEF WaitDrained
  <2>2. "flushed" \in Answers \ {"none"} /\ "flushed" \notin Causes
    BY DEF Answers, Errors, Causes
  <2> QED
    BY <1>4, <2>1, <2>2, AnswerOK DEF Done
<1> QED
  BY <1>1, <1>2, <1>3, <1>4

Ops == {"append", "cut", "flush", "close", "abort"}

(* A call behind waitActiveTransitionLocked.                               *)
LEMMA ThroughOK ==
  ASSUME NEW w, Core(w), w.transition = "none", NEW op \in Ops \ {"abort"}, NEW o \in Through(w, op)
  PROVE  OutOK(w, op, o)
<1>0. Mine(w)
  BY DEF Mine
<1>1. CASE op = "append"
  BY <1>1, AppendCallOK DEF Through
<1>2. CASE op = "cut"
  <2>1. PICK r \in Cut(w, "client", FALSE) : o \in AfterCut(r)
    BY <1>2 DEF Through
  <2>2. ResOK(w, "client", FALSE, r)
    BY CutResult
  <2> QED
    BY <1>0, <2>1, <2>2, AfterCutOK
<1>3. CASE op \in {"flush", "close"}
  <2>1. PICK r \in Cut(w, "client", TRUE) : o \in AfterDetach(r, op)
    BY <1>3 DEF Through
  <2>2. ResOK(w, "client", TRUE, r)
    BY CutResult
  <2> QED
    BY <1>0, <1>3, <2>1, <2>2, AfterDetachOK
<1> QED
  BY <1>1, <1>2, <1>3 DEF Ops

(* A call that may have to wait for a transition.                          *)
LEMMA TransitionOK ==
  ASSUME NEW w, Core(w), w.transition # "client", NEW op \in Ops \ {"abort"},
         NEW o \in Transition(w, op)
  PROVE  OutOK(w, op, o)
<1>1. CASE w.transition = "none"
  BY <1>1, ThroughOK DEF Transition
<1>2. CASE w.transition # "none"
  <2>1. o \in At(w, "transition")
    BY <1>2 DEF Transition
  <2>2. "transition" \in OutPcs /\ "transition" \notin Cutting \cup Draining
    BY DEF OutPcs, Cutting, Draining
  <2> QED
    BY <2>1, <2>2, AtOK
<1> QED
  BY <1>1, <1>2

(* A call on a writer that has ended.                                      *)
LEMMA ForegroundErrOK ==
  ASSUME NEW w, Core(w), w.transition # "client", w.closed \/ w.aborted, NEW op,
         NEW o \in ForegroundErr(w)
  PROVE  OutOK(w, op, o)
<1>1. CASE w.closed
  <2>1. o \in Answer(w, "errClosed")
    BY <1>1 DEF ForegroundErr
  <2> QED
    BY <2>1, PlainAnswerOK
<1>2. CASE ~w.closed
  <2>1. o \in Answer(w, AbortedErr(w))
    BY <1>2 DEF ForegroundErr
  <2>2. /\ AbortedErr(w) \in {"errAborted", "cause", "invalid"}
        /\ AbortedErr(w) \in Causes => AbortedErr(w) = w.firstErr /\ ~w.surfaced
    BY <1>2, AbortedErrOK
  <2>3. AbortedErr(w) \in Answers \ {"none"} /\ AbortedErr(w) # "flushed"
    BY <2>2 DEF Answers, Errors
  <2> QED
    BY <1>2, <2>1, <2>2, <2>3, AnswerOK
<1> QED
  BY <1>1, <1>2

(* Close and Abort of a writer that has failed.                            *)
LEMMA CloseAbortedOK ==
  ASSUME NEW w, Core(w), w.transition # "client", w.aborted, NEW op, NEW o \in CloseAborted(w)
  PROVE  OutOK(w, op, o)
<1>1. o = [w |-> SurfaceReturned(w, AbortedErr(w)), pc |-> "join", answer |-> AbortedErr(w)]
  BY DEF CloseAborted
<1>2. /\ AbortedErr(w) \in {"errAborted", "cause", "invalid"}
      /\ AbortedErr(w) \in Causes => AbortedErr(w) = w.firstErr /\ ~w.surfaced
  BY AbortedErrOK
<1>3. AbortedErr(w) \in Answers \ {"none"} /\ AbortedErr(w) # "flushed"
  BY <1>2 DEF Answers, Errors
<1> QED
  BY <1>1, <1>2, <1>3, ReturnOK

(* Abort is the first error of a writer that had none, and tells nobody.   *)
LEMMA AbortCallOK ==
  ASSUME NEW w, Core(w), w.transition # "client", NEW o \in AbortCall(w)
  PROVE  OutOK(w, "abort", o)
<1>0. "join" \in OutPcs /\ "join" \notin Cutting \cup Draining /\ w \in WrType
  BY DEF OutPcs, Cutting, Draining, Core
<1>1. CASE o \in At(w, "join")
  BY <1>0, <1>1, AtOK
<1>2. CASE w.aborted /\ o \in CloseAborted(w)
  BY <1>2, CloseAbortedOK
<1>3. CASE ~w.closed /\ ~w.aborted
  <2> DEFINE u == [w EXCEPT !.firstErr = "errAborted", !.surfaced = TRUE]
             v == Shutdown(u, Writers(w))
  <2>1. o \in At(v, "join")
    BY <1>3 DEF AbortCall
  <2>2. /\ u \in WrType /\ u.firstErr = "errAborted" /\ u.surfaced /\ ~u.closed
        /\ u.committed = w.committed /\ u.transition = w.transition
        /\ u.drain = w.drain /\ u.cancelled = w.cancelled
    BY <1>0, <1>3 DEF WrType, Errors
  <2>3. PICK h \in Int : v = Shutdown(u, h)
    BY <1>0, WritersInt
  <2> HIDE DEF u, v
  <2>4. /\ v \in WrType /\ v.aborted /\ v.active = NoActive
        /\ v.committed = u.committed /\ v.nextLSN = u.nextLSN /\ v.segments = u.segments
        /\ v.firstErr = u.firstErr /\ v.surfaced = u.surfaced /\ v.closed = u.closed
        /\ v.transition = u.transition
        /\ v.drain = IF u.drain = "off" THEN "cleanup" ELSE u.drain
        /\ v.cancelled = (u.drain = "off" \/ u.cancelled)
    <3>1. u \in WrType /\ h \in Int /\ v = Shutdown(u, h)
      BY <2>2, <2>3
    <3>2. v \in WrType /\ v.aborted /\ v.active = NoActive
      BY <3>1, ShutdownFields
    <3>3. v.committed = u.committed /\ v.nextLSN = u.nextLSN /\ v.segments = u.segments
      BY <3>1, ShutdownFields
    <3>4. v.firstErr = u.firstErr /\ v.surfaced = u.surfaced /\ v.closed = u.closed
          /\ v.transition = u.transition
      BY <3>1, ShutdownFields
    <3>5. v.drain = IF u.drain = "off" THEN "cleanup" ELSE u.drain
      BY <3>1, ShutdownFields
    <3>6. v.cancelled = (u.drain = "off" \/ u.cancelled)
      BY <3>1, ShutdownFields
    <3> QED
      BY <3>2, <3>3, <3>4, <3>5, <3>6
  <2>5. Core(v) /\ ~v.closed
    BY <2>2, <2>4 DEF Core, ErrOK, CutOK
  <2>6. w.firstErr = "none"
    BY <1>3 DEF Core, ErrOK
  <2>7. Told(v) = 0 /\ Told(w) = 0
    BY <2>2, <2>4, <2>6 DEF Told, Causes
  <2>8. Silent(w, v)
    BY <1>3, <2>2, <2>4, <2>5, <2>6, <2>7 DEF Silent, Follows, Keeps, Blames, Flows
  <2>9. OutOK(v, "abort", o)
    BY <1>0, <2>1, <2>2, <2>4, <2>5, AtOK
  <2> QED
    BY <2>8, <2>9, OutTrans
<1> QED
  BY <1>1, <1>2, <1>3 DEF AbortCall

(* Every call, up to where it first waits.                                 *)
LEMMA EnterOK ==
  ASSUME NEW w, Core(w), w.transition # "client", NEW op \in Ops, NEW o \in Enter(w, op)
  PROVE  OutOK(w, op, o)
<1>1. CASE op = "append"
  <2>1. o \in Transition(w, op)
    BY <1>1 DEF Enter
  <2> QED
    BY <1>1, <2>1, TransitionOK DEF Ops
<1>2. CASE op = "abort"
  <2>1. o \in AbortCall(w)
    BY <1>2 DEF Enter
  <2> QED
    BY <1>2, <2>1, AbortCallOK
<1>3. CASE op = "close" /\ w.closed
  <2>1. o \in At(w, "join")
    BY <1>3 DEF Enter
  <2>2. "join" \in OutPcs /\ "join" \notin Cutting \cup Draining
    BY DEF OutPcs, Cutting, Draining
  <2> QED
    BY <1>3, <2>1, <2>2, AtOK
<1>4. CASE op = "close" /\ ~w.closed /\ w.aborted
  <2>1. o \in CloseAborted(w)
    BY <1>4 DEF Enter
  <2> QED
    BY <1>4, <2>1, CloseAbortedOK
<1>5. CASE op \in {"cut", "flush"} /\ (w.closed \/ w.aborted)
  <2>1. o \in ForegroundErr(w)
    BY <1>5 DEF Enter
  <2> QED
    BY <1>5, <2>1, ForegroundErrOK
<1>6. CASE op = "cut" /\ ~w.closed /\ ~w.aborted
  <2>1. o \in Transition(w, op)
    BY <1>6 DEF Enter
  <2> QED
    BY <1>6, <2>1, TransitionOK DEF Ops
<1>7. CASE op \in {"flush", "close"} /\ ~w.closed /\ ~w.aborted
  <2>1. o \in IF w.active.records > 0 THEN Transition(w, op) ELSE TakeEmpty(w)
    BY <1>7 DEF Enter
  <2>2. CASE w.active.records > 0
    BY <1>7, <2>1, <2>2, TransitionOK DEF Ops
  <2>3. CASE ~(w.active.records > 0)
    <3>1. w.active \in ActiveType
      BY DEF Core, WrType
    <3>2. w.active.records = 0
      BY <2>3, <3>1 DEF ActiveType
    <3>3. w.transition = "none"
      BY <1>7, <2>3 DEF Core, CutOK
    <3> QED
      BY <1>7, <2>1, <2>3, <3>2, <3>3, TakeEmptyOK
  <2> QED
    BY <2>2, <2>3
<1> QED
  BY <1>1, <1>2, <1>3, <1>4, <1>5, <1>6, <1>7 DEF Ops

(* A call whose reservation goes round again.                              *)
LEMMA AgainOK ==
  ASSUME NEW w, Core(w), w.transition = "client", ~w.closed, NEW op \in Ops \ {"abort"},
         NEW pc \in Cutting, NEW o \in Again(w, op, pc)
  PROVE  OutOK(w, op, o)
<1>0. Mine(w)
  BY DEF Mine
<1>1. CASE pc = "after"
  <2>1. PICK r \in Reserve(w, FALSE) : o \in AfterAppend(r)
    BY <1>1 DEF Again
  <2>2. ResOK(w, "client", FALSE, r)
    BY ReserveOK
  <2> QED
    BY <1>0, <2>1, <2>2, AfterAppendOK
<1>2. CASE pc = "reserve" /\ op = "append"
  <2>1. PICK r \in Reserve(w, FALSE) : o \in AfterCutBefore(r)
    BY <1>2 DEF Again
  <2>2. ResOK(w, "client", FALSE, r)
    BY ReserveOK
  <2> QED
    BY <1>0, <2>1, <2>2, AfterCutBeforeOK
<1>3. CASE pc = "reserve" /\ op = "cut"
  <2>1. PICK r \in Reserve(w, FALSE) : o \in AfterCut(r)
    BY <1>3 DEF Again
  <2>2. ResOK(w, "client", FALSE, r)
    BY ReserveOK
  <2> QED
    BY <1>0, <2>1, <2>2, AfterCutOK
<1>4. CASE pc = "reserve" /\ op \in {"flush", "close"}
  <2>1. PICK r \in Reserve(w, TRUE) : o \in AfterDetach(r, op)
    BY <1>4 DEF Again
  <2>2. ResOK(w, "client", TRUE, r)
    BY ReserveOK
  <2> QED
    BY <1>0, <1>4, <2>1, <2>2, AfterDetachOK
<1> QED
  BY <1>1, <1>2, <1>3, <1>4 DEF Ops, Cutting

(* A wait given up: the transition ends, an accepted record stays.         *)
LEMMA CancelledOK ==
  ASSUME NEW w, Core(w), NEW op \in Ops, NEW pc \in {"transition", "waitDrained"} \cup Cutting,
         pc \in Cutting <=> w.transition = "client", NEW o \in Cancelled(w, op, pc)
  PROVE  OutOK(w, op, o)
<1>0. w \in WrType
  BY DEF Core
<1> DEFINE u == EndTransition(w)
<1>1. /\ u \in WrType /\ u.transition = "none" /\ Alike(w, u)
      /\ u.drain = w.drain /\ u.cancelled = w.cancelled
  BY <1>0, EndFields
<1> HIDE DEF u
<1>2. CutOK(u)
  BY <1>1 DEF CutOK
<1>3. Follows(w, u) /\ Told(u) = Told(w)
  BY <1>1, <1>2, AlikeFollows
<1>4. Core(u)
  BY <1>3 DEF Follows, Keeps
<1>5. "cancelled" \in Answers \ {"none", "flushed"} /\ "cancelled" \notin Causes
  BY DEF Answers, Errors, Causes
<1>6. CASE pc = "after"
  <2>1. Silent(w, u)
    BY <1>1, <1>3, <1>6 DEF Silent, Cutting
  <2> DEFINE v == [u EXCEPT !.stateWake = TRUE]
             r == [w |-> u, res |-> "cancelled"]
  <2>2. o \in AfterAppend(r)
    BY <1>6 DEF Cancelled, u
  <2>3. o = [w |-> v, pc |-> "idle", answer |-> "appended"]
    BY <2>2 DEF AfterAppend
  <2>4. /\ v \in WrType /\ Alike(u, v) /\ v.transition = u.transition
        /\ v.drain = u.drain /\ v.cancelled = u.cancelled
    BY <1>1 DEF WrType, Alike
  <2> HIDE DEF v, r
  <2>5. Silent(u, v) /\ Core(v)
    BY <1>4, <2>4, AlikeSilent
  <2>6. /\ o.w = v /\ o.pc = "idle" /\ o.answer = "appended"
        /\ o.pc \notin Cutting \cup Draining
        /\ o \in [w : WrType, pc : OutPcs, answer : Answers]
    BY <2>3, <2>4 DEF Cutting, Draining, OutPcs, Answers
  <2>7. Follows(u, v) /\ Told(v) = Told(u) + 0 /\ v.transition = "none"
    BY <1>1, <2>4, <2>5, ToldNat DEF Silent
  <2>8. OutOK(u, op, o)
    BY <1>1, <2>6, <2>7 DEF OutOK, Causes
  <2> QED
    BY <2>1, <2>8, OutTrans
<1>7. CASE pc = "reserve"
  <2>1. Silent(w, u)
    BY <1>1, <1>3, <1>7 DEF Silent, Cutting
  <2>2. o \in EndErr(u, op, "cancelled")
    BY <1>7 DEF Cancelled, u
  <2>3. OutOK(u, op, o)
    BY <1>1, <1>4, <1>5, <2>2, EndErrOK
  <2> QED
    BY <2>1, <2>3, OutTrans
<1>8. CASE pc \in {"transition", "waitDrained"}
  <2>1. o \in EndErr(w, op, "cancelled") /\ w.transition # "client"
    BY <1>8 DEF Cancelled, Cutting
  <2> QED
    BY <1>5, <2>1, EndErrOK
<1> QED
  BY <1>6, <1>7, <1>8 DEF Cutting

(* As OutOK, for a call that may blame an invalid answer.                  *)
OutKeeps(w, op, o) ==
  /\ o \in [w : WrType, pc : OutPcs, answer : Answers]
  /\ Keeps(w, o.w)
  /\ Told(o.w) = Told(w) + (IF o.answer \in Causes THEN 1 ELSE 0)
  /\ o.pc \in Cutting <=> o.w.transition = "client"
  /\ o.w.transition = "ager" <=> w.transition = "ager"
  /\ o.pc \in Cutting \cup Draining => ~o.w.closed
  /\ o.pc \in Draining => ~o.w.active.open /\ op \in {"flush", "close"}
  /\ o.answer = "flushed" => Done(o.w)
  /\ o.pc = "join" => o.answer # "flushed" /\ (op = "close" /\ o.answer = "none" => o.w.closed)

(* What the invariant needs of an outcome.                                 *)
LEMMA OutOKKeeps ==
  ASSUME NEW w, NEW op, NEW o, OutOK(w, op, o) PROVE OutKeeps(w, op, o) /\ Blames(w, o.w)
BY DEF OutOK, OutKeeps, Follows

FirstErr(w, err, v) == v.firstErr = IF w.firstErr = "none" THEN err ELSE w.firstErr

(* noteForegroundErr: the call returns its own error, which is the cause   *)
(* unless the writer had one.                                              *)
LEMMA OwnErrOK ==
  ASSUME NEW w, Core(w), ~w.closed, w.transition # "client", NEW op, NEW err \in Causes,
         NEW v, Notes(w, err, 1, v), NEW o \in EndErr(v, op, OwnErr(w, err))
  PROVE  OutKeeps(w, op, o) /\ FirstErr(w, err, o.w)
<1> DEFINE a == OwnErr(w, err)
           u == SurfaceReturned(v, a)
<1>0. PICK pc \in {"idle", "join"} : o = [w |-> u, pc |-> pc, answer |-> a]
  BY DEF EndErr, Answer
<1>1. a = (IF w.firstErr = "none" THEN err ELSE "own") /\ err \in {"cause", "invalid"}
  BY DEF OwnErr, Causes
<1>2. a \in Answers /\ a \notin {"none", "flushed"} /\ (a \in Causes <=> w.firstErr = "none")
  BY <1>1 DEF Answers, Errors, Causes
<1> HIDE DEF a
<1>3. /\ Keeps(w, v) /\ v.aborted /\ v.transition = w.transition /\ ~v.closed
      /\ v.firstErr = IF w.firstErr = "none" THEN err ELSE w.firstErr
      /\ v.surfaced = (IF w.firstErr = "none" THEN TRUE ELSE w.surfaced)
      /\ Told(v) = Told(w) + (IF w.firstErr = "none" THEN 1 ELSE 0)
  BY DEF Notes
<1>4. o.w = u /\ o.pc = pc /\ o.answer = a /\ o = [w |-> u, pc |-> pc, answer |-> a]
  BY <1>0
<1>5. Core(v) /\ v.surfaced \in BOOLEAN
  BY <1>3 DEF Keeps, Core, WrType
<1>6. /\ Follows(v, u) /\ u.transition = v.transition /\ u.firstErr = v.firstErr
      /\ u.closed = v.closed
      /\ u.surfaced = (v.surfaced \/ (v.aborted /\ a = v.firstErr))
  BY <1>5, SurfaceFields
<1> HIDE DEF u
<1>7. o \in [w : WrType, pc : OutPcs, answer : Answers]
  <2>1. u \in WrType /\ pc \in OutPcs
    BY <1>6 DEF OutPcs, Follows, Keeps, Core
  <2> QED
    BY <1>2, <1>4, <2>1
<1>8. u.surfaced = v.surfaced
  <2>1. w.firstErr \in Errors /\ (w.firstErr # "none" => a = "own")
    BY <1>1 DEF Core, WrType
  <2>2. CASE w.firstErr = "none"
    BY <1>3, <1>5, <1>6, <2>2
  <2>3. CASE w.firstErr # "none"
    <3>1. a # v.firstErr
      BY <1>3, <2>1, <2>3 DEF Errors
    <3> QED
      BY <1>5, <1>6, <3>1
  <2> QED
    BY <2>2, <2>3
<1>9. Told(u) = Told(w) + (IF a \in Causes THEN 1 ELSE 0)
  <2>1. Told(u) = Told(v)
    BY <1>6, <1>8 DEF Told
  <2> QED
    BY <1>2, <1>3, <2>1
<1>10. Keeps(w, u)
  BY <1>3, <1>6, KeepsTrans DEF Follows
<1>11. pc \notin Cutting \cup Draining
  BY DEF Cutting, Draining
<1>12. OutKeeps(w, op, o)
  BY <1>2, <1>3, <1>4, <1>6, <1>7, <1>9, <1>10, <1>11 DEF OutKeeps
<1> QED
  BY <1>3, <1>4, <1>6, <1>12 DEF FirstErr

(* A segment writer is gone.                                               *)
LEMMA SinksType ==
  ASSUME NEW w, Core(w), NEW v, v = [w EXCEPT !.sinks = @ - 1]
  PROVE  Silent(w, v) /\ Core(v) /\ Alike(w, v) /\ v.transition = w.transition
         /\ v.drain = w.drain /\ v.cancelled = w.cancelled
<1>1. w \in WrType /\ w.sinks - 1 \in Int
  BY DEF Core, WrType
<1>2. /\ v \in WrType /\ Alike(w, v) /\ v.transition = w.transition
      /\ v.drain = w.drain /\ v.cancelled = w.cancelled
  BY <1>1 DEF WrType, Alike
<1> QED
  BY <1>2, AlikeSilent

(* Flush and Close abort the empty segment they took out.                  *)
LEMMA CallEmptyOK ==
  ASSUME NEW w, Core(w), ~w.closed, ~w.active.open, w.transition # "client",
         NEW op \in {"flush", "close"}, NEW v, v = [w EXCEPT !.sinks = @ - 1],
         NEW f, Notes(v, "cause", 1, f),
         NEW o \in At(v, "drained") \cup If("empty", EndErr(f, op, OwnErr(v, "cause")))
  PROVE  OutOK(w, op, o)
<1>1. /\ Silent(w, v) /\ Core(v) /\ Alike(w, v) /\ v.transition = w.transition
  BY SinksType
<1>2. ~v.closed /\ ~v.active.open
  BY <1>1 DEF Alike
<1>3. OutOK(v, op, o)
  <2>1. CASE o \in At(v, "drained")
    <3>1. "drained" \in OutPcs /\ "drained" \notin Cutting /\ "drained" \in Draining
      BY DEF OutPcs, Cutting, Draining
    <3> QED
      BY <1>1, <1>2, <2>1, <3>1, AtOK
  <2>2. CASE o \in EndErr(f, op, OwnErr(v, "cause"))
    <3>1. "cause" \in Causes /\ v.transition # "client"
      BY <1>1 DEF Causes
    <3>2. OutKeeps(v, op, o) /\ FirstErr(v, "cause", o.w)
      BY <1>1, <1>2, <2>2, <3>1, OwnErrOK
    <3> QED
      BY <3>2 DEF FirstErr, OutKeeps, OutOK, Follows, Blames
  <2> QED
    BY <2>1, <2>2 DEF If
<1> QED
  BY <1>1, <1>3, OutTrans

-----------------------------------------------------------------------------
(* The queues                                                              *)

(* Where a queue ends is an LSN.                                           *)
LEMMA EndNat ==
  ASSUME NEW b \in Nat
  PROVE  /\ \A s \in Seq(ItemType) : End(s, b) \in Nat
         /\ \A s \in Seq(SegmentType) : End(s, b) \in Nat
<1>1. ASSUME NEW s \in Seq(ItemType) PROVE End(s, b) \in Nat
  <2>1. CASE s = <<>>
    BY <2>1 DEF End
  <2>2. CASE s # <<>>
    <3>1. s[Len(s)] \in ItemType
      BY <2>2
    <3>2. s[Len(s)].base + s[Len(s)].records \in Nat
      BY <3>1 DEF ItemType
    <3> QED
      BY <2>2, <3>2 DEF End
  <2> QED
    BY <2>1, <2>2
<1>2. ASSUME NEW s \in Seq(SegmentType) PROVE End(s, b) \in Nat
  <2>1. CASE s = <<>>
    BY <2>1 DEF End
  <2>2. CASE s # <<>>
    <3>1. s[Len(s)] \in SegmentType
      BY <2>2
    <3>2. s[Len(s)].base + s[Len(s)].records \in Nat
      BY <3>1 DEF SegmentType
    <3> QED
      BY <2>2, <3>2 DEF End
  <2> QED
    BY <2>1, <2>2
<1> QED
  BY <1>1, <1>2

(* A sum of naturals is 0 only if each of them is.                         *)
LEMMA SumZero ==
  ASSUME NEW a \in Nat, NEW b \in Nat, NEW c \in Nat, 0 = a + b + c
  PROVE  a = 0 /\ b = 0 /\ c = 0
OBVIOUS

(* Where the finalizer's segment ends is an LSN.                           *)
LEMMA HeldEndNat ==
  ASSUME NEW w \in WrType, NEW f \in FinType PROVE HeldEnd(w, f) \in Nat
<1>1. w.ready \in Seq(ItemType) /\ w.committed.next \in Nat
  BY DEF WrType, SnapType
<1>2. f.item.base + f.item.records \in Nat
  BY DEF FinType, ItemType
<1> QED
  BY <1>1, <1>2, EndNat DEF HeldEnd

(* The owner and ageLoop move records along the queues.                    *)
LEMMA KeepsQueue ==
  ASSUME NEW w, Core(w), NEW v, Keeps(w, v), NEW f \in FinType, NEW p, QueueOK(w, f, p)
  PROVE  QueueOK(v, f, p)
<1> SUFFICES ASSUME ~v.aborted PROVE QueueOK(v, f, p)
  BY DEF QueueOK
<1>1. /\ ~w.aborted /\ v.ready = w.ready /\ v.committed = w.committed
      /\ v.segments - Len(v.detached) = w.segments - Len(w.detached)
      /\ \A b \in Nat : TailOK(w, b) => TailOK(v, b)
  BY DEF Keeps, Flows
<1>2. HeldEnd(w, f) \in Nat /\ HeldEnd(v, f) = HeldEnd(w, f)
  BY <1>1, HeldEndNat DEF Core, HeldEnd
<1>3. TailOK(v, HeldEnd(v, f))
  BY <1>1, <1>2 DEF QueueOK
<1>4. v.segments = Len(v.ready) + (IF f.pc = "close" THEN 1 ELSE 0) + Len(v.detached)
  <2> DEFINE k == IF f.pc = "close" THEN 1 ELSE 0
  <2>1. k \in Nat
    OBVIOUS
  <2>2. w.segments = Len(w.ready) + k + Len(w.detached)
    BY <1>1 DEF QueueOK
  <2> HIDE DEF k
  <2>3. /\ w.segments \in Nat /\ v.segments \in Nat
        /\ w.detached \in Seq(SegmentType) /\ v.detached \in Seq(SegmentType)
        /\ w.ready \in Seq(ItemType)
    BY DEF Keeps, Core, WrType
  <2>4. Len(w.ready) \in Nat /\ Len(w.detached) \in Nat /\ Len(v.detached) \in Nat
    BY <2>3
  <2>5. v.segments = Len(w.ready) + k + Len(v.detached)
    <3>1. v.segments \in Nat /\ w.segments \in Nat
      BY <2>3
    <3>2. v.segments - Len(v.detached) = w.segments - Len(w.detached)
      BY <1>1
    <3> DEFINE a == v.segments
               b == Len(v.detached)
               c == w.segments
               d == Len(w.detached)
               e == Len(w.ready)
    <3>3. a \in Nat /\ b \in Nat /\ c \in Nat /\ d \in Nat /\ e \in Nat /\ k \in Nat
      BY <2>1, <2>4, <3>1
    <3>4. a - b = c - d /\ c = e + k + d
      BY <2>2, <3>2
    <3> HIDE DEF a, b, c, d, e
    <3>5. a = e + k + b
      BY <3>3, <3>4
    <3> QED
      BY <3>5 DEF a, b, e
  <2> QED
    BY <1>1, <2>5 DEF k
<1> QED
  BY <1>1, <1>3, <1>4 DEF QueueOK

(* When no segment is in flight and none is active, all is published.      *)
LEMMA DoneQueues ==
  ASSUME NEW w \in WrType, NEW f, NEW p, QueueOK(w, f, p), Done(w)
  PROVE  /\ w.ready = <<>> /\ w.detached = <<>> /\ f.pc # "close" /\ w.active.records = 0
         /\ w.committed.next = w.nextLSN
         /\ p.pc \notin {"lock", "reconcile", "publish", "note"}
         /\ p.pc = "exit" => p.err = "none"
<1> DEFINE k == IF f.pc = "close" THEN 1 ELSE 0
<1>1. /\ ~w.aborted /\ w.segments = 0 /\ ~w.active.open
      /\ w.segments = Len(w.ready) + k + Len(w.detached) /\ k \in Nat
  BY DEF QueueOK, Done
<1>2. w.ready \in Seq(ItemType) /\ w.detached \in Seq(SegmentType)
  BY DEF WrType
<1>3. Len(w.ready) \in Nat /\ Len(w.detached) \in Nat
  BY <1>2
<1>4. Len(w.ready) = 0 /\ Len(w.detached) = 0 /\ k = 0
  <2> HIDE DEF k
  <2>1. 0 = Len(w.ready) + k + Len(w.detached) /\ k \in Nat
    BY <1>1
  <2> QED
    BY <1>3, <2>1, SumZero, Zenon
<1>5. w.ready = <<>> /\ w.detached = <<>> /\ f.pc # "close"
  BY <1>2, <1>4
<1>6. HeldEnd(w, f) = w.committed.next
  BY <1>5 DEF HeldEnd, End
<1>7. TailOK(w, w.committed.next)
  BY <1>1, <1>6 DEF QueueOK
<1>8. w.nextLSN = w.committed.next /\ w.active.records = 0
  BY <1>1, <1>5, <1>7 DEF TailOK, End
<1> QED
  BY <1>1, <1>5, <1>8 DEF QueueOK

(* With nothing queued or active, all accepted records are in the catalog. *)
LEMMA DoneSettled ==
  ASSUME NEW w \in WrType, NEW f, NEW p, NEW c, QueueOK(w, f, p), HeadOK(w, p, c), Done(w)
  PROVE  Settled(w, c)
<1>1. /\ w.committed.next = w.nextLSN
      /\ p.pc \notin {"lock", "reconcile", "publish", "note"}
      /\ p.pc = "exit" => p.err = "none"
  BY DoneQueues
<1>2. c.head.next = w.committed.next
  BY <1>1 DEF HeadOK, Ended
<1> QED
  BY <1>1, <1>2 DEF Settled, Done

-----------------------------------------------------------------------------
(* Steps of the owner                                                      *)

(* An observer that waits keeps what it has seen and its wake-up.          *)
Watched ==
  /\ watch' \in WatchType /\ watch'.pc = watch.pc /\ watch'.seen = watch.seen
  /\ watch.woken => watch'.woken

(* A signal wakes an observer that waits and does nothing else.            *)
LEMMA SignalledOK ==
  ASSUME watch \in WatchType, NEW v \in BOOLEAN, Signalled(v)
  PROVE  Watched /\ (v /\ watch.pc = "wait" => watch'.woken)
BY DEF Signalled, Watched, WatchType

(* So does the terminal broadcast.                                         *)
LEMMA BroadcastOK == ASSUME watch \in WatchType, Broadcast PROVE Watched
BY DEF Broadcast, Signalled, Watched, WatchType

Moved(o, op) ==
  /\ wr' = o.w
  /\ client' = [client EXCEPT !.op = IF o.pc = "idle" THEN "none" ELSE op, !.pc = o.pc,
                              !.woken = FALSE, !.answer = o.answer, !.current = Empty]
  /\ told' = IF o.answer \in Causes THEN told + 1 ELSE told
  /\ Broadcast
  /\ UNCHANGED <<fin, pub, age>>

(* The committed snapshot goes from wr to wr' as CommittedAdvances allows. *)
Advances ==
  /\ wr'.committed.next >= wr.committed.next /\ wr'.committed.ret >= wr.committed.ret
  /\ wr'.committed.next > wr.committed.next =>
       wr'.committed.ret = wr.committed.ret /\ wr.drain # "done"

(* A step that leaves the snapshot alone.                                  *)
LEMMA SameAdvances == ASSUME IInv, wr'.committed = wr.committed PROVE Advances
<1>1. wr.committed.next \in Nat /\ wr.committed.ret \in Nat
  BY DEF IInv, TypeInv, WrType, SnapType
<1> QED
  BY <1>1 DEF Advances

(* The first snapshot.                                                     *)
LEMMA EmptyType == Empty \in SnapType
BY DEF Empty, SnapType

(* A call that leaves mu: all but the session is as OutKeeps says.         *)
LEMMA OwnerStep ==
  ASSUME IInv, NEW op \in Ops \cup {"retain"}, NEW o, OutKeeps(wr, op, o), Moved(o, op),
         op \in {"abort", "retain"} => o.pc \in {"idle", "join"},
         o.w.firstErr = "invalid" =>
           wr.firstErr = "invalid" \/ (client.pc = "note" /\ client.answer = "invalid"),
         cat' \in CatType, cat'.head.next = cat.head.next, HeadOK(wr, pub, cat'),
         sessionMu' = sessionMu \/ client.pc = "session"
  PROVE  IInv' /\ Advances
<1>1. /\ Keeps(wr, o.w) /\ wr' = o.w /\ Core(wr) /\ Core(wr')
      /\ wr'.committed = wr.committed /\ wr \in WrType /\ wr' \in WrType
  BY DEF OutKeeps, Moved, Keeps, Core, IInv, TypeInv
<1>2. o.pc \in OutPcs /\ o.answer \in Answers
  BY DEF OutKeeps
<1>3. /\ client'.pc = o.pc /\ client'.answer = o.answer
      /\ client'.op = (IF o.pc = "idle" THEN "none" ELSE op)
      /\ client' \in ClientType
  BY <1>2, EmptyType DEF Moved, IInv, TypeInv, ClientType, Ops
<1>4. Watched
  BY BroadcastOK DEF Moved, IInv, TypeInv
<1>5. TypeInv'
  BY <1>1, <1>3, <1>4 DEF Moved, Watched, IInv, TypeInv
<1>6. ErrOK(wr)' /\ CutOK(wr)'
  BY <1>1 DEF Core
<1>7. CauseToldOnce'
  <2>1. told = Told(wr)
    BY DEF IInv, CauseToldOnce, Told
  <2>2. Told(wr') = Told(wr) + (IF o.answer \in Causes THEN 1 ELSE 0)
    BY <1>1 DEF OutKeeps
  <2>3. told' = IF o.answer \in Causes THEN told + 1 ELSE told
    BY DEF Moved
  <2>4. told' = Told(wr')
    BY <2>1, <2>2, <2>3, ToldNat
  <2> QED
    BY <2>4 DEF CauseToldOnce, Told
<1>8. SessionInv'
  <2>1. client'.pc \notin {"session", "note"}
    BY <1>2, <1>3 DEF OutPcs, Cutting, Draining
  <2>2. wr'.drain = "done" => wr.drain = "done"
    BY <1>1 DEF Keeps
  <2>3. pub' = pub
    BY DEF Moved
  <2> QED
    BY <2>1, <2>2, <2>3 DEF SessionInv, IInv
<1>9. HeadOK(wr, pub, cat)'
  BY <1>1 DEF HeadOK, Moved
<1>10. InvalidInv'
  <2>1. client'.pc # "note" /\ pub' = pub
    BY <1>2, <1>3 DEF OutPcs, Cutting, Draining, Moved
  <2> QED
    BY <1>1, <2>1 DEF InvalidInv, IInv
<1>11. ObserverIsCurrent'
  BY <1>1, <1>4 DEF ObserverIsCurrent, Watched, IInv
<1>12. QueueOK(wr, fin, pub)'
  <2>1. QueueOK(wr', fin, pub)
    BY <1>1, KeepsQueue DEF IInv, TypeInv
  <2> QED
    BY <2>1 DEF Moved
<1>13. CutInv'
  BY <1>1, <1>3 DEF CutInv, OutKeeps, Moved, IInv
<1>14. Done(wr') => Settled(wr', cat')
  BY <1>1, <1>9, <1>12, DoneSettled
<1>15. SettledInv'
  <2>1. client'.pc \in Draining => ~wr'.active.open /\ client'.op \in {"flush", "close"}
    <3>1. "idle" \notin Draining
      BY DEF Draining
    <3> QED
      BY <1>1, <1>3, <3>1 DEF OutKeeps
  <2>2. wr'.closed => Settled(wr', cat')
    <3>1. CASE wr.closed
      <4>1. Settled(wr, cat)
        BY <3>1 DEF SettledInv, IInv
      <4>2. /\ wr'.closed /\ wr'.nextLSN = wr.nextLSN /\ wr'.segments = wr.segments
            /\ wr'.active.open = wr.active.open
        BY <1>1, <3>1 DEF Keeps
      <4>3. ~wr'.aborted
        BY <1>6, <4>2 DEF ErrOK
      <4> QED
        BY <1>1, <4>1, <4>2, <4>3 DEF Settled
    <3>2. CASE ~wr.closed
      BY <1>1, <1>14, <3>2 DEF Keeps
    <3> QED
      BY <3>1, <3>2
  <2>3. wr'.closed => client'.pc \in {"idle", "transition", "join"}
    BY <1>1, <1>2, <1>3 DEF OutKeeps, OutPcs
  <2>4. client'.answer = "flushed" => Settled(wr', cat')
    BY <1>1, <1>3, <1>14 DEF OutKeeps
  <2>5. client'.answer # "closed"
    BY <1>2, <1>3 DEF Answers, Errors
  <2>6. client'.pc = "join" =>
          /\ client'.answer # "flushed"
          /\ client'.op = "close" /\ client'.answer = "none" => wr'.closed
    BY <1>1, <1>3 DEF OutKeeps
  <2> QED
    BY <2>1, <2>2, <2>3, <2>4, <2>5, <2>6 DEF SettledInv
<1>16. CallInv'
  BY <1>2, <1>3 DEF CallInv, OutPcs, Cutting, Draining, Ops
<1>17. Advances
  BY <1>1, SameAdvances
<1> QED
  BY <1>5, <1>6, <1>7, <1>8, <1>9, <1>10, <1>11, <1>12, <1>13, <1>15, <1>16, <1>17 DEF IInv

(* Moves takes one of the outcomes.                                        *)
LEMMA MovesPick ==
  ASSUME NEW outs, NEW op, Moves(outs, op) PROVE \E o \in outs : Moved(o, op)
BY DEF Moves, Moved

(* A call by the owner whose outcome is one of those described above.      *)
LEMMA PlainOwnerStep ==
  ASSUME IInv, NEW op \in Ops \cup {"retain"}, NEW o, OutOK(wr, op, o), Moved(o, op),
         op \in {"abort", "retain"} => o.pc \in {"idle", "join"},
         UNCHANGED <<sessionMu, cat>>
  PROVE  IInv' /\ Advances
<1>1. OutKeeps(wr, op, o) /\ Blames(wr, o.w)
  BY OutOKKeeps
<1>2. o.w.firstErr = "invalid" => wr.firstErr = "invalid"
  BY <1>1 DEF Blames
<1>3. cat' \in CatType /\ cat'.head.next = cat.head.next /\ HeadOK(wr, pub, cat')
  BY DEF IInv, TypeInv
<1> QED
  BY <1>1, <1>2, <1>3, OwnerStep

(* An owner that does not cut has no transition.                           *)
LEMMA IdleCuts == ASSUME IInv, client.pc \notin Cutting PROVE wr.transition # "client" /\ Core(wr)
BY DEF IInv, CutInv, TypeInv, Core

(* Abort always joins the drain.                                           *)
LEMMA AbortJoins == ASSUME NEW w, NEW o \in AbortCall(w) PROVE o.pc = "join"
BY DEF AbortCall, At, CloseAborted

(* A public call up to where it first waits.                               *)
LEMMA CallStep == ASSUME IInv, NEW op \in Ops, Call(op) PROVE IInv' /\ Advances
<1>1. PICK o \in Enter(wr, op) : Moved(o, op)
  BY MovesPick DEF Call
<1>2. wr.transition # "client" /\ Core(wr)
  BY IdleCuts DEF Call, Cutting
<1>3. OutOK(wr, op, o)
  BY <1>1, <1>2, EnterOK
<1>4. op = "abort" => o.pc = "join"
  <2>1. op = "abort" => o \in AbortCall(wr)
    BY <1>1 DEF Enter
  <2> QED
    BY <2>1, AbortJoins
<1> QED
  BY <1>1, <1>3, <1>4, PlainOwnerStep DEF Call, Ops

(* The transition the call waited for has ended.                           *)
LEMMA CallTransitionStep == ASSUME IInv, CallTransition PROVE IInv' /\ Advances
<1>1. PICK o \in Through(wr, client.op) : Moved(o, client.op)
  BY MovesPick DEF CallTransition
<1>2. wr.transition = "none" /\ Core(wr) /\ client.op \in Ops \ {"abort"}
  BY DEF CallTransition, IInv, TypeInv, Core, CallInv, Ops
<1>3. OutOK(wr, client.op, o)
  BY <1>1, <1>2, ThroughOK
<1> QED
  BY <1>1, <1>2, <1>3, PlainOwnerStep DEF CallTransition, Ops

(* A call that waits for budget or for the drain of its queues looks again.*)
LEMMA CallCheckStep == ASSUME IInv, CallCheck PROVE IInv' /\ Advances
<1>0. Core(wr) /\ UNCHANGED <<sessionMu, cat>>
  BY DEF CallCheck, IInv, TypeInv, Core
<1>1. CASE client.pc = "waitDrained"
  <2>1. PICK o \in WaitDrained(wr, client.op) : Moved(o, client.op)
    BY <1>1, MovesPick DEF CallCheck
  <2>2. /\ client.pc \in Draining /\ client.pc \notin Cutting
        /\ client.pc \notin {"idle", "transition", "join"}
    BY <1>1 DEF Draining, Cutting
  <2>3. ~wr.closed /\ ~wr.active.open /\ client.op \in {"flush", "close"}
    BY <2>2 DEF IInv, SettledInv
  <2>4. wr.transition # "client"
    BY <2>2, IdleCuts
  <2>5. OutOK(wr, client.op, o)
    BY <1>0, <2>1, <2>3, <2>4, WaitDrainedOK
  <2> QED
    BY <1>0, <2>1, <2>3, <2>5, PlainOwnerStep DEF Ops
<1>2. CASE client.pc # "waitDrained"
  <2>1. client.pc \in Cutting /\ client.pc \notin {"idle", "transition", "join"}
    BY <1>2 DEF CallCheck, OnStateWake, Cutting
  <2>2. PICK o \in Again(wr, client.op, client.pc) : Moved(o, client.op)
    BY <1>2, MovesPick DEF CallCheck
  <2>3. wr.transition = "client" /\ ~wr.closed /\ client.op \in Ops \ {"abort"}
    BY <2>1 DEF IInv, CutInv, SettledInv, CallInv, Ops
  <2>4. OutOK(wr, client.op, o)
    BY <1>0, <2>1, <2>2, <2>3, AgainOK
  <2> QED
    BY <1>0, <2>2, <2>3, <2>4, PlainOwnerStep DEF Ops
<1> QED
  BY <1>1, <1>2

(* Flush and Close look whether the queues are drained.                    *)
LEMMA CallDrainedStep == ASSUME IInv, CallDrained PROVE IInv' /\ Advances
<1>0. Core(wr) /\ UNCHANGED <<sessionMu, cat>>
  BY DEF CallDrained, IInv, TypeInv, Core
<1>1. PICK o \in WaitDrained(wr, client.op) : Moved(o, client.op)
  BY MovesPick DEF CallDrained
<1>2. /\ client.pc \in Draining /\ client.pc \notin Cutting
      /\ client.pc \notin {"idle", "transition", "join"}
  BY DEF CallDrained, Draining, Cutting
<1>3. ~wr.closed /\ ~wr.active.open /\ client.op \in {"flush", "close"}
  BY <1>2 DEF IInv, SettledInv
<1>4. wr.transition # "client"
  BY <1>2, IdleCuts
<1>5. OutOK(wr, client.op, o)
  BY <1>0, <1>1, <1>3, <1>4, WaitDrainedOK
<1> QED
  BY <1>0, <1>1, <1>3, <1>5, PlainOwnerStep DEF Ops

(* Flush and Close, at the empty segment they took out.                    *)
LEMMA CallEmptyStep == ASSUME IInv, CallEmpty PROVE IInv' /\ Advances
<1>0. Core(wr) /\ UNCHANGED <<sessionMu, cat>>
  BY DEF CallEmpty, IInv, TypeInv, Core
<1>1. PICK v : v = [wr EXCEPT !.sinks = @ - 1]
  OBVIOUS
<1>2. PICK f : f = Fail(v, "cause", TRUE)
  OBVIOUS
<1>3. Moves(At(v, "drained") \cup If("empty", EndErr(f, client.op, OwnErr(v, "cause"))), client.op)
  BY <1>1, <1>2 DEF CallEmpty
<1>4. /\ client.pc \in Draining /\ client.pc \notin Cutting
      /\ client.pc \notin {"idle", "transition", "join"}
  BY DEF CallEmpty, Draining, Cutting
<1>5. ~wr.closed /\ ~wr.active.open /\ client.op \in {"flush", "close"}
  BY <1>4 DEF IInv, SettledInv
<1>6. wr.transition # "client"
  BY <1>4, IdleCuts
<1>7. Notes(v, "cause", 1, f)
  <2>1. Core(v) /\ ~v.closed /\ "cause" \in Causes
    BY <1>0, <1>1, <1>5, SinksType DEF Alike, Causes
  <2>2. Notes(v, "cause", 1, Fail(v, "cause", TRUE))
    BY <2>1, FailTells
  <2> QED
    BY <1>2, <2>2
<1>8. PICK o \in At(v, "drained") \cup If("empty", EndErr(f, client.op, OwnErr(v, "cause"))) :
        Moved(o, client.op)
  BY <1>3, MovesPick
<1>9. OutOK(wr, client.op, o)
  BY <1>0, <1>1, <1>5, <1>6, <1>7, <1>8, CallEmptyOK
<1> QED
  BY <1>0, <1>5, <1>8, <1>9, PlainOwnerStep DEF Ops

(* The context of a call ends before it joins the drain.                   *)
LEMMA CallCancelMoves ==
  ASSUME IInv, CallCancel, client.pc # "join" PROVE IInv' /\ Advances
<1>0. Core(wr) /\ UNCHANGED <<sessionMu, cat>>
  BY DEF CallCancel, IInv, TypeInv, Core
<1>1. PICK o \in Cancelled(wr, client.op, client.pc) : Moved(o, client.op)
  BY MovesPick DEF CallCancel
<1>2. client.pc \in {"transition", "waitDrained"} \cup Cutting
  BY DEF CallCancel, OnStateWake, Cutting
<1>3. client.pc \in Cutting <=> wr.transition = "client"
  BY DEF IInv, CutInv
<1>4. client.op \in Ops \ {"abort"}
  BY <1>2 DEF IInv, CallInv, SettledInv, Ops, Draining
<1>5. OutOK(wr, client.op, o)
  BY <1>0, <1>1, <1>2, <1>3, <1>4, CancelledOK
<1> QED
  BY <1>0, <1>1, <1>4, <1>5, PlainOwnerStep DEF Ops

(* A step on wake-ups and counters, and on where ageLoop and the drain     *)
(* stand.                                                                  *)
LEMMA AlikeStep ==
  ASSUME IInv, wr' \in WrType, Alike(wr, wr'), wr'.transition = wr.transition,
         wr'.cancelled = wr.cancelled, wr'.drain = "off" <=> wr.drain = "off",
         wr'.drain = "done" => pub.pc = "exit",
         client' \in ClientType, client'.pc = client.pc, client'.op = client.op,
         client'.answer = client.answer, client'.current = client.current,
         age'.pc = "reserve" <=> age.pc = "reserve", fin' \in FinType,
         fin'.pc = "close" <=> fin.pc = "close", fin'.pc = "close" => fin'.item = fin.item,
         Watched, UNCHANGED <<pub, sessionMu, cat, told>>
  PROVE  IInv' /\ Advances
<1>1. TypeInv'
  BY DEF IInv, TypeInv, Watched
<1>2. ErrOK(wr)' /\ CutOK(wr)'
  BY DEF IInv, ErrOK, CutOK, Alike
<1>3. CauseToldOnce'
  BY DEF IInv, CauseToldOnce, Alike
<1>4. SessionInv' /\ HeadOK(wr, pub, cat)' /\ InvalidInv'
  BY DEF IInv, SessionInv, HeadOK, InvalidInv, Alike
<1>5. ObserverIsCurrent'
  BY DEF IInv, ObserverIsCurrent, Watched, Alike
<1>6. QueueOK(wr, fin, pub)'
  <2>1. HeldEnd(wr', fin') = HeldEnd(wr, fin)
    BY DEF HeldEnd, Alike
  <2>2. \A b : TailOK(wr, b) => TailOK(wr', b)
    BY DEF TailOK, Alike
  <2> QED
    BY <2>1, <2>2 DEF IInv, QueueOK, Alike
<1>7. CutInv' /\ CallInv'
  BY DEF IInv, CutInv, CallInv
<1>8. SettledInv'
  BY DEF IInv, SettledInv, Settled, Alike
<1>9. Advances
  BY SameAdvances DEF Alike
<1> QED
  BY <1>1, <1>2, <1>3, <1>4, <1>5, <1>6, <1>7, <1>8, <1>9 DEF IInv

(* An observer nobody signals.                                             *)
LEMMA WatchSame == ASSUME IInv, UNCHANGED watch PROVE Watched
BY DEF IInv, TypeInv, Watched

(* A call receives from stateWake.                                         *)
LEMMA CallWakeStep == ASSUME IInv, CallWake PROVE IInv' /\ Advances
<1>1. wr' \in WrType /\ Alike(wr, wr') /\ wr'.transition = wr.transition
      /\ wr'.cancelled = wr.cancelled /\ wr'.drain = wr.drain
  BY DEF CallWake, IInv, TypeInv, WrType, Alike
<1>2. /\ client' \in ClientType /\ client'.pc = client.pc /\ client'.op = client.op
      /\ client'.answer = client.answer /\ client'.current = client.current
  BY DEF CallWake, IInv, TypeInv, ClientType
<1>3. wr.drain = "done" => pub.pc = "exit"
  BY DEF IInv, SessionInv
<1>4. Watched
  BY WatchSame DEF CallWake
<1>5. fin \in FinType
  BY DEF IInv, TypeInv
<1> QED
  BY <1>1, <1>2, <1>3, <1>4, <1>5, AlikeStep DEF CallWake

(* A call that waited for the drain returns.                               *)
LEMMA JoinStep ==
  ASSUME IInv, client.pc = "join", NEW a \in {"closed", "ended", "cancelled"},
         a = "closed" => client.op = "close",
         client' = [client EXCEPT !.op = "none", !.pc = "idle",
                                  !.answer = IF @ # "none" THEN @ ELSE a],
         UNCHANGED <<wr, fin, pub, age, sessionMu, cat, watch, told>>
  PROVE  IInv' /\ Advances
<1>1. /\ client' \in ClientType /\ client'.pc = "idle" /\ client'.op = "none"
      /\ client'.answer = IF client.answer # "none" THEN client.answer ELSE a
  <2>1. a \in Answers \cup {"closed", "ended", "retained"} /\ "idle" \in OutPcs
    BY DEF Answers, OutPcs
  <2> QED
    BY <2>1 DEF IInv, TypeInv, ClientType
<1>2. TypeInv'
  BY <1>1 DEF IInv, TypeInv
<1>3. "idle" \notin Cutting \cup Draining /\ "join" \notin Cutting \cup Draining
  BY DEF Cutting, Draining
<1>4. ErrOK(wr)' /\ CutOK(wr)' /\ CauseToldOnce'
  BY DEF IInv, CauseToldOnce
<1>5. SessionInv' /\ HeadOK(wr, pub, cat)' /\ InvalidInv'
  BY <1>1 DEF IInv, SessionInv, InvalidInv
<1>6. ObserverIsCurrent' /\ QueueOK(wr, fin, pub)'
  BY DEF IInv, ObserverIsCurrent
<1>7. CutInv' /\ CallInv'
  BY <1>1, <1>3 DEF IInv, CutInv, CallInv
<1>8. SettledInv'
  BY <1>1, <1>3 DEF IInv, SettledInv
<1>9. Advances
  BY SameAdvances
<1> QED
  BY <1>2, <1>4, <1>5, <1>6, <1>7, <1>8, <1>9 DEF IInv

(* Close and Abort return when the drain is done.                          *)
LEMMA CallJoinStep == ASSUME IInv, CallJoin PROVE IInv' /\ Advances
<1> DEFINE a == IF client.op = "close" THEN "closed" ELSE "ended"
<1>1. a \in {"closed", "ended", "cancelled"} /\ (a = "closed" => client.op = "close")
  OBVIOUS
<1>2. /\ client.pc = "join"
      /\ client' = [client EXCEPT !.op = "none", !.pc = "idle",
                                  !.answer = IF @ # "none" THEN @ ELSE a]
      /\ UNCHANGED <<wr, fin, pub, age, sessionMu, cat, watch, told>>
  BY DEF CallJoin
<1> HIDE DEF a
<1> QED
  BY <1>1, <1>2, JoinStep

(* The context of a call ends.                                             *)
LEMMA CallCancelStep == ASSUME IInv, CallCancel PROVE IInv' /\ Advances
<1>1. CASE client.pc = "join"
  <2>1. /\ client' = [client EXCEPT !.op = "none", !.pc = "idle",
                                    !.answer = IF @ # "none" THEN @ ELSE "cancelled"]
        /\ UNCHANGED <<wr, fin, pub, age, sessionMu, cat, watch, told>>
    BY <1>1 DEF CallCancel
  <2> QED
    BY <1>1, <2>1, JoinStep
<1>2. CASE client.pc # "join"
  BY <1>2, CallCancelMoves
<1> QED
  BY <1>1, <1>2

-----------------------------------------------------------------------------
(* Retention calls of the owner                                            *)

(* A snapshot is its two fields.                                           *)
LEMMA SnapEqual ==
  ASSUME NEW a \in SnapType, NEW b \in SnapType, a.next = b.next, a.ret = b.ret PROVE a = b
BY DEF SnapType

(* The version a retention asks for is ahead of the committed one.         *)
LEMMA VersionNat ==
  ASSUME IInv PROVE Version \in Nat /\ Version # 0 /\ wr.committed.ret <= Version
<1>1. /\ cat.pending \in Nat /\ cat.head.ret \in Nat /\ wr.committed.ret \in Nat
      /\ wr.committed.ret <= cat.head.ret
      /\ cat.pending # 0 => wr.committed.ret <= cat.pending
  BY DEF IInv, TypeInv, CatType, SnapType, WrType, HeadOK
<1> QED
  BY <1>1 DEF Version

(* A retention of unknown outcome is behind no publication.                *)
LEMMA RetentionCat ==
  ASSUME IInv, pub.pc # "publish", RetentionUnknown \/ UNCHANGED cat
  PROVE  cat' \in CatType /\ cat'.head.next = cat.head.next /\ HeadOK(wr, pub, cat')
<1>1. Version \in Nat /\ Version # 0 /\ wr.committed.ret <= Version
  BY VersionNat
<1>2. cat \in CatType /\ cat.head \in SnapType
  BY DEF IInv, TypeInv, CatType
<1>3. CASE UNCHANGED cat
  BY <1>3 DEF IInv, TypeInv
<1>4. CASE RetentionUnknown
  <2>1. PICK ret \in {cat.head.ret, Version} :
          cat' = [head |-> [cat.head EXCEPT !.ret = ret], pending |-> Version]
    BY <1>4 DEF RetentionUnknown
  <2>2. ret \in Nat /\ wr.committed.ret <= ret
    BY <1>1, <1>2, <2>1 DEF IInv, HeadOK, SnapType
  <2>3. [cat.head EXCEPT !.ret = ret] \in SnapType
    BY <1>2, <2>2 DEF SnapType
  <2>4. /\ cat'.pending = Version /\ cat'.head = [cat.head EXCEPT !.ret = ret]
        /\ cat' \in CatType
    BY <1>1, <2>1, <2>3 DEF CatType
  <2>5. cat'.head.next = cat.head.next /\ cat'.head.ret = ret
    BY <1>2, <2>4 DEF SnapType
  <2> QED
    BY <1>1, <2>2, <2>4, <2>5 DEF IInv, HeadOK
<1> QED
  BY <1>3, <1>4

(* A retention that is done is in the head, and no longer pending.         *)
LEMMA RetentionDoneCat ==
  ASSUME IInv, RetentionDone
  PROVE  /\ cat' \in CatType /\ cat'.head.next = cat.head.next /\ cat'.pending = 0
         /\ cat'.head.ret = Version /\ cat'.head \in SnapType
<1>1. Version \in Nat
  BY VersionNat
<1>2. cat.head \in SnapType
  BY DEF IInv, TypeInv, CatType
<1>3. [cat.head EXCEPT !.ret = Version] \in SnapType
  BY <1>1, <1>2 DEF SnapType
<1>4. /\ cat'.pending = 0 /\ cat'.head = [cat.head EXCEPT !.ret = Version] /\ cat' \in CatType
  BY <1>3 DEF RetentionDone, CatType
<1> QED
  BY <1>2, <1>3, <1>4 DEF SnapType

(* A retention's result is the committed snapshot.                         *)
LEMMA RetainEnterStep == ASSUME IInv, RetainEnter PROVE IInv' /\ Advances
<1>0. Core(wr) /\ wr.transition # "client" /\ "idle" \notin Cutting \cup Draining
      /\ "session" \notin Cutting \cup Draining
  BY IdleCuts DEF RetainEnter, Cutting, Draining
<1>1. CASE wr.closed \/ wr.aborted
  <2>1. PICK o \in ForegroundErr(wr) : Moved(o, "retain")
    BY <1>1, MovesPick DEF RetainEnter
  <2>2. OutOK(wr, "retain", o)
    BY <1>0, <1>1, <2>1, ForegroundErrOK
  <2>3. o.pc = "idle"
    BY <2>1 DEF ForegroundErr, Answer
  <2>4. UNCHANGED <<sessionMu, cat>>
    BY <1>1 DEF RetainEnter
  <2> QED
    BY <2>1, <2>2, <2>3, <2>4, PlainOwnerStep
<1>2. CASE ~(wr.closed \/ wr.aborted)
  <2>1. /\ client' = [client EXCEPT !.op = "retain", !.pc = "session", !.answer = "none",
                                    !.current = wr.committed]
        /\ sessionMu' = "client" /\ sessionMu = "none" /\ client.pc = "idle"
        /\ UNCHANGED <<wr, fin, pub, age, cat, watch, told>>
    BY <1>2 DEF RetainEnter
  <2>2. /\ client' \in ClientType /\ client'.pc = "session" /\ client'.op = "retain"
        /\ client'.answer = "none" /\ client'.current = wr.committed
    <3>1. wr.committed \in SnapType /\ "none" \in Answers
      BY DEF IInv, TypeInv, WrType, Answers, Errors
    <3> QED
      BY <2>1, <3>1 DEF IInv, TypeInv, ClientType
  <2>3. TypeInv'
    BY <2>1, <2>2 DEF IInv, TypeInv
  <2>4. ErrOK(wr)' /\ CutOK(wr)' /\ CauseToldOnce' /\ HeadOK(wr, pub, cat)'
    BY <2>1 DEF IInv, CauseToldOnce
  <2>5. SessionInv' /\ InvalidInv'
    BY <2>1, <2>2 DEF IInv, SessionInv, InvalidInv
  <2>6. ObserverIsCurrent' /\ QueueOK(wr, fin, pub)'
    BY <2>1 DEF IInv, ObserverIsCurrent
  <2>7. CutInv' /\ CallInv' /\ SettledInv'
    BY <1>0, <1>2, <2>1, <2>2 DEF IInv, CutInv, CallInv, SettledInv
  <2>8. Advances
    BY <2>1, SameAdvances
  <2> QED
    BY <2>3, <2>4, <2>5, <2>6, <2>7, <2>8 DEF IInv
<1> QED
  BY <1>1, <1>2

(* noteForegroundErr after a retention.                                    *)
LEMMA RetainNoteStep == ASSUME IInv, RetainNote PROVE IInv' /\ Advances
<1>0. /\ Core(wr) /\ wr.transition # "client" /\ ~wr.closed /\ client.answer \in Causes
      /\ UNCHANGED <<sessionMu, cat>>
  BY IdleCuts DEF RetainNote, Cutting, IInv, SettledInv, SessionInv
<1>1. PICK v : v = Fail(wr, client.answer, TRUE)
  OBVIOUS
<1>2. PICK o \in Answer(v, OwnErr(wr, client.answer)) : Moved(o, "retain")
  BY <1>1, MovesPick DEF RetainNote
<1>3. Notes(wr, client.answer, 1, v)
  <2>1. Notes(wr, client.answer, 1, Fail(wr, client.answer, TRUE))
    BY <1>0, FailTells
  <2> QED
    BY <1>1, <2>1
<1>4. o \in EndErr(v, "retain", OwnErr(wr, client.answer)) /\ o.pc = "idle"
  BY <1>2 DEF EndErr, Answer
<1>5. OutKeeps(wr, "retain", o) /\ FirstErr(wr, client.answer, o.w)
  BY <1>0, <1>3, <1>4, OwnErrOK
<1>6. o.w.firstErr = "invalid" =>
        wr.firstErr = "invalid" \/ (client.pc = "note" /\ client.answer = "invalid")
  BY <1>5 DEF FirstErr, RetainNote
<1>7. cat' \in CatType /\ cat'.head.next = cat.head.next /\ HeadOK(wr, pub, cat')
  BY <1>0 DEF IInv, TypeInv
<1> QED
  BY <1>0, <1>2, <1>4, <1>5, <1>6, <1>7, OwnerStep

(* The session is released, its error is noted next.                       *)
LEMMA RetainFailsStep ==
  ASSUME IInv, client.pc = "session", sessionMu' = "none", NEW err \in Causes, RetainFails(err),
         cat' \in CatType, cat'.head.next = cat.head.next, HeadOK(wr, pub, cat'),
         err = "invalid" => pub.err = "cause" /\ cat.head.next # wr.committed.next
  PROVE  IInv' /\ Advances
<1>1. /\ client' = [client EXCEPT !.pc = "note", !.answer = err, !.current = Empty]
      /\ UNCHANGED <<wr, fin, pub, age, watch, told>>
  BY DEF RetainFails
<1>2. /\ client' \in ClientType /\ client'.pc = "note" /\ client'.answer = err
      /\ client'.op = client.op
  <2>1. err \in Answers
    BY DEF Causes, Answers, Errors
  <2> QED
    BY <1>1, <2>1, EmptyType DEF IInv, TypeInv, ClientType
<1>3. TypeInv'
  BY <1>1, <1>2 DEF IInv, TypeInv
<1>4. ErrOK(wr)' /\ CutOK(wr)' /\ CauseToldOnce' /\ HeadOK(wr, pub, cat)'
  BY <1>1 DEF IInv, CauseToldOnce
<1>5. SessionInv' /\ InvalidInv'
  BY <1>1, <1>2 DEF IInv, SessionInv, InvalidInv
<1>6. ObserverIsCurrent' /\ QueueOK(wr, fin, pub)'
  BY <1>1 DEF IInv, ObserverIsCurrent
<1>7. {"note", "session"} \cap (Cutting \cup Draining) = {}
  BY DEF Cutting, Draining
<1>8. CutInv' /\ CallInv' /\ SettledInv'
  BY <1>1, <1>2, <1>7 DEF IInv, CutInv, CallInv, SettledInv
<1>9. Advances
  BY <1>1, SameAdvances
<1> QED
  BY <1>3, <1>4, <1>5, <1>6, <1>8, <1>9 DEF IInv

(* ApplyPendingRetention returned an error.                                *)
LEMMA RetainErrorStep == ASSUME IInv, RetainError PROVE IInv' /\ Advances
<1>0. /\ Core(wr) /\ wr.transition # "client" /\ client.pc = "session" /\ sessionMu' = "none"
      /\ pub.pc # "publish"
  BY IdleCuts DEF RetainError, Cutting, IInv, SessionInv
<1>1. CASE (RetentionUnknown \/ UNCHANGED cat) /\ Moves(Answer(wr, "rejected"), "retain")
  <2>1. PICK o \in Answer(wr, "rejected") : Moved(o, "retain")
    BY <1>1, MovesPick
  <2>2. OutOK(wr, "retain", o)
    BY <1>0, <2>1, PlainAnswerOK
  <2>3. o.pc = "idle" /\ OutKeeps(wr, "retain", o) /\ Blames(wr, o.w)
    BY <2>1, <2>2, OutOKKeeps DEF Answer
  <2>4. cat' \in CatType /\ cat'.head.next = cat.head.next /\ HeadOK(wr, pub, cat')
    BY <1>0, <1>1, RetentionCat
  <2>5. o.w.firstErr = "invalid" => wr.firstErr = "invalid"
    BY <2>3 DEF Blames
  <2> QED
    BY <1>0, <2>1, <2>3, <2>4, <2>5, OwnerStep
<1>2. CASE UNCHANGED cat /\ RetainFails("cause")
  <2>1. "cause" \in Causes /\ cat' \in CatType /\ cat'.head.next = cat.head.next
        /\ HeadOK(wr, pub, cat')
    BY <1>2 DEF Causes, IInv, TypeInv
  <2> QED
    BY <1>0, <1>2, <2>1, RetainFailsStep
<1> QED
  BY <1>1, <1>2 DEF RetainError

(* acceptRetentionLocked: the head becomes the committed snapshot.         *)
LEMMA AcceptFields ==
  ASSUME IInv, cat'.head \in SnapType, cat'.head.next = cat.head.next,
         wr.committed.next = cat.head.next, AcceptRetention(wr.committed, cat'.head)
  PROVE  /\ wr' \in WrType /\ wr'.committed = cat'.head
         /\ wr'.committed.next = wr.committed.next
         /\ wr'.nextLSN = wr.nextLSN /\ wr'.active = wr.active
         /\ wr'.segments = wr.segments /\ wr'.detached = wr.detached /\ wr'.ready = wr.ready
         /\ wr'.firstErr = wr.firstErr /\ wr'.surfaced = wr.surfaced
         /\ wr'.closed = wr.closed /\ wr'.aborted = wr.aborted
         /\ wr'.transition = wr.transition /\ wr'.drain = wr.drain
         /\ wr'.cancelled = wr.cancelled
         /\ Watched /\ (wr'.committed # wr.committed /\ watch.pc = "wait" => watch'.woken)
<1>1. wr' = [wr EXCEPT !.committed = cat'.head, !.stateWake = TRUE] /\ wr \in WrType
  BY DEF AcceptRetention, IInv, TypeInv
<1>2. wr' \in WrType
  BY <1>1 DEF WrType
<1>3. wr'.committed = cat'.head
  BY <1>1 DEF WrType
<1>4. Watched /\ (cat'.head # wr.committed /\ watch.pc = "wait" => watch'.woken)
  BY SignalledOK DEF AcceptRetention, IInv, TypeInv
<1> QED
  BY <1>1, <1>2, <1>3, <1>4 DEF WrType

(* The parts of the invariant that a new committed snapshot leaves alone.  *)
LEMMA AcceptParts ==
  ASSUME IInv, cat' \in CatType, cat'.head \in SnapType, cat'.head.next = cat.head.next,
         wr.committed.next = cat.head.next, cat'.pending = 0,
         AcceptRetention(wr.committed, cat'.head), UNCHANGED <<fin, told>>
  PROVE  /\ wr' \in WrType /\ ErrOK(wr') /\ CutOK(wr') /\ CauseToldOnce' /\ ObserverIsCurrent'
         /\ \A p : HeadOK(wr', p, cat')
         /\ \A p : QueueOK(wr, fin, p) => QueueOK(wr', fin, p)
         /\ Settled(wr, cat) => Settled(wr', cat')
<1>1. /\ wr' \in WrType /\ wr'.committed = cat'.head
      /\ wr'.committed.next = wr.committed.next
      /\ wr'.nextLSN = wr.nextLSN /\ wr'.active = wr.active
      /\ wr'.segments = wr.segments /\ wr'.detached = wr.detached /\ wr'.ready = wr.ready
      /\ wr'.firstErr = wr.firstErr /\ wr'.surfaced = wr.surfaced
      /\ wr'.closed = wr.closed /\ wr'.aborted = wr.aborted
      /\ wr'.transition = wr.transition /\ wr'.drain = wr.drain
      /\ wr'.cancelled = wr.cancelled
      /\ Watched /\ (wr'.committed # wr.committed /\ watch.pc = "wait" => watch'.woken)
  BY AcceptFields
<1>2. ErrOK(wr') /\ CutOK(wr')
  BY <1>1 DEF IInv, ErrOK, CutOK
<1>3. CauseToldOnce'
  BY <1>1 DEF IInv, CauseToldOnce
<1>4. ObserverIsCurrent'
  BY <1>1 DEF IInv, ObserverIsCurrent, Watched
<1>5. \A p : HeadOK(wr', p, cat')
  <2>1. wr'.committed.ret \in Nat
    BY <1>1 DEF SnapType
  <2> QED
    BY <1>1, <2>1 DEF HeadOK
<1>6. \A p : QueueOK(wr, fin, p) => QueueOK(wr', fin, p)
  <2>1. HeldEnd(wr', fin) = HeldEnd(wr, fin)
    BY <1>1 DEF HeldEnd
  <2>2. \A b : TailOK(wr, b) => TailOK(wr', b)
    BY <1>1 DEF TailOK
  <2> QED
    BY <1>1, <2>1, <2>2 DEF QueueOK
<1>7. Settled(wr, cat) => Settled(wr', cat')
  BY <1>1 DEF Settled
<1> QED
  BY <1>1, <1>2, <1>3, <1>4, <1>5, <1>6, <1>7

(* ApplyPendingRetention returned a result.                                *)
LEMMA RetainResultStep == ASSUME IInv, RetainResult PROVE IInv' /\ Advances
<1>0. /\ client.pc = "session" /\ sessionMu' = "none" /\ client.current = wr.committed
      /\ sessionMu = "client" /\ client.op = "retain"
  BY DEF RetainResult, IInv, SessionInv, CallInv
<1>1. PICK applied \in BOOLEAN :
        /\ IF applied THEN RetentionDone ELSE cat.pending = 0 /\ UNCHANGED cat
        /\ IF ValidRetention(wr.committed, cat'.head, applied)
           THEN /\ AcceptRetention(wr.committed, cat'.head)
                /\ client' = [client EXCEPT !.op = "none", !.pc = "idle", !.answer = "retained",
                                            !.current = Empty]
                /\ UNCHANGED <<fin, pub, age, told>>
           ELSE RetainFails("invalid")
  BY <1>0 DEF RetainResult
<1>2. Version \in Nat /\ Version # 0 /\ wr.committed.ret <= Version
  BY VersionNat
<1>3. /\ cat \in CatType /\ cat.head \in SnapType /\ wr.committed \in SnapType
  BY DEF IInv, TypeInv, CatType, WrType
<1>4. /\ cat' \in CatType /\ cat'.head \in SnapType /\ cat'.head.next = cat.head.next
      /\ cat'.pending = 0 /\ wr.committed.ret <= cat'.head.ret
      /\ ~applied => cat' = cat
  <2>1. CASE applied
    BY <1>1, <1>2, <2>1, RetentionDoneCat
  <2>2. CASE ~applied
    BY <1>1, <1>3, <2>2 DEF IInv, HeadOK
  <2> QED
    BY <2>1, <2>2
<1>5. CASE ValidRetention(wr.committed, cat'.head, applied)
  <2>1. /\ AcceptRetention(wr.committed, cat'.head)
        /\ client' = [client EXCEPT !.op = "none", !.pc = "idle", !.answer = "retained",
                                    !.current = Empty]
        /\ UNCHANGED <<fin, pub, age, told>>
    BY <1>1, <1>5
  <2>2. wr.committed.next = cat.head.next
    BY <1>4, <1>5 DEF ValidRetention
  <2>3. /\ wr' \in WrType /\ ErrOK(wr') /\ CutOK(wr') /\ CauseToldOnce' /\ ObserverIsCurrent'
        /\ HeadOK(wr', pub, cat')
        /\ QueueOK(wr, fin, pub) => QueueOK(wr', fin, pub)
        /\ Settled(wr, cat) => Settled(wr', cat')
    BY <1>4, <2>1, <2>2, AcceptParts
  <2>4. /\ wr'.committed.next = wr.committed.next /\ wr'.active = wr.active
        /\ wr'.firstErr = wr.firstErr /\ wr'.closed = wr.closed
        /\ wr'.transition = wr.transition /\ wr'.drain = wr.drain /\ Watched
    BY <1>4, <2>1, <2>2, AcceptFields
  <2>5. /\ client' \in ClientType /\ client'.pc = "idle" /\ client'.op = "none"
        /\ client'.answer = "retained"
    <3>1. "idle" \in OutPcs
      BY DEF OutPcs
    <3> QED
      BY <2>1, <3>1, EmptyType DEF IInv, TypeInv, ClientType
  <2>6. TypeInv'
    BY <1>4, <2>1, <2>3, <2>4, <2>5 DEF IInv, TypeInv, Watched
  <2>7. SessionInv'
    BY <1>0, <2>1, <2>4, <2>5 DEF IInv, SessionInv
  <2>8. InvalidInv'
    BY <1>4, <2>1, <2>4, <2>5 DEF IInv, InvalidInv
  <2>9. {"idle", "session"} \cap (Cutting \cup Draining) = {}
    BY DEF Cutting, Draining
  <2>10. CutInv' /\ CallInv'
    BY <1>0, <2>1, <2>4, <2>5, <2>9 DEF IInv, CutInv, CallInv
  <2>11. SettledInv'
    BY <1>0, <2>3, <2>4, <2>5, <2>9 DEF IInv, SettledInv
  <2>12. QueueOK(wr, fin, pub)' /\ HeadOK(wr, pub, cat)'
    BY <2>1, <2>3 DEF IInv
  <2>13. Advances
    <3>1. wr'.committed.next = wr.committed.next /\ wr'.committed.ret >= wr.committed.ret
          /\ wr.committed.next \in Nat
      BY <1>3, <1>4, <2>1, <2>2, AcceptFields DEF SnapType
    <3> QED
      BY <3>1 DEF Advances
  <2> QED
    BY <2>3, <2>6, <2>7, <2>8, <2>10, <2>11, <2>12, <2>13 DEF IInv
<1>6. CASE ~ValidRetention(wr.committed, cat'.head, applied)
  <2>1. RetainFails("invalid") /\ "invalid" \in Causes
    BY <1>1, <1>6 DEF Causes
  <2>2. cat.head.next # wr.committed.next
    <3> SUFFICES ASSUME cat.head.next = wr.committed.next PROVE FALSE
      OBVIOUS
    <3>1. cat'.head.next = wr.committed.next /\ cat'.head.ret >= wr.committed.ret
      BY <1>3, <1>4 DEF SnapType
    <3>2. ~applied /\ cat'.head # wr.committed
      BY <1>6, <3>1 DEF ValidRetention
    <3>3. cat.head.ret = wr.committed.ret
      BY <1>1, <3>2 DEF IInv, HeadOK
    <3>4. cat.head = wr.committed
      BY <1>3, <3>3, SnapEqual
    <3> QED
      BY <1>4, <3>2, <3>4
  <2>3. pub.err = "cause" /\ pub.pc \in Ended
    BY <2>2 DEF IInv, HeadOK
  <2>4. HeadOK(wr, pub, cat')
    BY <1>4, <2>2, <2>3 DEF HeadOK, Ended
  <2> QED
    BY <1>0, <1>4, <2>1, <2>2, <2>3, <2>4, RetainFailsStep
<1> QED
  BY <1>5, <1>6

-----------------------------------------------------------------------------
(* Steps of finalizeLoop, ageLoop, the drain and the observer              *)

(* A goroutine that leaves the session alone.                              *)
LEMMA OtherStep ==
  ASSUME IInv, Core(wr'), wr'.committed = wr.committed, Blames(wr, wr'), Told(wr') = Told(wr),
         wr'.closed = wr.closed, wr'.drain = "done" => wr.drain = "done",
         QueueOK(wr', fin', pub), fin' \in FinType,
         client.pc \in Cutting <=> wr'.transition = "client",
         age'.pc = "reserve" <=> wr'.transition = "ager",
         Settled(wr, cat) => Settled(wr', cat),
         client.pc \in Draining => ~wr'.active.open,
         Watched, UNCHANGED <<client, pub, sessionMu, cat, told>>
  PROVE  IInv' /\ Advances
<1>1. TypeInv'
  BY DEF IInv, TypeInv, Core, Watched
<1>2. ErrOK(wr)' /\ CutOK(wr)'
  BY DEF Core
<1>3. CauseToldOnce'
  BY DEF IInv, CauseToldOnce, Told
<1>4. SessionInv' /\ HeadOK(wr, pub, cat)' /\ InvalidInv'
  BY DEF IInv, SessionInv, HeadOK, InvalidInv, Blames
<1>5. ObserverIsCurrent'
  BY DEF IInv, ObserverIsCurrent, Watched
<1>6. QueueOK(wr, fin, pub)' /\ CutInv' /\ CallInv'
  BY DEF IInv, CutInv, CallInv
<1>7. SettledInv'
  BY DEF IInv, SettledInv
<1>8. Advances
  BY SameAdvances
<1> QED
  BY <1>1, <1>2, <1>3, <1>4, <1>5, <1>6, <1>7, <1>8 DEF IInv

(* The active segment gets old.                                            *)
LEMMA ElapseStep == ASSUME IInv, Elapse PROVE IInv' /\ Advances
<1>1. wr' = [wr EXCEPT !.active.old = TRUE] /\ wr \in WrType /\ wr.active \in ActiveType
  BY DEF Elapse, IInv, TypeInv, WrType
<1> DEFINE a == [wr.active EXCEPT !.old = TRUE]
<1>2. a \in ActiveType /\ a.base = wr.active.base /\ a.records = wr.active.records
      /\ a.open = wr.active.open
  BY <1>1 DEF ActiveType
<1>3. wr' = [wr EXCEPT !.active = a]
  BY <1>1 DEF WrType
<1> HIDE DEF a
<1>4. /\ wr' \in WrType /\ wr'.active = a /\ wr'.nextLSN = wr.nextLSN
      /\ wr'.committed = wr.committed /\ wr'.segments = wr.segments
      /\ wr'.detached = wr.detached /\ wr'.ready = wr.ready /\ wr'.firstErr = wr.firstErr
      /\ wr'.surfaced = wr.surfaced /\ wr'.closed = wr.closed /\ wr'.aborted = wr.aborted
      /\ wr'.transition = wr.transition /\ wr'.drain = wr.drain /\ wr'.cancelled = wr.cancelled
  BY <1>1, <1>2, <1>3, ZenonT(40) DEF WrType
<1>5. UNCHANGED <<client, fin, pub, age, sessionMu, cat, watch, told>>
  BY DEF Elapse
<1>6. Core(wr')
  BY <1>2, <1>4 DEF IInv, Core, ErrOK, CutOK
<1>7. Blames(wr, wr') /\ Told(wr') = Told(wr)
  BY <1>4 DEF Blames, Told
<1>8. QueueOK(wr', fin', pub)
  <2>1. HeldEnd(wr', fin) = HeldEnd(wr, fin)
    BY <1>4 DEF HeldEnd
  <2>2. \A b : TailOK(wr, b) => TailOK(wr', b)
    BY <1>2, <1>4 DEF TailOK
  <2> QED
    BY <1>4, <1>5, <2>1, <2>2 DEF IInv, QueueOK
<1>9. Settled(wr, cat) => Settled(wr', cat)
  BY <1>2, <1>4 DEF Settled
<1>10. /\ client.pc \in Cutting <=> wr'.transition = "client"
       /\ age'.pc = "reserve" <=> wr'.transition = "ager"
       /\ client.pc \in Draining => ~wr'.active.open
  BY <1>2, <1>4, <1>5 DEF IInv, CutInv, SettledInv
<1>11. Watched /\ fin' \in FinType
  BY <1>5, WatchSame DEF IInv, TypeInv
<1> QED
  BY <1>4, <1>5, <1>6, <1>7, <1>8, <1>9, <1>10, <1>11, OtherStep

(* runDrain aborts the writers it was handed and waits for the goroutines. *)
LEMMA DrainStep == ASSUME IInv, RunDrain PROVE IInv' /\ Advances
<1>0. /\ wr \in WrType /\ fin \in FinType /\ client \in ClientType
  BY DEF IInv, TypeInv
<1>1. UNCHANGED <<client, fin, pub, age, sessionMu, cat, watch, told>>
  BY DEF RunDrain, DrainCleanup, DrainJoin
<1>2. /\ wr' \in WrType /\ Alike(wr, wr') /\ wr'.transition = wr.transition
      /\ wr'.cancelled = wr.cancelled /\ wr.drain # "off" /\ wr'.drain # "off"
      /\ wr'.drain = "done" => pub.pc = "exit"
  <2>1. CASE DrainCleanup
    <3>1. PICK k \in Int : k = wr.sinks - wr.handed
      BY <1>0 DEF WrType
    <3>2. wr.drain = "cleanup"
          /\ wr' = [wr EXCEPT !.drain = "join", !.sinks = k, !.handed = 0]
      BY <1>0, <2>1, <3>1 DEF DrainCleanup, WrType
    <3>3. wr' \in WrType
      <4>0. PICK z \in Int : z = 0
        OBVIOUS
      <4> DEFINE u == [wr EXCEPT !.drain = "join", !.handed = z]
      <4>1. u \in WrType
        BY <1>0, <4>0 DEF WrType
      <4>2. wr' = [u EXCEPT !.sinks = k]
        BY <1>0, <3>2, <4>0 DEF WrType
      <4> HIDE DEF u
      <4> QED
        BY <4>1, <4>2 DEF WrType
    <3>4. Alike(wr, wr')
      BY <1>0, <3>2 DEF WrType, Alike
    <3>5. wr'.transition = wr.transition /\ wr'.cancelled = wr.cancelled /\ wr'.drain = "join"
      BY <1>0, <3>2 DEF WrType
    <3> QED
      BY <3>2, <3>3, <3>4, <3>5
  <2>2. CASE DrainJoin
    <3>1. wr.drain = "join" /\ wr' = [wr EXCEPT !.drain = "done"] /\ pub.pc = "exit"
      BY <2>2 DEF DrainJoin, Workers
    <3> QED
      BY <1>0, <3>1 DEF WrType, Alike
  <2> QED
    BY <2>1, <2>2 DEF RunDrain
<1>3. Watched
  BY <1>1, WatchSame
<1> QED
  BY <1>0, <1>1, <1>2, <1>3, AlikeStep

(* An observer of Committed() takes a step of its own.                     *)
LEMMA ObserverStep == ASSUME IInv, Observer PROVE IInv' /\ Advances
<1>1. UNCHANGED <<wr, client, fin, pub, age, sessionMu, cat, told>>
  BY DEF Observer, WatchGet, WatchRead, WatchWake
<1>2. watch' \in WatchType /\ ObserverIsCurrent'
  <2>1. watch \in WatchType /\ wr.committed \in SnapType
    BY DEF IInv, TypeInv, WrType
  <2>2. CASE WatchGet
    BY <2>1, <2>2 DEF WatchGet, WatchType, ObserverIsCurrent
  <2>3. CASE WatchRead
    BY <2>1, <2>3 DEF WatchRead, WatchType, ObserverIsCurrent
  <2>4. CASE WatchWake
    BY <2>1, <2>4 DEF WatchWake, WatchType, ObserverIsCurrent
  <2> QED
    BY <2>2, <2>3, <2>4 DEF Observer
<1>3. TypeInv'
  BY <1>1, <1>2 DEF IInv, TypeInv
<1>4. /\ ErrOK(wr)' /\ CutOK(wr)' /\ CauseToldOnce' /\ SessionInv' /\ HeadOK(wr, pub, cat)'
      /\ InvalidInv' /\ QueueOK(wr, fin, pub)' /\ CutInv' /\ SettledInv' /\ CallInv'
  BY <1>1 DEF IInv, CauseToldOnce, SessionInv, InvalidInv, CutInv, SettledInv, CallInv
<1>5. Advances
  BY <1>1, SameAdvances
<1> QED
  BY <1>2, <1>3, <1>4, <1>5 DEF IInv

(* What a settled writer's queues hold.                                    *)
LEMMA SettledQuiet ==
  ASSUME IInv, Settled(wr, cat)
  PROVE  /\ wr.ready = <<>> /\ wr.detached = <<>> /\ fin.pc # "close"
         /\ pub.pc \notin {"lock", "reconcile", "publish", "note"}
<1>1. Done(wr) /\ wr \in WrType /\ QueueOK(wr, fin, pub)
  BY DEF Settled, Done, IInv, TypeInv
<1> QED
  BY <1>1, DoneQueues

-----------------------------------------------------------------------------
(* ageLoop                                                                 *)

(* No segment is cut where none is active.                                 *)
LEMMA CutNothing ==
  ASSUME NEW w, Core(w), ~w.active.open, w.aborted \/ w.active.records = 0,
         NEW who, NEW d, NEW o,
         o \in Cut(w, who, d) \/ (w.aborted /\ o \in Reserve(w, d))
  PROVE  Alike(w, o.w)
<1>0. w \in WrType
  BY DEF Core
<1>1. CASE o \in Cut(w, who, d)
  <2>1. o.w = w
    BY <1>1 DEF Cut
  <2> QED
    BY <2>1 DEF Alike
<1>2. CASE w.aborted /\ o \in Reserve(w, d)
  <2>1. o.w = EndTransition(w)
    BY <1>2 DEF Reserve
  <2> QED
    BY <1>0, <2>1, EndFields
<1> QED
  BY <1>1, <1>2

(* Where no segment is active there are no records in it.                  *)
LEMMA NoneActive ==
  ASSUME IInv, ~wr.active.open PROVE wr.aborted \/ wr.active.records = 0
BY DEF IInv, QueueOK, TailOK

(* A step of ageLoop, in which an absent active segment stays absent.      *)
LEMMA AgerStep ==
  ASSUME IInv, NEW w, NEW pc, NEW woken, NEW base, Ager(w, pc, woken, base),
         Follows(wr, w), Told(w) = Told(wr), w.closed = wr.closed,
         client.pc \in Cutting <=> w.transition = "client",
         pc = "reserve" <=> w.transition = "ager",
         ~wr.active.open => Alike(wr, w)
  PROVE  IInv' /\ Advances
<1>1. /\ wr' = w /\ age'.pc = pc /\ Broadcast
      /\ UNCHANGED <<client, fin, pub, sessionMu, cat, told>>
  BY DEF Ager
<1>2. /\ Core(wr) /\ Keeps(wr, wr') /\ Core(wr') /\ wr'.committed = wr.committed
      /\ Blames(wr, wr') /\ Told(wr') = Told(wr) /\ wr'.closed = wr.closed
      /\ (wr'.drain = "done" => wr.drain = "done")
  BY <1>1 DEF Follows, Keeps, IInv, TypeInv, Core
<1>3. QueueOK(wr', fin', pub) /\ fin' \in FinType
  BY <1>1, <1>2, KeepsQueue DEF IInv, TypeInv
<1>4. Settled(wr, cat) => Settled(wr', cat)
  BY <1>1 DEF Settled, Alike
<1>5. client.pc \in Draining => ~wr'.active.open
  BY <1>1 DEF IInv, SettledInv, Alike
<1>6. Watched
  BY <1>1, BroadcastOK DEF IInv, TypeInv
<1> QED
  BY <1>1, <1>2, <1>3, <1>4, <1>5, <1>6, OtherStep

(* ageLoop moves on, the struct as it is but for wake-ups.                 *)
LEMMA AgerWaits ==
  ASSUME IInv, age.pc # "reserve", NEW w \in WrType, Alike(wr, w), w.transition = wr.transition,
         w.drain = wr.drain, w.cancelled = wr.cancelled,
         NEW pc, pc # "reserve", NEW woken, NEW base, Ager(w, pc, woken, base)
  PROVE  IInv' /\ Advances
<1>1. Core(wr)
  BY DEF IInv, TypeInv, Core
<1>2. Silent(wr, w)
  BY <1>1, AlikeSilent
<1>3. /\ client.pc \in Cutting <=> w.transition = "client"
      /\ pc = "reserve" <=> w.transition = "ager"
  BY DEF IInv, CutInv
<1> QED
  BY <1>2, <1>3, AgerStep DEF Silent, Alike

(* The end of cutLocked in ageLoop: a writer that ended has cancelled it.  *)
LEMMA AgerCutStep ==
  ASSUME IInv, NEW w, Core(w), Alike(wr, w), w.drain = wr.drain, w.cancelled = wr.cancelled,
         Follows(wr, w), NEW outs, AgerCut(outs),
         \A o \in outs : ResOK(w, "ager", FALSE, o) /\ (~w.active.open => Alike(w, o.w)),
         client.pc \notin Cutting
  PROVE  IInv' /\ Advances
<1>0. PICK o \in outs :
        \/ o.res = "ok" /\ Ager(o.w, "top", FALSE, 0)
        \/ o.res = "wait" /\ Ager(o.w, "reserve", FALSE, 0)
        \/ o.res \notin {"ok", "wait"} /\ o.w.cancelled /\ Ager(o.w, "exit", FALSE, 0)
        \/ o.res = "rejected" /\ ~o.w.cancelled /\ Ager(o.w, "backoff", FALSE, 0)
        \/ o.res \notin Open /\ ~o.w.cancelled
  BY DEF AgerCut, Open
<1>1. ResOK(w, "ager", FALSE, o) /\ (~w.active.open => Alike(w, o.w))
  OBVIOUS
<1>2. /\ Follows(w, o.w) /\ o.w.closed = w.closed /\ Told(o.w) = Told(w)
      /\ o.w.transition = IF o.res = "wait" THEN "ager" ELSE "none"
  BY <1>1 DEF ResOK, Told
<1>3. Core(wr)
  BY DEF IInv, TypeInv, Core
<1>4. /\ Follows(wr, o.w) /\ Told(o.w) = Told(wr) /\ o.w.closed = wr.closed
  BY <1>2, <1>3, FollowsTrans DEF Alike, Told
<1>5. ~wr.active.open => Alike(wr, o.w)
  BY <1>1 DEF Alike
<1>6. CASE o.res \notin Open /\ ~o.w.cancelled
  <2>1. w.closed \/ w.aborted
    BY <1>1, <1>6 DEF ResOK
  <2>2. o.w.closed \/ o.w.aborted
    BY <1>1, <2>1 DEF ResOK
  <2>3. o.w.cancelled
    BY <1>2, <2>2 DEF Follows, Keeps, Core, ErrOK
  <2> QED
    BY <1>6, <2>3
<1>7. ASSUME NEW pc, Ager(o.w, pc, FALSE, 0), pc = "reserve" <=> o.res = "wait" PROVE IInv' /\ Advances
  <2>1. /\ client.pc \in Cutting <=> o.w.transition = "client"
        /\ pc = "reserve" <=> o.w.transition = "ager"
    BY <1>2, <1>7
  <2>2. PICK z : z = FALSE
    OBVIOUS
  <2>3. Ager(o.w, pc, z, 0)
    BY <1>7, <2>2 DEF Ager
  <2> QED
    BY <1>4, <1>5, <2>1, <2>3, AgerStep
<1> QED
  BY <1>0, <1>6, <1>7

(* ageLoop looks at the active segment.                                    *)
LEMMA AgeTopStep == ASSUME IInv, AgeTop PROVE IInv' /\ Advances
<1> DEFINE w == [wr EXCEPT !.ageWake = FALSE]
<1>0. wr \in WrType /\ Core(wr)
  BY DEF IInv, TypeInv, Core
<1>1. /\ w \in WrType /\ Alike(wr, w) /\ w.transition = wr.transition
      /\ w.drain = wr.drain /\ w.cancelled = wr.cancelled
  BY <1>0 DEF WrType, Alike
<1>2. /\ wr \in WrType /\ Alike(wr, wr)
  BY <1>0 DEF Alike
<1>3. \/ Ager(wr, "exit", FALSE, 0) \/ Ager(wr, "idle", FALSE, 0)
      \/ Ager(w, "timer", FALSE, wr.active.base)
      \/ Ager(w, "transition", FALSE, 0)
      \/ wr.transition = "none" /\ AgerCut(Cut(w, "ager", FALSE))
  BY DEF AgeTop
<1>4. age.pc # "reserve"
  BY DEF AgeTop
<1> HIDE DEF w
<1>5. ASSUME NEW pc, pc # "reserve", NEW woken, NEW base,
             Ager(wr, pc, woken, base) \/ Ager(w, pc, woken, base)
      PROVE  IInv' /\ Advances
  BY <1>1, <1>2, <1>4, <1>5, AgerWaits
<1>6. CASE wr.transition = "none" /\ AgerCut(Cut(w, "ager", FALSE))
  <2>1. Silent(wr, w) /\ Core(w)
    BY <1>0, <1>1, AlikeSilent
  <2>2. \A o \in Cut(w, "ager", FALSE) : ResOK(w, "ager", FALSE, o)
    BY <1>1, <1>6, <2>1, CutResult
  <2>3. ~w.active.open => w.aborted \/ w.active.records = 0
    BY <1>1, NoneActive DEF Alike
  <2>4. \A o \in Cut(w, "ager", FALSE) : ~w.active.open => Alike(w, o.w)
    BY <2>1, <2>3, CutNothing
  <2>5. client.pc \notin Cutting
    BY <1>6 DEF IInv, CutInv
  <2> QED
    BY <1>1, <1>6, <2>1, <2>2, <2>4, <2>5, AgerCutStep DEF Silent
<1> QED
  BY <1>3, <1>5, <1>6

(* ageLoop is woken, or its timer fires.                                   *)
LEMMA AgeWakeStep == ASSUME IInv, AgeWake PROVE IInv' /\ Advances
<1>0. wr \in WrType
  BY DEF IInv, TypeInv
<1> DEFINE w == [wr EXCEPT !.ageWake = FALSE]
<1>1. /\ w \in WrType /\ Alike(wr, w) /\ w.transition = wr.transition
      /\ w.drain = wr.drain /\ w.cancelled = wr.cancelled
  BY <1>0 DEF WrType, Alike
<1>2. Alike(wr, wr)
  BY DEF Alike
<1>3. (Ager(w, "top", FALSE, 0) \/ Ager(wr, "top", FALSE, 0)) /\ age.pc # "reserve"
  BY DEF AgeWake
<1> HIDE DEF w
<1> QED
  BY <1>0, <1>1, <1>2, <1>3, AgerWaits

(* The transition ageLoop waited for has ended.                            *)
LEMMA AgeTransitionStep == ASSUME IInv, AgeTransition PROVE IInv' /\ Advances
<1>0. wr \in WrType /\ Core(wr) /\ Alike(wr, wr) /\ wr.transition = "none"
  BY DEF IInv, TypeInv, Core, Alike, AgeTransition
<1>1. AgerCut(Cut(wr, "ager", FALSE)) /\ Follows(wr, wr)
  BY <1>0, FollowsSelf DEF AgeTransition
<1>2. \A o \in Cut(wr, "ager", FALSE) : ResOK(wr, "ager", FALSE, o)
  BY <1>0, CutResult
<1>3. \A o \in Cut(wr, "ager", FALSE) : ~wr.active.open => Alike(wr, o.w)
  BY <1>0, NoneActive, CutNothing
<1>4. client.pc \notin Cutting
  BY <1>0 DEF IInv, CutInv
<1> QED
  BY <1>0, <1>1, <1>2, <1>3, <1>4, AgerCutStep

(* ageLoop waits for budget.                                               *)
LEMMA AgeReserveStep == ASSUME IInv, AgeReserve PROVE IInv' /\ Advances
<1>0. wr \in WrType /\ Core(wr) /\ Alike(wr, wr) /\ wr.transition = "ager" /\ client.pc \notin Cutting
      /\ age.pc = "reserve"
  BY DEF IInv, TypeInv, Core, Alike, AgeReserve, CutInv
<1>1. CASE Ager([wr EXCEPT !.stateWake = FALSE], "reserve", TRUE, 0)
  <2> DEFINE w == [wr EXCEPT !.stateWake = FALSE]
  <2>1. /\ w \in WrType /\ Alike(wr, w) /\ w.transition = wr.transition
        /\ w.drain = wr.drain /\ w.cancelled = wr.cancelled
    BY <1>0 DEF WrType, Alike
  <2>2. /\ wr' = w /\ age'.pc = "reserve" /\ Broadcast
        /\ UNCHANGED <<client, fin, pub, sessionMu, cat, told>>
    BY <1>1 DEF Ager
  <2> HIDE DEF w
  <2>3. Watched
    BY <2>2, BroadcastOK DEF IInv, TypeInv
  <2>4. (wr.drain = "done" => pub.pc = "exit") /\ fin \in FinType /\ client \in ClientType
    BY DEF IInv, SessionInv, TypeInv
  <2> QED
    BY <1>0, <2>1, <2>2, <2>3, <2>4, AlikeStep
<1>2. CASE AgerCut(Reserve(wr, FALSE))
  <2>1. CASE wr.closed
    <3>1. Settled(wr, cat) /\ wr.active \in ActiveType
      BY <2>1, <1>0 DEF IInv, SettledInv, WrType
    <3>2. ~wr.aborted /\ wr.active.records = 0
      BY <3>1, NoneActive DEF Settled
    <3> QED
      BY <1>0, <3>2 DEF Core, CutOK
  <2>2. CASE ~wr.closed
    <3>1. \A o \in Reserve(wr, FALSE) : ResOK(wr, "ager", FALSE, o)
      BY <1>0, <2>2, ReserveOK
    <3>2. ~wr.active.open => wr.aborted
      <4>1. wr.active.records = 0 => wr.aborted
        BY <1>0 DEF Core, CutOK
      <4> QED
        BY <4>1, NoneActive
    <3>3. \A o \in Reserve(wr, FALSE) : ~wr.active.open => Alike(wr, o.w)
      BY <1>0, <3>2, CutNothing
    <3>4. Follows(wr, wr)
      BY <1>0, FollowsSelf
    <3> QED
      BY <1>0, <1>2, <3>1, <3>3, <3>4, AgerCutStep
  <2> QED
    BY <2>1, <2>2
<1> QED
  BY <1>1, <1>2 DEF AgeReserve

(* workerCtx ends while ageLoop waits.                                     *)
LEMMA AgeExitStep == ASSUME IInv, AgeExit PROVE IInv' /\ Advances
<1>0. wr \in WrType /\ Core(wr) /\ Alike(wr, wr)
  BY DEF IInv, TypeInv, Core, Alike
<1>1. CASE age.pc # "reserve"
  <2>1. Ager(wr, "exit", FALSE, 0)
    BY <1>1 DEF AgeExit
  <2> QED
    BY <1>0, <1>1, <2>1, AgerWaits
<1>2. CASE age.pc = "reserve"
  <2> DEFINE w == EndTransition(wr)
  <2>1. /\ w \in WrType /\ w.transition = "none" /\ Alike(wr, w)
        /\ w.drain = wr.drain /\ w.cancelled = wr.cancelled
    BY <1>0, EndFields
  <2>2. Ager(w, "exit", FALSE, 0)
    BY <1>2 DEF AgeExit
  <2> HIDE DEF w
  <2>3. CutOK(w)
    BY <2>1 DEF CutOK
  <2>4. Follows(wr, w) /\ Told(w) = Told(wr)
    BY <1>0, <2>1, <2>3, AlikeFollows
  <2>5. client.pc \notin Cutting
    BY <1>2 DEF IInv, CutInv
  <2> QED
    BY <2>1, <2>2, <2>4, <2>5, AgerStep DEF Alike
<1> QED
  BY <1>1, <1>2

-----------------------------------------------------------------------------
(* finalizeLoop                                                            *)

(* The first segment of a queue leaves it.                                 *)
LEMMA LinkedTail ==
  ASSUME NEW S, NEW s \in Seq(S), s # <<>>, NEW b, Linked(s, b), NEW c,
         c = s[1].base + s[1].records
  PROVE  /\ s[1].base = b /\ s[1] \in S /\ Tail(s) \in Seq(S) /\ Len(s) = Len(Tail(s)) + 1
         /\ Linked(Tail(s), c) /\ End(Tail(s), c) = End(s, b)
<1> DEFINE t == Tail(s)
<1>1. /\ Len(s) \in Nat /\ Len(s) >= 1 /\ t \in Seq(S) /\ Len(t) = Len(s) - 1
      /\ \A i \in 1..Len(t) : t[i] = s[i + 1]
  OBVIOUS
<1>2. /\ DOMAIN s = 1..Len(s) /\ DOMAIN t = 1..Len(t) /\ 1 \in 1..Len(s) /\ Len(t) \in Nat
      /\ s[1] \in S
  BY <1>1
<1> HIDE DEF t
<1>3. \A i \in 1..Len(s) : s[i].base = IF i = 1 THEN b ELSE s[i - 1].base + s[i - 1].records
  BY <1>2 DEF Linked
<1>4. s[1].base = b
  BY <1>2, <1>3
<1>5. Linked(t, c)
  <2> SUFFICES ASSUME NEW i \in 1..Len(t)
               PROVE  t[i].base = IF i = 1 THEN c ELSE t[i - 1].base + t[i - 1].records
    BY <1>2 DEF Linked
  <2>1. i + 1 \in 1..Len(s) /\ i + 1 # 1 /\ (i + 1) - 1 = i
    BY <1>1
  <2>2. t[i].base = s[i].base + s[i].records
    BY <1>1, <1>3, <2>1
  <2>3. CASE i = 1
    BY <2>2, <2>3
  <2>4. CASE i # 1
    <3>1. i - 1 \in 1..Len(t) /\ (i - 1) + 1 = i
      BY <1>2, <2>4
    <3>2. t[i - 1] = s[i]
      BY <1>1, <3>1
    <3> QED
      BY <2>2, <2>4, <3>2
  <2> QED
    BY <2>3, <2>4
<1>6. End(t, c) = End(s, b)
  <2>1. CASE t = <<>>
    <3>1. Len(t) = 0
      BY <2>1
    <3>2. Len(s) = 1
      BY <1>1, <1>2, <3>1
    <3> QED
      BY <2>1, <3>2 DEF End
  <2>2. CASE t # <<>>
    <3>1. Len(t) \in 1..Len(t) /\ Len(t) + 1 = Len(s)
      BY <1>1, <1>2, <2>2
    <3>2. t[Len(t)] = s[Len(s)]
      BY <1>1, <3>1
    <3> QED
      BY <2>2, <3>2 DEF End
  <2> QED
    BY <2>1, <2>2
<1> QED
  BY <1>1, <1>2, <1>4, <1>5, <1>6 DEF t

(* A step of finalizeLoop that the struct does not follow but for the      *)
(* queues.                                                                 *)
LEMMA FinalizerStep ==
  ASSUME IInv, NEW w, NEW pc, NEW item, Finalizer(w, pc, item), [pc |-> pc, item |-> item] \in FinType,
         Core(w), w.committed = wr.committed, Blames(wr, w), Told(w) = Told(wr),
         w.closed = wr.closed, w.drain = "done" => wr.drain = "done",
         w.transition = wr.transition, ~wr.active.open => ~w.active.open,
         \A f : f.pc = pc /\ f.item = item => QueueOK(w, f, pub),
         Settled(wr, cat) => Settled(w, cat)
  PROVE  IInv' /\ Advances
<1>1. /\ wr' = w /\ fin' = [pc |-> pc, item |-> item] /\ Broadcast
      /\ UNCHANGED <<client, pub, age, sessionMu, cat, told>>
  BY DEF Finalizer
<1>2. fin' \in FinType /\ QueueOK(wr', fin', pub)
  BY <1>1
<1>3. Watched
  BY <1>1, BroadcastOK DEF IInv, TypeInv
<1>4. /\ client.pc \in Cutting <=> wr'.transition = "client"
      /\ age'.pc = "reserve" <=> wr'.transition = "ager"
      /\ client.pc \in Draining => ~wr'.active.open
  BY <1>1 DEF IInv, CutInv, SettledInv
<1> QED
  BY <1>1, <1>2, <1>3, <1>4, OtherStep

(* finalizeLoop moves on, the struct as it is but for wake-ups and sinks.  *)
LEMMA FinalizerWaits ==
  ASSUME IInv, fin.pc # "close" \/ wr.aborted, NEW w \in WrType, Alike(wr, w),
         w.transition = wr.transition, w.drain = wr.drain, w.cancelled = wr.cancelled,
         NEW pc \in {"top", "wait", "exit"}, Finalizer(w, pc, NoItem)
  PROVE  IInv' /\ Advances
<1>1. Core(wr)
  BY DEF IInv, TypeInv, Core
<1>2. Silent(wr, w) /\ Core(w)
  BY <1>1, AlikeSilent
<1>3. [pc |-> pc, item |-> NoItem] \in FinType
  BY DEF FinType, NoItem, ItemType
<1>4. ASSUME NEW f, f.pc = pc PROVE QueueOK(w, f, pub)
  <2>1. CASE w.aborted
    BY <2>1 DEF QueueOK
  <2>2. CASE ~w.aborted
    <3>1. fin.pc # "close" /\ f.pc # "close"
      BY <1>4, <2>2 DEF Alike
    <3>2. HeldEnd(w, f) = HeldEnd(wr, fin)
      BY <3>1 DEF HeldEnd, Alike
    <3>3. \A b : TailOK(wr, b) => TailOK(w, b)
      BY DEF TailOK, Alike
    <3> QED
      BY <3>1, <3>2, <3>3 DEF IInv, QueueOK, Alike
  <2> QED
    BY <2>1, <2>2
<1>5. Settled(wr, cat) => Settled(w, cat)
  BY DEF Settled, Alike
<1> QED
  BY <1>2, <1>3, <1>4, <1>5, FinalizerStep DEF Silent, Follows, Alike

(* finalizeLoop is woken or cancelled.                                     *)
LEMMA FinalizeWakeStep == ASSUME IInv, FinalizeWake PROVE IInv' /\ Advances
<1>0. wr \in WrType /\ fin.pc # "close"
  BY DEF IInv, TypeInv, FinalizeWake
<1> DEFINE w == [wr EXCEPT !.finalizeWake = FALSE]
<1>1. /\ w \in WrType /\ Alike(wr, w) /\ w.transition = wr.transition
      /\ w.drain = wr.drain /\ w.cancelled = wr.cancelled
  BY <1>0 DEF WrType, Alike
<1>2. Alike(wr, wr)
  BY DEF Alike
<1>3. Finalizer(w, "top", NoItem) \/ Finalizer(wr, "exit", NoItem)
  BY DEF FinalizeWake
<1> HIDE DEF w
<1> QED
  BY <1>0, <1>1, <1>2, <1>3, FinalizerWaits

(* The first detached segment becomes the finalizer's item.                *)
LEMMA FinalizeTopStep == ASSUME IInv, FinalizeTop PROVE IInv' /\ Advances
<1>0. wr \in WrType /\ fin.pc = "top" /\ Alike(wr, wr) /\ wr.detached \in Seq(SegmentType)
  BY DEF IInv, TypeInv, FinalizeTop, Alike, WrType
<1>1. CASE wr.detached = <<>>
  <2>1. Finalizer(wr, "exit", NoItem) \/ Finalizer(wr, "wait", NoItem)
    BY <1>1 DEF FinalizeTop
  <2> QED
    BY <1>0, <2>1, FinalizerWaits
<1>2. CASE wr.detached # <<>>
  <2> DEFINE e == wr.detached[1]
             t == Tail(wr.detached)
             w == [wr EXCEPT !.detached = t]
             item == [base |-> e.base, records |-> e.records, size |-> 0]
  <2>1. Finalizer(w, "close", item)
    BY <1>0, <1>2 DEF FinalizeTop
  <2>2. e \in SegmentType /\ t \in Seq(SegmentType)
    BY <1>0, <1>2
  <2>3. item \in ItemType /\ item.base = e.base /\ item.records = e.records
    BY <2>2 DEF SegmentType, ItemType
  <2> HIDE DEF item, e, t
  <2>4. /\ w \in WrType /\ w.detached = t
        /\ w.committed = wr.committed /\ w.nextLSN = wr.nextLSN /\ w.active = wr.active
        /\ w.segments = wr.segments /\ w.ready = wr.ready
        /\ w.firstErr = wr.firstErr /\ w.surfaced = wr.surfaced
        /\ w.closed = wr.closed /\ w.aborted = wr.aborted
        /\ w.transition = wr.transition /\ w.drain = wr.drain /\ w.cancelled = wr.cancelled
    BY <1>0, <2>2 DEF WrType
  <2> HIDE DEF w
  <2>5. Core(w)
    BY <2>4 DEF Core, ErrOK, CutOK, IInv
  <2>6. Blames(wr, w) /\ Told(w) = Told(wr)
    BY <2>4 DEF Blames, Told
  <2>7. [pc |-> "close", item |-> item] \in FinType
    BY <2>3 DEF FinType
  <2>8. ASSUME NEW f, f.pc = "close", f.item = item PROVE QueueOK(w, f, pub)
    <3>1. SUFFICES ASSUME ~wr.aborted PROVE QueueOK(w, f, pub)
      BY <2>4 DEF QueueOK
    <3> DEFINE b == End(wr.ready, wr.committed.next)
               c == e.base + e.records
    <3>2. /\ Linked(wr.ready, wr.committed.next) /\ TailOK(wr, b)
          /\ wr.segments = Len(wr.ready) + 0 + Len(wr.detached)
          /\ pub.pc \in {"lock", "reconcile", "publish", "note"} => wr.ready # <<>>
          /\ pub.pc \in {"lock", "reconcile", "publish"} => pub.item = wr.ready[1]
          /\ pub.pc = "exit" => pub.err = "none"
      BY <1>0, <3>1 DEF IInv, QueueOK, HeldEnd
    <3> HIDE DEF b, c
    <3>3. Linked(wr.detached, b)
      BY <3>2 DEF TailOK
    <3>4. /\ e.base = b /\ Len(wr.detached) = Len(t) + 1 /\ Linked(t, c)
          /\ End(t, c) = End(wr.detached, b)
      BY <1>0, <1>2, <3>3, LinkedTail DEF e, t, c
    <3>5. HeldEnd(w, f) = c
      BY <2>3, <2>8 DEF HeldEnd, c
    <3>6. TailOK(w, c)
      BY <2>4, <3>2, <3>4 DEF TailOK
    <3>7. wr.segments = Len(wr.ready) + 1 + Len(t)
      <4> DEFINE x == Len(wr.ready)
                 y == Len(t)
                 z == Len(wr.detached)
      <4>1. x \in Nat /\ y \in Nat /\ wr.segments = x + 0 + z /\ z = y + 1
        BY <1>0, <2>2, <3>2, <3>4 DEF WrType
      <4> HIDE DEF x, y, z
      <4>2. wr.segments = x + 1 + y
        BY <4>1
      <4> QED
        BY <4>2 DEF x, y
    <3> QED
      BY <2>3, <2>4, <2>8, <3>2, <3>4, <3>5, <3>6, <3>7 DEF QueueOK, b
  <2>9. Settled(wr, cat) => Settled(w, cat)
    BY <2>4 DEF Settled
  <2> QED
    BY <2>1, <2>4, <2>5, <2>6, <2>7, <2>8, <2>9, FinalizerStep
<1> QED
  BY <1>1, <1>2
(* The finished object joins the publisher's queue at its end.             *)
LEMMA FinalizeCloseStep == ASSUME IInv, FinalizeClose PROVE IInv' /\ Advances
<1>0. /\ wr \in WrType /\ fin.pc = "close" /\ fin \in FinType /\ fin.item \in ItemType
      /\ wr.ready \in Seq(ItemType)
  BY DEF IInv, TypeInv, FinalizeClose, FinType, WrType
<1>1. PICK size \in ObjectSizes(fin.item.records) :
        LET est == Estimate(fin.item.records)
        IN  Finalizer([wr EXCEPT !.bytes = IF size > est THEN @ + (size - est) ELSE Minus(@, est - size),
                                 !.ready = Append(@, [fin.item EXCEPT !.size = size]),
                                 !.publishWake = TRUE, !.stateWake = TRUE, !.sinks = @ - 1],
                      "top", NoItem)
  BY DEF FinalizeClose
<1>2. size \in Nat /\ Estimate(fin.item.records) \in Nat
  <2>1. fin.item.records \in Nat
    BY <1>0 DEF ItemType
  <2> QED
    BY <2>1, EstimateNat DEF ObjectSizes
<1>3. PICK k : k = wr.sinks - 1
  OBVIOUS
<1> DEFINE est == Estimate(fin.item.records)
           n == IF size > est THEN wr.bytes + (size - est) ELSE Minus(wr.bytes, est - size)
           e == [fin.item EXCEPT !.size = size]
           r == Append(wr.ready, e)
           u == [wr EXCEPT !.bytes = n, !.ready = r, !.publishWake = TRUE, !.stateWake = TRUE]
           w == [u EXCEPT !.sinks = k]
<1>4. k \in Int
  BY <1>0, <1>3 DEF WrType
<1>5. n \in Nat
  <2>1. wr.bytes \in Nat
    BY <1>0 DEF WrType
  <2> QED
    BY <1>2, <2>1 DEF Minus
<1>6. e \in ItemType /\ e.base = fin.item.base /\ e.records = fin.item.records
  BY <1>0, <1>2 DEF ItemType
<1>7. Finalizer(w, "top", NoItem)
  BY <1>0, <1>1, <1>3 DEF WrType
<1> HIDE DEF n, e
<1>8. r \in Seq(ItemType) /\ Len(r) = Len(wr.ready) + 1
  BY <1>0, <1>6
<1> HIDE DEF r
<1>9. u \in WrType /\ u.ready = r
  BY <1>0, <1>5, <1>8 DEF WrType
<1>10. /\ u.detached = wr.detached
       /\ u.committed = wr.committed /\ u.nextLSN = wr.nextLSN /\ u.active = wr.active
       /\ u.segments = wr.segments
       /\ u.firstErr = wr.firstErr /\ u.surfaced = wr.surfaced
       /\ u.closed = wr.closed /\ u.aborted = wr.aborted
       /\ u.transition = wr.transition /\ u.drain = wr.drain /\ u.cancelled = wr.cancelled
  BY <1>0 DEF WrType
<1> HIDE DEF u
<1>11. /\ w \in WrType /\ w.ready = r /\ w.detached = wr.detached
       /\ w.committed = wr.committed /\ w.nextLSN = wr.nextLSN /\ w.active = wr.active
       /\ w.segments = wr.segments
       /\ w.firstErr = wr.firstErr /\ w.surfaced = wr.surfaced
       /\ w.closed = wr.closed /\ w.aborted = wr.aborted
       /\ w.transition = wr.transition /\ w.drain = wr.drain /\ w.cancelled = wr.cancelled
  BY <1>4, <1>9, <1>10 DEF WrType
<1> HIDE DEF w
<1>12. Core(w)
  BY <1>11 DEF Core, ErrOK, CutOK, IInv
<1>13. Blames(wr, w) /\ Told(w) = Told(wr)
  BY <1>11 DEF Blames, Told
<1>14. [pc |-> "top", item |-> NoItem] \in FinType
  BY DEF FinType, NoItem, ItemType
<1>15. ASSUME NEW f, f.pc = "top", f.item = NoItem PROVE QueueOK(w, f, pub)
  <2>1. SUFFICES ASSUME ~wr.aborted PROVE QueueOK(w, f, pub)
    BY <1>11 DEF QueueOK
  <2> DEFINE c == wr.committed.next
             h == fin.item.base + fin.item.records
  <2>2. /\ Linked(wr.ready, c) /\ fin.item.base = End(wr.ready, c) /\ TailOK(wr, h)
        /\ wr.segments = Len(wr.ready) + 1 + Len(wr.detached)
        /\ pub.pc \in {"lock", "reconcile", "publish", "note"} => wr.ready # <<>>
        /\ pub.pc \in {"lock", "reconcile", "publish"} => pub.item = wr.ready[1]
        /\ pub.pc = "exit" => pub.err = "none"
    BY <1>0, <2>1 DEF IInv, QueueOK, HeldEnd
  <2>3. Linked(r, c) /\ End(r, c) = h
    BY <1>0, <1>6, <2>2, LinkedAppend DEF r
  <2>4. HeldEnd(w, f) = h
    BY <1>11, <1>15, <2>3 DEF HeldEnd
  <2> HIDE DEF h
  <2>5. TailOK(w, h)
    BY <1>11, <2>2 DEF TailOK
  <2>6. w.segments = Len(w.ready) + 0 + Len(w.detached)
    <3> DEFINE x == Len(wr.ready)
               y == Len(wr.detached)
               z == Len(r)
    <3>1. x \in Nat /\ y \in Nat /\ wr.segments = x + 1 + y /\ z = x + 1
      BY <1>0, <1>8, <2>2 DEF WrType
    <3> HIDE DEF x, y, z
    <3>2. wr.segments = z + 0 + y
      BY <3>1
    <3> QED
      BY <1>11, <3>2 DEF y, z
  <2>7. /\ wr.ready # <<>> => r[1] = wr.ready[1]
        /\ r # <<>>
    <3>1. /\ Len(wr.ready) \in Nat
          /\ \A i \in 1..Len(wr.ready) : Append(wr.ready, e)[i] = wr.ready[i]
      BY <1>0, <1>6
    <3>2. wr.ready # <<>> => 1 \in 1..Len(wr.ready)
      BY <1>0, <3>1
    <3>3. Len(r) # 0
      BY <1>8, <3>1
    <3> QED
      BY <3>1, <3>2, <3>3 DEF r
  <2> QED
    BY <1>11, <1>15, <2>2, <2>3, <2>4, <2>5, <2>6, <2>7 DEF QueueOK
<1>16. Settled(wr, cat) => Settled(w, cat)
  BY <1>11 DEF Settled
<1> QED
  BY <1>7, <1>11, <1>12, <1>13, <1>14, <1>15, <1>16, FinalizerStep

(* A segment that cannot be finished fails the writer, unless it has ended. *)
LEMMA FinalizeErrorStep == ASSUME IInv, FinalizeError PROVE IInv' /\ Advances
<1>0. /\ Core(wr) /\ wr \in WrType /\ fin.pc = "close" /\ fin \in FinType
  BY DEF IInv, TypeInv, Core, FinalizeError
<1>1. PICK w : w = [wr EXCEPT !.sinks = @ - 1]
  OBVIOUS
<1>2. /\ Silent(wr, w) /\ Core(w) /\ Alike(wr, w) /\ w.transition = wr.transition
      /\ w.drain = wr.drain /\ w.cancelled = wr.cancelled
  BY <1>0, <1>1, SinksType
<1>3. ~wr.closed
  <2>1. wr.closed => Settled(wr, cat)
    BY DEF IInv, SettledInv
  <2> QED
    BY <1>0, <2>1, SettledQuiet
<1>4. CASE wr.cancelled /\ Finalizer(w, "exit", NoItem)
  <2>1. wr.aborted
    BY <1>0, <1>3, <1>4 DEF Core, ErrOK
  <2>2. w \in WrType
    BY <1>2 DEF Core
  <2> QED
    BY <1>2, <1>4, <2>1, <2>2, FinalizerWaits
<1>5. CASE Finalizer(Fail(w, "cause", FALSE), "exit", NoItem)
  <2>1. PICK v : v = Fail(w, "cause", FALSE)
    OBVIOUS
  <2>2. Notes(w, "cause", 0, v)
    <3>1. "cause" \in Causes /\ ~w.closed
      BY <1>2, <1>3 DEF Causes, Alike
    <3>2. Notes(w, "cause", 0, Fail(w, "cause", FALSE))
      BY <1>2, <3>1, FailQuiet
    <3> QED
      BY <2>1, <3>2
  <2>3. /\ Keeps(w, v) /\ v.aborted /\ v.transition = w.transition /\ ~v.closed
        /\ v.firstErr = (IF w.firstErr = "none" THEN "cause" ELSE w.firstErr)
        /\ Told(v) = Told(w) + (IF w.firstErr = "none" THEN 0 ELSE 0)
    BY <2>2 DEF Notes
  <2>4. Told(v) = Told(wr)
    BY <1>2, <2>3, ToldNat DEF Silent
  <2>5. Core(v) /\ v.committed = wr.committed /\ (v.drain = "done" => wr.drain = "done")
        /\ v.transition = wr.transition /\ v.closed = wr.closed
    BY <1>2, <1>3, <2>3 DEF Keeps, Alike, Core, WrType
  <2>6. Blames(wr, v)
    BY <1>2, <2>3 DEF Blames, Alike
  <2>7. ~v.active.open
    <3>1. PICK s \in BOOLEAN : ~s
      OBVIOUS
    <3>2. v = Fail(w, "cause", s) /\ w \in WrType /\ "cause" \in Errors
      BY <1>2, <2>1, <3>1 DEF Fail, Core, Errors
    <3> QED
      BY <3>2, FailFields
  <2>8. [pc |-> "exit", item |-> NoItem] \in FinType
    BY DEF FinType, NoItem, ItemType
  <2>9. ASSUME NEW f PROVE QueueOK(v, f, pub)
    BY <2>3 DEF QueueOK
  <2>10. ~Settled(wr, cat)
    BY <1>0, SettledQuiet
  <2>11. Finalizer(v, "exit", NoItem)
    BY <1>5, <2>1 DEF Finalizer
  <2> QED
    BY <2>4, <2>5, <2>6, <2>7, <2>8, <2>9, <2>10, <2>11, FinalizerStep
<1> QED
  BY <1>1, <1>4, <1>5 DEF FinalizeError
-----------------------------------------------------------------------------
(* publishLoop                                                             *)

(* A step of publishLoop: what it says of the session, the catalog and the *)
(* queue is shown where it is taken.                                       *)
LEMMA PublisherStep ==
  ASSUME IInv, Core(wr'), Told(wr') = Told(wr), wr'.closed = wr.closed,
         wr'.transition = wr.transition, ~wr.active.open => ~wr'.active.open,
         pub' \in PubType, cat' \in CatType,
         pub'.pc \in {"reconcile", "publish"} => sessionMu' = "publisher",
         client.pc = "session" => sessionMu' = sessionMu /\ wr'.committed = wr.committed,
         pub'.pc = "note" => pub'.err \in Causes,
         pub'.pc \notin Ended => pub'.err = "none",
         wr'.drain = "done" => pub'.pc = "exit",
         HeadOK(wr', pub', cat'), InvalidInv', QueueOK(wr', fin, pub'),
         Settled(wr, cat) => Settled(wr', cat'),
         Watched, wr'.committed = wr.committed \/ (watch.pc = "wait" => watch'.woken),
         Advances, UNCHANGED <<client, fin, age, told>>
  PROVE  IInv' /\ Advances
<1>1. TypeInv'
  BY DEF IInv, TypeInv, Core, Watched
<1>2. ErrOK(wr)' /\ CutOK(wr)' /\ HeadOK(wr, pub, cat)' /\ QueueOK(wr, fin, pub)'
  BY DEF Core
<1>3. CauseToldOnce'
  BY DEF IInv, CauseToldOnce, Told
<1>4. SessionInv'
  BY DEF IInv, SessionInv
<1>5. ObserverIsCurrent'
  BY DEF IInv, ObserverIsCurrent, Watched
<1>6. CutInv' /\ CallInv'
  BY DEF IInv, CutInv, CallInv
<1>7. SettledInv'
  BY DEF IInv, SettledInv
<1> QED
  BY <1>1, <1>2, <1>3, <1>4, <1>5, <1>6, <1>7 DEF IInv

(* publishLoop moves on, the committed snapshot and the queue as they are. *)
LEMMA PublisherMoves ==
  ASSUME IInv, pub.pc \notin Ended,
         NEW pc \in {"top", "wait", "lock", "reconcile", "publish", "backoff", "exit"},
         NEW item \in ItemType, Publisher(pc, item),
         wr' \in WrType, Alike(wr, wr'), wr'.transition = wr.transition,
         wr'.drain = wr.drain, wr'.cancelled = wr.cancelled,
         cat' \in CatType, cat'.head.next = cat.head.next, HeadOK(wr, pub, cat'),
         pc = "publish" => cat'.pending = 0,
         pc \in {"reconcile", "publish"} => sessionMu' = "publisher",
         client.pc = "session" => sessionMu' = sessionMu,
         pc \in {"lock", "reconcile", "publish"} =>
           wr.aborted \/ (wr.ready # <<>> /\ item = wr.ready[1]),
         UNCHANGED watch
  PROVE  IInv' /\ Advances
<1>1. /\ pub' = [pub EXCEPT !.pc = pc, !.item = item] /\ UNCHANGED <<client, fin, age, told>>
      /\ pub \in PubType
  BY DEF Publisher, IInv, TypeInv
<1>2. pub' \in PubType /\ pub'.pc = pc /\ pub'.item = item /\ pub'.err = pub.err
  BY <1>1 DEF PubType
<1>3. pub.err = "none" /\ wr.drain # "done" /\ cat.head.next = wr.committed.next
  BY DEF IInv, SessionInv, HeadOK, Ended
<1>4. Core(wr)
  BY DEF IInv, TypeInv, Core
<1>5. Silent(wr, wr') /\ Core(wr')
  BY <1>4, AlikeSilent
<1>6. Told(wr') = Told(wr)
  BY DEF Told, Alike
<1>7. HeadOK(wr', pub', cat')
  BY <1>2, <1>3 DEF HeadOK, Alike
<1>8. InvalidInv'
  BY <1>1, <1>2, <1>3 DEF IInv, InvalidInv, Alike
<1>9. QueueOK(wr', fin, pub')
  <2>1. HeldEnd(wr', fin) = HeldEnd(wr, fin)
    BY DEF HeldEnd, Alike
  <2>2. \A b : TailOK(wr, b) => TailOK(wr', b)
    BY DEF TailOK, Alike
  <2>3. QueueOK(wr, fin, pub)
    BY DEF IInv
  <2> QED
    BY <1>2, <1>3, <2>1, <2>2, <2>3 DEF QueueOK, Alike
<1>10. Settled(wr, cat) => Settled(wr', cat')
  BY DEF Settled, Alike
<1>11. Watched
  BY WatchSame
<1>12. pc # "note" /\ pub'.pc # "note" /\ wr'.drain # "done"
  BY <1>2, <1>3
<1>13. /\ wr'.closed = wr.closed /\ wr'.active = wr.active /\ wr'.committed = wr.committed
  BY DEF Alike
<1> QED
  BY <1>1, <1>2, <1>3, <1>5, <1>6, <1>7, <1>8, <1>9, <1>10, <1>11, <1>12, <1>13, PublisherStep,
     SameAdvances

(* No item, as an item.                                                    *)
LEMMA NoItemType == NoItem \in ItemType
BY DEF NoItem, ItemType

(* What a step that leaves wr and cat alone need not repeat.               *)
LEMMA StillThere ==
  ASSUME IInv
  PROVE  /\ wr \in WrType /\ Alike(wr, wr) /\ cat \in CatType /\ HeadOK(wr, pub, cat)
         /\ pub.item \in ItemType /\ NoItem \in ItemType
         /\ client.pc = "session" => sessionMu = "client"
         /\ pub.pc \in {"reconcile", "publish"} => sessionMu = "publisher" /\ client.pc # "session"
         /\ pub.pc \in {"lock", "reconcile", "publish"} =>
              wr.aborted \/ (wr.ready # <<>> /\ pub.item = wr.ready[1])
<1>1. /\ wr \in WrType /\ Alike(wr, wr) /\ cat \in CatType /\ HeadOK(wr, pub, cat)
  BY DEF IInv, TypeInv, Alike
<1>2. pub.item \in ItemType /\ NoItem \in ItemType
  BY NoItemType DEF IInv, TypeInv, PubType
<1>3. /\ client.pc = "session" => sessionMu = "client"
      /\ pub.pc \in {"reconcile", "publish"} => sessionMu = "publisher"
  BY DEF IInv, SessionInv
<1>4. pub.pc \in {"lock", "reconcile", "publish"} =>
        wr.aborted \/ (wr.ready # <<>> /\ pub.item = wr.ready[1])
  BY DEF IInv, QueueOK
<1> QED
  BY <1>1, <1>2, <1>3, <1>4

(* publishLoop takes the head of its queue.                                *)
LEMMA PublishTopStep == ASSUME IInv, PublishTop PROVE IInv' /\ Advances
<1>0. /\ wr \in WrType /\ Alike(wr, wr) /\ cat \in CatType /\ HeadOK(wr, pub, cat)
      /\ NoItem \in ItemType
  BY StillThere
<1>1. pub.pc \notin Ended /\ UNCHANGED <<wr, sessionMu, cat, watch>>
  BY DEF PublishTop, Ended
<1>2. CASE wr.ready # <<>>
  <2>1. Publisher("lock", wr.ready[1]) /\ wr.ready[1] \in ItemType
    BY <1>0, <1>2 DEF PublishTop, WrType
  <2> QED
    BY <1>0, <1>1, <1>2, <2>1, PublisherMoves
<1>3. CASE wr.ready = <<>>
  <2>1. Publisher("exit", NoItem) \/ Publisher("wait", NoItem)
    BY <1>3 DEF PublishTop
  <2> QED
    BY <1>0, <1>1, <2>1, PublisherMoves
<1> QED
  BY <1>2, <1>3

(* publishLoop is woken or cancelled.                                      *)
LEMMA PublishWakeStep == ASSUME IInv, PublishWake PROVE IInv' /\ Advances
<1>0. /\ wr \in WrType /\ Alike(wr, wr) /\ cat \in CatType /\ HeadOK(wr, pub, cat)
      /\ NoItem \in ItemType
  BY StillThere
<1>1. pub.pc \notin Ended /\ UNCHANGED <<sessionMu, cat, watch>>
  BY DEF PublishWake, Ended
<1>2. CASE wr' = [wr EXCEPT !.publishWake = FALSE] /\ Publisher("top", NoItem)
  <2>1. /\ wr' \in WrType /\ Alike(wr, wr') /\ wr'.transition = wr.transition
        /\ wr'.drain = wr.drain /\ wr'.cancelled = wr.cancelled
    BY <1>0, <1>2 DEF WrType, Alike
  <2> QED
    BY <1>0, <1>1, <1>2, <2>1, PublisherMoves
<1>3. CASE UNCHANGED wr /\ Publisher("exit", NoItem)
  BY <1>0, <1>1, <1>3, PublisherMoves
<1> QED
  BY <1>2, <1>3 DEF PublishWake

(* publishLoop gets the session.                                           *)
LEMMA PublishLockStep == ASSUME IInv, PublishLock PROVE IInv' /\ Advances
<1>1. /\ pub.pc \notin Ended /\ pub.pc = "lock" /\ sessionMu = "none" /\ sessionMu' = "publisher"
      /\ Publisher("reconcile", pub.item) /\ UNCHANGED <<wr, cat, watch>>
  BY DEF PublishLock, Ended
<1>2. client.pc # "session"
  BY <1>1, StillThere
<1> QED
  BY <1>1, <1>2, StillThere, PublisherMoves

(* publishLoop has waited before it tries again.                           *)
LEMMA PublishBackoffStep == ASSUME IInv, PublishBackoff PROVE IInv' /\ Advances
<1>1. /\ pub.pc \notin Ended /\ (Publisher("exit", NoItem) \/ Publisher("top", NoItem))
      /\ UNCHANGED <<wr, sessionMu, cat, watch>>
  BY DEF PublishBackoff, Ended
<1> QED
  BY <1>1, StillThere, PublisherMoves

(* The session failed: it is released, and the error is noted next.        *)
LEMMA PublishFailsStep ==
  ASSUME IInv, pub.pc \in {"reconcile", "publish"}, PublishFails("cause"),
         cat' \in CatType, HeadOK(wr, pub', cat')
  PROVE  IInv' /\ Advances
<1>1. /\ pub' = [pc |-> "note", item |-> NoItem, err |-> "cause"] /\ sessionMu' = "none"
      /\ UNCHANGED <<wr, client, fin, age, watch, told>>
  BY DEF PublishFails
<1>2. pub' \in PubType /\ pub'.pc = "note" /\ pub'.err = "cause" /\ "cause" \in Causes
  BY <1>1, NoItemType DEF PubType, Errors, Causes
<1>3. pub.pc \notin Ended /\ pub.err = "none" /\ wr.drain # "done" /\ client.pc # "session"
  BY StillThere DEF IInv, SessionInv, Ended
<1>4. Core(wr') /\ Watched
  BY <1>1, WatchSame DEF IInv, TypeInv, Core
<1>5. InvalidInv'
  BY <1>1, <1>2, <1>3 DEF IInv, InvalidInv
<1>6. QueueOK(wr', fin, pub')
  BY <1>1, <1>2 DEF IInv, QueueOK
<1>7. ~Settled(wr, cat)
  BY SettledQuiet
<1>8. pub'.pc \in Ended /\ Told(wr') = Told(wr) /\ HeadOK(wr', pub', cat')
  BY <1>1, <1>2 DEF Ended
<1> QED
  BY <1>1, <1>2, <1>3, <1>4, <1>5, <1>6, <1>7, <1>8, PublisherStep, SameAdvances

(* The pending retention is still unknown, or fails for good.              *)
LEMMA PublishReconcileErrorStep == ASSUME IInv, PublishReconcileError PROVE IInv' /\ Advances
<1>0. pub.pc = "reconcile" /\ pub.pc \notin Ended /\ client.pc # "session"
  BY StillThere DEF PublishReconcileError, Ended
<1>1. CASE /\ sessionMu' = "none" /\ UNCHANGED <<wr, watch>>
           /\ Publisher("exit", NoItem) /\ UNCHANGED cat
  BY <1>0, <1>1, StillThere, PublisherMoves
<1>2. CASE /\ sessionMu' = "none" /\ UNCHANGED <<wr, watch>>
           /\ Publisher("backoff", NoItem) /\ RetentionUnknown
  <2>1. cat' \in CatType /\ cat'.head.next = cat.head.next /\ HeadOK(wr, pub, cat')
    BY <1>0, <1>2, RetentionCat
  <2> QED
    BY <1>0, <1>2, <2>1, StillThere, PublisherMoves
<1>3. CASE PublishFails("cause") /\ UNCHANGED cat
  <2>1. HeadOK(wr, pub', cat') /\ cat' \in CatType
    BY <1>0, <1>3, StillThere DEF HeadOK, PublishFails
  <2> QED
    BY <1>0, <1>3, <2>1, PublishFailsStep
<1> QED
  BY <1>1, <1>2, <1>3 DEF PublishReconcileError
(* The pending retention is acknowledged before the publication: its       *)
(* result is the committed snapshot's next.                                *)
LEMMA PublishReconcileStep == ASSUME IInv, PublishReconcile PROVE IInv' /\ Advances
<1>0. /\ pub.pc = "reconcile" /\ pub.pc \notin Ended /\ client.pc # "session"
      /\ sessionMu = "publisher" /\ cat.head.next = wr.committed.next
      /\ pub.err = "none" /\ wr.drain # "done"
  BY StillThere DEF PublishReconcile, Ended, IInv, HeadOK, SessionInv
<1>1. CASE cat.pending = 0
  <2>1. Publisher("publish", pub.item) /\ UNCHANGED <<wr, sessionMu, cat, watch>>
    BY <1>1 DEF PublishReconcile
  <2> QED
    BY <1>0, <1>1, <2>1, StillThere, PublisherMoves
<1>2. CASE cat.pending # 0
  <2>1. RetentionDone
    BY <1>2 DEF PublishReconcile
  <2>2. Version \in Nat /\ wr.committed.ret <= Version
    BY VersionNat
  <2>3. /\ cat' \in CatType /\ cat'.head.next = cat.head.next /\ cat'.pending = 0
        /\ cat'.head.ret = Version /\ cat'.head \in SnapType
    BY <2>1, RetentionDoneCat
  <2>4. cat'.head.ret >= wr.committed.ret
    BY <2>2, <2>3 DEF IInv, TypeInv, WrType, SnapType
  <2>5. /\ AcceptRetention(wr.committed, cat'.head) /\ Publisher("publish", pub.item)
        /\ UNCHANGED sessionMu
    BY <1>0, <1>2, <2>3, <2>4 DEF PublishReconcile, ValidRetention
  <2>6. /\ pub' = [pub EXCEPT !.pc = "publish", !.item = pub.item]
        /\ UNCHANGED <<client, fin, age, told>> /\ pub \in PubType
    BY <2>5 DEF Publisher, IInv, TypeInv
  <2>7. pub' \in PubType /\ pub'.pc = "publish" /\ pub'.item = pub.item /\ pub'.err = pub.err
    BY <2>6 DEF PubType
  <2>8. /\ wr' \in WrType /\ ErrOK(wr') /\ CutOK(wr')
        /\ HeadOK(wr', pub', cat')
        /\ QueueOK(wr, fin, pub) => QueueOK(wr', fin, pub)
        /\ Settled(wr, cat) => Settled(wr', cat')
    BY <1>0, <2>3, <2>5, <2>6, AcceptParts
  <2>9. /\ wr'.firstErr = wr.firstErr /\ wr'.closed = wr.closed /\ wr'.active = wr.active
        /\ wr'.surfaced = wr.surfaced
        /\ wr'.transition = wr.transition /\ wr'.drain = wr.drain /\ Watched
        /\ wr'.committed # wr.committed /\ watch.pc = "wait" => watch'.woken
    BY <1>0, <2>3, <2>5, AcceptFields
  <2>10. QueueOK(wr', fin, pub')
    <3>1. QueueOK(wr', fin, pub)
      BY <2>8 DEF IInv
    <3> QED
      BY <1>0, <2>7, <3>1 DEF QueueOK
  <2>11. InvalidInv'
    BY <1>0, <2>6, <2>7, <2>9 DEF IInv, InvalidInv
  <2>12. Core(wr') /\ Told(wr') = Told(wr)
    BY <2>8, <2>9 DEF Core, Told
  <2>13. pub'.pc \notin Ended /\ pub'.pc # "note"
    BY <2>7 DEF Ended
  <2>14. Advances
    <3>1. wr'.committed.next = wr.committed.next /\ wr'.committed.ret >= wr.committed.ret
          /\ wr.committed.next \in Nat
      BY <1>0, <2>3, <2>4, <2>5, AcceptFields DEF IInv, TypeInv, WrType, SnapType
    <3> QED
      BY <3>1 DEF Advances
  <2> QED
    BY <1>0, <2>3, <2>5, <2>6, <2>7, <2>8, <2>9, <2>10, <2>11, <2>12, <2>13, <2>14, PublisherStep
<1> QED
  BY <1>1, <1>2

(* What the session publishes is the committed snapshot with the item.     *)
LEMMA PublishedIs ==
  ASSUME IInv, pub.pc = "publish"
  PROVE  /\ Published \in SnapType /\ Published.next = pub.item.base + pub.item.records
         /\ Published.ret = wr.committed.ret /\ cat.head.next = wr.committed.next
         /\ cat.pending = 0
         /\ ValidPublish(wr.committed, Published, pub.item) <=> pub.item.base = cat.head.next
<1>1. /\ cat.pending = 0 /\ cat.head.next = wr.committed.next
      /\ cat.head.ret = wr.committed.ret
  BY DEF IInv, HeadOK, Ended
<1>2. /\ pub.item.base \in Nat /\ pub.item.records \in Nat /\ wr.committed \in SnapType
  BY DEF IInv, TypeInv, WrType, PubType, ItemType
<1>3. Published = [next |-> pub.item.base + pub.item.records, ret |-> wr.committed.ret]
  BY <1>1 DEF Published
<1>4. [wr.committed EXCEPT !.next = pub.item.base + pub.item.records] =
        [next |-> pub.item.base + pub.item.records, ret |-> wr.committed.ret]
  BY <1>2 DEF SnapType
<1>5. ValidPublish(wr.committed, Published, pub.item) <=> pub.item.base = cat.head.next
  BY <1>1, <1>3, <1>4 DEF ValidPublish
<1> QED
  BY <1>1, <1>2, <1>3, <1>5 DEF SnapType

(* A publication of unknown outcome.                                       *)
LEMMA PublishErrorStep == ASSUME IInv, PublishError PROVE IInv' /\ Advances
<1>0. pub.pc = "publish" /\ PublishFails("cause")
      /\ (UNCHANGED cat \/ cat' = [cat EXCEPT !.head = Published])
  BY DEF PublishError
<1>1. /\ Published \in SnapType /\ Published.ret = wr.committed.ret
      /\ cat.head.next = wr.committed.next /\ cat.pending = 0
  BY <1>0, PublishedIs
<1>2. pub'.pc = "note" /\ pub'.err = "cause" /\ pub'.pc \in Ended
  BY <1>0 DEF PublishFails, Ended
<1>3. cat \in CatType /\ wr.committed.ret \in Nat
  BY DEF IInv, TypeInv, WrType, SnapType
<1>4. CASE UNCHANGED cat
  <2>1. HeadOK(wr, pub', cat') /\ cat' \in CatType
    BY <1>1, <1>2, <1>3, <1>4 DEF HeadOK, IInv
  <2> QED
    BY <1>0, <2>1, PublishFailsStep
<1>5. CASE cat' = [cat EXCEPT !.head = Published]
  <2>1. cat' \in CatType /\ cat'.head = Published /\ cat'.pending = 0
    BY <1>1, <1>3, <1>5 DEF CatType
  <2>2. HeadOK(wr, pub', cat')
    BY <1>1, <1>2, <1>3, <2>1 DEF HeadOK
  <2> QED
    BY <1>0, <2>1, <2>2, PublishFailsStep
<1> QED
  BY <1>0, <1>4, <1>5

(* noteAsyncErr: the writer fails, and nobody has been told.               *)
LEMMA PublishNoteStep == ASSUME IInv, PublishNote PROVE IInv' /\ Advances
<1>0. /\ pub.pc = "note" /\ pub.err \in Causes /\ pub.err # "invalid" /\ Core(wr) /\ pub \in PubType
      /\ UNCHANGED <<client, fin, age, told, sessionMu, cat>> /\ Broadcast
      /\ pub' = [pub EXCEPT !.pc = "exit", !.item = NoItem] /\ wr.drain # "done"
  BY DEF PublishNote, Publisher, IInv, SessionInv, InvalidInv, TypeInv, Core
<1>1. /\ pub' \in PubType /\ pub'.pc = "exit" /\ pub'.err = pub.err /\ pub'.pc \in Ended
  BY <1>0, NoItemType DEF PubType, Ended
<1>2. ~Settled(wr, cat)
  BY <1>0, SettledQuiet
<1>3. ~wr.closed
  BY <1>2 DEF IInv, SettledInv
<1>4. PICK v : v = Fail(wr, pub.err, FALSE)
  OBVIOUS
<1>5. wr' = v
  BY <1>4 DEF PublishNote
<1>6. Notes(wr, pub.err, 0, v)
  <2>1. Notes(wr, pub.err, 0, Fail(wr, pub.err, FALSE))
    BY <1>0, <1>3, FailQuiet
  <2> QED
    BY <1>4, <2>1
<1>7. /\ Keeps(wr, v) /\ v.aborted /\ v.transition = wr.transition /\ ~v.closed
      /\ v.firstErr = (IF wr.firstErr = "none" THEN pub.err ELSE wr.firstErr)
      /\ Told(v) = Told(wr) + (IF wr.firstErr = "none" THEN 0 ELSE 0)
  BY <1>6 DEF Notes
<1>8. Told(v) = Told(wr)
  BY <1>7, ToldNat
<1>9. /\ Core(v) /\ v.committed = wr.committed /\ v.closed = wr.closed
  BY <1>0, <1>3, <1>7 DEF Keeps, Core, WrType
<1>10. ~v.active.open
  <2>1. PICK s \in BOOLEAN : ~s
    OBVIOUS
  <2>2. v = Fail(wr, pub.err, s) /\ wr \in WrType /\ pub.err \in Errors
    BY <1>0, <1>4, <2>1 DEF Fail, Core, PubType
  <2> QED
    BY <2>2, FailFields
<1>11. HeadOK(wr', pub', cat')
  BY <1>0, <1>1, <1>5, <1>9 DEF IInv, HeadOK
<1>12. InvalidInv'
  BY <1>0, <1>1, <1>5, <1>7, <1>9 DEF IInv, InvalidInv
<1>13. QueueOK(wr', fin, pub')
  BY <1>5, <1>7 DEF QueueOK
<1>14. Watched
  BY <1>0, BroadcastOK DEF IInv, TypeInv
<1>15. cat' \in CatType
  BY <1>0 DEF IInv, TypeInv
<1> QED
  BY <1>0, <1>1, <1>2, <1>5, <1>7, <1>8, <1>9, <1>10, <1>11, <1>12, <1>13, <1>14, <1>15,
     PublisherStep, SameAdvances
(* A subtraction that stops at 0.                                          *)
LEMMA MinusNat == ASSUME NEW a \in Nat, NEW b \in Nat PROVE Minus(a, b) \in Nat
BY DEF Minus

(* The published item leaves the queue and gives its budget back.          *)
LEMMA PoppedFields ==
  ASSUME NEW w \in WrType, NEW item \in ItemType, NEW v, v = Popped(w, item)
  PROVE  /\ v \in WrType /\ v.committed = w.committed /\ v.nextLSN = w.nextLSN
         /\ v.active = w.active /\ v.detached = w.detached
         /\ v.firstErr = w.firstErr /\ v.surfaced = w.surfaced
         /\ v.closed = w.closed /\ v.aborted = w.aborted
         /\ v.transition = w.transition /\ v.drain = w.drain /\ v.cancelled = w.cancelled
         /\ w.ready # <<>> /\ item = w.ready[1] =>
              v.ready = Tail(w.ready) /\ v.segments = Minus(w.segments, 1)
<1>1. CASE w.ready # <<>> /\ Head(w.ready).base = item.base
  <2> DEFINE t == Tail(w.ready)
             n == Minus(w.segments, 1)
             m == Minus(w.bytes, item.size)
  <2>1. v = [w EXCEPT !.ready = t, !.segments = n, !.bytes = m]
    BY <1>1 DEF Popped
  <2>2. t \in Seq(ItemType)
    BY <1>1 DEF WrType
  <2>3. n \in Nat /\ m \in Nat
    BY MinusNat DEF WrType, ItemType
  <2> HIDE DEF t, n, m
  <2>4. v \in WrType /\ v.ready = t /\ v.segments = n
    <3> DEFINE u == [w EXCEPT !.ready = t]
    <3>1. u \in WrType /\ u.ready = t
      BY <2>2 DEF WrType
    <3>2. v = [u EXCEPT !.segments = n, !.bytes = m]
      BY <2>1 DEF WrType
    <3> HIDE DEF u
    <3> QED
      BY <2>3, <3>1, <3>2, ZenonT(40) DEF WrType
  <2>5. /\ v.committed = w.committed /\ v.nextLSN = w.nextLSN
        /\ v.active = w.active /\ v.detached = w.detached
        /\ v.firstErr = w.firstErr /\ v.surfaced = w.surfaced
        /\ v.closed = w.closed /\ v.aborted = w.aborted
        /\ v.transition = w.transition /\ v.drain = w.drain /\ v.cancelled = w.cancelled
    BY <2>1 DEF WrType
  <2> QED
    BY <2>4, <2>5 DEF t, n
<1>2. CASE ~(w.ready # <<>> /\ Head(w.ready).base = item.base)
  <2>1. v = w
    BY <1>2 DEF Popped
  <2>2. ~(w.ready # <<>> /\ item = w.ready[1])
    BY <1>2 DEF WrType
  <2> QED
    BY <2>1, <2>2
<1> QED
  BY <1>1, <1>2

(* The queue after the publication begins where the log now ends.          *)
LEMMA PublishedQueue ==
  ASSUME NEW w \in WrType, NEW f \in FinType, NEW p, NEW q, NEW v \in WrType, QueueOK(w, f, p),
         p.pc = "publish", p.err = "none", q.pc \in {"top", "exit"}, q.err = p.err,
         v.aborted = w.aborted, v.nextLSN = w.nextLSN, v.active = w.active,
         v.detached = w.detached, v.committed.next = p.item.base + p.item.records,
         w.ready # <<>> /\ p.item = w.ready[1] =>
           v.ready = Tail(w.ready) /\ v.segments = Minus(w.segments, 1)
  PROVE  QueueOK(v, f, q)
<1>1. SUFFICES ASSUME ~w.aborted PROVE QueueOK(v, f, q)
  BY DEF QueueOK
<1> DEFINE k == IF f.pc = "close" THEN 1 ELSE 0
           c == w.committed.next
           d == w.ready[1].base + w.ready[1].records
<1>2. /\ Linked(w.ready, c) /\ (f.pc = "close" => f.item.base = End(w.ready, c))
      /\ TailOK(w, HeldEnd(w, f)) /\ w.segments = Len(w.ready) + k + Len(w.detached)
      /\ w.ready # <<>> /\ p.item = w.ready[1]
  BY <1>1 DEF QueueOK
<1>3. /\ v.ready = Tail(w.ready) /\ v.segments = Minus(w.segments, 1) /\ v.committed.next = d
      /\ w.ready \in Seq(ItemType)
  BY <1>2 DEF WrType
<1> HIDE DEF c, d, k
<1>4. /\ Len(w.ready) = Len(v.ready) + 1 /\ Linked(v.ready, d) /\ End(v.ready, d) = End(w.ready, c)
  BY <1>2, <1>3, LinkedTail DEF d
<1>5. HeldEnd(v, f) = HeldEnd(w, f)
  BY <1>3, <1>4 DEF HeldEnd, c
<1>6. TailOK(v, HeldEnd(v, f))
  BY <1>2, <1>5 DEF TailOK
<1>7. v.segments = Len(v.ready) + k + Len(v.detached)
  <2> DEFINE x == Len(w.ready)
             y == Len(v.ready)
             z == Len(w.detached)
             s == w.segments
  <2>1. /\ x = y + 1 /\ y \in Nat /\ z \in Nat /\ s = x + k + z /\ k \in Nat
        /\ v.segments = Minus(s, 1)
    BY <1>2, <1>3, <1>4, SMTT(30) DEF WrType, k
  <2> HIDE DEF x, y, z, s
  <2>2. v.segments = y + k + z
    BY <2>1 DEF Minus
  <2> QED
    BY <2>2 DEF y, z
<1>8. (f.pc = "close" => f.item.base = End(v.ready, v.committed.next))
  BY <1>2, <1>3, <1>4
<1> QED
  BY <1>3, <1>4, <1>6, <1>7, <1>8 DEF QueueOK, k

(* The catalog has the item, and the committed snapshot says so.           *)
LEMMA PublishCommitStep == ASSUME IInv, PublishCommit PROVE IInv' /\ Advances
<1>0. pub.pc = "publish" /\ pub.item.base = cat.head.next /\ cat' = [cat EXCEPT !.head = Published]
  BY DEF PublishCommit
<1>1. /\ Published \in SnapType /\ Published.next = pub.item.base + pub.item.records
      /\ Published.ret = wr.committed.ret /\ cat.head.next = wr.committed.next
      /\ cat.pending = 0 /\ ValidPublish(wr.committed, Published, pub.item)
  BY <1>0, PublishedIs
<1>2. /\ cat \in CatType /\ wr \in WrType /\ pub \in PubType /\ pub.item \in ItemType /\ Core(wr)
      /\ fin \in FinType /\ QueueOK(wr, fin, pub) /\ pub.err = "none" /\ wr.drain # "done"
      /\ client.pc # "session" /\ watch \in WatchType
  BY <1>0, StillThere DEF IInv, TypeInv, Core, SessionInv, Ended
<1>3. PICK u : u = Popped(wr, pub.item)
  OBVIOUS
<1>4. PICK w : w = [u EXCEPT !.committed = Published, !.stateWake = TRUE]
  OBVIOUS
<1>5. /\ wr' = w /\ sessionMu' = "none" /\ Signalled(TRUE)
      /\ Publisher("exit", NoItem) \/ Publisher("top", NoItem)
  BY <1>1, <1>3, <1>4 DEF PublishCommit
<1>6. /\ u \in WrType /\ u.nextLSN = wr.nextLSN
      /\ u.active = wr.active /\ u.detached = wr.detached
      /\ u.firstErr = wr.firstErr /\ u.surfaced = wr.surfaced
      /\ u.closed = wr.closed /\ u.aborted = wr.aborted
      /\ u.transition = wr.transition /\ u.drain = wr.drain /\ u.cancelled = wr.cancelled
      /\ wr.ready # <<>> /\ pub.item = wr.ready[1] =>
           u.ready = Tail(wr.ready) /\ u.segments = Minus(wr.segments, 1)
  BY <1>2, <1>3, PoppedFields
<1>7. w \in WrType /\ w.committed = Published
  BY <1>1, <1>4, <1>6 DEF WrType
<1>8. /\ w.nextLSN = wr.nextLSN /\ w.active = wr.active /\ w.detached = wr.detached
      /\ w.firstErr = wr.firstErr /\ w.surfaced = wr.surfaced
      /\ w.closed = wr.closed /\ w.aborted = wr.aborted
      /\ w.transition = wr.transition /\ w.drain = wr.drain /\ w.cancelled = wr.cancelled
      /\ w.ready = u.ready /\ w.segments = u.segments
  BY <1>4, <1>6 DEF WrType
<1>9. PICK pc \in {"top", "exit"} :
        /\ pub' = [pub EXCEPT !.pc = pc, !.item = NoItem] /\ UNCHANGED <<client, fin, age, told>>
  BY <1>5 DEF Publisher
<1>10. pub' \in PubType /\ pub'.pc = pc /\ pub'.err = "none"
  BY <1>2, <1>9, NoItemType DEF PubType
<1>11. cat' \in CatType /\ cat'.head = Published /\ cat'.pending = 0
  BY <1>0, <1>1, <1>2 DEF CatType
<1>12. Core(w) /\ Told(w) = Told(wr)
  BY <1>2, <1>7, <1>8 DEF Core, ErrOK, CutOK, Told
<1>13. HeadOK(w, pub', cat')
  <2>1. Published.ret \in Nat
    BY <1>1 DEF SnapType
  <2> QED
    BY <1>7, <1>10, <1>11, <2>1 DEF HeadOK
<1>14. QueueOK(w, fin, pub')
  BY <1>0, <1>1, <1>2, <1>6, <1>7, <1>8, <1>10, PublishedQueue
<1>15. InvalidInv'
  BY <1>2, <1>5, <1>8, <1>9, <1>10 DEF IInv, InvalidInv
<1>16. ~Settled(wr, cat)
  BY <1>0, SettledQuiet
<1>17. Watched /\ (watch.pc = "wait" => watch'.woken)
  <2>1. PICK s \in BOOLEAN : s
    OBVIOUS
  <2>2. Signalled(s)
    BY <1>5, <2>1 DEF Signalled
  <2> QED
    BY <1>2, <2>1, <2>2, SignalledOK
<1>18. pub'.pc # "note" /\ pub'.pc \notin {"reconcile", "publish"} /\ wr'.drain # "done"
  BY <1>2, <1>5, <1>8, <1>10
<1>19. Core(wr') /\ Told(wr') = Told(wr) /\ HeadOK(wr', pub', cat') /\ QueueOK(wr', fin, pub')
  BY <1>5, <1>12, <1>13, <1>14
<1>20. wr'.closed = wr.closed /\ wr'.transition = wr.transition /\ wr'.active = wr.active
  BY <1>5, <1>8
<1>21. Advances
  <2> DEFINE b == wr.committed.next
             n == pub.item.records
             r == wr.committed.ret
  <2>1. /\ wr'.committed.next = b + n /\ wr'.committed.ret = r /\ b \in Nat /\ n \in Nat /\ r \in Nat
    BY <1>0, <1>1, <1>2, <1>5, <1>7, SMTT(30) DEF WrType, SnapType, ItemType
  <2> HIDE DEF b, n, r
  <2>2. /\ wr'.committed.next >= b /\ wr'.committed.ret >= r /\ wr'.committed.ret = r
    BY <2>1
  <2> QED
    BY <1>2, <2>2 DEF Advances, b, r
<1> QED
  BY <1>2, <1>9, <1>10, <1>11, <1>15, <1>16, <1>17, <1>18, <1>19, <1>20, <1>21, PublisherStep
-----------------------------------------------------------------------------
(* The invariant holds from the start and through every step               *)

(* The invariant holds of a new writer.                                    *)
LEMMA InitIInv == ASSUME Init PROVE IInv
<1>1. PICK p \in Policies : wr =
          [policy |-> p, committed |-> Empty, nextLSN |-> 0, active |-> NoActive,
           transition |-> "none", segments |-> 0, bytes |-> 0,
           detached |-> <<>>, ready |-> <<>>,
           firstErr |-> "none", surfaced |-> FALSE, closed |-> FALSE, aborted |-> FALSE,
           stateWake |-> FALSE, finalizeWake |-> FALSE, publishWake |-> FALSE, ageWake |-> FALSE,
           cancelled |-> FALSE, drain |-> "off", handed |-> 0, sinks |-> 0]
  BY DEF Init
<1>2. /\ client = [op |-> "none", pc |-> "idle", woken |-> FALSE, answer |-> "none", current |-> Empty]
      /\ fin = [pc |-> "top", item |-> NoItem]
      /\ pub = [pc |-> "top", item |-> NoItem, err |-> "none"]
      /\ age.pc \in {"top", "exit"} /\ sessionMu = "none"
      /\ cat = [head |-> Empty, pending |-> 0]
      /\ watch.pc \in {"get", "off"} /\ watch.woken = FALSE /\ watch.seen = Empty /\ told = 0
      /\ watch = [pc |-> watch.pc, woken |-> FALSE, seen |-> Empty]
  BY DEF Init
<1>3. /\ Empty \in SnapType /\ Empty.next = 0 /\ Empty.ret = 0
      /\ NoItem \in ItemType /\ NoActive \in ActiveType
      /\ ~NoActive.open /\ NoActive.records = 0
  BY EmptyType, NoItemType, NoActiveType DEF Empty
<1>4. wr \in WrType
  <2>1. <<>> \in Seq(SegmentType) /\ <<>> \in Seq(ItemType)
    OBVIOUS
  <2>2. PICK z \in Int : z = 0
    OBVIOUS
  <2>3. PICK n \in Nat : n = 0
    OBVIOUS
  <2>4. wr =
          [policy |-> p, committed |-> Empty, nextLSN |-> n, active |-> NoActive,
           transition |-> "none", segments |-> n, bytes |-> n,
           detached |-> <<>>, ready |-> <<>>,
           firstErr |-> "none", surfaced |-> FALSE, closed |-> FALSE, aborted |-> FALSE,
           stateWake |-> FALSE, finalizeWake |-> FALSE, publishWake |-> FALSE, ageWake |-> FALSE,
           cancelled |-> FALSE, drain |-> "off", handed |-> z, sinks |-> z]
    BY <1>1, <2>2, <2>3
  <2> QED
    BY <1>3, <2>1, <2>4 DEF WrType, Errors
<1>5. TypeInv
  <2>1. "none" \in Answers /\ "idle" \in OutPcs
    BY DEF Answers, Errors, OutPcs
  <2>2. client \in ClientType
    BY <1>2, <1>3, <2>1 DEF ClientType
  <2>3. fin \in FinType /\ pub \in PubType /\ cat \in CatType /\ watch \in WatchType
    BY <1>2, <1>3 DEF FinType, PubType, CatType, WatchType, Errors
  <2> QED
    BY <1>4, <2>2, <2>3 DEF TypeInv
<1>6. ErrOK(wr) /\ CutOK(wr) /\ CauseToldOnce
  BY <1>1, <1>2 DEF ErrOK, CutOK, CauseToldOnce
<1>7. SessionInv /\ HeadOK(wr, pub, cat) /\ InvalidInv /\ ObserverIsCurrent
  BY <1>1, <1>2, <1>3 DEF SessionInv, HeadOK, InvalidInv, ObserverIsCurrent, Ended
<1>8. QueueOK(wr, fin, pub)
  <2>1. HeldEnd(wr, fin) = 0
    BY <1>1, <1>2, <1>3 DEF HeldEnd, End
  <2>2. TailOK(wr, 0) /\ Linked(wr.ready, wr.committed.next)
    BY <1>1, <1>3 DEF TailOK, Linked, End
  <2> QED
    BY <1>1, <1>2, <2>1, <2>2 DEF QueueOK
<1>9. CutInv /\ SettledInv /\ CallInv
  BY <1>1, <1>2 DEF CutInv, SettledInv, CallInv, Cutting, Draining
<1> QED
  BY <1>5, <1>6, <1>7, <1>8, <1>9 DEF IInv

(* And where nothing changes.                                              *)
LEMMA StutterIInv == ASSUME IInv, UNCHANGED vars PROVE IInv'
<1>1. UNCHANGED <<wr, client, fin, pub, age, sessionMu, cat, watch, told>>
  BY DEF vars
<1> QED
  BY <1>1 DEF IInv, TypeInv, CauseToldOnce, SessionInv, InvalidInv, ObserverIsCurrent, CutInv,
              SettledInv, CallInv

(* Every step keeps the invariant, and the committed snapshot advances.    *)
LEMMA NextIInv == ASSUME IInv, Next PROVE IInv' /\ Advances
<1>1. ASSUME NEW op \in {"append", "cut", "flush", "close", "abort"}, Call(op) PROVE IInv' /\ Advances
  BY <1>1, CallStep DEF Ops
<1>2. CASE RetainEnter \/ RetainError \/ CallCancel
  BY <1>2, RetainEnterStep, RetainErrorStep, CallCancelStep
<1>3. CASE Resume
  BY <1>3, CallTransitionStep, CallWakeStep, CallCheckStep, CallEmptyStep, CallDrainedStep,
     CallJoinStep, RetainResultStep, RetainNoteStep DEF Resume
<1>4. CASE FinalizeLoop
  BY <1>4, FinalizeTopStep, FinalizeWakeStep, FinalizeCloseStep, FinalizeErrorStep DEF FinalizeLoop
<1>5. CASE PublishLoop
  BY <1>5, PublishTopStep, PublishWakeStep, PublishLockStep, PublishReconcileStep,
     PublishReconcileErrorStep, PublishBackoffStep, PublishCommitStep, PublishErrorStep,
     PublishNoteStep DEF PublishLoop
<1>6. CASE AgeLoop
  BY <1>6, AgeTopStep, AgeWakeStep, AgeTransitionStep, AgeReserveStep, AgeExitStep DEF AgeLoop
<1>7. CASE RunDrain \/ Elapse \/ Observer
  BY <1>7, DrainStep, ElapseStep, ObserverStep
<1> QED
  BY <1>1, <1>2, <1>3, <1>4, <1>5, <1>6, <1>7 DEF Next

-----------------------------------------------------------------------------
(* What is accounted for                                                   *)

Holds(f) == IF f.pc = "close" THEN 1 ELSE 0
Took(pc) == IF pc = "empty" THEN 1 ELSE 0

(* What the queues weigh: the size of a finished object, the estimate of   *)
(* one that is not.                                                        *)
Weights(w, f) ==
  [i \in 1..(Len(w.ready) + Holds(f) + Len(w.detached)) |->
     IF i <= Len(w.ready) THEN w.ready[i].size
     ELSE IF i <= Len(w.ready) + Holds(f) THEN Estimate(f.item.records)
     ELSE Estimate(w.detached[i - Len(w.ready) - Holds(f)].records)]

BytesOK(w, f) == ~w.aborted => w.bytes = SumFunction(Weights(w, f))

(* The struct alone: the bounds on LSNs and segments, records in an open   *)
(* segment only, and segment writers handed to a drain that has begun.     *)
Fit(w) ==
  /\ w.nextLSN <= MaxLSN /\ w.segments <= MaxInflightSegments
  /\ w.active.records # 0 => w.active.open
  /\ w.drain # "off" <=> w.closed \/ w.aborted
  /\ w.drain # "off" => Writers(w) = 0
  /\ w.handed \in Nat
  /\ w.drain # "cleanup" => w.handed = 0

Room(w) == w.nextLSN < MaxLSN

(* Every segment writer that was started is the active or a detached one,  *)
(* handed to the drain, or held by finalizeLoop or by a Flush.             *)
SinksInv == wr.sinks = Writers(wr) + wr.handed + Holds(fin) + Took(client.pc)

RetainInv ==
  cat.pending \in 0..wr.policy.retentions /\ cat.head.ret \in 0..wr.policy.retentions

AccountInv ==
  /\ Fit(wr) /\ SinksInv /\ BytesOK(wr, fin) /\ RetainInv
  /\ client.pc = "reserve" /\ client.op = "append" => Room(wr)
  /\ client.pc \in Draining => wr.transition # "ager"
  /\ wr.drain = "done" => fin.pc = "exit"
  /\ age.pc \in {"top", "idle", "timer", "transition", "reserve", "backoff", "exit"}
  /\ sessionMu \in {"none", "client", "publisher"}

-----------------------------------------------------------------------------
(* What a step on the struct keeps of it                                   *)

Sound(w) == w \in WrType /\ Fit(w)

(* The estimates are paid for segments that stay queued.                   *)
Pays(w, v) ==
  ~v.aborted => ~w.aborted /\ \A f \in FinType : BytesOK(w, f) => BytesOK(v, f)

(* A step that takes k segment writers out of the struct.                  *)
Acct(w, v, k) ==
  /\ Sound(v) /\ v.policy = w.policy /\ Pays(w, v) /\ (v.drain = "done" => w.drain = "done")
  /\ v.sinks - Writers(v) - v.handed = w.sinks - Writers(w) - w.handed + k

(* The fields of the accounts.                                             *)
Books(w, v) ==
  /\ v.policy = w.policy /\ v.nextLSN = w.nextLSN /\ v.active = w.active
  /\ v.segments = w.segments /\ v.bytes = w.bytes /\ v.detached = w.detached
  /\ v.ready = w.ready /\ v.closed = w.closed /\ v.aborted = w.aborted
  /\ v.drain = w.drain /\ v.handed = w.handed /\ v.sinks = w.sinks

(* The segment writers in the struct, counted.                             *)
LEMMA WritersIs ==
  ASSUME NEW w \in WrType
  PROVE  /\ Len(w.detached) \in Nat
         /\ Writers(w) = IF w.active.open THEN Len(w.detached) + 1 ELSE Len(w.detached)
<1>1. Len(w.detached) \in Nat
  BY DEF WrType
<1>2. CASE w.active.open
  BY <1>1, <1>2 DEF Writers
<1>3. CASE ~w.active.open
  <2>1. Writers(w) = Len(w.detached) + 0
    BY <1>3 DEF Writers
  <2> QED
    BY <1>1, <1>3, <2>1
<1> QED
  BY <1>1, <1>2, <1>3

(* The counters are numbers.                                               *)
LEMMA CountTypes ==
  ASSUME NEW w \in WrType
  PROVE  /\ w.sinks \in Int /\ w.handed \in Int /\ Writers(w) \in Nat /\ Len(w.detached) \in Nat
         /\ w.active \in ActiveType /\ w.detached \in Seq(SegmentType) /\ w.ready \in Seq(ItemType)
         /\ w.nextLSN \in Nat /\ w.segments \in Nat /\ w.bytes \in Nat /\ w.active.open \in BOOLEAN
         /\ w.active.records \in Nat
<1>1. /\ w.sinks \in Int /\ w.handed \in Int
      /\ w.active \in ActiveType /\ w.detached \in Seq(SegmentType) /\ w.ready \in Seq(ItemType)
      /\ w.nextLSN \in Nat /\ w.segments \in Nat /\ w.bytes \in Nat
  BY DEF WrType
<1>2. Len(w.detached) \in Nat /\ w.active.open \in BOOLEAN /\ w.active.records \in Nat
  BY <1>1 DEF ActiveType
<1>3. Writers(w) \in Nat
  BY <1>2, WritersIs
<1> QED
  BY <1>1, <1>2, <1>3

(* A step on other fields keeps the accounts.                              *)
LEMMA BooksAcct ==
  ASSUME NEW w, Sound(w), NEW v \in WrType, Books(w, v) PROVE Acct(w, v, 0)
<1>1. Writers(v) = Writers(w)
  BY DEF Books, Writers
<1>2. Fit(v)
  BY <1>1 DEF Sound, Fit, Books
<1>3. \A f \in FinType : Weights(v, f) = Weights(w, f)
  BY DEF Weights, Books
<1>4. Pays(w, v)
  BY <1>3 DEF Pays, BytesOK, Books
<1>5. w.sinks \in Int /\ w.handed \in Int /\ Writers(w) \in Nat
  BY CountTypes DEF Sound
<1> QED
  BY <1>1, <1>2, <1>4, <1>5 DEF Acct, Sound, Books

(* Nor does no step.                                                       *)
LEMMA AcctSelf == ASSUME NEW w, Sound(w) PROVE Acct(w, w, 0)
<1>1. w \in WrType /\ Books(w, w)
  BY DEF Sound, Books
<1> QED
  BY <1>1, BooksAcct

(* Two steps under one hold of mu.                                         *)
LEMMA AcctTrans ==
  ASSUME NEW u, NEW v, NEW w, Sound(u), NEW k \in {0, 1}, Acct(u, v, 0), Acct(v, w, k)
  PROVE  Acct(u, w, k)
<1>1. /\ u.sinks \in Int /\ u.handed \in Int /\ Writers(u) \in Nat
      /\ v.sinks \in Int /\ v.handed \in Int /\ Writers(v) \in Nat
      /\ w.sinks \in Int /\ w.handed \in Int /\ Writers(w) \in Nat
  BY CountTypes DEF Sound, Acct
<1>2. Pays(u, w)
  BY DEF Acct, Pays
<1>3. w.sinks - Writers(w) - w.handed = u.sinks - Writers(u) - u.handed + k
  <2>1. /\ w.sinks - Writers(w) - w.handed = v.sinks - Writers(v) - v.handed + k
        /\ v.sinks - Writers(v) - v.handed = u.sinks - Writers(u) - u.handed + 0
    BY DEF Acct
  <2> QED
    BY <1>1, <2>1
<1> QED
  BY <1>2, <1>3 DEF Acct

(* StartDrain once nobody holds a segment writer in the struct.            *)
LEMMA DrainFields ==
  ASSUME NEW w \in WrType, NEW h \in Nat, NEW v, v = StartDrain(w, h)
  PROVE  /\ v \in WrType /\ v.policy = w.policy /\ v.nextLSN = w.nextLSN /\ v.active = w.active
         /\ v.segments = w.segments /\ v.bytes = w.bytes /\ v.detached = w.detached
         /\ v.ready = w.ready /\ v.closed = w.closed /\ v.aborted = w.aborted
         /\ v.sinks = w.sinks
         /\ v.drain = IF w.drain = "off" THEN "cleanup" ELSE w.drain
         /\ v.handed = IF w.drain = "off" THEN h ELSE w.handed
<1>1. CASE w.drain # "off"
  <2>1. v = w
    BY <1>1 DEF StartDrain
  <2> QED
    BY <1>1, <2>1
<1>2. CASE w.drain = "off"
  <2> DEFINE u == [w EXCEPT !.drain = "cleanup", !.cancelled = TRUE, !.handed = h]
  <2>1. v = SignalAll(u)
    BY <1>2 DEF StartDrain
  <2>2. /\ u \in WrType /\ u.policy = w.policy /\ u.nextLSN = w.nextLSN /\ u.active = w.active
        /\ u.segments = w.segments /\ u.bytes = w.bytes /\ u.detached = w.detached
        /\ u.ready = w.ready /\ u.closed = w.closed /\ u.aborted = w.aborted
        /\ u.sinks = w.sinks /\ u.drain = "cleanup" /\ u.handed = h
    <3>1. h \in Int
      OBVIOUS
    <3>2. u \in WrType
      BY <3>1 DEF WrType
    <3> QED
      BY <3>2 DEF WrType
  <2> HIDE DEF u
  <2>3. v = [u EXCEPT !.stateWake = TRUE, !.finalizeWake = TRUE, !.publishWake = TRUE,
                      !.ageWake = TRUE]
    BY <2>1 DEF SignalAll
  <2>4. v \in WrType /\ Books(u, v)
    BY <2>2, <2>3, ZenonT(40) DEF WrType, Books
  <2> QED
    BY <1>2, <2>2, <2>4 DEF Books
<1> QED
  BY <1>1, <1>2

(* The terminal error, and whether a caller has been told of it.           *)
Blamed(w, e, s) == [w EXCEPT !.firstErr = e, !.surfaced = s]

(* A shutdown hands the segment writers to the drain, once.                *)
LEMMA ShutdownAcct ==
  ASSUME NEW w, Sound(w), NEW e \in Errors, NEW s \in BOOLEAN, NEW v,
         v = Shutdown(Blamed(w, e, s), Writers(w))
  PROVE  Acct(w, v, 0) /\ v.aborted /\ v.nextLSN = w.nextLSN
<1> DEFINE u == Blamed(w, e, s)
           x == [u EXCEPT !.aborted = TRUE, !.active = NoActive, !.detached = <<>>, !.ready = <<>>]
<1>0. w \in WrType
  BY DEF Sound
<1>1. u \in WrType /\ Books(w, u)
  BY <1>0 DEF WrType, Books, Blamed
<1>2. v = StartDrain(x, Writers(w))
  BY DEF Shutdown
<1> HIDE DEF u
<1>3. /\ x \in WrType /\ x.policy = w.policy /\ x.nextLSN = w.nextLSN /\ x.active = NoActive
      /\ x.segments = w.segments /\ x.detached = <<>> /\ x.aborted /\ x.closed = w.closed
      /\ x.drain = w.drain /\ x.handed = w.handed /\ x.sinks = w.sinks
  <2>1. <<>> \in Seq(SegmentType) /\ <<>> \in Seq(ItemType)
    OBVIOUS
  <2>2. x \in WrType
    BY <1>1, <2>1, NoActiveType DEF WrType
  <2>3. /\ x.policy = u.policy /\ x.nextLSN = u.nextLSN /\ x.active = NoActive
        /\ x.segments = u.segments /\ x.detached = <<>> /\ x.aborted /\ x.closed = u.closed
        /\ x.drain = u.drain /\ x.handed = u.handed /\ x.sinks = u.sinks
    BY <1>1 DEF WrType
  <2> QED
    BY <1>1, <2>2, <2>3 DEF Books
<1> HIDE DEF x
<1>4. Writers(w) \in Nat /\ w.sinks \in Int /\ w.handed \in Int
  BY <1>0, CountTypes
<1>5. /\ v \in WrType /\ v.policy = w.policy /\ v.nextLSN = w.nextLSN /\ v.active = NoActive
      /\ v.segments = w.segments /\ v.detached = <<>> /\ v.aborted /\ v.closed = w.closed
      /\ v.sinks = w.sinks
      /\ v.drain = IF w.drain = "off" THEN "cleanup" ELSE w.drain
      /\ v.handed = IF w.drain = "off" THEN Writers(w) ELSE w.handed
  BY <1>2, <1>3, <1>4, DrainFields, SMTT(30)
<1>6. Writers(v) = 0
  <2>1. Len(v.detached) = 0 /\ ~v.active.open
    BY <1>5, NoActiveType
  <2> QED
    BY <1>5, <2>1, WritersIs
<1>7. Fit(v)
  BY <1>4, <1>5, <1>6, NoActiveType DEF Fit, Sound
<1>8. v.sinks - Writers(v) - v.handed = w.sinks - Writers(w) - w.handed + 0
  <2>1. CASE w.drain = "off"
    <3>1. w.handed = 0 /\ v.handed = Writers(w)
      BY <2>1, <1>5 DEF Fit, Sound
    <3> QED
      BY <1>4, <1>5, <1>6, <3>1
  <2>2. CASE w.drain # "off"
    <3>1. Writers(w) = 0 /\ v.handed = w.handed
      BY <2>2, <1>5 DEF Fit, Sound
    <3> QED
      BY <1>4, <1>5, <1>6, <3>1
  <2> QED
    BY <2>1, <2>2
<1> QED
  BY <1>5, <1>7, <1>8 DEF Acct, Sound, Pays

(* So does a failure.                                                      *)
LEMMA FailAcct ==
  ASSUME NEW w, Sound(w), NEW err \in Errors, NEW s
  PROVE  /\ Acct(w, Fail(w, err, s), 0) /\ Fail(w, err, s).aborted
         /\ Fail(w, err, s).nextLSN = w.nextLSN
<1> DEFINE e == IF w.firstErr = "none" THEN err ELSE w.firstErr
           b == w.surfaced \/ (s /\ w.firstErr = "none")
<1>1. e \in Errors
  BY DEF Sound, WrType
<1>2. b \in BOOLEAN
  OBVIOUS
<1>3. Fail(w, err, s) = Shutdown(Blamed(w, e, b), Writers(w))
  BY DEF Fail, Blamed, Sound, WrType
<1> HIDE DEF e, b
<1> DEFINE v == Fail(w, err, s)
<1>4. v = Shutdown(Blamed(w, e, b), Writers(w))
  BY <1>3
<1> HIDE DEF v
<1>5. Acct(w, v, 0) /\ v.aborted /\ v.nextLSN = w.nextLSN
  BY <1>1, <1>2, <1>4, ShutdownAcct
<1> QED
  BY <1>5 DEF v

(* What a call returns costs nothing.                                      *)
LEMMA SurfaceAcct ==
  ASSUME NEW w, Sound(w), NEW a, NEW v, v = SurfaceReturned(w, a)
  PROVE  Acct(w, v, 0) /\ v.nextLSN = w.nextLSN
<1>0. w \in WrType
  BY DEF Sound
<1>1. v \in WrType /\ Books(w, v)
  <2>1. CASE w.aborted /\ a = w.firstErr
    <3>1. v = [w EXCEPT !.surfaced = TRUE]
      BY <2>1 DEF SurfaceReturned
    <3> QED
      BY <1>0, <3>1 DEF WrType, Books
  <2>2. CASE ~(w.aborted /\ a = w.firstErr)
    BY <1>0, <2>2 DEF SurfaceReturned, Books
  <2> QED
    BY <2>1, <2>2
<1> QED
  BY <1>1, BooksAcct DEF Books

(* The weights of the queues are sizes.                                    *)
LEMMA WeightsSeq ==
  ASSUME NEW w \in WrType, NEW f \in FinType
  PROVE  /\ Weights(w, f) \in Seq(Nat) /\ Holds(f) \in {0, 1}
         /\ Len(Weights(w, f)) = Len(w.ready) + Holds(f) + Len(w.detached)
         /\ \A i \in 1..(Len(w.ready) + Holds(f) + Len(w.detached)) :
              Weights(w, f)[i] = IF i <= Len(w.ready) THEN w.ready[i].size
                                 ELSE IF i <= Len(w.ready) + Holds(f) THEN Estimate(f.item.records)
                                 ELSE Estimate(w.detached[i - Len(w.ready) - Holds(f)].records)
         /\ SumFunction(Weights(w, f)) \in Nat
<1> DEFINE r == Len(w.ready)
           h == Holds(f)
           d == Len(w.detached)
           e(i) == IF i <= r THEN w.ready[i].size
                   ELSE IF i <= r + h THEN Estimate(f.item.records)
                   ELSE Estimate(w.detached[i - r - h].records)
<1>1. w.ready \in Seq(ItemType) /\ w.detached \in Seq(SegmentType) /\ f.item \in ItemType
  BY DEF WrType, FinType
<1>2. r \in Nat /\ h \in {0, 1} /\ d \in Nat
  BY <1>1 DEF Holds
<1>3. ASSUME NEW i \in 1..(r + h + d) PROVE e(i) \in Nat
  <2>1. CASE i <= r
    <3>1. w.ready[i] \in ItemType
      BY <1>1, <1>2, <2>1
    <3> QED
      BY <2>1, <3>1 DEF ItemType
  <2>2. CASE ~(i <= r) /\ i <= r + h
    <3>1. f.item.records \in Nat
      BY <1>1 DEF ItemType
    <3> QED
      BY <2>2, <3>1, EstimateNat
  <2>3. CASE ~(i <= r) /\ ~(i <= r + h)
    <3>1. i - r - h \in 1..d
      BY <1>2, <2>3
    <3>2. w.detached[i - r - h] \in SegmentType
      BY <1>1, <3>1
    <3>3. w.detached[i - r - h].records \in Nat
      BY <3>2 DEF SegmentType
    <3>4. Estimate(w.detached[i - r - h].records) \in Nat
      BY <3>3, EstimateNat
    <3> QED
      BY <2>3, <3>4
  <2> QED
    BY <2>1, <2>2, <2>3
<1> DEFINE n == r + h + d
<1>4. Weights(w, f) = [i \in 1..n |-> e(i)]
  BY DEF Weights
<1>5. n \in Nat
  BY <1>2
<1> HIDE DEF n
<1>6. [i \in 1..n |-> e(i)] \in [1..n -> Nat]
  BY <1>3 DEF n
<1>7. Weights(w, f) \in Seq(Nat) /\ Len(Weights(w, f)) = n
  BY <1>4, <1>5, <1>6
<1>8. \A i \in 1..n : Weights(w, f)[i] = e(i)
  BY <1>4
<1>9. SumFunction(Weights(w, f)) \in Nat
  BY <1>7, SeqNatOn
<1> QED
  BY <1>2, <1>7, <1>8, <1>9 DEF n

(* The other fields that a detached segment changes.                       *)
LEMMA DetachBooks ==
  ASSUME NEW w \in WrType
  PROVE  /\ Detach(w).policy = w.policy /\ Detach(w).handed = w.handed
         /\ Detach(w).sinks = w.sinks
         /\ Detach(w).bytes = w.bytes + Estimate(w.active.records)
BY DEF Detach, WrType

(* The reserved estimate is that of the segment queued.                    *)
LEMMA DetachWeights ==
  ASSUME NEW w \in WrType, NEW f \in FinType
  PROVE  Weights(Detach(w), f) = Append(Weights(w, f), Estimate(w.active.records))
<1> DEFINE v == Detach(w)
           x == [base |-> w.active.base, records |-> w.active.records]
           e == Estimate(w.active.records)
           n == Len(w.ready) + Holds(f) + Len(w.detached)
<1>1. /\ v \in WrType /\ v.detached = Append(w.detached, x) /\ v.ready = w.ready
  BY DetachFields
<1>2. w.detached \in Seq(SegmentType) /\ w.ready \in Seq(ItemType) /\ w.active.records \in Nat
  BY CountTypes
<1>3. e \in Nat /\ x.records = w.active.records
  BY <1>2, EstimateNat
<1>4. x \in SegmentType
  BY <1>2, CountTypes DEF SegmentType, ActiveType
<1> HIDE DEF v, x
<1>5. Len(v.detached) = Len(w.detached) + 1 /\ Len(w.detached) \in Nat /\ Len(w.ready) \in Nat
  BY <1>1, <1>2, <1>4
<1>6. \A j \in 1..Len(w.detached) : v.detached[j] = w.detached[j]
  BY <1>1, <1>2, <1>4
<1>7. v.detached[Len(w.detached) + 1] = x
  BY <1>1, <1>2, <1>4
<1>8. /\ Weights(w, f) \in Seq(Nat) /\ Holds(f) \in {0, 1} /\ Len(Weights(w, f)) = n
      /\ \A i \in 1..n :
              Weights(w, f)[i] = IF i <= Len(w.ready) THEN w.ready[i].size
                                 ELSE IF i <= Len(w.ready) + Holds(f) THEN Estimate(f.item.records)
                                 ELSE Estimate(w.detached[i - Len(w.ready) - Holds(f)].records)
  BY WeightsSeq
<1>9. /\ Weights(v, f) \in Seq(Nat) /\ Len(Weights(v, f)) = n + 1
      /\ \A i \in 1..(n + 1) :
              Weights(v, f)[i] = IF i <= Len(w.ready) THEN w.ready[i].size
                                 ELSE IF i <= Len(w.ready) + Holds(f) THEN Estimate(f.item.records)
                                 ELSE Estimate(v.detached[i - Len(w.ready) - Holds(f)].records)
  <2>0. v.ready = w.ready /\ Holds(f) \in {0, 1}
    BY <1>1, <1>8
  <2>1. Len(v.ready) + Holds(f) + Len(v.detached) = n + 1
    BY <1>5, <2>0
  <2>2. /\ Weights(v, f) \in Seq(Nat)
        /\ Len(Weights(v, f)) = Len(v.ready) + Holds(f) + Len(v.detached)
        /\ \A i \in 1..(Len(v.ready) + Holds(f) + Len(v.detached)) :
              Weights(v, f)[i] = IF i <= Len(v.ready) THEN v.ready[i].size
                                 ELSE IF i <= Len(v.ready) + Holds(f) THEN Estimate(f.item.records)
                                 ELSE Estimate(v.detached[i - Len(v.ready) - Holds(f)].records)
    BY <1>1, WeightsSeq
  <2> QED
    BY <2>1, <2>2, <1>1
<1> HIDE DEF e
<1>10. /\ Append(Weights(w, f), e) \in Seq(Nat) /\ Len(Append(Weights(w, f), e)) = n + 1
       /\ \A i \in 1..n : Append(Weights(w, f), e)[i] = Weights(w, f)[i]
       /\ Append(Weights(w, f), e)[n + 1] = e
  BY <1>3, <1>8, AppendProperties
<1>13. Holds(f) \in {0, 1} /\ Len(w.ready) \in Nat /\ Len(w.detached) \in Nat
  BY <1>5, <1>8
<1>11. ASSUME NEW i \in 1..(n + 1) PROVE Weights(v, f)[i] = Append(Weights(w, f), e)[i]
  <2>1. CASE i = n + 1
    <3>1. /\ ~(i <= Len(w.ready)) /\ ~(i <= Len(w.ready) + Holds(f))
          /\ i - Len(w.ready) - Holds(f) = Len(w.detached) + 1
      BY <2>1, <1>13
    <3>2. Weights(v, f)[i] = Estimate(v.detached[i - Len(w.ready) - Holds(f)].records)
      BY <3>1, <1>9
    <3>3. Weights(v, f)[i] = Estimate(x.records)
      BY <3>1, <3>2, <1>7
    <3> QED
      BY <2>1, <3>3, <1>3, <1>10 DEF e
  <2>2. CASE i # n + 1
    <3>1. i \in 1..n
      BY <2>2, <1>5, <1>8
    <3>2. CASE i <= Len(w.ready) + Holds(f)
      BY <3>1, <3>2, <1>8, <1>9, <1>10
    <3>3. CASE ~(i <= Len(w.ready) + Holds(f))
      <4> DEFINE j == i - Len(w.ready) - Holds(f)
      <4>1. ~(i <= Len(w.ready)) /\ j \in 1..Len(w.detached)
        BY <3>1, <3>3, <1>13
      <4>2. v.detached[j] = w.detached[j]
        BY <4>1, <1>6
      <4>3. Weights(v, f)[i] = Estimate(v.detached[j].records)
        BY <4>1, <3>3, <1>9
      <4>4. Weights(w, f)[i] = Estimate(w.detached[j].records)
        BY <4>1, <3>1, <3>3, <1>8
      <4> QED
        BY <3>1, <4>2, <4>3, <4>4, <1>10
    <3> QED
      BY <3>2, <3>3
  <2> QED
    BY <2>1, <2>2
<1>12. Weights(v, f) = Append(Weights(w, f), e)
  BY <1>9, <1>10, <1>11, SeqEqual
<1> QED
  BY <1>12 DEF v, e

(* A detached segment is still counted, and its estimate is paid.          *)
LEMMA DetachAcct ==
  ASSUME NEW w, Sound(w), w.active.records # 0, ~w.aborted,
         CanReserve(w, Estimate(w.active.records))
  PROVE  /\ Acct(w, Detach(w), 0) /\ Detach(w).nextLSN = w.nextLSN
         /\ ~Detach(w).active.open /\ ~Detach(w).aborted /\ ~Detach(w).closed
<1> DEFINE v == Detach(w)
           x == [base |-> w.active.base, records |-> w.active.records]
<1>0. w \in WrType /\ Fit(w)
  BY DEF Sound
<1>1. /\ v \in WrType /\ v.active = NoActive /\ v.detached = Append(w.detached, x)
      /\ v.segments = w.segments + 1 /\ v.nextLSN = w.nextLSN /\ v.ready = w.ready
      /\ v.closed = w.closed /\ v.aborted = w.aborted /\ v.drain = w.drain
  BY <1>0, DetachFields
<1>2. /\ v.policy = w.policy /\ v.handed = w.handed /\ v.sinks = w.sinks
      /\ v.bytes = w.bytes + Estimate(w.active.records)
  BY <1>0, DetachBooks
<1>3. \A f \in FinType : Weights(v, f) = Append(Weights(w, f), Estimate(w.active.records))
  BY <1>0, DetachWeights
<1> HIDE DEF v
<1>4. /\ w.sinks \in Int /\ w.handed \in Int /\ w.segments \in Nat /\ w.active.records \in Nat
      /\ w.detached \in Seq(SegmentType) /\ w.bytes \in Nat
  BY <1>0, CountTypes
<1>5. w.active.open /\ w.drain = "off" /\ ~w.closed
  <2>1. w.active.open
    BY <1>0 DEF Fit
  <2>2. Writers(w) # 0
    BY <1>0, <2>1, WritersIs
  <2> QED
    BY <1>0, <2>1, <2>2 DEF Fit
<1>6. Writers(v) = Writers(w)
  <2>1. Len(v.detached) = Len(w.detached) + 1
    BY <1>1, <1>4
  <2> QED
    BY <1>0, <1>1, <1>5, <2>1, WritersIs, NoActiveType
<1>7. v.segments <= MaxInflightSegments
  BY <1>1, <1>4, WriterAssumption DEF CanReserve
<1>8. Fit(v)
  BY <1>0, <1>1, <1>2, <1>5, <1>7, NoActiveType DEF Fit
<1>9. Pays(w, v)
  <2> SUFFICES ASSUME NEW f \in FinType, w.bytes = SumFunction(Weights(w, f))
               PROVE  v.bytes = SumFunction(Weights(v, f))
    BY DEF Pays, BytesOK
  <2>1. Weights(w, f) \in Seq(Nat) /\ Estimate(w.active.records) \in Nat
    BY <1>0, <1>4, WeightsSeq, EstimateNat
  <2>2. SumFunction(Weights(v, f)) = SumFunction(Weights(w, f)) + Estimate(w.active.records)
    BY <1>3, <2>1, SeqSumAppend
  <2> QED
    BY <1>2, <2>2
<1>10. Writers(w) \in Nat
  BY <1>0, CountTypes
<1>11. v.sinks - Writers(v) - v.handed = w.sinks - Writers(w) - w.handed + 0
  BY <1>2, <1>4, <1>6, <1>10
<1> QED
  BY <1>1, <1>2, <1>5, <1>8, <1>9, <1>11, NoActiveType DEF Acct, Sound, v

(* A segment that starts is a segment writer more.                         *)
LEMMA StartAcct ==
  ASSUME NEW w, Sound(w), ~w.active.open, ~w.closed, ~w.aborted
  PROVE  /\ Acct(w, StartSegment(w), 0) /\ StartSegment(w).nextLSN = w.nextLSN
         /\ StartSegment(w).active.open /\ ~StartSegment(w).closed /\ ~StartSegment(w).aborted
<1> DEFINE v == StartSegment(w)
<1>0. w \in WrType /\ Fit(w)
  BY DEF Sound
<1>1. /\ v \in WrType
      /\ v.active = [base |-> w.nextLSN, records |-> 0, open |-> TRUE, old |-> FALSE]
      /\ v.detached = w.detached /\ v.segments = w.segments
      /\ v.nextLSN = w.nextLSN /\ v.ready = w.ready
      /\ v.closed = w.closed /\ v.aborted = w.aborted /\ v.drain = w.drain
  BY <1>0, StartFields
<1>2. v.policy = w.policy /\ v.handed = w.handed /\ v.sinks = w.sinks + 1 /\ v.bytes = w.bytes
  BY <1>0 DEF StartSegment, WrType
<1> HIDE DEF v
<1>3. v.active.open
  BY <1>1
<1>4. Writers(v) = Writers(w) + 1 /\ Writers(w) \in Nat /\ w.sinks \in Int /\ w.handed \in Int
  <2>1. Len(w.detached) \in Nat /\ Writers(w) = Len(w.detached)
    BY <1>0, WritersIs
  <2>2. Writers(v) = Len(w.detached) + 1
    BY <1>1, <1>3, WritersIs
  <2> QED
    BY <1>0, <2>1, <2>2, CountTypes
<1>5. Fit(v)
  BY <1>0, <1>1, <1>2, <1>3 DEF Fit
<1>6. \A f \in FinType : Weights(v, f) = Weights(w, f)
  BY <1>1 DEF Weights
<1>7. Pays(w, v)
  BY <1>1, <1>2, <1>6 DEF Pays, BytesOK
<1>8. v.sinks - Writers(v) - v.handed = w.sinks - Writers(w) - w.handed + 0
  BY <1>2, <1>4
<1> QED
  BY <1>1, <1>2, <1>3, <1>5, <1>7, <1>8 DEF Acct, Sound, v

(* The end of a transition.                                                *)
LEMMA EndAcct ==
  ASSUME NEW w, Sound(w)
  PROVE  /\ Acct(w, EndTransition(w), 0) /\ EndTransition(w).nextLSN = w.nextLSN
         /\ EndTransition(w).transition = "none"
         /\ EndTransition(w).closed = w.closed /\ EndTransition(w).aborted = w.aborted
<1>1. EndTransition(w) \in WrType /\ Books(w, EndTransition(w)) /\ EndTransition(w).transition = "none"
  BY DEF EndTransition, Sound, WrType, Books
<1> QED
  BY <1>1, BooksAcct DEF Books

(* A cut keeps the accounts, and has an LSN to give where there was one.   *)
ResAcct(w, o) ==
  /\ Acct(w, o.w, 0) /\ o.w.nextLSN = w.nextLSN
  /\ o.res = "ok" => ~o.w.closed /\ ~o.w.aborted
  /\ o.res # "wait" => o.w.transition = "none"

(* reserveInflightLocked and what follows it.                              *)
LEMMA ReserveAcct ==
  ASSUME NEW w, Sound(w), ~w.aborted => w.active.records # 0, NEW d, NEW o \in Reserve(w, d)
  PROVE  ResAcct(w, o)
<1>0. w \in WrType
  BY DEF Sound
<1>1. CASE w.aborted
  <2>1. o = [w |-> EndTransition(w), res |-> AbortedErr(w)]
    BY <1>1 DEF Reserve
  <2>2. o.w = EndTransition(w) /\ o.res = AbortedErr(w)
    BY <2>1
  <2>3. AbortedErr(w) # "ok"
    BY <1>0 DEF AbortedErr, WrType, Errors
  <2> QED
    BY <2>2, <2>3, EndAcct DEF ResAcct
<1>2. CASE ~w.aborted /\ ~CanReserve(w, Estimate(w.active.records))
  <2>1. o = [w |-> w, res |-> "wait"]
    BY <1>2 DEF Reserve
  <2>2. o.w = w /\ o.res = "wait"
    BY <2>1
  <2> QED
    BY <2>2, AcctSelf DEF ResAcct
<1>3. CASE ~w.aborted /\ CanReserve(w, Estimate(w.active.records))
  <2> DEFINE u == Detach(w)
  <2>1. /\ Acct(w, u, 0) /\ u.nextLSN = w.nextLSN /\ ~u.active.open /\ ~u.aborted /\ ~u.closed
    BY <1>3, DetachAcct
  <2>2. \/ o = [w |-> EndTransition(u), res |-> "ok"]
        \/ o = [w |-> EndTransition(StartSegment(u)), res |-> "ok"]
        \/ o = [w |-> EndTransition([w EXCEPT !.stateWake = TRUE]), res |-> "rejected"]
    BY <1>3 DEF Reserve, If
  <2> HIDE DEF u
  <2>3. Sound(u)
    BY <2>1 DEF Acct
  <2>4. CASE o = [w |-> EndTransition(u), res |-> "ok"]
    <3>1. o.w = EndTransition(u) /\ o.res = "ok"
      BY <2>4
    <3>2. /\ Acct(u, o.w, 0) /\ o.w.nextLSN = u.nextLSN /\ o.w.transition = "none"
          /\ o.w.closed = u.closed /\ o.w.aborted = u.aborted
      BY <2>3, <3>1, EndAcct
    <3>3. Acct(w, o.w, 0)
      BY <2>1, <3>2, AcctTrans
    <3> QED
      BY <2>1, <3>1, <3>2, <3>3 DEF ResAcct
  <2>5. CASE o = [w |-> EndTransition(StartSegment(u)), res |-> "ok"]
    <3> DEFINE v == StartSegment(u)
    <3>1. Acct(u, v, 0) /\ v.nextLSN = u.nextLSN /\ ~v.closed /\ ~v.aborted
      BY <2>1, <2>3, StartAcct
    <3>2. o.w = EndTransition(v) /\ o.res = "ok"
      BY <2>5
    <3> HIDE DEF v
    <3>3. Sound(v) /\ Acct(w, v, 0)
      BY <2>1, <3>1, AcctTrans DEF Acct
    <3>4. /\ Acct(v, o.w, 0) /\ o.w.nextLSN = v.nextLSN /\ o.w.transition = "none"
          /\ o.w.closed = v.closed /\ o.w.aborted = v.aborted
      BY <3>2, <3>3, EndAcct
    <3>5. Acct(w, o.w, 0)
      BY <3>3, <3>4, AcctTrans
    <3> QED
      BY <2>1, <3>1, <3>2, <3>4, <3>5 DEF ResAcct
  <2>6. CASE o = [w |-> EndTransition([w EXCEPT !.stateWake = TRUE]), res |-> "rejected"]
    <3> DEFINE v == [w EXCEPT !.stateWake = TRUE]
    <3>1. v \in WrType /\ Books(w, v)
      BY <1>0 DEF WrType, Books
    <3>2. o.w = EndTransition(v) /\ o.res = "rejected"
      BY <2>6
    <3> HIDE DEF v
    <3>3. Sound(v) /\ Acct(w, v, 0) /\ v.nextLSN = w.nextLSN
      BY <3>1, BooksAcct DEF Acct, Books
    <3>4. Acct(v, o.w, 0) /\ o.w.nextLSN = v.nextLSN /\ o.w.transition = "none"
      BY <3>2, <3>3, EndAcct
    <3>5. Acct(w, o.w, 0)
      BY <3>3, <3>4, AcctTrans
    <3> QED
      BY <3>2, <3>3, <3>4, <3>5 DEF ResAcct
  <2> QED
    BY <2>2, <2>4, <2>5, <2>6
<1> QED
  BY <1>1, <1>2, <1>3

(* cutLocked and detachActiveLocked.                                       *)
LEMMA CutAcct ==
  ASSUME NEW w, Sound(w), NEW who \in {"client", "ager"}, NEW d, w.transition = "none",
         NEW o \in Cut(w, who, d)
  PROVE  ResAcct(w, o)
<1>0. w \in WrType
  BY DEF Sound
<1>1. CASE w.closed \/ w.aborted \/ w.active.records = 0
  <2>1. o.w = w /\ (o.res = "ok" => ~w.closed /\ ~w.aborted)
    <3>1. CASE w.closed
      BY <3>1 DEF Cut
    <3>2. CASE ~w.closed /\ w.aborted
      <4>1. AbortedErr(w) # "ok"
        BY <1>0 DEF AbortedErr, WrType, Errors
      <4> QED
        BY <3>2, <4>1 DEF Cut
    <3>3. CASE ~w.closed /\ ~w.aborted /\ w.active.records = 0
      BY <3>3 DEF Cut
    <3> QED
      BY <1>1, <3>1, <3>2, <3>3
  <2> QED
    BY <2>1, AcctSelf DEF ResAcct
<1>2. CASE ~w.closed /\ ~w.aborted /\ w.active.records # 0
  <2> DEFINE u == [w EXCEPT !.transition = who]
  <2>1. u \in WrType /\ Books(w, u)
    BY <1>0 DEF WrType, Books
  <2>2. o \in Reserve(u, d)
    BY <1>2 DEF Cut
  <2> HIDE DEF u
  <2>3. Acct(w, u, 0) /\ Sound(u) /\ u.active.records # 0 /\ u.nextLSN = w.nextLSN
    BY <1>2, <2>1, BooksAcct DEF Books, Acct
  <2>4. ResAcct(u, o)
    BY <2>2, <2>3, ReserveAcct
  <2>5. Acct(w, o.w, 0)
    BY <2>3, <2>4, AcctTrans DEF ResAcct
  <2> QED
    BY <2>3, <2>4, <2>5 DEF ResAcct
<1> QED
  BY <1>1, <1>2

-----------------------------------------------------------------------------
(* What a call keeps of the accounts when it releases mu                   *)

OutAcct(w, op, o) ==
  /\ Acct(w, o.w, Took(o.pc))
  /\ op = "append" /\ o.pc = "reserve" => Room(o.w)
  /\ o.pc \in Draining => o.w.transition # "ager"

(* A call takes one segment writer out, or none.                           *)
LEMMA TookIs == ASSUME NEW pc PROVE Took(pc) \in {0, 1} /\ (pc # "empty" => Took(pc) = 0)
BY DEF Took

(* An outcome of what follows a step that keeps the accounts.              *)
LEMMA OutAcctTrans ==
  ASSUME NEW u, NEW w, NEW op, NEW o, Sound(u), Acct(u, w, 0), OutAcct(w, op, o)
  PROVE  OutAcct(u, op, o)
<1>1. Acct(u, o.w, Took(o.pc))
  BY AcctTrans, TookIs DEF OutAcct
<1> QED
  BY <1>1 DEF OutAcct

(* A call that waits.                                                      *)
LEMMA AtAcct ==
  ASSUME NEW w, Sound(w), NEW op, NEW pc, pc # "empty", NEW o \in At(w, pc),
         op = "append" /\ pc = "reserve" => Room(w),
         pc \in Draining => w.transition # "ager"
  PROVE  OutAcct(w, op, o)
<1>1. o.w = w /\ o.pc = pc
  BY DEF At
<1> QED
  BY <1>1, AcctSelf, TookIs DEF OutAcct

(* A call that returns.                                                    *)
LEMMA AnswerAcct ==
  ASSUME NEW w, Sound(w), NEW op, NEW a, NEW o \in Answer(w, a) PROVE OutAcct(w, op, o)
<1>1. o.w = SurfaceReturned(w, a) /\ o.pc = "idle" /\ "idle" \notin Draining /\ Took("idle") = 0
  BY DEF Answer, Draining, Took
<1>2. Acct(w, o.w, 0)
  BY <1>1, SurfaceAcct
<1> QED
  BY <1>1, <1>2 DEF OutAcct

(* A Flush or Close that returns an error.                                 *)
LEMMA EndErrAcct ==
  ASSUME NEW w, Sound(w), NEW op, NEW a, NEW o \in EndErr(w, op, a) PROVE OutAcct(w, op, o)
<1>1. CASE op = "close" /\ w.aborted
  <2>1. o.w = SurfaceReturned(w, a) /\ o.pc = "join" /\ "join" \notin Draining /\ Took("join") = 0
    BY <1>1 DEF EndErr, Draining, Took
  <2>2. Acct(w, o.w, 0)
    BY <2>1, SurfaceAcct
  <2> QED
    BY <2>1, <2>2 DEF OutAcct
<1>2. CASE ~(op = "close" /\ w.aborted)
  <2>1. o \in Answer(w, a)
    BY <1>2 DEF EndErr
  <2> QED
    BY <2>1, AnswerAcct
<1> QED
  BY <1>1, <1>2

(* A call that fails the writer and returns.                               *)
LEMMA FailAnswerAcct ==
  ASSUME NEW w, Sound(w), NEW op, NEW o \in Answer(Fail(w, "cause", TRUE), "cause")
  PROVE  OutAcct(w, op, o)
<1> DEFINE v == Fail(w, "cause", TRUE)
<1>1. Acct(w, v, 0) /\ Sound(v)
  <2>1. "cause" \in Errors
    BY DEF Errors
  <2> QED
    BY <2>1, FailAcct DEF Acct
<1>2. o \in Answer(v, "cause")
  OBVIOUS
<1> HIDE DEF v
<1> QED
  BY <1>1, <1>2, AnswerAcct, OutAcctTrans

(* tryCutAfterAppendLocked                                                 *)
LEMMA AfterAppendAcct ==
  ASSUME NEW w, Sound(w), NEW r, ResAcct(w, r), NEW op, NEW o \in AfterAppend(r)
  PROVE  OutAcct(w, op, o)
<1>1. Sound(r.w) /\ Acct(w, r.w, 0) /\ r.w \in WrType
  BY DEF ResAcct, Acct, Sound
<1>2. CASE r.res = "wait"
  <2>1. o \in At(r.w, "after") /\ "after" \notin Draining
    BY <1>2 DEF AfterAppend, Draining
  <2> QED
    BY <1>1, <2>1, AtAcct, OutAcctTrans
<1>3. CASE r.res # "wait"
  <2> DEFINE v == IF r.res = "ok" THEN r.w ELSE [r.w EXCEPT !.stateWake = TRUE]
  <2>1. o.w = v /\ o.pc = "idle" /\ "idle" \notin Draining /\ Took("idle") = 0
    BY <1>3 DEF AfterAppend, Draining, Took
  <2>2. v \in WrType /\ Books(r.w, v)
    <3>1. CASE r.res = "ok"
      BY <1>1, <3>1 DEF Books
    <3>2. CASE r.res # "ok"
      BY <1>1, <3>2 DEF Books, WrType
    <3> QED
      BY <3>1, <3>2
  <2> HIDE DEF v
  <2>3. Acct(r.w, v, 0)
    BY <1>1, <2>2, BooksAcct
  <2>4. OutAcct(r.w, op, o)
    BY <2>1, <2>3 DEF OutAcct
  <2> QED
    BY <1>1, <2>4, OutAcctTrans
<1> QED
  BY <1>2, <1>3

(* The accepted record has the next LSN, below the last one.               *)
LEMMA AcceptedAcct ==
  ASSUME NEW w, Sound(w), Room(w), w.active.open, w.transition = "none", NEW op,
         NEW o \in Accepted(w)
  PROVE  OutAcct(w, op, o)
<1> DEFINE v == [w EXCEPT !.nextLSN = @ + 1, !.active.records = @ + 1,
                          !.ageWake = @ \/ w.active.records = 0]
           a == [w.active EXCEPT !.records = w.active.records + 1]
<1>1. /\ w \in WrType /\ w.active \in ActiveType /\ w.nextLSN \in Nat /\ w.active.records \in Nat
      /\ Fit(w) /\ MaxLSN \in Nat
  BY CountTypes, WriterAssumption DEF Sound
<1>2. a \in ActiveType /\ a.open
  BY <1>1 DEF ActiveType
<1>3. v = [w EXCEPT !.nextLSN = w.nextLSN + 1, !.active = a,
                    !.ageWake = (w.ageWake \/ w.active.records = 0)]
  BY <1>1 DEF WrType
<1>4. \/ \E r \in Cut(v, "client", FALSE) : o \in AfterAppend(r)
      \/ o \in Answer(v, "appended")
  BY DEF Accepted
<1> HIDE DEF a, v
<1>5. v \in WrType
  <2>1. w.nextLSN + 1 \in Nat /\ (w.ageWake \/ w.active.records = 0) \in BOOLEAN
    BY <1>1
  <2> QED
    BY <1>1, <1>2, <1>3, <2>1 DEF WrType
<1>6. /\ v.policy = w.policy /\ v.nextLSN = w.nextLSN + 1 /\ v.active = a
      /\ v.segments = w.segments /\ v.bytes = w.bytes /\ v.detached = w.detached
      /\ v.ready = w.ready /\ v.closed = w.closed /\ v.aborted = w.aborted
      /\ v.drain = w.drain /\ v.handed = w.handed /\ v.sinks = w.sinks
      /\ v.transition = w.transition
  BY <1>1, <1>3 DEF WrType
<1>7. Writers(v) = Writers(w)
  BY <1>1, <1>2, <1>5, <1>6, WritersIs
<1>8. v.nextLSN <= MaxLSN
  BY <1>1, <1>6 DEF Room
<1>9. Fit(v)
  BY <1>1, <1>2, <1>6, <1>7, <1>8 DEF Fit
<1>10. \A f \in FinType : Weights(v, f) = Weights(w, f)
  BY <1>6 DEF Weights
<1>11. Acct(w, v, 0)
  <2>1. Pays(w, v)
    BY <1>6, <1>10 DEF Pays, BytesOK
  <2>2. w.sinks \in Int /\ w.handed \in Int /\ Writers(w) \in Nat
    BY <1>1, CountTypes
  <2>3. v.sinks - Writers(v) - v.handed = w.sinks - Writers(w) - w.handed + 0
    BY <1>6, <1>7, <2>2
  <2> QED
    BY <1>5, <1>6, <1>9, <2>1, <2>3 DEF Acct, Sound
<1>12. Sound(v)
  BY <1>5, <1>9 DEF Sound
<1>13. OutAcct(v, op, o)
  <2>1. CASE o \in Answer(v, "appended")
    BY <1>12, <2>1, AnswerAcct
  <2>2. ASSUME NEW r \in Cut(v, "client", FALSE), o \in AfterAppend(r) PROVE OutAcct(v, op, o)
    <3>1. ResAcct(v, r)
      BY <1>6, <1>12, CutAcct
    <3> QED
      BY <1>12, <2>2, <3>1, AfterAppendAcct
  <2> QED
    BY <1>4, <2>1, <2>2
<1> QED
  BY <1>11, <1>13, OutAcctTrans

(* A record is written, rejected, or fails the writer.                     *)
LEMMA WriteRecordAcct ==
  ASSUME NEW w, Sound(w), Room(w), w.active.open, w.transition = "none", NEW op,
         NEW o \in WriteRecord(w)
  PROVE  OutAcct(w, op, o)
<1>1. \/ o \in Accepted(w) \/ o \in Answer(w, "rejected")
      \/ o \in Answer(Fail(w, "cause", TRUE), "cause")
  BY DEF WriteRecord, If
<1>2. CASE o \in Accepted(w)
  BY <1>2, AcceptedAcct
<1>3. CASE o \in Answer(w, "rejected")
  BY <1>3, AnswerAcct
<1>4. CASE o \in Answer(Fail(w, "cause", TRUE), "cause")
  BY <1>4, FailAnswerAcct
<1> QED
  BY <1>1, <1>2, <1>3, <1>4

(* Append, once the boundary before the record is settled.                 *)
LEMMA AppendRecordAcct ==
  ASSUME NEW w, Sound(w), Room(w), w.transition = "none", ~w.closed, ~w.aborted, NEW op,
         NEW o \in AppendRecord(w)
  PROVE  OutAcct(w, op, o)
<1>1. CASE w.active.open
  <2>1. o \in WriteRecord(w)
    BY <1>1 DEF AppendRecord
  <2> QED
    BY <1>1, <2>1, WriteRecordAcct
<1>2. CASE ~w.active.open
  <2>1. o \in WriteRecord(StartSegment(w)) \/ o \in Answer(w, "rejected")
    BY <1>2 DEF AppendRecord, If
  <2>2. CASE o \in Answer(w, "rejected")
    BY <2>2, AnswerAcct
  <2>3. CASE o \in WriteRecord(StartSegment(w))
    <3> DEFINE v == StartSegment(w)
    <3>1. Acct(w, v, 0) /\ v.nextLSN = w.nextLSN /\ v.active.open
      BY <1>2, StartAcct
    <3>2. v.transition = "none"
      BY DEF StartSegment, Sound, WrType
    <3>3. Sound(v) /\ Room(v)
      BY <3>1 DEF Acct, Room
    <3> HIDE DEF v
    <3>4. OutAcct(v, op, o)
      BY <2>3, <3>1, <3>2, <3>3, WriteRecordAcct DEF v
    <3> QED
      BY <3>1, <3>4, OutAcctTrans
  <2> QED
    BY <2>1, <2>2, <2>3
<1> QED
  BY <1>1, <1>2

(* Append, after the cut before the record.                                *)
LEMMA AfterCutBeforeAcct ==
  ASSUME NEW w, Sound(w), Room(w), NEW r, ResAcct(w, r), NEW op, NEW o \in AfterCutBefore(r)
  PROVE  OutAcct(w, op, o)
<1>1. Sound(r.w) /\ Acct(w, r.w, 0) /\ Room(r.w)
  BY DEF ResAcct, Acct, Room
<1>2. CASE r.res = "wait"
  <2>1. o \in At(r.w, "reserve") /\ "reserve" \notin Draining
    BY <1>2 DEF AfterCutBefore, Draining
  <2> QED
    BY <1>1, <2>1, AtAcct, OutAcctTrans
<1>3. CASE r.res = "ok"
  <2>1. o \in AppendRecord(r.w) /\ r.w.transition = "none" /\ ~r.w.closed /\ ~r.w.aborted
    BY <1>3 DEF AfterCutBefore, ResAcct
  <2>2. OutAcct(r.w, op, o)
    BY <1>1, <2>1, AppendRecordAcct
  <2> QED
    BY <1>1, <2>2, OutAcctTrans
<1>4. CASE r.res \notin {"wait", "ok"}
  <2>1. o \in Answer(r.w, r.res)
    BY <1>4 DEF AfterCutBefore
  <2>2. OutAcct(r.w, op, o)
    BY <1>1, <2>1, AnswerAcct
  <2> QED
    BY <1>1, <2>2, OutAcctTrans
<1> QED
  BY <1>2, <1>3, <1>4

(* Append: the last LSN is not given to a record.                          *)
LEMMA AppendCallAcct ==
  ASSUME NEW w, Sound(w), w.transition = "none", NEW op, NEW o \in AppendCall(w)
  PROVE  OutAcct(w, op, o)
<1>1. CASE w.closed \/ w.aborted \/ w.nextLSN = MaxLSN
  <2>1. \/ \E a \in {"errClosed", AbortedErr(w)} : o \in Answer(w, a)
        \/ o \in Answer(Fail(w, "cause", TRUE), "cause")
    BY <1>1 DEF AppendCall
  <2> QED
    BY <2>1, AnswerAcct, FailAnswerAcct
<1>2. CASE ~w.closed /\ ~w.aborted /\ w.nextLSN # MaxLSN
  <2>1. \/ o \in Answer(Fail(w, "cause", TRUE), "cause")
        \/ \E r \in Cut(w, "client", FALSE) : o \in AfterCutBefore(r)
        \/ o \in AppendRecord(w)
        \/ o \in Answer(w, "rejected")
    BY <1>2 DEF AppendCall, If
  <2>2. Room(w)
    <3>1. w.nextLSN \in Nat /\ MaxLSN \in Nat /\ w.nextLSN <= MaxLSN
      BY CountTypes, WriterAssumption DEF Sound, Fit
    <3> QED
      BY <1>2, <3>1 DEF Room
  <2>3. ASSUME NEW r \in Cut(w, "client", FALSE), o \in AfterCutBefore(r)
        PROVE  OutAcct(w, op, o)
    <3>1. ResAcct(w, r)
      BY CutAcct
    <3> QED
      BY <2>2, <2>3, <3>1, AfterCutBeforeAcct
  <2>4. CASE o \in AppendRecord(w)
    BY <1>2, <2>2, <2>4, AppendRecordAcct
  <2> QED
    BY <2>1, <2>3, <2>4, AnswerAcct, FailAnswerAcct
<1> QED
  BY <1>1, <1>2

(* Cut, after the cut.                                                     *)
LEMMA AfterCutAcct ==
  ASSUME NEW w, Sound(w), NEW r, ResAcct(w, r), NEW op, op # "append", NEW o \in AfterCut(r)
  PROVE  OutAcct(w, op, o)
<1>1. Sound(r.w) /\ Acct(w, r.w, 0)
  BY DEF ResAcct, Acct
<1>2. o \in At(r.w, "reserve") \/ o \in Answer(r.w, r.res)
  BY DEF AfterCut
<1>3. "reserve" \notin Draining
  BY DEF Draining
<1>4. OutAcct(r.w, op, o)
  BY <1>1, <1>2, <1>3, AtAcct, AnswerAcct
<1> QED
  BY <1>1, <1>4, OutAcctTrans

(* An empty active segment is taken out, with its segment writer.          *)
LEMMA TakeEmptyAcct ==
  ASSUME NEW w, Sound(w), w.transition # "ager", NEW op, op # "append", NEW o \in TakeEmpty(w)
  PROVE  OutAcct(w, op, o)
<1>0. w \in WrType /\ Fit(w)
  BY DEF Sound
<1>1. CASE ~(w.active.open /\ w.active.records = 0)
  <2>1. o \in At(w, "drained")
    BY <1>1 DEF TakeEmpty
  <2> QED
    BY <2>1, AtAcct
<1>2. CASE w.active.open /\ w.active.records = 0
  <2> DEFINE v == [w EXCEPT !.active = NoActive]
  <2>1. o.w = v /\ o.pc = "empty"
    BY <1>2 DEF TakeEmpty, At
  <2>2. /\ v \in WrType /\ v.policy = w.policy /\ v.nextLSN = w.nextLSN /\ v.active = NoActive
        /\ v.segments = w.segments /\ v.bytes = w.bytes /\ v.detached = w.detached
        /\ v.ready = w.ready /\ v.closed = w.closed /\ v.aborted = w.aborted
        /\ v.drain = w.drain /\ v.handed = w.handed /\ v.sinks = w.sinks
        /\ v.transition = w.transition
    BY <1>0, NoActiveType DEF WrType
  <2> HIDE DEF v
  <2>3. /\ Writers(w) = Len(w.detached) + 1 /\ Writers(v) = Len(w.detached)
        /\ Len(w.detached) \in Nat /\ w.sinks \in Int /\ w.handed \in Int
    BY <1>0, <1>2, <2>2, WritersIs, CountTypes, NoActiveType
  <2>4. w.drain = "off"
    BY <1>0, <2>3 DEF Fit
  <2>5. Fit(v)
    BY <1>0, <2>2, <2>4, NoActiveType DEF Fit
  <2>6. \A f \in FinType : Weights(v, f) = Weights(w, f)
    BY <2>2 DEF Weights
  <2>7. Pays(w, v)
    BY <2>2, <2>6 DEF Pays, BytesOK
  <2>8. v.sinks - Writers(v) - v.handed = w.sinks - Writers(w) - w.handed + 1
    BY <2>2, <2>3
  <2> QED
    BY <2>1, <2>2, <2>5, <2>7, <2>8 DEF OutAcct, Acct, Sound, Took
<1> QED
  BY <1>1, <1>2

(* Flush and Close, after the active segment was detached.                 *)
LEMMA AfterDetachAcct ==
  ASSUME NEW w, Sound(w), NEW r, ResAcct(w, r), NEW op, op # "append", NEW o \in AfterDetach(r, op)
  PROVE  OutAcct(w, op, o)
<1>1. Sound(r.w) /\ Acct(w, r.w, 0)
  BY DEF ResAcct, Acct
<1>2. CASE r.res = "wait"
  <2>1. o \in At(r.w, "reserve") /\ "reserve" \notin Draining
    BY <1>2 DEF AfterDetach, Draining
  <2> QED
    BY <1>1, <2>1, AtAcct, OutAcctTrans
<1>3. CASE r.res = "ok"
  <2>1. o \in TakeEmpty(r.w) /\ r.w.transition # "ager"
    BY <1>3 DEF AfterDetach, ResAcct
  <2> QED
    BY <1>1, <2>1, TakeEmptyAcct, OutAcctTrans
<1>4. CASE r.res \notin {"wait", "ok"}
  <2>1. o \in EndErr(r.w, op, r.res)
    BY <1>4 DEF AfterDetach
  <2> QED
    BY <1>1, <2>1, EndErrAcct, OutAcctTrans
<1> QED
  BY <1>2, <1>3, <1>4

(* Close starts the drain when there is nothing to hand to it.             *)
LEMMA WaitDrainedAcct ==
  ASSUME NEW w, Sound(w), w.transition # "ager", NEW op, op # "append",
         ~w.aborted /\ w.segments = 0 => Writers(w) = 0,
         NEW o \in WaitDrained(w, op)
  PROVE  OutAcct(w, op, o)
<1>0. w \in WrType /\ Fit(w)
  BY DEF Sound
<1>1. CASE w.aborted
  <2>1. o \in EndErr(w, op, AbortedErr(w))
    BY <1>1 DEF WaitDrained
  <2> QED
    BY <2>1, EndErrAcct
<1>2. CASE ~w.aborted /\ w.segments # 0
  <2>1. o \in At(w, "waitDrained")
    BY <1>2 DEF WaitDrained
  <2> QED
    BY <2>1, AtAcct
<1>3. CASE ~w.aborted /\ w.segments = 0 /\ op # "close"
  <2>1. o \in Answer(w, "flushed")
    BY <1>3 DEF WaitDrained
  <2> QED
    BY <2>1, AnswerAcct
<1>4. CASE ~w.aborted /\ w.segments = 0 /\ op = "close"
  <2> DEFINE u == [w EXCEPT !.closed = TRUE]
             v == StartDrain(u, 0)
  <2>1. o.w = v /\ o.pc = "join" /\ "join" \notin Draining /\ Took("join") = 0
    BY <1>4 DEF WaitDrained, At, Draining, Took
  <2>2. /\ u \in WrType /\ u.policy = w.policy /\ u.nextLSN = w.nextLSN /\ u.active = w.active
        /\ u.segments = w.segments /\ u.bytes = w.bytes /\ u.detached = w.detached
        /\ u.ready = w.ready /\ u.closed /\ u.aborted = w.aborted
        /\ u.drain = w.drain /\ u.handed = w.handed /\ u.sinks = w.sinks
    BY <1>0 DEF WrType
  <2> HIDE DEF u
  <2>3. /\ v \in WrType /\ v.policy = u.policy /\ v.nextLSN = u.nextLSN /\ v.active = u.active
        /\ v.segments = u.segments /\ v.bytes = u.bytes /\ v.detached = u.detached
        /\ v.ready = u.ready /\ v.closed = u.closed /\ v.aborted = u.aborted
        /\ v.sinks = u.sinks
        /\ v.drain = IF u.drain = "off" THEN "cleanup" ELSE u.drain
        /\ v.handed = IF u.drain = "off" THEN 0 ELSE u.handed
    BY <2>2, DrainFields
  <2> HIDE DEF v
  <2>4. Writers(v) = 0 /\ Writers(w) = 0
    <3>1. Writers(v) = Writers(w)
      BY <2>2, <2>3 DEF Writers
    <3> QED
      BY <1>4, <3>1
  <2>5. v.handed = w.handed
    BY <1>0, <2>2, <2>3 DEF Fit
  <2>6. Fit(v)
    BY <1>0, <2>2, <2>3, <2>4, <2>5 DEF Fit
  <2>7. \A f \in FinType : Weights(v, f) = Weights(w, f)
    BY <2>2, <2>3 DEF Weights
  <2>8. Pays(w, v)
    BY <2>2, <2>3, <2>7 DEF Pays, BytesOK
  <2>9. v.sinks - Writers(v) - v.handed = w.sinks - Writers(w) - w.handed + 0
    <3>1. w.sinks \in Int /\ w.handed \in Int
      BY <1>0, CountTypes
    <3> QED
      BY <2>2, <2>3, <2>4, <2>5, <3>1
  <2> QED
    BY <2>1, <2>2, <2>3, <2>6, <2>8, <2>9 DEF OutAcct, Acct, Sound
<1> QED
  BY <1>1, <1>2, <1>3, <1>4

(* A call behind waitActiveTransitionLocked.                               *)
LEMMA ThroughAcct ==
  ASSUME NEW w, Sound(w), w.transition = "none", NEW op \in {"append", "cut", "flush", "close"},
         NEW o \in Through(w, op)
  PROVE  OutAcct(w, op, o)
<1>1. CASE op = "append"
  <2>1. o \in AppendCall(w)
    BY <1>1 DEF Through
  <2> QED
    BY <2>1, AppendCallAcct
<1>2. CASE op = "cut"
  <2>1. PICK r \in Cut(w, "client", FALSE) : o \in AfterCut(r)
    BY <1>2 DEF Through
  <2>2. ResAcct(w, r)
    BY CutAcct
  <2> QED
    BY <1>2, <2>1, <2>2, AfterCutAcct
<1>3. CASE op \in {"flush", "close"}
  <2>1. PICK r \in Cut(w, "client", TRUE) : o \in AfterDetach(r, op)
    BY <1>3 DEF Through
  <2>2. ResAcct(w, r)
    BY CutAcct
  <2> QED
    BY <1>3, <2>1, <2>2, AfterDetachAcct
<1> QED
  BY <1>1, <1>2, <1>3

(* It may have to wait for the transition first.                           *)
LEMMA TransitionAcct ==
  ASSUME NEW w, Sound(w), NEW op \in {"append", "cut", "flush", "close"},
         NEW o \in Transition(w, op)
  PROVE  OutAcct(w, op, o)
<1>1. CASE w.transition = "none"
  BY <1>1, ThroughAcct DEF Transition
<1>2. CASE w.transition # "none"
  <2>1. o \in At(w, "transition") /\ "transition" \notin Draining
    BY <1>2 DEF Transition, Draining
  <2> QED
    BY <2>1, AtAcct
<1> QED
  BY <1>1, <1>2

(* Close on a writer that failed.                                          *)
LEMMA CloseAbortedAcct ==
  ASSUME NEW w, Sound(w), NEW op, NEW o \in CloseAborted(w) PROVE OutAcct(w, op, o)
<1>1. /\ o.w = SurfaceReturned(w, AbortedErr(w)) /\ o.pc = "join"
      /\ "join" \notin Draining /\ Took("join") = 0
  BY DEF CloseAborted, Draining, Took
<1>2. Acct(w, o.w, 0)
  BY <1>1, SurfaceAcct
<1> QED
  BY <1>1, <1>2 DEF OutAcct

(* Abort hands every segment writer to the drain.                          *)
LEMMA AbortCallAcct ==
  ASSUME NEW w, Sound(w), NEW op, NEW o \in AbortCall(w) PROVE OutAcct(w, op, o)
<1>1. "join" \notin Draining
  BY DEF Draining
<1>2. CASE w.closed \/ w.aborted
  <2>1. o \in At(w, "join") \/ o \in CloseAborted(w)
    BY <1>2 DEF AbortCall
  <2> QED
    BY <1>1, <2>1, AtAcct, CloseAbortedAcct
<1>3. CASE ~w.closed /\ ~w.aborted
  <2> DEFINE v == Shutdown(Blamed(w, "errAborted", TRUE), Writers(w))
  <2>1. o \in At(v, "join")
    BY <1>3 DEF AbortCall, Blamed
  <2>2. "errAborted" \in Errors /\ TRUE \in BOOLEAN
    BY DEF Errors
  <2>3. Acct(w, v, 0) /\ Sound(v)
    BY <2>2, ShutdownAcct DEF Acct
  <2> HIDE DEF v
  <2> QED
    BY <1>1, <2>1, <2>3, AtAcct, OutAcctTrans
<1> QED
  BY <1>2, <1>3

(* A public call from its start.                                           *)
LEMMA EnterAcct ==
  ASSUME NEW w, Sound(w), CutOK(w), NEW op \in {"append", "cut", "flush", "close", "abort"},
         NEW o \in Enter(w, op)
  PROVE  OutAcct(w, op, o)
<1>0. w \in WrType /\ w.active.records \in Nat
  BY CountTypes DEF Sound
<1>1. \/ op # "abort" /\ o \in Transition(w, op)
      \/ o \in AbortCall(w)
      \/ o \in At(w, "join")
      \/ o \in CloseAborted(w)
      \/ o \in ForegroundErr(w)
      \/ op # "append" /\ ~w.aborted /\ ~(w.active.records > 0) /\ o \in TakeEmpty(w)
  BY DEF Enter
<1>2. CASE op # "abort" /\ o \in Transition(w, op)
  BY <1>2, TransitionAcct
<1>3. CASE o \in At(w, "join")
  <2>1. "join" \notin Draining
    BY DEF Draining
  <2> QED
    BY <1>3, <2>1, AtAcct
<1>4. CASE o \in ForegroundErr(w)
  BY <1>4, AnswerAcct DEF ForegroundErr
<1>5. CASE op # "append" /\ ~w.aborted /\ ~(w.active.records > 0) /\ o \in TakeEmpty(w)
  <2>1. w.transition # "ager"
    BY <1>5 DEF CutOK
  <2> QED
    BY <1>5, <2>1, TakeEmptyAcct
<1> QED
  BY <1>1, <1>2, <1>3, <1>4, <1>5, AbortCallAcct, CloseAbortedAcct

(* reserveInflightLocked goes round again.                                 *)
LEMMA AgainAcct ==
  ASSUME NEW w, Sound(w), CutOK(w), w.transition # "none",
         NEW op \in {"append", "cut", "flush", "close"}, NEW pc \in Cutting,
         op = "append" /\ pc = "reserve" => Room(w),
         NEW o \in Again(w, op, pc)
  PROVE  OutAcct(w, op, o)
<1>0. ~w.aborted => w.active.records # 0
  BY CountTypes DEF CutOK, Sound
<1>1. \/ \E r \in Reserve(w, FALSE) : o \in AfterAppend(r)
      \/ op = "append" /\ pc = "reserve" /\ \E r \in Reserve(w, FALSE) : o \in AfterCutBefore(r)
      \/ op = "cut" /\ \E r \in Reserve(w, FALSE) : o \in AfterCut(r)
      \/ op # "append" /\ \E r \in Reserve(w, TRUE) : o \in AfterDetach(r, op)
  BY DEF Again, Cutting
<1>2. \A d : \A r \in Reserve(w, d) : ResAcct(w, r)
  BY <1>0, ReserveAcct
<1>3. ASSUME NEW r \in Reserve(w, FALSE), o \in AfterAppend(r) PROVE OutAcct(w, op, o)
  BY <1>2, <1>3, AfterAppendAcct
<1>4. ASSUME op = "append", pc = "reserve", NEW r \in Reserve(w, FALSE), o \in AfterCutBefore(r)
      PROVE  OutAcct(w, op, o)
  BY <1>2, <1>4, AfterCutBeforeAcct
<1>5. ASSUME op = "cut", NEW r \in Reserve(w, FALSE), o \in AfterCut(r) PROVE OutAcct(w, op, o)
  BY <1>2, <1>5, AfterCutAcct
<1>6. ASSUME op # "append", NEW r \in Reserve(w, TRUE), o \in AfterDetach(r, op)
      PROVE  OutAcct(w, op, o)
  BY <1>2, <1>6, AfterDetachAcct
<1> QED
  BY <1>1, <1>3, <1>4, <1>5, <1>6

(* The caller's context ends while it waits.                               *)
LEMMA CancelledAcct ==
  ASSUME NEW w, Sound(w), NEW op, NEW pc, NEW o \in Cancelled(w, op, pc)
  PROVE  OutAcct(w, op, o)
<1> DEFINE u == EndTransition(w)
           r == [w |-> u, res |-> "cancelled"]
<1>1. Acct(w, u, 0) /\ u.nextLSN = w.nextLSN /\ u.transition = "none" /\ Sound(u)
  BY EndAcct DEF Acct
<1>2. o \in AfterAppend(r) \/ o \in EndErr(u, op, "cancelled") \/ o \in EndErr(w, op, "cancelled")
  BY DEF Cancelled
<1>3. r.w = u /\ r.res = "cancelled"
  OBVIOUS
<1> HIDE DEF u, r
<1>4. ResAcct(w, r)
  BY <1>1, <1>3 DEF ResAcct
<1>5. CASE o \in AfterAppend(r)
  BY <1>4, <1>5, AfterAppendAcct
<1>6. CASE o \in EndErr(u, op, "cancelled")
  BY <1>1, <1>6, EndErrAcct, OutAcctTrans
<1> QED
  BY <1>2, <1>5, <1>6, EndErrAcct

-----------------------------------------------------------------------------
(* The steps                                                               *)

AgePcs == {"top", "idle", "timer", "transition", "reserve", "backoff", "exit"}
Mus == {"none", "client", "publisher"}

(* The struct of a reachable state.                                        *)
LEMMA AccountSound ==
  ASSUME IInv, AccountInv
  PROVE  /\ Sound(wr) /\ wr \in WrType /\ fin \in FinType /\ wr.sinks \in Int /\ wr.handed \in Nat
         /\ Writers(wr) \in Nat
BY CountTypes DEF IInv, TypeInv, AccountInv, Sound, Fit

(* The finalizer holds one segment writer, or none.                        *)
LEMMA HoldsIs == ASSUME NEW f PROVE Holds(f) \in {0, 1}
BY DEF Holds

(* Steps one after the other.                                              *)
LEMMA AcctSum ==
  ASSUME NEW u, NEW v, NEW w, Sound(u), NEW j \in Int, NEW k \in Int, Acct(u, v, j), Acct(v, w, k)
  PROVE  Acct(u, w, j + k)
<1>1. /\ u.sinks \in Int /\ u.handed \in Int /\ Writers(u) \in Nat
      /\ v.sinks \in Int /\ v.handed \in Int /\ Writers(v) \in Nat
      /\ w.sinks \in Int /\ w.handed \in Int /\ Writers(w) \in Nat
  BY CountTypes DEF Sound, Acct
<1>2. Pays(u, w)
  BY DEF Acct, Pays
<1>3. w.sinks - Writers(w) - w.handed = u.sinks - Writers(u) - u.handed + (j + k)
  <2>1. /\ w.sinks - Writers(w) - w.handed = v.sinks - Writers(v) - v.handed + k
        /\ v.sinks - Writers(v) - v.handed = u.sinks - Writers(u) - u.handed + j
    BY DEF Acct
  <2> QED
    BY <1>1, <2>1
<1> QED
  BY <1>2, <1>3 DEF Acct

(* A segment writer is closed or aborted.                                  *)
LEMMA SinkAcct ==
  ASSUME NEW w, Sound(w), NEW v, v = [w EXCEPT !.sinks = @ - 1]
  PROVE  Acct(w, v, -1) /\ v.nextLSN = w.nextLSN /\ v.transition = w.transition
<1>0. w \in WrType /\ w.sinks \in Int /\ w.handed \in Int /\ Writers(w) \in Nat
  BY CountTypes DEF Sound
<1>1. PICK n \in Int : n = w.sinks - 1
  BY <1>0
<1>2. v = [w EXCEPT !.sinks = n]
  BY <1>1
<1>3. /\ v \in WrType /\ v.sinks = n
      /\ v.policy = w.policy /\ v.nextLSN = w.nextLSN /\ v.active = w.active
      /\ v.segments = w.segments /\ v.bytes = w.bytes /\ v.detached = w.detached
      /\ v.ready = w.ready /\ v.closed = w.closed /\ v.aborted = w.aborted
      /\ v.drain = w.drain /\ v.handed = w.handed /\ v.transition = w.transition
  BY <1>0, <1>2 DEF WrType
<1>4. Writers(v) = Writers(w)
  BY <1>3 DEF Writers
<1>5. Fit(v)
  BY <1>3, <1>4 DEF Sound, Fit
<1>6. \A f \in FinType : Weights(v, f) = Weights(w, f)
  BY <1>3 DEF Weights
<1>7. Pays(w, v)
  BY <1>3, <1>6 DEF Pays, BytesOK
<1>8. v.sinks - Writers(v) - v.handed = w.sinks - Writers(w) - w.handed + (-1)
  BY <1>0, <1>1, <1>3, <1>4
<1> QED
  BY <1>3, <1>5, <1>7, <1>8 DEF Acct, Sound

(* The sum of both.                                                        *)
LEMMA SinkSum ==
  ASSUME NEW s \in Int, NEW w \in Int, NEW h \in Int, NEW f \in Int, NEW t \in Int,
         NEW s2 \in Int, NEW w2 \in Int, NEW h2 \in Int, NEW f2 \in Int, NEW t2 \in Int,
         NEW k \in Int, s = w + h + f + t, s2 - w2 - h2 = s - w - h + k, k + f + t = f2 + t2
  PROVE  s2 = w2 + h2 + f2 + t2
OBVIOUS

(* What the struct's accounts and the others' places give together.        *)
LEMMA AccountStep ==
  ASSUME IInv, AccountInv, NEW k \in Int, Acct(wr, wr', k),
         k + Holds(fin) + Took(client.pc) = Holds(fin') + Took(client'.pc),
         BytesOK(wr', fin) => BytesOK(wr', fin'), RetainInv',
         client'.pc = "reserve" /\ client'.op = "append" => Room(wr'),
         client'.pc \in Draining => wr'.transition # "ager",
         fin.pc = "exit" => fin'.pc = "exit",
         age'.pc \in AgePcs, sessionMu' \in Mus
  PROVE  AccountInv'
<1>1. /\ Sound(wr) /\ fin \in FinType /\ wr.sinks \in Int /\ wr.handed \in Nat /\ Writers(wr) \in Nat
  BY AccountSound
<1>2. Sound(wr') /\ wr'.sinks \in Int /\ wr'.handed \in Int /\ Writers(wr') \in Nat
  BY CountTypes DEF Acct, Sound
<1>3. wr'.sinks = Writers(wr') + wr'.handed + Holds(fin') + Took(client'.pc)
  <2>1. wr.sinks = Writers(wr) + wr.handed + Holds(fin) + Took(client.pc)
    BY DEF AccountInv, SinksInv
  <2>2. wr'.sinks - Writers(wr') - wr'.handed = wr.sinks - Writers(wr) - wr.handed + k
    BY DEF Acct
  <2>3. Holds(fin) \in Int /\ Holds(fin') \in Int /\ Took(client.pc) \in Int /\ Took(client'.pc) \in Int
    BY HoldsIs, TookIs
  <2> QED
    BY <1>1, <1>2, <2>1, <2>2, <2>3, SinkSum
<1>4. SinksInv'
  BY <1>3 DEF SinksInv, Writers, Holds
<1>5. BytesOK(wr', fin')
  BY <1>1 DEF AccountInv, Acct, Pays, BytesOK
<1>6. Fit(wr') /\ BytesOK(wr, fin)'
  BY <1>2, <1>5 DEF Sound, BytesOK, Weights, Holds, Estimate
<1>7. wr'.drain = "done" => fin'.pc = "exit"
  BY DEF AccountInv, Acct
<1> QED
  BY <1>4, <1>6, <1>7 DEF AccountInv, Fit, Room, Writers, AgePcs, Mus

(* A step of the owner, after one on the segment writer it had taken out.  *)
LEMMA OwnerAccount ==
  ASSUME IInv, AccountInv, NEW op, NEW o, Moved(o, op), NEW j \in Int, NEW v, Acct(wr, v, j),
         OutAcct(v, op, o), j + Took(client.pc) = 0, RetainInv', sessionMu' \in Mus
  PROVE  AccountInv'
<1>1. Sound(wr) /\ Sound(v) /\ Took(o.pc) \in Int /\ Took(client.pc) \in Int /\ Holds(fin) \in Int
  BY AccountSound, TookIs, HoldsIs DEF Acct
<1>2. /\ wr' = o.w /\ client'.pc = o.pc /\ client'.op = IF o.pc = "idle" THEN "none" ELSE op
      /\ fin' = fin /\ age' = age
  BY DEF Moved, IInv, TypeInv, ClientType
<1>3. PICK k \in Int : k = j + Took(o.pc)
  BY <1>1
<1>4. Acct(wr, wr', k)
  BY <1>1, <1>2, <1>3, AcctSum DEF OutAcct
<1>5. k + Holds(fin) + Took(client.pc) = Holds(fin') + Took(client'.pc)
  BY <1>1, <1>2, <1>3
<1>6. /\ client'.pc = "reserve" /\ client'.op = "append" => Room(wr')
      /\ client'.pc \in Draining => wr'.transition # "ager"
  BY <1>2 DEF OutAcct
<1>7. age'.pc \in AgePcs
  BY <1>2 DEF AccountInv, AgePcs
<1> QED
  BY <1>2, <1>4, <1>5, <1>6, <1>7, AccountStep

(* The accounts of a call that does not touch the session.                 *)
LEMMA PlainAccount ==
  ASSUME IInv, AccountInv, NEW op, NEW o, Moved(o, op), OutAcct(wr, op, o),
         Took(client.pc) = 0, UNCHANGED <<sessionMu, cat>>
  PROVE  AccountInv'
<1>1. Sound(wr)
  BY AccountSound
<1>2. Acct(wr, wr, 0)
  BY <1>1, AcctSelf
<1>3. RetainInv' /\ sessionMu' \in Mus
  BY DEF AccountInv, RetainInv, OutAcct, Acct, Moved, Mus
<1> QED
  BY <1>2, <1>3, OwnerAccount

(* A public call up to where it first waits.                               *)
LEMMA CallAccount == ASSUME IInv, AccountInv, NEW op \in Ops, Call(op) PROVE AccountInv'
<1>1. PICK o \in Enter(wr, op) : Moved(o, op)
  BY MovesPick DEF Call
<1>2. Sound(wr) /\ CutOK(wr) /\ Took(client.pc) = 0
  BY AccountSound, TookIs DEF IInv, Call
<1>3. OutAcct(wr, op, o)
  BY <1>1, <1>2, EnterAcct DEF Ops
<1> QED
  BY <1>1, <1>2, <1>3, PlainAccount DEF Call

(* The transition the call waited for has ended.                           *)
LEMMA CallTransitionAccount == ASSUME IInv, AccountInv, CallTransition PROVE AccountInv'
<1>1. PICK o \in Through(wr, client.op) : Moved(o, client.op)
  BY MovesPick DEF CallTransition
<1>2. /\ Sound(wr) /\ Took(client.pc) = 0 /\ wr.transition = "none"
      /\ client.op \in {"append", "cut", "flush", "close"}
  BY AccountSound, TookIs DEF IInv, CallTransition, CallInv
<1>3. OutAcct(wr, client.op, o)
  BY <1>1, <1>2, ThroughAcct
<1> QED
  BY <1>1, <1>2, <1>3, PlainAccount DEF CallTransition

(* Nothing queued: no segment writer is left to hand over.                 *)
LEMMA DrainedWriters ==
  ASSUME IInv, client.pc \in Draining, ~wr.aborted, wr.segments = 0 PROVE Writers(wr) = 0
<1>1. wr \in WrType /\ ~wr.active.open
  BY DEF IInv, TypeInv, SettledInv
<1>2. QueueOK(wr, fin, pub) /\ Done(wr)
  BY <1>1 DEF IInv, Done
<1>3. wr.detached = <<>>
  BY <1>1, <1>2, DoneQueues
<1>4. Len(wr.detached) = 0
  BY <1>3
<1> QED
  BY <1>1, <1>4, WritersIs

(* Flush and Close look whether the queues are drained.                    *)
LEMMA WaitDrainedAccount ==
  ASSUME IInv, AccountInv, client.pc \in {"drained", "waitDrained"},
         NEW o \in WaitDrained(wr, client.op)
  PROVE  OutAcct(wr, client.op, o) /\ Took(client.pc) = 0
<1>1. client.pc \in Draining /\ Took(client.pc) = 0
  BY TookIs DEF Draining
<1>2. client.op # "append" /\ wr.transition # "ager" /\ Sound(wr)
  BY <1>1, AccountSound DEF AccountInv, IInv, SettledInv
<1>3. ~wr.aborted /\ wr.segments = 0 => Writers(wr) = 0
  BY <1>1, DrainedWriters
<1> QED
  BY <1>1, <1>2, <1>3, WaitDrainedAcct

(* The same in the call's own step.                                        *)
LEMMA CallDrainedAccount == ASSUME IInv, AccountInv, CallDrained PROVE AccountInv'
<1>1. PICK o \in WaitDrained(wr, client.op) : Moved(o, client.op)
  BY MovesPick DEF CallDrained
<1>2. OutAcct(wr, client.op, o) /\ Took(client.pc) = 0
  BY <1>1, WaitDrainedAccount DEF CallDrained
<1> QED
  BY <1>1, <1>2, PlainAccount DEF CallDrained

(* A call that waits for budget or for the drain of its queues looks again.*)
LEMMA CallCheckAccount == ASSUME IInv, AccountInv, CallCheck PROVE AccountInv'
<1>1. CASE client.pc = "waitDrained"
  <2>1. PICK o \in WaitDrained(wr, client.op) : Moved(o, client.op)
    BY <1>1, MovesPick DEF CallCheck
  <2>2. OutAcct(wr, client.op, o) /\ Took(client.pc) = 0
    BY <1>1, <2>1, WaitDrainedAccount
  <2> QED
    BY <2>1, <2>2, PlainAccount DEF CallCheck
<1>2. CASE client.pc # "waitDrained"
  <2>1. PICK o \in Again(wr, client.op, client.pc) : Moved(o, client.op)
    BY <1>2, MovesPick DEF CallCheck
  <2>2. client.pc \in Cutting /\ Took(client.pc) = 0
    BY <1>2, TookIs DEF CallCheck, OnStateWake, Cutting
  <2>3. /\ Sound(wr) /\ CutOK(wr) /\ wr.transition # "none"
        /\ client.op \in {"append", "cut", "flush", "close"}
    BY <2>2, AccountSound DEF IInv, CutInv, CallInv
  <2>4. client.op = "append" /\ client.pc = "reserve" => Room(wr)
    BY DEF AccountInv
  <2>5. OutAcct(wr, client.op, o)
    BY <2>1, <2>2, <2>3, <2>4, AgainAcct
  <2> QED
    BY <2>1, <2>2, <2>5, PlainAccount DEF CallCheck
<1> QED
  BY <1>1, <1>2

(* Flush and Close abort the empty segment they took out.                  *)
LEMMA CallEmptyAccount == ASSUME IInv, AccountInv, CallEmpty PROVE AccountInv'
<1>0. Sound(wr)
  BY AccountSound
<1>1. PICK v : v = [wr EXCEPT !.sinks = @ - 1]
  OBVIOUS
<1>2. PICK f : f = Fail(v, "cause", TRUE)
  OBVIOUS
<1>3. Moves(At(v, "drained") \cup If("empty", EndErr(f, client.op, OwnErr(v, "cause"))), client.op)
  BY <1>1, <1>2 DEF CallEmpty
<1>4. PICK o \in At(v, "drained") \cup If("empty", EndErr(f, client.op, OwnErr(v, "cause"))) :
        Moved(o, client.op)
  BY <1>3, MovesPick
<1>5. Acct(wr, v, -1) /\ Sound(v) /\ v.transition = wr.transition
  BY <1>0, <1>1, SinkAcct DEF Acct
<1>6. client.pc \in Draining /\ client.op # "append" /\ wr.transition # "ager"
  BY DEF CallEmpty, Draining, IInv, SettledInv, AccountInv
<1>7. OutAcct(v, client.op, o)
  <2>1. CASE o \in At(v, "drained")
    BY <1>5, <1>6, <2>1, AtAcct
  <2>2. CASE o \in EndErr(f, client.op, OwnErr(v, "cause"))
    <3>1. "cause" \in Errors
      BY DEF Errors
    <3>2. Acct(v, f, 0) /\ Sound(f)
      BY <1>2, <1>5, <3>1, FailAcct DEF Acct
    <3> QED
      BY <1>5, <2>2, <3>2, EndErrAcct, OutAcctTrans
  <2> QED
    BY <1>4, <2>1, <2>2 DEF If
<1>8. Took(client.pc) = 1
  BY DEF CallEmpty, Took
<1>9. RetainInv' /\ sessionMu' \in Mus
  <2>1. wr'.policy = wr.policy
    BY <1>4, <1>5, <1>7 DEF OutAcct, Acct, Moved
  <2> QED
    BY <2>1 DEF CallEmpty, AccountInv, RetainInv, Mus
<1> QED
  BY <1>4, <1>5, <1>7, <1>8, <1>9, OwnerAccount

(* A step on wake-ups and snapshots, whoever takes it.                     *)
LEMMA QuietAccount ==
  ASSUME IInv, AccountInv, wr' \in WrType, Books(wr, wr'), wr'.transition = wr.transition,
         fin' = fin, client'.pc = "empty" <=> client.pc = "empty", RetainInv',
         client'.pc = "reserve" /\ client'.op = "append" =>
           client.pc = "reserve" /\ client.op = "append",
         client'.pc \in Draining => client.pc \in Draining,
         age'.pc \in AgePcs, sessionMu' \in Mus
  PROVE  AccountInv'
<1>1. Sound(wr) /\ Took(client.pc) \in Int /\ Holds(fin) \in Int
  BY AccountSound, TookIs, HoldsIs
<1>2. Acct(wr, wr', 0)
  BY <1>1, BooksAcct
<1>3. Took(client'.pc) = Took(client.pc)
  BY DEF Took
<1>4. 0 + Holds(fin) + Took(client.pc) = Holds(fin') + Took(client'.pc)
  BY <1>1, <1>3
<1>5. /\ client'.pc = "reserve" /\ client'.op = "append" => Room(wr')
      /\ client'.pc \in Draining => wr'.transition # "ager"
  BY DEF AccountInv, Room, Books
<1> QED
  BY <1>2, <1>4, <1>5, AccountStep

(* Nothing is said of the retention policies but that they are counted.    *)
LEMMA RetainSame == ASSUME RetainInv, wr'.policy = wr.policy, UNCHANGED cat PROVE RetainInv'
BY DEF RetainInv

(* The session answers within the policies that were requested.            *)
LEMMA RetainBound ==
  ASSUME IInv, RetainInv, wr'.policy = wr.policy, RetentionDone \/ RetentionUnknown
  PROVE  RetainInv'
<1>1. wr.policy \in Policies /\ cat.head \in SnapType
  BY DEF IInv, TypeInv, WrType, CatType
<1>2. wr.policy.retentions \in Nat
  BY <1>1, WriterAssumption
<1>3. Version \in 0..wr.policy.retentions
  BY <1>2, VersionNat DEF RetentionDone, RetentionUnknown
<1>4. \E ret \in {cat.head.ret, Version}, p \in {0, Version} :
        cat' = [head |-> [cat.head EXCEPT !.ret = ret], pending |-> p]
  BY DEF RetentionDone, RetentionUnknown
<1>5. PICK ret \in {cat.head.ret, Version}, p \in {0, Version} :
        cat' = [head |-> [cat.head EXCEPT !.ret = ret], pending |-> p]
  BY <1>4
<1>6. cat'.head.ret = ret /\ cat'.pending = p
  BY <1>1, <1>5 DEF SnapType
<1>7. 0 \in 0..wr.policy.retentions
  BY <1>2
<1> QED
  BY <1>3, <1>5, <1>6, <1>7 DEF RetainInv

(* A wake-up is received.                                                  *)
LEMMA CallWakeAccount == ASSUME IInv, AccountInv, CallWake PROVE AccountInv'
<1>1. wr' = [wr EXCEPT !.stateWake = FALSE] /\ wr \in WrType
  BY DEF CallWake, IInv, TypeInv
<1>2. wr' \in WrType /\ Books(wr, wr') /\ wr'.transition = wr.transition
  BY <1>1 DEF WrType, Books
<1>3. client'.pc = client.pc /\ client'.op = client.op
  BY DEF CallWake, IInv, TypeInv, ClientType
<1>4. UNCHANGED <<fin, age, sessionMu, cat>>
  BY DEF CallWake
<1>5. RetainInv' /\ age'.pc \in AgePcs /\ sessionMu' \in Mus
  BY <1>2, <1>4, RetainSame DEF AccountInv, Books, AgePcs, Mus
<1> QED
  BY <1>2, <1>3, <1>4, <1>5, QuietAccount

(* The owner moves on without the struct.                                  *)
LEMMA ClientAccount ==
  ASSUME IInv, AccountInv, UNCHANGED <<wr, fin, age>>, client.pc # "empty",
         client'.pc \in {"idle", "session", "note"}, RetainInv', sessionMu' \in Mus
  PROVE  AccountInv'
<1>1. wr' \in WrType /\ Books(wr, wr') /\ wr'.transition = wr.transition
  BY DEF IInv, TypeInv, Books
<1>2. client'.pc \notin Draining /\ client'.pc \notin {"empty", "reserve"}
  BY DEF Draining
<1>3. age'.pc \in AgePcs
  BY DEF AccountInv, AgePcs
<1> QED
  BY <1>1, <1>2, <1>3, QuietAccount

(* The drain has been joined, or the caller gave up on it.                 *)
LEMMA CallJoinAccount ==
  ASSUME IInv, AccountInv, CallJoin \/ (CallCancel /\ client.pc = "join") PROVE AccountInv'
<1>1. client.pc = "join" /\ client'.pc = "idle" /\ UNCHANGED <<wr, fin, age, sessionMu, cat>>
  BY DEF CallJoin, CallCancel, IInv, TypeInv, ClientType
<1>2. RetainInv' /\ sessionMu' \in Mus
  BY <1>1, RetainSame DEF AccountInv, Mus
<1> QED
  BY <1>1, <1>2, ClientAccount

(* The caller's context ends.                                              *)
LEMMA CallCancelAccount == ASSUME IInv, AccountInv, CallCancel PROVE AccountInv'
<1>1. CASE client.pc # "join"
  <2>1. PICK o \in Cancelled(wr, client.op, client.pc) : Moved(o, client.op)
    BY <1>1, MovesPick DEF CallCancel
  <2>2. Sound(wr) /\ Took(client.pc) = 0
    BY AccountSound, TookIs DEF CallCancel, OnStateWake
  <2>3. OutAcct(wr, client.op, o)
    BY <2>1, <2>2, CancelledAcct
  <2> QED
    BY <2>1, <2>2, <2>3, PlainAccount DEF CallCancel
<1> QED
  BY <1>1, CallJoinAccount

(* ApplyPendingRetention takes the session.                                *)
LEMMA RetainEnterAccount == ASSUME IInv, AccountInv, RetainEnter PROVE AccountInv'
<1>1. CASE wr.closed \/ wr.aborted
  <2>1. PICK o \in ForegroundErr(wr) : Moved(o, "retain")
    BY <1>1, MovesPick DEF RetainEnter
  <2>2. Sound(wr) /\ Took(client.pc) = 0
    BY AccountSound, TookIs DEF RetainEnter
  <2>3. OutAcct(wr, "retain", o)
    BY <2>1, <2>2, AnswerAcct DEF ForegroundErr
  <2> QED
    BY <1>1, <2>1, <2>2, <2>3, PlainAccount DEF RetainEnter
<1>2. CASE ~(wr.closed \/ wr.aborted)
  <2>1. /\ client'.pc = "session" /\ client.pc # "empty" /\ sessionMu' \in Mus
        /\ UNCHANGED <<wr, fin, age, cat>>
    BY <1>2 DEF RetainEnter, IInv, TypeInv, ClientType, Mus
  <2>2. RetainInv'
    BY <2>1, RetainSame DEF AccountInv
  <2> QED
    BY <2>1, <2>2, ClientAccount
<1> QED
  BY <1>1, <1>2

(* The session is released, its error is noted next.                       *)
LEMMA RetainFailsAccount ==
  ASSUME IInv, AccountInv, client.pc = "session", sessionMu' = "none", NEW err, RetainFails(err), RetainInv'
  PROVE  AccountInv'
<1>1. client'.pc = "note" /\ UNCHANGED <<wr, fin, age>> /\ sessionMu' \in Mus
  BY DEF RetainFails, IInv, TypeInv, ClientType, Mus
<1> QED
  BY <1>1, ClientAccount

(* The retention returned an error.                                        *)
LEMMA RetainErrorAccount == ASSUME IInv, AccountInv, RetainError PROVE AccountInv'
<1>0. client.pc = "session" /\ sessionMu' = "none" /\ sessionMu' \in Mus /\ Took(client.pc) = 0 /\ Sound(wr)
  BY AccountSound, TookIs DEF RetainError, Mus
<1>1. CASE (RetentionUnknown \/ UNCHANGED cat) /\ Moves(Answer(wr, "rejected"), "retain")
  <2>1. PICK o \in Answer(wr, "rejected") : Moved(o, "retain")
    BY <1>1, MovesPick
  <2>2. OutAcct(wr, "retain", o) /\ Acct(wr, wr, 0)
    BY <1>0, <2>1, AnswerAcct, AcctSelf
  <2>3. wr'.policy = wr.policy
    BY <2>1, <2>2 DEF OutAcct, Acct, Moved
  <2>4. RetainInv'
    BY <1>1, <2>3, RetainSame, RetainBound DEF AccountInv
  <2> QED
    BY <1>0, <2>1, <2>2, <2>4, OwnerAccount
<1>2. CASE UNCHANGED cat /\ RetainFails("cause")
  <2>1. RetainInv'
    BY <1>2, RetainSame DEF AccountInv, RetainFails
  <2> QED
    BY <1>0, <1>2, <2>1, RetainFailsAccount
<1> QED
  BY <1>1, <1>2 DEF RetainError

(* The retention returned a result.                                        *)
LEMMA RetainResultAccount == ASSUME IInv, IInv', AccountInv, RetainResult PROVE AccountInv'
<1>0. client.pc = "session" /\ sessionMu' = "none" /\ sessionMu' \in Mus
  BY DEF RetainResult, Mus
<1>1. PICK applied \in BOOLEAN :
        /\ IF applied THEN RetentionDone ELSE UNCHANGED cat
        /\ \/ /\ AcceptRetention(client.current, cat'.head) /\ UNCHANGED <<fin, age>>
              /\ client' = [client EXCEPT !.op = "none", !.pc = "idle", !.answer = "retained",
                                          !.current = Empty]
           \/ RetainFails("invalid")
  BY DEF RetainResult
<1>2. wr'.policy = wr.policy
  BY <1>1 DEF AcceptRetention, RetainFails, IInv, TypeInv, WrType
<1>3. RetainInv'
  BY <1>1, <1>2, RetainSame, RetainBound DEF AccountInv
<1>4. CASE RetainFails("invalid")
  BY <1>0, <1>3, <1>4, RetainFailsAccount
<1>5. CASE /\ AcceptRetention(client.current, cat'.head) /\ UNCHANGED <<fin, age>>
           /\ client' = [client EXCEPT !.op = "none", !.pc = "idle", !.answer = "retained",
                                       !.current = Empty]
  <2>1. wr' \in WrType
    BY DEF IInv, TypeInv
  <2>2. Books(wr, wr') /\ wr'.transition = wr.transition
    BY <1>5 DEF AcceptRetention, IInv, TypeInv, WrType, Books
  <2>3. client'.pc = "idle" /\ "idle" \notin Draining
    BY <1>5 DEF IInv, TypeInv, ClientType, Draining
  <2>4. age'.pc \in AgePcs
    BY <1>5 DEF AccountInv, AgePcs
  <2> QED
    BY <1>0, <1>3, <1>5, <2>1, <2>2, <2>3, <2>4, QuietAccount
<1> QED
  BY <1>1, <1>4, <1>5

(* noteForegroundErr after a retention.                                    *)
LEMMA RetainNoteAccount == ASSUME IInv, AccountInv, RetainNote PROVE AccountInv'
<1>0. /\ client.pc = "note" /\ client.answer \in Errors /\ Took(client.pc) = 0 /\ Sound(wr)
      /\ UNCHANGED <<sessionMu, cat>>
  BY AccountSound, TookIs DEF RetainNote, IInv, SessionInv, Causes, Errors
<1>1. PICK v : v = Fail(wr, client.answer, TRUE)
  OBVIOUS
<1>2. PICK o \in Answer(v, OwnErr(wr, client.answer)) : Moved(o, "retain")
  BY <1>1, MovesPick DEF RetainNote
<1>3. Acct(wr, v, 0) /\ Sound(v)
  BY <1>0, <1>1, FailAcct DEF Acct
<1>4. OutAcct(wr, "retain", o)
  BY <1>0, <1>2, <1>3, AnswerAcct, OutAcctTrans
<1> QED
  BY <1>0, <1>2, <1>4, PlainAccount

(* ageLoop moves on from a cut that keeps the accounts.                    *)
LEMMA AgerAccount ==
  ASSUME IInv, AccountInv, NEW w, Acct(wr, w, 0), w.nextLSN = wr.nextLSN,
         client.pc \in Draining => w.transition # "ager",
         NEW pc \in AgePcs, NEW woken, NEW base, Ager(w, pc, woken, base)
  PROVE  AccountInv'
<1>1. /\ wr' = w /\ age'.pc = pc /\ UNCHANGED <<client, fin, sessionMu, cat>>
  BY DEF Ager
<1>2. Took(client.pc) \in Int /\ Holds(fin) \in Int
  BY TookIs, HoldsIs
<1>3. 0 + Holds(fin) + Took(client.pc) = Holds(fin') + Took(client'.pc)
  BY <1>1, <1>2
<1>4. RetainInv' /\ sessionMu' \in Mus
  BY <1>1, RetainSame DEF AccountInv, Acct, Mus
<1>5. /\ client'.pc = "reserve" /\ client'.op = "append" => Room(wr')
      /\ client'.pc \in Draining => wr'.transition # "ager"
  BY <1>1 DEF AccountInv, Room
<1> QED
  BY <1>1, <1>3, <1>4, <1>5, AccountStep

(* The end of cutLocked in ageLoop.                                        *)
LEMMA AgerCutAccount ==
  ASSUME IInv, AccountInv, NEW w, Acct(wr, w, 0), w.nextLSN = wr.nextLSN, NEW outs, AgerCut(outs),
         \A o \in outs : ResAcct(w, o) /\ (o.res = "wait" => ~(client.pc \in Draining)),
         \A o \in outs : o.res \in Errors \cup {"ok", "wait", "rejected", "errClosed"},
         \A o \in outs : o.res = "errClosed" => o.w.cancelled
  PROVE  AccountInv'
<1>1. PICK o \in outs :
        \/ o.res = "ok" /\ Ager(o.w, "top", FALSE, 0)
        \/ o.res = "wait" /\ Ager(o.w, "reserve", FALSE, 0)
        \/ o.res \notin {"ok", "wait"} /\ o.w.cancelled /\ Ager(o.w, "exit", FALSE, 0)
        \/ o.res = "rejected" /\ ~o.w.cancelled /\ Ager(o.w, "backoff", FALSE, 0)
        \/ o.res \notin {"ok", "wait", "rejected"} /\ ~o.w.cancelled
           /\ Ager(Fail(o.w, o.res, FALSE), "exit", FALSE, 0)
  BY DEF AgerCut
<1>2. ResAcct(w, o) /\ (o.res = "wait" => ~(client.pc \in Draining))
  OBVIOUS
<1>3. Sound(wr)
  BY AccountSound
<1>4. Acct(wr, o.w, 0) /\ Sound(o.w) /\ o.w.nextLSN = wr.nextLSN
  BY <1>2, <1>3, AcctTrans DEF ResAcct, Acct
<1>5. client.pc \in Draining => o.w.transition # "ager"
  BY <1>2 DEF ResAcct
<1>6. ASSUME NEW pc \in AgePcs, Ager(o.w, pc, FALSE, 0) PROVE AccountInv'
  <2>1. PICK z : z = FALSE
    OBVIOUS
  <2>2. Ager(o.w, pc, z, 0)
    BY <1>6, <2>1
  <2> QED
    BY <1>4, <1>5, <2>2, AgerAccount
<1>7. CASE /\ o.res \notin {"ok", "wait", "rejected"} /\ ~o.w.cancelled
           /\ Ager(Fail(o.w, o.res, FALSE), "exit", FALSE, 0)
  <2>1. PICK v : v = Fail(o.w, o.res, FALSE)
    OBVIOUS
  <2>2. o.res \in Errors
    BY <1>1, <1>7
  <2>3. PICK z \in BOOLEAN : z = FALSE
    OBVIOUS
  <2>4. v = Fail(o.w, o.res, z) /\ Ager(v, "exit", z, 0)
    BY <1>7, <2>1, <2>3
  <2>5. Acct(o.w, v, 0) /\ v.nextLSN = wr.nextLSN
    BY <1>4, <2>2, <2>4, FailAcct
  <2>6. Acct(wr, v, 0)
    BY <1>3, <1>4, <2>5, AcctTrans
  <2>7. client.pc \in Draining => v.transition # "ager"
    <3>1. v.transition = o.w.transition
      BY <1>4, <2>2, <2>3, <2>4, FailFields DEF Sound
    <3> QED
      BY <1>5, <3>1
  <2>8. "exit" \in AgePcs
    BY DEF AgePcs
  <2> QED
    BY <2>4, <2>5, <2>6, <2>7, <2>8, AgerAccount
<1> QED
  BY <1>1, <1>6, <1>7 DEF AgePcs

(* What a cut may answer.                                                  *)
LEMMA CutAnswers ==
  ASSUME NEW w \in WrType, NEW who, NEW d, NEW o \in Reserve(w, d) \cup Cut(w, who, d)
  PROVE  /\ o.res \in Errors \cup {"ok", "wait", "rejected", "errClosed"}
         /\ o.res = "errClosed" => w.closed /\ o.w = w
<1>1. w.firstErr \in Errors
  BY DEF WrType
<1>2. PICK v : v = [w EXCEPT !.transition = who]
  OBVIOUS
<1>3. v.firstErr = w.firstErr /\ v.surfaced = w.surfaced
  BY <1>2 DEF WrType
<1>4. AbortedErr(w) \in Errors /\ AbortedErr(v) \in Errors
  BY <1>1, <1>3 DEF AbortedErr, Errors
<1>5. ASSUME NEW u \in {w, v}, o \in Reserve(u, d)
      PROVE  o.res \in {AbortedErr(u), "ok", "wait", "rejected"}
  BY <1>5 DEF Reserve, If
<1>6. \/ o \in Reserve(w, d) \/ o \in Reserve(v, d)
      \/ o.w = w /\ ((o.res = "errClosed" /\ w.closed) \/ o.res \in {AbortedErr(w), "ok"})
  BY <1>2 DEF Cut
<1> QED
  BY <1>4, <1>5, <1>6 DEF Errors

(* A call that drains its queues has no segment for ageLoop to cut.        *)
LEMMA DrainingCuts ==
  ASSUME IInv, AccountInv, client.pc \in Draining PROVE wr.active.records = 0
<1>1. ~wr.active.open /\ (wr.active.records # 0 => wr.active.open)
  BY DEF IInv, SettledInv, AccountInv, Fit
<1> QED
  BY <1>1

(* ageLoop looks at the active segment.                                    *)
LEMMA AgerWaitsAccount ==
  ASSUME IInv, AccountInv, NEW w \in WrType, Books(wr, w),
         w.transition \in {"none", wr.transition}, NEW pc \in AgePcs, NEW woken, NEW base,
         Ager(w, pc, woken, base)
  PROVE  AccountInv'
<1>1. Acct(wr, w, 0) /\ w.nextLSN = wr.nextLSN
  BY AccountSound, BooksAcct DEF Books
<1>2. client.pc \in Draining => w.transition # "ager"
  BY DEF AccountInv
<1> QED
  BY <1>1, <1>2, AgerAccount

(* ageLoop cuts once no other transition is in progress.                   *)
LEMMA AgerCutsAccount ==
  ASSUME IInv, AccountInv, NEW w \in WrType, Books(wr, w), w.transition = wr.transition,
         w.cancelled = wr.cancelled, wr.transition = "none", AgerCut(Cut(w, "ager", FALSE))
  PROVE  AccountInv'
<1>1. Acct(wr, w, 0) /\ w.nextLSN = wr.nextLSN /\ Sound(w)
  BY AccountSound, BooksAcct DEF Books, Acct
<1>2. \A o \in Cut(w, "ager", FALSE) : ResAcct(w, o)
  BY <1>1, CutAcct
<1>3. \A o \in Cut(w, "ager", FALSE) : o.res \in Errors \cup {"ok", "wait", "rejected", "errClosed"}
  BY CutAnswers
<1>4. \A o \in Cut(w, "ager", FALSE) : o.res = "errClosed" => o.w.cancelled
  <2>1. w.closed => w.cancelled
    BY DEF Books, IInv, ErrOK
  <2>2. \A o \in Cut(w, "ager", FALSE) : o.res = "errClosed" => w.closed /\ o.w = w
    <3> SUFFICES ASSUME NEW o \in Cut(w, "ager", FALSE) PROVE o.res = "errClosed" => w.closed /\ o.w = w
      OBVIOUS
    <3>1. PICK d : d = FALSE
      OBVIOUS
    <3>2. o \in Reserve(w, d) \cup Cut(w, "ager", d)
      BY <3>1
    <3> QED
      BY <3>2, CutAnswers
  <2> QED
    BY <2>1, <2>2
<1>5. ASSUME NEW o \in Cut(w, "ager", FALSE), o.res = "wait" PROVE ~(client.pc \in Draining)
  <2>1. SUFFICES ASSUME client.pc \in Draining PROVE FALSE
    OBVIOUS
  <2>2. w.active.records = 0 /\ w.firstErr \in Errors
    BY <2>1, DrainingCuts DEF Books, WrType
  <2>3. o.res \in {"errClosed", AbortedErr(w), "ok"}
    BY <2>2 DEF Cut
  <2>4. AbortedErr(w) # "wait"
    BY <2>2 DEF AbortedErr, Errors
  <2> QED
    BY <1>5, <2>3, <2>4
<1> QED
  BY <1>1, <1>2, <1>3, <1>4, <1>5, AgerCutAccount

(* ageLoop looks at the active segment.                                    *)
LEMMA AgeTopAccount == ASSUME IInv, AccountInv, AgeTop PROVE AccountInv'
<1> DEFINE w == [wr EXCEPT !.ageWake = FALSE]
<1>0. wr \in WrType /\ Books(wr, wr)
  BY DEF IInv, TypeInv, Books
<1>1. /\ w \in WrType /\ Books(wr, w) /\ w.transition = wr.transition /\ w.cancelled = wr.cancelled
  BY <1>0 DEF WrType, Books
<1>2. \/ Ager(wr, "exit", FALSE, 0) \/ Ager(wr, "idle", FALSE, 0)
      \/ Ager(w, "timer", FALSE, wr.active.base)
      \/ Ager(w, "transition", FALSE, 0)
      \/ wr.transition = "none" /\ AgerCut(Cut(w, "ager", FALSE))
  BY DEF AgeTop
<1> HIDE DEF w
<1>3. ASSUME NEW pc \in AgePcs, NEW woken, NEW base,
             Ager(wr, pc, woken, base) \/ Ager(w, pc, woken, base)
      PROVE  AccountInv'
  BY <1>0, <1>1, <1>3, AgerWaitsAccount
<1>4. CASE wr.transition = "none" /\ AgerCut(Cut(w, "ager", FALSE))
  BY <1>1, <1>4, AgerCutsAccount
<1>5. {"exit", "idle", "timer", "transition"} \subseteq AgePcs
  BY DEF AgePcs
<1> QED
  BY <1>2, <1>3, <1>4, <1>5

(* ageLoop is woken, its timer fires, or its transition is free.           *)
LEMMA AgeWakeAccount == ASSUME IInv, AccountInv, AgeWake \/ AgeTransition PROVE AccountInv'
<1>0. wr \in WrType /\ Books(wr, wr)
  BY DEF IInv, TypeInv, Books
<1>1. CASE AgeTransition
  BY <1>0, <1>1, AgerCutsAccount DEF AgeTransition
<1>2. CASE AgeWake
  <2> DEFINE w == [wr EXCEPT !.ageWake = FALSE]
  <2>1. /\ w \in WrType /\ Books(wr, w) /\ w.transition = wr.transition
    BY <1>0 DEF WrType, Books
  <2>2. Ager(w, "top", FALSE, 0) \/ Ager(wr, "top", FALSE, 0)
    BY <1>2 DEF AgeWake
  <2>3. "top" \in AgePcs
    BY DEF AgePcs
  <2> HIDE DEF w
  <2> QED
    BY <1>0, <2>1, <2>2, <2>3, AgerWaitsAccount
<1> QED
  BY <1>1, <1>2

(* ageLoop waits for budget.                                               *)
LEMMA AgeReserveAccount == ASSUME IInv, AccountInv, AgeReserve PROVE AccountInv'
<1>0. /\ wr \in WrType /\ Sound(wr) /\ wr.transition = "ager" /\ CutOK(wr)
      /\ Acct(wr, wr, 0) /\ "reserve" \in AgePcs
  BY AccountSound, AcctSelf DEF IInv, AgeReserve, CutInv, AgePcs
<1>1. CASE Ager([wr EXCEPT !.stateWake = FALSE], "reserve", TRUE, 0)
  <2> DEFINE w == [wr EXCEPT !.stateWake = FALSE]
  <2>1. /\ w \in WrType /\ Books(wr, w) /\ w.transition = wr.transition
    BY <1>0 DEF WrType, Books
  <2>2. Ager(w, "reserve", TRUE, 0)
    BY <1>1
  <2> HIDE DEF w
  <2> QED
    BY <1>0, <2>1, <2>2, AgerWaitsAccount
<1>2. CASE AgerCut(Reserve(wr, FALSE))
  <2>1. ~wr.aborted => wr.active.records # 0
    <3>1. wr.active.records \in Nat
      BY <1>0 DEF WrType, ActiveType
    <3> QED
      BY <1>0, <3>1 DEF CutOK
  <2>2. \A o \in Reserve(wr, FALSE) : ResAcct(wr, o)
    BY <1>0, <2>1, ReserveAcct
  <2>3. \A o \in Reserve(wr, FALSE) : o.res \in Errors \cup {"ok", "wait", "rejected", "errClosed"}
    BY <1>0, CutAnswers
  <2>4. \A o \in Reserve(wr, FALSE) : o.res = "errClosed" => o.w.cancelled
    <3>1. wr.closed => wr.cancelled
      BY DEF IInv, ErrOK
    <3>2. \A o \in Reserve(wr, FALSE) : o.res = "errClosed" => wr.closed /\ o.w = wr
      BY <1>0, CutAnswers
    <3> QED
      BY <3>1, <3>2
  <2>5. ~(client.pc \in Draining)
    BY <1>0 DEF AccountInv
  <2> QED
    BY <1>0, <1>2, <2>2, <2>3, <2>4, <2>5, AgerCutAccount
<1> QED
  BY <1>1, <1>2 DEF AgeReserve

(* workerCtx ends while ageLoop waits.                                     *)
LEMMA AgeExitAccount == ASSUME IInv, AccountInv, AgeExit PROVE AccountInv'
<1>0. wr \in WrType /\ Books(wr, wr) /\ "exit" \in AgePcs
  BY DEF IInv, TypeInv, Books, AgePcs
<1>1. PICK w \in {wr, EndTransition(wr)} : Ager(w, "exit", FALSE, 0)
  BY DEF AgeExit
<1>2. w \in WrType /\ Books(wr, w) /\ w.transition \in {"none", wr.transition}
  BY <1>0, <1>1 DEF EndTransition, WrType, Books
<1> QED
  BY <1>0, <1>1, <1>2, AgerWaitsAccount

-----------------------------------------------------------------------------
(* finalizeLoop and publishLoop: a segment's weight moves with it          *)

(* q is what the queues weigh, read part by part.                          *)
Weighs(q, w, f) ==
  /\ q \in Seq(Nat) /\ Len(q) = Len(w.ready) + Holds(f) + Len(w.detached)
  /\ \A i \in 1..Len(w.ready) : q[i] = w.ready[i].size
  /\ Holds(f) = 1 => q[Len(w.ready) + 1] = Estimate(f.item.records)
  /\ \A j \in 1..Len(w.detached) :
       q[Len(w.ready) + Holds(f) + j] = Estimate(w.detached[j].records)

(* The weights are such a sequence.                                        *)
LEMMA WeightsWeigh == ASSUME NEW w \in WrType, NEW f \in FinType PROVE Weighs(Weights(w, f), w, f)
<1> DEFINE r == Len(w.ready)
           h == Holds(f)
           d == Len(w.detached)
           q == Weights(w, f)
<1>1. /\ q \in Seq(Nat) /\ h \in {0, 1} /\ Len(q) = r + h + d
      /\ \A i \in 1..(r + h + d) :
              q[i] = IF i <= r THEN w.ready[i].size
                     ELSE IF i <= r + h THEN Estimate(f.item.records)
                     ELSE Estimate(w.detached[i - r - h].records)
  BY WeightsSeq
<1>2. r \in Nat /\ d \in Nat
  BY DEF WrType
<1> HIDE DEF r, h, d, q
<1>3. ASSUME NEW i \in 1..r PROVE q[i] = w.ready[i].size
  <2>1. i \in 1..(r + h + d) /\ i <= r
    BY <1>1, <1>2
  <2> QED
    BY <1>1, <2>1
<1>4. ASSUME h = 1 PROVE q[r + 1] = Estimate(f.item.records)
  <2>1. r + 1 \in 1..(r + h + d) /\ ~(r + 1 <= r) /\ r + 1 <= r + h
    BY <1>1, <1>2, <1>4
  <2> QED
    BY <1>1, <2>1
<1>5. ASSUME NEW j \in 1..d PROVE q[r + h + j] = Estimate(w.detached[j].records)
  <2> DEFINE i == r + h + j
  <2>1. i \in 1..(r + h + d) /\ ~(i <= r) /\ ~(i <= r + h) /\ i - r - h = j
    BY <1>1, <1>2
  <2> HIDE DEF i
  <2>2. q[i] = Estimate(w.detached[j].records)
    BY <1>1, <2>1
  <2> QED
    BY <2>2 DEF i
<1> QED
  BY <1>1, <1>3, <1>4, <1>5 DEF Weighs, r, h, d, q

(* And the only one.                                                       *)
LEMMA WeighsOne ==
  ASSUME NEW w \in WrType, NEW f \in FinType, NEW q, Weighs(q, w, f) PROVE q = Weights(w, f)
<1> DEFINE r == Len(w.ready)
           h == Holds(f)
           d == Len(w.detached)
           p == Weights(w, f)
<1>1. Weighs(p, w, f)
  BY WeightsWeigh
<1>2. r \in Nat /\ d \in Nat /\ h \in {0, 1}
  BY HoldsIs DEF WrType
<1>3. /\ q \in Seq(Nat) /\ Len(q) = r + h + d /\ \A i \in 1..r : q[i] = w.ready[i].size
      /\ h = 1 => q[r + 1] = Estimate(f.item.records)
      /\ \A j \in 1..d : q[r + h + j] = Estimate(w.detached[j].records)
  BY DEF Weighs
<1>4. /\ p \in Seq(Nat) /\ Len(p) = r + h + d /\ \A i \in 1..r : p[i] = w.ready[i].size
      /\ h = 1 => p[r + 1] = Estimate(f.item.records)
      /\ \A j \in 1..d : p[r + h + j] = Estimate(w.detached[j].records)
  BY <1>1 DEF Weighs
<1> HIDE DEF r, h, d, p
<1>5. ASSUME NEW i \in 1..(r + h + d) PROVE q[i] = p[i]
  <2>1. CASE i <= r
    <3>1. i \in 1..r
      BY <1>2, <2>1
    <3> QED
      BY <1>3, <1>4, <3>1
  <2>2. CASE ~(i <= r) /\ i <= r + h
    <3>1. h = 1 /\ i = r + 1
      BY <1>2, <2>2
    <3> QED
      BY <1>3, <1>4, <3>1
  <2>3. CASE ~(i <= r + h)
    <3>1. PICK j \in 1..d : i = r + h + j
      <4>1. i - r - h \in 1..d /\ i = r + h + (i - r - h)
        BY <1>2, <2>3
      <4> QED
        BY <4>1
    <3> QED
      BY <1>3, <1>4, <3>1
  <2> QED
    BY <1>2, <2>1, <2>2, <2>3
<1>6. q = p
  BY <1>3, <1>4, <1>5, SeqEqual
<1> QED
  BY <1>6 DEF p

(* The finalizer takes a segment: it weighs its estimate still.            *)
LEMMA TakeWeighs ==
  ASSUME NEW w \in WrType, NEW v \in WrType, NEW f \in FinType, NEW g \in FinType,
         w.detached # <<>>, v.detached = Tail(w.detached), v.ready = w.ready,
         Holds(f) = 0, Holds(g) = 1, g.item.records = w.detached[1].records
  PROVE  Weights(v, g) = Weights(w, f)
<1> DEFINE q == Weights(w, f)
           r == Len(w.ready)
           d == Len(w.detached)
           c == Len(v.detached)
<1>1. Weighs(q, w, f)
  BY WeightsWeigh
<1>2. /\ q \in Seq(Nat) /\ Len(q) = r + 0 + d /\ \A i \in 1..r : q[i] = w.ready[i].size
      /\ \A j \in 1..d : q[r + 0 + j] = Estimate(w.detached[j].records)
  BY <1>1 DEF Weighs
<1>3. w.detached \in Seq(SegmentType) /\ w.ready \in Seq(ItemType)
  BY DEF WrType
<1>4. /\ r \in Nat /\ d \in Nat /\ c \in Nat /\ d = c + 1
      /\ \A j \in 1..c : v.detached[j] = w.detached[j + 1]
  BY <1>3, HeadTailProperties
<1> HIDE DEF q, r, d, c
<1>5. q[r + 1] = Estimate(g.item.records)
  <2>1. 1 \in 1..d /\ r + 0 + 1 = r + 1
    BY <1>4
  <2> QED
    BY <1>2, <2>1
<1>6. ASSUME NEW j \in 1..c PROVE q[r + 1 + j] = Estimate(v.detached[j].records)
  <2> DEFINE k == j + 1
  <2>1. k \in 1..d /\ r + 0 + k = r + 1 + j
    BY <1>4
  <2>2. v.detached[j] = w.detached[k]
    BY <1>4
  <2> HIDE DEF k
  <2> QED
    BY <1>2, <2>1, <2>2
<1>7. Len(q) = r + 1 + c
  BY <1>2, <1>4
<1>8. Weighs(q, v, g)
  BY <1>2, <1>5, <1>6, <1>7 DEF Weighs, r, c
<1> QED
  BY <1>8, WeighsOne DEF q

(* The object is complete: its size is in the place of its estimate.       *)
LEMMA CloseWeighs ==
  ASSUME NEW w \in WrType, NEW v \in WrType, NEW f \in FinType, NEW g \in FinType,
         NEW e \in ItemType, v.ready = Append(w.ready, e), v.detached = w.detached,
         Holds(f) = 1, Holds(g) = 0
  PROVE  /\ Weights(v, g) = [Weights(w, f) EXCEPT ![Len(w.ready) + 1] = e.size]
         /\ Len(w.ready) + 1 \in 1..Len(Weights(w, f)) /\ Weights(w, f) \in Seq(Nat)
         /\ Weights(w, f)[Len(w.ready) + 1] = Estimate(f.item.records)
<1> DEFINE p == Weights(w, f)
           r == Len(w.ready)
           d == Len(w.detached)
           s == Len(v.ready)
           k == r + 1
           q == [p EXCEPT ![k] = e.size]
<1>1. Weighs(p, w, f)
  BY WeightsWeigh
<1>2. /\ p \in Seq(Nat) /\ Len(p) = r + 1 + d /\ \A i \in 1..r : p[i] = w.ready[i].size
      /\ p[r + 1] = Estimate(f.item.records)
      /\ \A j \in 1..d : p[r + 1 + j] = Estimate(w.detached[j].records)
  BY <1>1 DEF Weighs
<1>3. w.detached \in Seq(SegmentType) /\ w.ready \in Seq(ItemType) /\ e.size \in Nat
  BY DEF WrType, ItemType
<1>4. /\ r \in Nat /\ d \in Nat /\ s = r + 1 /\ v.ready[r + 1] = e
      /\ \A i \in 1..r : v.ready[i] = w.ready[i]
  BY <1>3, AppendProperties
<1> HIDE DEF p, r, d, s
<1>5. k \in 1..Len(p)
  BY <1>2, <1>4
<1>6. /\ q \in Seq(Nat) /\ Len(q) = Len(p) /\ q[k] = e.size
      /\ \A i \in 1..Len(p) : i # k => q[i] = p[i]
  BY <1>2, <1>3, <1>5, ExceptSeq
<1>7. ASSUME NEW i \in 1..s PROVE q[i] = v.ready[i].size
  <2>1. CASE i = k
    BY <1>4, <1>6, <2>1
  <2>2. CASE i # k
    <3>1. i \in 1..r /\ i \in 1..Len(p)
      BY <1>2, <1>4, <2>2
    <3> QED
      BY <1>2, <1>4, <1>6, <2>2, <3>1
  <2> QED
    BY <2>1, <2>2
<1>8. ASSUME NEW j \in 1..d PROVE q[s + 0 + j] = Estimate(v.detached[j].records)
  <2> DEFINE i == r + 1 + j
  <2>1. i \in 1..Len(p) /\ i # k /\ i = s + 0 + j
    BY <1>2, <1>4
  <2>2. p[i] = Estimate(w.detached[j].records)
    BY <1>2
  <2> HIDE DEF i
  <2> QED
    BY <1>6, <2>1, <2>2
<1>9. Len(q) = s + 0 + d /\ d = Len(v.detached)
  <2>1. Len(q) = s + 0 + d
    BY <1>2, <1>4, <1>6
  <2> QED
    BY <2>1 DEF d
<1>10. Weighs(q, v, g)
  <2> HIDE DEF q
  <2>1. Holds(g) # 1
    OBVIOUS
  <2> QED
    BY <1>6, <1>7, <1>8, <1>9, <2>1 DEF Weighs, s
<1>11. q = Weights(v, g)
  BY <1>10, WeighsOne
<1> QED
  BY <1>2, <1>5, <1>11 DEF p, r

(* The published object leaves: the first weight leaves with it.           *)
LEMMA PopWeighs ==
  ASSUME NEW w \in WrType, NEW v \in WrType, NEW f \in FinType,
         w.ready # <<>>, v.ready = Tail(w.ready), v.detached = w.detached
  PROVE  /\ Weights(v, f) = Tail(Weights(w, f)) /\ Weights(w, f) \in Seq(Nat)
         /\ Weights(w, f) # <<>> /\ Weights(w, f)[1] = w.ready[1].size
<1> DEFINE p == Weights(w, f)
           r == Len(w.ready)
           d == Len(w.detached)
           s == Len(v.ready)
           h == Holds(f)
           q == Tail(p)
<1>1. Weighs(p, w, f)
  BY WeightsWeigh
<1>2. /\ p \in Seq(Nat) /\ Len(p) = r + h + d /\ \A i \in 1..r : p[i] = w.ready[i].size
      /\ h = 1 => p[r + 1] = Estimate(f.item.records)
      /\ \A j \in 1..d : p[r + h + j] = Estimate(w.detached[j].records)
  BY <1>1 DEF Weighs
<1>3. w.detached \in Seq(SegmentType) /\ w.ready \in Seq(ItemType) /\ h \in {0, 1}
  BY HoldsIs DEF WrType
<1>4. /\ r \in Nat /\ d \in Nat /\ s \in Nat /\ r = s + 1
      /\ \A i \in 1..s : v.ready[i] = w.ready[i + 1]
  BY <1>3, HeadTailProperties
<1> HIDE DEF p, r, d, s, h
<1>5. p # <<>>
  <2>1. Len(p) # 0
    BY <1>2, <1>3, <1>4
  <2> QED
    BY <2>1
<1>6. /\ q \in Seq(Nat) /\ Len(q) = Len(p) - 1 /\ \A i \in 1..Len(q) : q[i] = p[i + 1]
  BY <1>2, <1>5, HeadTailProperties
<1> HIDE DEF q
<1>7. ASSUME NEW i \in 1..s PROVE q[i] = v.ready[i].size
  <2> DEFINE k == i + 1
  <2>1. k \in 1..r /\ i \in 1..Len(q)
    BY <1>2, <1>3, <1>4, <1>6
  <2>2. q[i] = p[k] /\ v.ready[i] = w.ready[k]
    BY <1>4, <1>6, <2>1
  <2> HIDE DEF k
  <2> QED
    BY <1>2, <2>1, <2>2
<1>8. ASSUME h = 1 PROVE q[s + 1] = Estimate(f.item.records)
  <2>1. s + 1 \in 1..Len(q) /\ s + 1 + 1 = r + 1
    BY <1>2, <1>4, <1>6, <1>8
  <2>2. q[s + 1] = p[r + 1]
    BY <1>6, <2>1
  <2> QED
    BY <1>2, <1>8, <2>2
<1>9. ASSUME NEW j \in 1..d PROVE q[s + h + j] = Estimate(v.detached[j].records)
  <2> DEFINE i == s + h + j
  <2>1. i \in 1..Len(q) /\ i + 1 = r + h + j
    BY <1>2, <1>3, <1>4, <1>6
  <2>2. q[i] = p[r + h + j]
    BY <1>6, <2>1
  <2> HIDE DEF i
  <2>3. q[i] = Estimate(w.detached[j].records)
    BY <1>2, <2>2
  <2> QED
    BY <2>3 DEF i
<1>10. Len(q) = s + h + d /\ d = Len(v.detached)
  <2>1. Len(q) = s + h + d
    BY <1>2, <1>3, <1>4, <1>6
  <2> QED
    BY <2>1 DEF d
<1>11. Weighs(q, v, f)
  BY <1>6, <1>7, <1>8, <1>9, <1>10 DEF Weighs, s, h
<1>12. q = Weights(v, f)
  BY <1>11, WeighsOne
<1>13. p[1] = w.ready[1].size
  <2>1. 1 \in 1..r
    BY <1>4
  <2> QED
    BY <1>2, <2>1
<1> QED
  BY <1>2, <1>5, <1>12, <1>13 DEF p, q

(* The accounts of a step of finalizeLoop or publishLoop, part by part.    *)
LEMMA LoopAccount ==
  ASSUME AccountInv, wr' \in WrType, wr'.sinks = Writers(wr') + wr'.handed + Holds(fin') + Took(client.pc),
         Fit(wr'), BytesOK(wr', fin'), RetainInv', wr'.nextLSN = wr.nextLSN,
         wr'.transition = wr.transition, wr'.drain = "done" => fin'.pc = "exit",
         UNCHANGED <<client, age>>, sessionMu' \in Mus
  PROVE  AccountInv'
<1>1. SinksInv'
  BY DEF SinksInv, Writers, Holds
<1>2. Fit(wr)' /\ BytesOK(wr, fin)' /\ RetainInv'
  BY DEF Fit, Writers, BytesOK, Weights, Holds, Estimate
<1>3. /\ client'.pc = "reserve" /\ client'.op = "append" => Room(wr)'
      /\ client'.pc \in Draining => wr'.transition # "ager"
  BY DEF AccountInv, Room
<1>4. age'.pc \in AgePcs
  BY DEF AccountInv, AgePcs
<1> QED
  BY <1>1, <1>2, <1>3, <1>4 DEF AccountInv, AgePcs, Mus

(* finalizeLoop moves on without a segment.                                *)
LEMMA FinalizerQuiet ==
  ASSUME IInv, AccountInv, NEW w, Acct(wr, w, 0), NEW pc, NEW item,
         w.nextLSN = wr.nextLSN, w.transition = wr.transition,
         Holds(fin) = 0, pc \in {"top", "wait", "exit"}, fin.pc = "exit" => pc = "exit",
         Finalizer(w, pc, item)
  PROVE  AccountInv'
<1>1. /\ wr' = w /\ fin'.pc = pc /\ UNCHANGED <<client, age, sessionMu, cat>>
  BY DEF Finalizer
<1>2. Holds(fin') = 0 /\ Took(client.pc) \in Int
  BY <1>1, TookIs DEF Holds
<1>3. 0 + Holds(fin) + Took(client.pc) = Holds(fin') + Took(client'.pc)
  BY <1>1, <1>2
<1>4. BytesOK(wr', fin) => BytesOK(wr', fin')
  <2>1. Weights(wr', fin') = Weights(wr', fin)
    BY <1>2 DEF Weights
  <2> QED
    BY <2>1 DEF BytesOK
<1>5. RetainInv' /\ sessionMu' \in Mus /\ age'.pc \in AgePcs
  BY <1>1, RetainSame DEF AccountInv, Acct, Mus, AgePcs
<1>6. /\ client'.pc = "reserve" /\ client'.op = "append" => Room(wr')
      /\ client'.pc \in Draining => wr'.transition # "ager"
  BY <1>1 DEF AccountInv, Room
<1> QED
  BY <1>1, <1>3, <1>4, <1>5, <1>6, AccountStep

(* finalizeLoop wakes up.                                                  *)
LEMMA FinalizeWakeAccount == ASSUME IInv, AccountInv, FinalizeWake PROVE AccountInv'
<1>0. wr \in WrType /\ Sound(wr) /\ Acct(wr, wr, 0) /\ Holds(fin) = 0 /\ fin.pc # "exit"
  BY AccountSound, AcctSelf DEF FinalizeWake, Holds
<1> DEFINE w == [wr EXCEPT !.finalizeWake = FALSE]
<1>1. w \in WrType /\ Books(wr, w) /\ w.transition = wr.transition
  BY <1>0 DEF WrType, Books
<1>2. Finalizer(w, "top", NoItem) \/ Finalizer(wr, "exit", NoItem)
  BY DEF FinalizeWake
<1> HIDE DEF w
<1>3. Acct(wr, w, 0) /\ w.nextLSN = wr.nextLSN
  BY <1>0, <1>1, BooksAcct DEF Books
<1> QED
  BY <1>0, <1>1, <1>2, <1>3, FinalizerQuiet

(* finalizeLoop takes the oldest detached segment.                         *)
LEMMA FinalizeTopAccount == ASSUME IInv, AccountInv, FinalizeTop PROVE AccountInv'
<1>0. /\ wr \in WrType /\ Sound(wr) /\ Acct(wr, wr, 0) /\ Holds(fin) = 0 /\ fin.pc = "top"
      /\ wr.detached \in Seq(SegmentType) /\ fin \in FinType
  BY AccountSound, AcctSelf DEF FinalizeTop, Holds, WrType
<1>1. CASE wr.detached = <<>>
  <2>1. Finalizer(wr, "exit", NoItem) \/ Finalizer(wr, "wait", NoItem)
    BY <1>1 DEF FinalizeTop
  <2> QED
    BY <1>0, <2>1, FinalizerQuiet
<1>2. CASE wr.detached # <<>>
  <2> DEFINE e == wr.detached[1]
             t == Tail(wr.detached)
             w == [wr EXCEPT !.detached = t]
             item == [base |-> e.base, records |-> e.records, size |-> 0]
  <2>1. Finalizer(w, "close", item)
    BY <1>0, <1>2 DEF FinalizeTop
  <2>2. e \in SegmentType /\ t \in Seq(SegmentType) /\ Len(wr.detached) = Len(t) + 1 /\ Len(t) \in Nat
    BY <1>0, <1>2
  <2>3. item \in ItemType /\ item.records = e.records
    BY <2>2 DEF SegmentType, ItemType
  <2> HIDE DEF item, t
  <2>4. /\ w \in WrType /\ w.detached = t
        /\ w.policy = wr.policy /\ w.nextLSN = wr.nextLSN /\ w.active = wr.active
        /\ w.segments = wr.segments /\ w.bytes = wr.bytes /\ w.ready = wr.ready
        /\ w.closed = wr.closed /\ w.aborted = wr.aborted /\ w.transition = wr.transition
        /\ w.drain = wr.drain /\ w.handed = wr.handed /\ w.sinks = wr.sinks
    BY <1>0, <2>2 DEF WrType
  <2> HIDE DEF w
  <2>5. /\ wr' = w /\ fin' = [pc |-> "close", item |-> item]
        /\ UNCHANGED <<client, age, sessionMu, cat>>
    BY <2>1 DEF Finalizer
  <2>6. fin' \in FinType /\ Holds(fin') = 1 /\ fin'.item.records = e.records
    BY <2>3, <2>5 DEF FinType, Holds
  <2>7. Writers(wr) = Writers(wr') + 1 /\ Writers(wr') \in Nat
    <3>1. Writers(wr) = IF wr.active.open THEN Len(wr.detached) + 1 ELSE Len(wr.detached)
      BY <1>0, WritersIs
    <3>2. Writers(wr') = IF wr.active.open THEN Len(t) + 1 ELSE Len(t)
      BY <2>4, <2>5, WritersIs
    <3> QED
      BY <2>2, <3>1, <3>2
  <2>8. wr'.sinks = Writers(wr') + wr'.handed + Holds(fin') + Took(client.pc)
    <3>1. wr.sinks = Writers(wr) + wr.handed + 0 + Took(client.pc)
      BY <1>0 DEF AccountInv, SinksInv
    <3>2. wr.handed \in Nat /\ Took(client.pc) \in Int
      BY AccountSound, TookIs
    <3>3. wr.sinks = Writers(wr') + wr.handed + 1 + Took(client.pc)
      BY <2>7, <3>1, <3>2
    <3> QED
      BY <2>4, <2>5, <2>6, <3>3
  <2>9. Fit(wr')
    <3>1. wr.drain = "off"
      <4>1. wr.drain # "off" => Writers(wr) = 0
        BY DEF AccountInv, Fit
      <4> QED
        BY <2>7, <4>1
    <3> QED
      BY <2>4, <2>5, <3>1 DEF AccountInv, Fit
  <2>10. Weights(wr', fin') = Weights(wr, fin)
    BY <1>0, <1>2, <2>4, <2>5, <2>6, TakeWeighs DEF t
  <2>11. BytesOK(wr', fin')
    BY <2>4, <2>5, <2>10 DEF AccountInv, BytesOK
  <2>12. RetainInv' /\ sessionMu' \in Mus
    BY <2>4, <2>5, RetainSame DEF AccountInv, Mus
  <2>13. wr'.drain = "done" => fin'.pc = "exit"
    BY <1>0, <2>4, <2>5 DEF AccountInv
  <2> QED
    BY <2>4, <2>5, <2>8, <2>9, <2>11, <2>12, <2>13, LoopAccount
<1> QED
  BY <1>1, <1>2

(* The size takes the place of the estimate in the budget.                 *)
LEMMA Repriced ==
  ASSUME NEW b \in Nat, NEW size \in Nat, NEW est \in Nat, NEW s \in Nat, s + est = b + size, b >= est,
         NEW n, n = IF size > est THEN b + (size - est) ELSE Minus(b, est - size)
  PROVE  n = s
BY DEF Minus

(* The finished object joins the publisher's queue at its end.             *)
LEMMA FinalizeCloseAccount == ASSUME IInv, AccountInv, FinalizeClose PROVE AccountInv'
<1>0. /\ wr \in WrType /\ Sound(wr) /\ fin.pc = "close" /\ fin \in FinType /\ fin.item \in ItemType
      /\ wr.ready \in Seq(ItemType) /\ Holds(fin) = 1
  BY AccountSound DEF FinalizeClose, FinType, WrType, Holds
<1>1. PICK size \in ObjectSizes(fin.item.records) :
        LET est == Estimate(fin.item.records)
        IN  Finalizer([wr EXCEPT !.bytes = IF size > est THEN @ + (size - est) ELSE Minus(@, est - size),
                                 !.ready = Append(@, [fin.item EXCEPT !.size = size]),
                                 !.publishWake = TRUE, !.stateWake = TRUE, !.sinks = @ - 1],
                      "top", NoItem)
  BY DEF FinalizeClose
<1>2. size \in Nat /\ Estimate(fin.item.records) \in Nat
  <2>1. fin.item.records \in Nat
    BY <1>0 DEF ItemType
  <2> QED
    BY <2>1, EstimateNat DEF ObjectSizes
<1>3. PICK k : k = wr.sinks - 1
  OBVIOUS
<1> DEFINE est == Estimate(fin.item.records)
           n == IF size > est THEN wr.bytes + (size - est) ELSE Minus(wr.bytes, est - size)
           e == [fin.item EXCEPT !.size = size]
           r == Append(wr.ready, e)
           u == [wr EXCEPT !.bytes = n, !.ready = r, !.publishWake = TRUE, !.stateWake = TRUE]
           w == [u EXCEPT !.sinks = k]
<1>4. k \in Int /\ wr.bytes \in Nat
  BY <1>0, <1>3 DEF WrType
<1>5. n \in Nat
  BY <1>2, <1>4 DEF Minus
<1>6. e \in ItemType /\ e.size = size
  BY <1>0, <1>2 DEF ItemType
<1>7. Finalizer(w, "top", NoItem)
  BY <1>0, <1>1, <1>3 DEF WrType
<1> HIDE DEF n, e
<1>8. r \in Seq(ItemType)
  BY <1>0, <1>6
<1> HIDE DEF r
<1>9. u \in WrType /\ u.ready = r /\ u.bytes = n
  BY <1>0, <1>5, <1>8 DEF WrType
<1>10. /\ u.detached = wr.detached /\ u.policy = wr.policy /\ u.nextLSN = wr.nextLSN
       /\ u.active = wr.active /\ u.segments = wr.segments
       /\ u.closed = wr.closed /\ u.aborted = wr.aborted
       /\ u.transition = wr.transition /\ u.drain = wr.drain /\ u.handed = wr.handed
  BY <1>0 DEF WrType
<1> HIDE DEF u
<1>11. /\ w \in WrType /\ w.ready = r /\ w.detached = wr.detached /\ w.bytes = n /\ w.sinks = k
       /\ w.policy = wr.policy /\ w.nextLSN = wr.nextLSN /\ w.active = wr.active
       /\ w.segments = wr.segments /\ w.closed = wr.closed /\ w.aborted = wr.aborted
       /\ w.transition = wr.transition /\ w.drain = wr.drain /\ w.handed = wr.handed
  BY <1>4, <1>9, <1>10 DEF WrType
<1> HIDE DEF w
<1>12. /\ wr' = w /\ fin' = [pc |-> "top", item |-> NoItem]
       /\ UNCHANGED <<client, age, sessionMu, cat>>
  BY <1>7 DEF Finalizer
<1>13. fin' \in FinType /\ Holds(fin') = 0
  BY <1>12 DEF FinType, NoItem, ItemType, Holds
<1>14. Writers(wr') = Writers(wr) /\ Writers(wr) \in Nat
  BY <1>11, <1>12, AccountSound DEF Writers
<1>15. wr'.sinks = Writers(wr') + wr'.handed + Holds(fin') + Took(client.pc)
  <2>1. wr.sinks = Writers(wr) + wr.handed + 1 + Took(client.pc)
    BY <1>0 DEF AccountInv, SinksInv
  <2>2. wr.handed \in Nat /\ Took(client.pc) \in Int
    BY AccountSound, TookIs
  <2>3. k = Writers(wr) + wr.handed + 0 + Took(client.pc)
    BY <1>3, <1>14, <2>1, <2>2
  <2> QED
    BY <1>11, <1>12, <1>13, <1>14, <2>3
<1>16. Fit(wr')
  BY <1>11, <1>12, <1>14 DEF AccountInv, Fit
<1>17. BytesOK(wr', fin')
  <2>1. SUFFICES ASSUME ~wr.aborted PROVE n = SumFunction(Weights(wr', fin'))
    BY <1>11, <1>12 DEF BytesOK
  <2> DEFINE p == Weights(wr, fin)
             i == Len(wr.ready) + 1
             s == SumFunction([p EXCEPT ![i] = size])
  <2>2. /\ Weights(wr', fin') = [p EXCEPT ![i] = size]
        /\ i \in 1..Len(p) /\ p \in Seq(Nat) /\ p[i] = est
    <3>1. wr' \in WrType /\ wr'.ready = Append(wr.ready, e) /\ wr'.detached = wr.detached
      BY <1>11, <1>12 DEF r
    <3>2. /\ Weights(wr', fin') = [p EXCEPT ![i] = e.size]
          /\ i \in 1..Len(p) /\ p \in Seq(Nat) /\ p[i] = est
      BY <1>0, <1>6, <1>13, <3>1, CloseWeighs
    <3> QED
      BY <1>6, <3>2
  <2>3. wr.bytes = SumFunction(p)
    BY <2>1 DEF AccountInv, BytesOK
  <2>4. s + p[i] = SumFunction(p) + size /\ SumFunction(p) >= p[i] /\ s \in Nat
    BY <1>2, <2>2, SeqSumExcept
  <2> HIDE DEF p, i, s
  <2>5. n = s
    <3>1. p[i] = est /\ est \in Nat /\ size \in Nat /\ wr.bytes \in Nat /\ s \in Nat
      BY <1>2, <1>4, <2>2, <2>4
    <3>2. s + est = wr.bytes + size /\ wr.bytes >= est
      BY <2>3, <2>4, <3>1
    <3> HIDE DEF est
    <3> QED
      BY <3>1, <3>2, Repriced DEF n
  <2> QED
    BY <2>2, <2>5 DEF s
<1>18. RetainInv' /\ sessionMu' \in Mus
  BY <1>11, <1>12, RetainSame DEF AccountInv, Mus
<1>19. wr'.drain = "done" => fin'.pc = "exit"
  BY <1>0, <1>11, <1>12 DEF AccountInv
<1> QED
  BY <1>11, <1>12, <1>15, <1>16, <1>17, <1>18, <1>19, LoopAccount

(* A segment that cannot be finished is aborted; the writer fails or has.  *)
LEMMA FinalizeErrorAccount == ASSUME IInv, AccountInv, FinalizeError PROVE AccountInv'
<1>0. Sound(wr) /\ Holds(fin) = 1 /\ fin.pc = "close" /\ "cause" \in Errors
  BY AccountSound DEF FinalizeError, Holds, Errors
<1>1. PICK w : w = [wr EXCEPT !.sinks = @ - 1]
  OBVIOUS
<1>2. PICK z \in BOOLEAN : z = FALSE
  OBVIOUS
<1>3. PICK v : v = Fail(w, "cause", z)
  OBVIOUS
<1>4. \/ wr.cancelled /\ Finalizer(w, "exit", NoItem)
      \/ ~wr.cancelled /\ Finalizer(v, "exit", NoItem)
  BY <1>1, <1>2, <1>3 DEF FinalizeError
<1>5. Acct(wr, w, -1) /\ w.nextLSN = wr.nextLSN /\ w.transition = wr.transition /\ Sound(w)
  BY <1>0, <1>1, SinkAcct DEF Acct
<1>6. Acct(w, v, 0) /\ v.aborted /\ v.nextLSN = wr.nextLSN /\ v.transition = wr.transition
  BY <1>0, <1>3, <1>5, FailAcct, FailFields DEF Sound
<1>7. PICK j \in Int : j = -1
  OBVIOUS
<1>8. Acct(wr, w, j) /\ Acct(wr, v, j)
  <2>1. Acct(wr, v, j + 0)
    BY <1>0, <1>5, <1>6, <1>7, AcctSum
  <2>2. j + 0 = j
    OBVIOUS
  <2> QED
    BY <1>5, <1>7, <2>1, <2>2
<1>10. /\ fin'.pc = "exit" /\ UNCHANGED <<client, age, sessionMu, cat>>
       /\ wr' \in {w, v} /\ (wr' = w => wr.cancelled \/ w = v)
  BY <1>4 DEF Finalizer
<1>11. Holds(fin') = 0 /\ Took(client.pc) \in Int
  BY <1>10, TookIs DEF Holds
<1>12. j + Holds(fin) + Took(client.pc) = Holds(fin') + Took(client'.pc)
  BY <1>0, <1>7, <1>10, <1>11
<1>13. wr'.aborted
  <2>1. CASE wr' = v
    BY <1>6, <2>1
  <2>2. CASE wr' = w /\ wr.cancelled
    <3>1. w.aborted = wr.aborted /\ w.closed = wr.closed
      BY <1>1, AccountSound DEF WrType
    <3>2. wr.closed \/ wr.aborted
      BY <2>2 DEF IInv, ErrOK
    <3>3. CASE wr.closed
      <4>1. QueueOK(wr, fin, pub) /\ Done(wr) /\ wr \in WrType
        BY <3>3, AccountSound DEF IInv, SettledInv, Settled, Done
      <4> QED
        BY <1>0, <4>1, DoneQueues
    <3> QED
      BY <2>2, <3>1, <3>2, <3>3
  <2> QED
    BY <1>6, <1>10, <2>1, <2>2
<1>14. BytesOK(wr', fin) => BytesOK(wr', fin')
  BY <1>13 DEF BytesOK
<1>15. RetainInv' /\ sessionMu' \in Mus /\ age'.pc \in AgePcs
  BY <1>8, <1>10, RetainSame DEF AccountInv, Acct, Mus, AgePcs
<1>16. /\ client'.pc = "reserve" /\ client'.op = "append" => Room(wr')
       /\ client'.pc \in Draining => wr'.transition # "ager"
  BY <1>5, <1>6, <1>10 DEF AccountInv, Room
<1> QED
  BY <1>0, <1>8, <1>10, <1>12, <1>14, <1>15, <1>16, AccountStep

(* publishLoop moves on, the struct as it is but for wake-ups and the      *)
(* snapshot.                                                               *)
LEMMA PublisherQuiet ==
  ASSUME IInv, AccountInv, wr' \in WrType, Books(wr, wr'), wr'.transition = wr.transition,
         UNCHANGED <<client, fin, age>>, RetainInv', sessionMu' \in Mus
  PROVE  AccountInv'
<1>1. age'.pc \in AgePcs
  BY DEF AccountInv, AgePcs
<1> QED
  BY <1>1, QuietAccount

(* Steps of publishLoop that leave the struct and the catalog alone.       *)
LEMMA PublishIdleAccount ==
  ASSUME IInv, AccountInv, PublishTop \/ PublishLock \/ PublishBackoff PROVE AccountInv'
<1>1. UNCHANGED <<wr, client, fin, age, cat>> /\ sessionMu' \in {sessionMu, "publisher"}
  BY DEF PublishTop, PublishLock, PublishBackoff, Publisher
<1>2. RetainInv' /\ sessionMu' \in Mus /\ wr' \in WrType /\ Books(wr, wr')
  BY <1>1, RetainSame DEF AccountInv, Mus, IInv, TypeInv, Books
<1> QED
  BY <1>1, <1>2, PublisherQuiet

(* publishLoop is woken.                                                   *)
LEMMA PublishWakeAccount == ASSUME IInv, AccountInv, PublishWake PROVE AccountInv'
<1>1. /\ wr' = wr \/ wr' = [wr EXCEPT !.publishWake = FALSE]
      /\ UNCHANGED <<client, fin, age, sessionMu, cat>> /\ wr \in WrType
  BY DEF PublishWake, Publisher, IInv, TypeInv
<1>2. wr' \in WrType /\ Books(wr, wr') /\ wr'.transition = wr.transition
  BY <1>1, ZenonT(40) DEF WrType, Books
<1>3. RetainInv' /\ sessionMu' \in Mus
  BY <1>1, <1>2, RetainSame DEF AccountInv, Mus, Books
<1> QED
  BY <1>1, <1>2, <1>3, PublisherQuiet

(* publishLoop fails, the session released.                                *)
LEMMA PublishFailsAccount ==
  ASSUME IInv, AccountInv, NEW err, PublishFails(err), RetainInv' PROVE AccountInv'
<1>1. UNCHANGED <<wr, client, fin, age>> /\ sessionMu' \in Mus
  BY DEF PublishFails, Mus
<1>2. wr' \in WrType /\ Books(wr, wr')
  BY <1>1 DEF IInv, TypeInv, Books
<1> QED
  BY <1>1, <1>2, PublisherQuiet

(* A retention of unknown outcome is reconciled first.                     *)
LEMMA PublishReconcileAccount ==
  ASSUME IInv, AccountInv, PublishReconcile \/ PublishReconcileError PROVE AccountInv'
<1>1. \/ /\ UNCHANGED <<wr, client, fin, age>> /\ (UNCHANGED cat \/ RetentionDone \/ RetentionUnknown)
         /\ sessionMu' \in {sessionMu, "none"}
      \/ /\ RetentionDone /\ AcceptRetention(wr.committed, cat'.head)
         /\ UNCHANGED <<client, fin, age, sessionMu>>
  BY DEF PublishReconcile, PublishReconcileError, Publisher, PublishFails
<1>2. CASE /\ UNCHANGED <<wr, client, fin, age>> /\ (UNCHANGED cat \/ RetentionDone \/ RetentionUnknown)
           /\ sessionMu' \in {sessionMu, "none"}
  <2>1. RetainInv' /\ sessionMu' \in Mus /\ wr' \in WrType /\ Books(wr, wr')
    BY <1>2, RetainSame, RetainBound DEF AccountInv, Mus, IInv, TypeInv, Books
  <2> QED
    BY <1>2, <2>1, PublisherQuiet
<1>3. CASE /\ RetentionDone /\ AcceptRetention(wr.committed, cat'.head)
           /\ UNCHANGED <<client, fin, age, sessionMu>>
  <2>1. cat'.head \in SnapType
    BY <1>3, RetentionDoneCat
  <2>2. wr' = [wr EXCEPT !.committed = cat'.head, !.stateWake = TRUE] /\ wr \in WrType
    BY <1>3 DEF AcceptRetention, IInv, TypeInv
  <2>3. wr' \in WrType /\ Books(wr, wr') /\ wr'.transition = wr.transition
    BY <2>1, <2>2 DEF WrType, Books
  <2>4. RetainInv' /\ sessionMu' \in Mus
    BY <1>3, <2>3, RetainBound DEF AccountInv, Mus, Books
  <2> QED
    BY <1>3, <2>3, <2>4, PublisherQuiet
<1> QED
  BY <1>1, <1>2, <1>3

(* The catalog's answer to a publication is within the policies requested. *)
LEMMA PublishedBound ==
  ASSUME IInv, RetainInv, wr'.policy = wr.policy, cat' = [cat EXCEPT !.head = Published]
  PROVE  RetainInv'
<1>1. cat'.head.ret \in {cat.pending, cat.head.ret} /\ cat'.pending = cat.pending
  BY DEF Published, IInv, TypeInv, CatType
<1> QED
  BY <1>1 DEF RetainInv

(* The publication failed, or may have.                                    *)
LEMMA PublishErrorAccount == ASSUME IInv, AccountInv, PublishError PROVE AccountInv'
<1>1. PublishFails("cause") /\ (UNCHANGED cat \/ cat' = [cat EXCEPT !.head = Published])
  BY DEF PublishError
<1>2. RetainInv'
  BY <1>1, RetainSame, PublishedBound DEF AccountInv, PublishFails
<1> QED
  BY <1>1, <1>2, PublishFailsAccount

(* noteAsyncErr                                                            *)
LEMMA PublishNoteAccount == ASSUME IInv, AccountInv, PublishNote PROVE AccountInv'
<1>0. Sound(wr) /\ wr \in WrType /\ pub.err \in Errors
  BY AccountSound DEF IInv, TypeInv, PubType
<1>1. PICK z \in BOOLEAN : z = FALSE
  OBVIOUS
<1>2. wr' = Fail(wr, pub.err, z) /\ UNCHANGED <<client, fin, age, sessionMu, cat>>
  BY <1>1 DEF PublishNote, Publisher
<1>3. Acct(wr, wr', 0) /\ wr'.nextLSN = wr.nextLSN /\ wr'.transition = wr.transition
  BY <1>0, <1>2, FailAcct, FailFields
<1>4. Took(client.pc) \in Int /\ Holds(fin) \in Int
  BY TookIs, HoldsIs
<1>5. 0 + Holds(fin) + Took(client.pc) = Holds(fin') + Took(client'.pc)
  BY <1>2, <1>4
<1>6. RetainInv' /\ sessionMu' \in Mus /\ age'.pc \in AgePcs
  BY <1>2, <1>3, RetainSame DEF AccountInv, Acct, Mus, AgePcs
<1>7. /\ client'.pc = "reserve" /\ client'.op = "append" => Room(wr')
      /\ client'.pc \in Draining => wr'.transition # "ager"
  BY <1>2, <1>3 DEF AccountInv, Room
<1> QED
  BY <1>2, <1>3, <1>5, <1>6, <1>7, AccountStep

(* The counters that a published item gives back.                          *)
LEMMA PoppedBooks ==
  ASSUME NEW w \in WrType, NEW item \in ItemType, NEW v, v = Popped(w, item)
  PROVE  /\ v.policy = w.policy /\ v.handed = w.handed /\ v.sinks = w.sinks
         /\ v.segments \in {w.segments, Minus(w.segments, 1)}
         /\ w.ready # <<>> /\ item = w.ready[1] => v.bytes = Minus(w.bytes, item.size)
<1>1. CASE w.ready # <<>> /\ Head(w.ready).base = item.base
  <2>1. v = [w EXCEPT !.ready = Tail(@), !.segments = Minus(@, 1), !.bytes = Minus(@, item.size)]
    BY <1>1 DEF Popped
  <2> QED
    BY <2>1 DEF WrType
<1>2. CASE ~(w.ready # <<>> /\ Head(w.ready).base = item.base)
  <2>1. v = w
    BY <1>2 DEF Popped
  <2>2. ~(w.ready # <<>> /\ item = w.ready[1])
    BY <1>2 DEF WrType
  <2> QED
    BY <2>1, <2>2
<1> QED
  BY <1>1, <1>2

(* The segment is committed: its weight and its place are given back.      *)
LEMMA PublishCommitAccount == ASSUME IInv, IInv', AccountInv, PublishCommit PROVE AccountInv'
<1>0. /\ wr \in WrType /\ Sound(wr) /\ pub.item \in ItemType /\ fin \in FinType
      /\ cat' = [cat EXCEPT !.head = Published] /\ pub.pc = "publish"
  BY AccountSound DEF IInv, TypeInv, PubType, PublishCommit
<1>1. CASE PublishFails("invalid")
  <2>1. RetainInv'
    BY <1>0, <1>1, PublishedBound DEF AccountInv, PublishFails
  <2> QED
    BY <1>1, <2>1, PublishFailsAccount
<1>2. CASE ~PublishFails("invalid")
  <2>1. PICK v : v = Popped(wr, pub.item)
    OBVIOUS
  <2>2. /\ wr' = [v EXCEPT !.committed = Published, !.stateWake = TRUE] /\ sessionMu' = "none"
        /\ UNCHANGED <<client, fin, age>>
    BY <1>2, <2>1 DEF PublishCommit, Publisher
  <2>3. /\ v \in WrType /\ v.nextLSN = wr.nextLSN
        /\ v.active = wr.active /\ v.detached = wr.detached
        /\ v.closed = wr.closed /\ v.aborted = wr.aborted
        /\ v.transition = wr.transition /\ v.drain = wr.drain
        /\ wr.ready # <<>> /\ pub.item = wr.ready[1] => v.ready = Tail(wr.ready)
    BY <1>0, <2>1, PoppedFields
  <2>4. /\ v.policy = wr.policy /\ v.handed = wr.handed /\ v.sinks = wr.sinks
        /\ v.segments \in {wr.segments, Minus(wr.segments, 1)}
        /\ wr.ready # <<>> /\ pub.item = wr.ready[1] => v.bytes = Minus(wr.bytes, pub.item.size)
    BY <1>0, <2>1, PoppedBooks
  <2>5. wr' \in WrType
    BY DEF IInv, TypeInv
  <2>6. Books(v, wr') /\ wr'.transition = v.transition
    BY <2>2, <2>3 DEF WrType, Books
  <2>7. Writers(wr') = Writers(wr)
    BY <2>3, <2>6 DEF Writers, Books
  <2>8. wr'.sinks = Writers(wr') + wr'.handed + Holds(fin') + Took(client.pc)
    BY <2>2, <2>4, <2>6, <2>7 DEF AccountInv, SinksInv, Books
  <2>9. wr'.segments <= MaxInflightSegments
    <3>1. wr.segments <= MaxInflightSegments /\ wr.segments \in Nat /\ MaxInflightSegments \in Nat
      BY <1>0, WriterAssumption DEF AccountInv, Fit, WrType
    <3>2. wr'.segments \in {wr.segments, Minus(wr.segments, 1)}
      BY <2>4, <2>6 DEF Books
    <3> QED
      BY <3>1, <3>2 DEF Minus
  <2>10. Fit(wr')
    BY <2>3, <2>4, <2>6, <2>7, <2>9 DEF AccountInv, Fit, Books
  <2>11. BytesOK(wr', fin')
    <3>1. SUFFICES ASSUME ~wr.aborted PROVE wr'.bytes = SumFunction(Weights(wr', fin))
      BY <2>2, <2>3, <2>6 DEF BytesOK, Books
    <3>2. wr.ready # <<>> /\ pub.item = wr.ready[1]
      BY <1>0, <3>1 DEF IInv, QueueOK
    <3>3. wr'.ready = Tail(wr.ready) /\ wr'.detached = wr.detached
      BY <2>3, <2>6, <3>2 DEF Books
    <3> DEFINE p == Weights(wr, fin)
               s == SumFunction(Tail(p))
               z == pub.item.size
    <3>4. /\ Weights(wr', fin) = Tail(p) /\ p \in Seq(Nat) /\ p # <<>> /\ p[1] = z
      BY <1>0, <2>5, <3>2, <3>3, PopWeighs
    <3>5. wr.bytes = SumFunction(p)
      BY <3>1 DEF AccountInv, BytesOK
    <3>6. SumFunction(p) = p[1] + s /\ s \in Nat /\ p[1] \in Nat
      BY <3>4, SeqSumTail
    <3>7. wr'.bytes = Minus(wr.bytes, z)
      BY <2>4, <2>6, <3>2 DEF Books
    <3> HIDE DEF p, s, z
    <3>8. wr'.bytes = s
      BY <3>4, <3>5, <3>6, <3>7 DEF Minus
    <3> QED
      BY <3>4, <3>8 DEF s
  <2>12. RetainInv' /\ sessionMu' \in Mus
    BY <1>0, <2>2, <2>4, <2>6, PublishedBound DEF AccountInv, Mus, Books
  <2>13. wr'.drain = "done" => fin'.pc = "exit"
    BY <2>2, <2>3, <2>6 DEF AccountInv, Books
  <2> QED
    BY <2>2, <2>3, <2>5, <2>6, <2>8, <2>10, <2>11, <2>12, <2>13, LoopAccount DEF Books
<1> QED
  BY <1>1, <1>2

(* Time passes for the active segment.                                     *)
LEMMA ElapseAccount == ASSUME IInv, IInv', AccountInv, Elapse PROVE AccountInv'
<1>0. wr \in WrType /\ wr.active \in ActiveType /\ Sound(wr) /\ fin \in FinType
  BY AccountSound DEF WrType
<1> DEFINE a == [wr.active EXCEPT !.old = TRUE]
<1>1. wr' = [wr EXCEPT !.active = a] /\ UNCHANGED <<client, fin, age, sessionMu, cat>>
  BY <1>0 DEF Elapse, WrType
<1>2. a.open = wr.active.open /\ a.records = wr.active.records
  BY <1>0 DEF ActiveType
<1> HIDE DEF a
<1>3. wr' \in WrType /\ wr'.active = a
  BY <1>0, <1>1 DEF IInv, TypeInv, WrType
<1>4. /\ wr'.policy = wr.policy /\ wr'.nextLSN = wr.nextLSN
      /\ wr'.segments = wr.segments /\ wr'.bytes = wr.bytes /\ wr'.detached = wr.detached
      /\ wr'.ready = wr.ready /\ wr'.closed = wr.closed /\ wr'.aborted = wr.aborted
      /\ wr'.drain = wr.drain /\ wr'.handed = wr.handed /\ wr'.sinks = wr.sinks
      /\ wr'.transition = wr.transition
  BY <1>0, <1>1 DEF WrType
<1>5. Writers(wr') = Writers(wr) /\ Weights(wr', fin') = Weights(wr, fin)
  <2>1. Weights(wr', fin') = Weights(wr, fin)
    BY <1>1, <1>4 DEF Weights
  <2>2. Writers(wr') = Writers(wr)
    BY <1>2, <1>3, <1>4 DEF Writers
  <2> QED
    BY <2>1, <2>2
<1>6. Fit(wr') /\ BytesOK(wr', fin')
  BY <1>2, <1>3, <1>4, <1>5 DEF AccountInv, Fit, BytesOK
<1>7. wr'.sinks = Writers(wr') + wr'.handed + Holds(fin') + Took(client.pc)
  BY <1>1, <1>4, <1>5 DEF AccountInv, SinksInv
<1>8. RetainInv' /\ sessionMu' \in Mus /\ (wr'.drain = "done" => fin'.pc = "exit")
  BY <1>1, <1>4, RetainSame DEF AccountInv, Mus
<1> QED
  BY <1>1, <1>3, <1>4, <1>6, <1>7, <1>8, LoopAccount

(* The drain aborts what it was handed, and joins the goroutines.          *)
LEMMA DrainAccount == ASSUME IInv, IInv', AccountInv, RunDrain PROVE AccountInv'
<1>0. wr \in WrType /\ Sound(wr) /\ wr.sinks \in Int /\ wr.handed \in Nat /\ Writers(wr) \in Nat
  BY AccountSound
<1>1. /\ wr' \in WrType /\ UNCHANGED <<client, fin, age, sessionMu, cat>>
  BY DEF IInv, TypeInv, RunDrain, DrainCleanup, DrainJoin
<1>2. /\ wr'.policy = wr.policy /\ wr'.nextLSN = wr.nextLSN /\ wr'.active = wr.active
      /\ wr'.segments = wr.segments /\ wr'.bytes = wr.bytes /\ wr'.detached = wr.detached
      /\ wr'.ready = wr.ready /\ wr'.closed = wr.closed /\ wr'.aborted = wr.aborted
      /\ wr'.transition = wr.transition
  BY <1>0, ZenonT(40) DEF WrType, RunDrain, DrainCleanup, DrainJoin
<1>3. /\ wr.drain # "off" /\ wr'.drain \in {"join", "done"} /\ wr'.handed = 0
      /\ wr'.sinks = wr.sinks - wr.handed /\ (wr'.drain = "done" => fin.pc = "exit")
  <2>1. CASE DrainCleanup
    BY <1>0, <2>1 DEF DrainCleanup, WrType
  <2>2. CASE DrainJoin
    <3>1. wr.handed = 0 /\ wr.drain = "join"
      BY <2>2 DEF DrainJoin, AccountInv, Fit
    <3>2. wr'.drain = "done" /\ wr'.handed = 0 /\ wr'.sinks = wr.sinks
      BY <1>0, <2>2, <3>1 DEF DrainJoin, WrType
    <3>3. fin.pc = "exit"
      BY <2>2 DEF DrainJoin, Workers
    <3>4. wr.sinks = wr.sinks - wr.handed
      BY <1>0, <3>1
    <3> QED
      BY <3>1, <3>2, <3>3, <3>4
  <2> QED
    BY <2>1, <2>2 DEF RunDrain
<1>4. Writers(wr') = Writers(wr) /\ Weights(wr', fin') = Weights(wr, fin)
  BY <1>1, <1>2 DEF Writers, Weights
<1>5. Fit(wr') /\ BytesOK(wr', fin')
  BY <1>2, <1>3, <1>4 DEF AccountInv, Fit, BytesOK
<1>6. wr'.sinks = Writers(wr') + wr'.handed + Holds(fin') + Took(client.pc)
  <2>1. wr.sinks = Writers(wr) + wr.handed + Holds(fin) + Took(client.pc)
    BY DEF AccountInv, SinksInv
  <2>2. Holds(fin) \in Int /\ Took(client.pc) \in Int
    BY HoldsIs, TookIs
  <2>3. wr.sinks - wr.handed = Writers(wr) + 0 + Holds(fin) + Took(client.pc)
    BY <1>0, <2>1, <2>2
  <2> QED
    BY <1>1, <1>3, <1>4, <2>3
<1>7. RetainInv' /\ sessionMu' \in Mus
  BY <1>1, <1>2, RetainSame DEF AccountInv, Mus
<1> QED
  BY <1>1, <1>2, <1>3, <1>5, <1>6, <1>7, LoopAccount

(* Nothing changes that the accounts are about.                            *)
LEMMA SameAccount ==
  ASSUME AccountInv, UNCHANGED <<wr, client, fin, age, sessionMu, cat>> PROVE AccountInv'
<1>1. Fit(wr)' /\ BytesOK(wr, fin)' /\ SinksInv' /\ RetainInv'
  BY DEF AccountInv, SinksInv, RetainInv
<1> QED
  BY <1>1 DEF AccountInv, Room

(* Every step keeps the accounts.                                          *)
LEMMA NextAccount == ASSUME IInv, AccountInv, [Next]_vars PROVE AccountInv'
<1>0. Next => IInv'
  BY NextIInv
<1>1. ASSUME NEW op \in {"append", "cut", "flush", "close", "abort"}, Call(op) PROVE AccountInv'
  BY <1>1, CallAccount DEF Ops
<1>2. CASE RetainEnter \/ RetainError \/ CallCancel
  BY <1>2, RetainEnterAccount, RetainErrorAccount, CallCancelAccount
<1>3. CASE Next /\ Resume
  BY <1>0, <1>3, CallTransitionAccount, CallWakeAccount, CallCheckAccount, CallEmptyAccount,
     CallDrainedAccount, CallJoinAccount, RetainResultAccount, RetainNoteAccount DEF Resume
<1>4. CASE FinalizeLoop
  BY <1>4, FinalizeTopAccount, FinalizeWakeAccount, FinalizeCloseAccount, FinalizeErrorAccount
     DEF FinalizeLoop
<1>5. CASE Next /\ PublishLoop
  BY <1>0, <1>5, PublishIdleAccount, PublishWakeAccount, PublishReconcileAccount,
     PublishCommitAccount, PublishErrorAccount, PublishNoteAccount DEF PublishLoop
<1>6. CASE AgeLoop
  BY <1>6, AgeTopAccount, AgeWakeAccount, AgeReserveAccount, AgeExitAccount DEF AgeLoop
<1>7. CASE Next /\ (RunDrain \/ Elapse)
  BY <1>0, <1>7, DrainAccount, ElapseAccount
<1>8. CASE Observer \/ UNCHANGED vars
  <2>1. UNCHANGED <<wr, client, fin, age, sessionMu, cat>>
    BY <1>8 DEF Observer, WatchGet, WatchRead, WatchWake, vars
  <2> QED
    BY <2>1, SameAccount
<1> QED
  BY <1>1, <1>2, <1>3, <1>4, <1>5, <1>6, <1>7, <1>8 DEF Next

-----------------------------------------------------------------------------
(* What the accounts say of the records, the budget and the sinks          *)

(* What is queued or active.                                               *)
PieceType == ItemType \cup SegmentType \cup ActiveType

(* One queue after another that ends where it begins.                      *)
LEMMA LinkedConcat ==
  ASSUME NEW S, NEW s \in Seq(S), NEW t \in Seq(S), NEW b, Linked(s, b), Linked(t, End(s, b))
  PROVE  Linked(s \o t, b) /\ End(s \o t, b) = End(t, End(s, b))
<1> DEFINE u == s \o t
           m == Len(s)
           n == Len(t)
<1>1. /\ u \in Seq(S) /\ Len(u) = m + n
      /\ \A i \in 1..(m + n) : u[i] = IF i <= m THEN s[i] ELSE t[i - m]
  BY ConcatProperties
<1>2. /\ m \in Nat /\ n \in Nat /\ DOMAIN u = 1..(m + n) /\ DOMAIN s = 1..m /\ DOMAIN t = 1..n
      /\ (s = <<>> <=> m = 0) /\ (t = <<>> <=> n = 0) /\ (u = <<>> <=> m + n = 0)
  <2>1. m \in Nat /\ n \in Nat /\ DOMAIN s = 1..m /\ DOMAIN t = 1..n
    OBVIOUS
  <2>2. (s = <<>> <=> m = 0) /\ (t = <<>> <=> n = 0)
    BY EmptySeq
  <2>3. DOMAIN u = 1..Len(u) /\ (u = <<>> <=> Len(u) = 0)
    <3> HIDE DEF u
    <3> QED
      BY <1>1, EmptySeq
  <2> QED
    BY <1>1, <2>1, <2>2, <2>3
<1> HIDE DEF u, m, n
<1>3. /\ \A i \in 1..m : u[i] = s[i]
      /\ \A i \in 1..n : u[m + i] = t[i]
  <2>1. ASSUME NEW i \in 1..m PROVE u[i] = s[i]
    <3>1. i \in 1..(m + n) /\ i <= m
      BY <1>2
    <3> QED
      BY <1>1, <3>1
  <2>2. ASSUME NEW i \in 1..n PROVE u[m + i] = t[i]
    <3> DEFINE j == m + i
    <3>1. j \in 1..(m + n) /\ ~(j <= m) /\ j - m = i
      BY <1>2
    <3> HIDE DEF j
    <3>2. u[j] = t[i]
      BY <1>1, <3>1
    <3> QED
      BY <3>2 DEF j
  <2> QED
    BY <2>1, <2>2
<1>4. m # 0 => End(s, b) = s[m].base + s[m].records
  BY <1>2 DEF End, m
<1>5. ASSUME NEW i \in 1..(m + n)
      PROVE  u[i].base = IF i = 1 THEN b ELSE u[i - 1].base + u[i - 1].records
  <2>1. CASE i <= m
    <3>1. i \in 1..m /\ (i = 1 \/ i - 1 \in 1..m)
      BY <1>2, <2>1
    <3> QED
      BY <1>2, <1>3, <3>1 DEF Linked
  <2>2. CASE i = m + 1
    <3>1. 1 \in 1..n
      BY <1>2, <2>2
    <3>2. u[i].base = End(s, b)
      BY <1>2, <1>3, <2>2, <3>1 DEF Linked
    <3>3. CASE m = 0
      BY <1>2, <2>2, <3>2, <3>3 DEF End
    <3>4. CASE m # 0
      <4>1. i # 1 /\ i - 1 = m /\ m \in 1..m
        BY <1>2, <2>2, <3>4
      <4> QED
        BY <1>3, <1>4, <3>2, <3>4, <4>1
    <3> QED
      BY <3>3, <3>4
  <2>3. CASE ~(i <= m) /\ i # m + 1
    <3> DEFINE j == i - m
    <3>1. j \in 1..n /\ j # 1 /\ j - 1 \in 1..n /\ i # 1
      BY <1>2, <2>3
    <3>2. m + j = i /\ m + (j - 1) = i - 1
      BY <1>2
    <3> HIDE DEF j
    <3>3. u[i] = t[j] /\ u[i - 1] = t[j - 1]
      BY <1>3, <3>1, <3>2
    <3> QED
      BY <1>2, <3>1, <3>3 DEF Linked
  <2> QED
    BY <1>2, <2>1, <2>2, <2>3
<1>6. Linked(u, b)
  BY <1>2, <1>5 DEF Linked
<1>7. End(u, b) = End(t, End(s, b))
  <2>1. CASE n = 0
    <3>1. CASE m = 0
      BY <1>2, <2>1, <3>1 DEF End
    <3>2. CASE m # 0
      <4>1. m \in 1..m /\ m + n = m /\ m + n # 0
        BY <1>2, <2>1, <3>2
      <4> QED
        BY <1>1, <1>2, <1>3, <1>4, <2>1, <3>2, <4>1 DEF End
    <3> QED
      BY <3>1, <3>2
  <2>2. CASE n # 0
    <3>1. n \in 1..n /\ m + n # 0
      BY <1>2, <2>2
    <3> QED
      BY <1>1, <1>2, <1>3, <2>2, <3>1 DEF End, n
  <2> QED
    BY <2>1, <2>2
<1> QED
  BY <1>6, <1>7 DEF u

(* A queue of some pieces is one of pieces.                                *)
LEMMA PieceSeqs ==
  /\ Seq(ItemType) \subseteq Seq(PieceType) /\ Seq(SegmentType) \subseteq Seq(PieceType)
<1>1. ASSUME NEW S, S \subseteq PieceType PROVE Seq(S) \subseteq Seq(PieceType)
  <2> SUFFICES ASSUME NEW s \in Seq(S) PROVE s \in Seq(PieceType)
    OBVIOUS
  <2>1. Len(s) \in Nat /\ s \in [1..Len(s) -> S]
    OBVIOUS
  <2>2. s \in [1..Len(s) -> PieceType]
    BY <1>1, <2>1
  <2> QED
    BY <2>1, <2>2
<1> QED
  BY <1>1 DEF PieceType

(* The segments in flight, one after the other.                            *)
LEMMA QueueLinked ==
  ASSUME IInv, ~wr.aborted
  PROVE  /\ Queue \in Seq(PieceType) /\ Linked(Queue, wr.committed.next)
         /\ TailOK(wr, HeldEnd(wr, fin))
         /\ End(Queue, wr.committed.next) = End(wr.detached, HeldEnd(wr, fin))
         /\ Len(Queue) = Len(wr.ready) + Holds(fin) + Len(wr.detached)
<1> DEFINE c == wr.committed.next
           q == wr.ready \o Held
           h == HeldEnd(wr, fin)
<1>0. /\ wr.ready \in Seq(PieceType) /\ wr.detached \in Seq(PieceType)
      /\ fin.item \in PieceType
  BY PieceSeqs DEF IInv, TypeInv, WrType, FinType, PieceType
<1>1. /\ Linked(wr.ready, c) /\ (fin.pc = "close" => fin.item.base = End(wr.ready, c))
      /\ TailOK(wr, h)
  BY DEF IInv, QueueOK
<1> HIDE DEF c
<1>2. /\ q \in Seq(PieceType) /\ Linked(q, c) /\ End(q, c) = h /\ Len(q) = Len(wr.ready) + Holds(fin)
  <2>1. CASE fin.pc = "close"
    <3>1. q = Append(wr.ready, fin.item)
      BY <1>0, <2>1, AppendIsConcat DEF Held
    <3>2. Linked(q, c) /\ End(q, c) = fin.item.base + fin.item.records
      BY <1>0, <1>1, <2>1, <3>1, LinkedAppend
    <3>3. q \in Seq(PieceType) /\ Len(q) = Len(wr.ready) + 1
      BY <1>0, <3>1
    <3> QED
      BY <2>1, <3>2, <3>3 DEF HeldEnd, Holds
  <2>2. CASE fin.pc # "close"
    <3>1. q = wr.ready
      BY <1>0, <2>2, ConcatEmptySeq DEF Held
    <3>2. Len(wr.ready) = Len(wr.ready) + 0
      BY <1>0
    <3> QED
      BY <1>0, <1>1, <2>2, <3>1, <3>2 DEF HeldEnd, Holds, c
  <2> QED
    BY <2>1, <2>2
<1> HIDE DEF q, h
<1>3. Linked(wr.detached, h)
  BY <1>1 DEF TailOK
<1>4. Linked(q \o wr.detached, c) /\ End(q \o wr.detached, c) = End(wr.detached, h)
  BY <1>0, <1>2, <1>3, LinkedConcat
<1>5. q \o wr.detached \in Seq(PieceType) /\ Len(q \o wr.detached) = Len(q) + Len(wr.detached)
  BY <1>0, <1>2, ConcatProperties
<1> QED
  BY <1>1, <1>2, <1>4, <1>5 DEF Queue, q, h, c

(* Where pieces that start at b end, as NoRecordIsLost reads it.           *)
EndsOf(s, b) == <<b>> \o [i \in DOMAIN s |-> s[i].base + s[i].records]

(* Each of the linked pieces starts where the one before it ends.          *)
LEMMA LinkedEnds ==
  ASSUME NEW S, NEW s \in Seq(S), NEW b, Linked(s, b), NEW e, e = EndsOf(s, b)
  PROVE  (\A i \in DOMAIN s : s[i].base = e[i]) /\ e[Len(e)] = End(s, b)
<1> DEFINE n == Len(s)
           g == [i \in 1..n |-> s[i].base + s[i].records]
           V == {b} \cup {s[i].base + s[i].records : i \in 1..n}
<1>1. n \in Nat /\ DOMAIN s = 1..n /\ (s = <<>> <=> n = 0)
  BY EmptySeq
<1>2. e = <<b>> \o g
  BY <1>1 DEF EndsOf
<1> HIDE DEF n
<1>3. g \in [1..n -> V] /\ b \in V /\ \A i \in 1..n : g[i] = s[i].base + s[i].records
  OBVIOUS
<1> HIDE DEF g, V
<1>4. g \in Seq(V) /\ Len(g) = n
  BY <1>1, <1>3
<1>5. PICK a : a = <<b>> /\ a \in Seq(V) /\ Len(a) = 1 /\ a[1] = b
  <2>1. <<b>> \in Seq(V) /\ Len(<<b>>) = 1 /\ <<b>>[1] = b
    BY <1>3
  <2>2. PICK x : x = <<b>>
    OBVIOUS
  <2>3. x = <<b>> /\ x \in Seq(V) /\ Len(x) = 1 /\ x[1] = b
    BY <2>1, <2>2
  <2> QED
    BY <2>3
<1>6. /\ Len(e) = 1 + n
      /\ \A i \in 1..(1 + n) : e[i] = IF i <= 1 THEN a[i] ELSE g[i - 1]
  <2>1. e = a \o g
    BY <1>2, <1>5
  <2>2. /\ Len(a \o g) = Len(a) + Len(g)
        /\ \A i \in 1..(Len(a) + Len(g)) : (a \o g)[i] = IF i <= Len(a) THEN a[i] ELSE g[i - Len(a)]
    BY <1>4, <1>5, ConcatProperties
  <2> QED
    BY <1>4, <1>5, <2>1, <2>2
<1>7. e[1] = b
  <2>1. 1 \in 1..(1 + n)
    BY <1>1
  <2> QED
    BY <1>5, <1>6, <2>1
<1>8. ASSUME NEW i \in 2..(1 + n) PROVE e[i] = s[i - 1].base + s[i - 1].records
  <2>1. i \in 1..(1 + n) /\ ~(i <= 1) /\ i - 1 \in 1..n
    BY <1>1
  <2> QED
    BY <1>3, <1>6, <2>1
<1>9. ASSUME NEW i \in 1..n PROVE s[i].base = e[i]
  <2>1. i = 1 \/ i \in 2..(1 + n)
    BY <1>1
  <2>2. s[i].base = IF i = 1 THEN b ELSE s[i - 1].base + s[i - 1].records
    BY <1>1 DEF Linked
  <2>3. i \in 2..(1 + n) => i # 1
    OBVIOUS
  <2> QED
    BY <1>7, <1>8, <2>1, <2>2, <2>3
<1>10. e[1 + n] = End(s, b)
  <2>1. CASE n = 0
    BY <1>1, <1>7, <2>1 DEF End
  <2>2. CASE n # 0
    <3>1. 1 + n \in 2..(1 + n) /\ (1 + n) - 1 = n
      BY <1>1, <2>2
    <3> QED
      BY <1>1, <1>8, <2>2, <3>1 DEF End, n
  <2> QED
    BY <2>1, <2>2
<1> QED
  BY <1>1, <1>6, <1>9, <1>10

(* Every accepted record is in exactly one place.                          *)
LEMMA RecordsThere == ASSUME IInv PROVE NoRecordIsLost
<1>1. SUFFICES ASSUME ~wr.aborted PROVE NoRecordIsLost
  BY DEF NoRecordIsLost
<1> DEFINE c == wr.committed.next
           h == HeldEnd(wr, fin)
           all == IF wr.active.open THEN Append(Queue, wr.active) ELSE Queue
           ends == <<c>> \o [i \in DOMAIN all |-> all[i].base + all[i].records]
<1>2. /\ Queue \in Seq(PieceType) /\ Linked(Queue, c) /\ TailOK(wr, h)
      /\ End(Queue, c) = End(wr.detached, h)
  BY <1>1, QueueLinked
<1>3. wr.active \in PieceType
  BY DEF IInv, TypeInv, WrType, PieceType
<1>4. all \in Seq(PieceType) /\ Linked(all, c) /\ End(all, c) = wr.nextLSN
  <2>1. CASE wr.active.open
    <3>1. wr.active.base = End(Queue, c) /\ wr.active.base + wr.active.records = wr.nextLSN
      BY <1>2, <2>1 DEF TailOK
    <3>2. Linked(Append(Queue, wr.active), c)
          /\ End(Append(Queue, wr.active), c) = wr.active.base + wr.active.records
      BY <1>2, <1>3, <3>1, LinkedAppend
    <3>3. Append(Queue, wr.active) \in Seq(PieceType)
      BY <1>2, <1>3
    <3> QED
      BY <2>1, <3>1, <3>2, <3>3
  <2>2. CASE ~wr.active.open
    BY <1>2, <2>2 DEF TailOK
  <2> QED
    BY <2>1, <2>2
<1> HIDE DEF all, c
<1>5. (\A i \in DOMAIN all : all[i].base = ends[i]) /\ ends[Len(ends)] = wr.nextLSN
  <2>1. PICK e : e = EndsOf(all, c)
    OBVIOUS
  <2>2. (\A i \in DOMAIN all : all[i].base = e[i]) /\ e[Len(e)] = End(all, c)
    BY <1>4, <2>1, LinkedEnds
  <2>3. e = ends
    BY <2>1 DEF EndsOf
  <2> HIDE DEF ends
  <2> QED
    BY <1>4, <2>2, <2>3
<1> QED
  BY <1>5 DEF NoRecordIsLost, all, c

(* The budget is what the queues weigh.                                    *)
LEMMA BudgetExact == ASSUME IInv, AccountInv PROVE InflightExact
<1>1. wr.segments <= MaxInflightSegments
  BY DEF AccountInv, Fit
<1>2. SUFFICES ASSUME ~wr.aborted
      PROVE  /\ wr.segments = Len(Queue)
             /\ wr.bytes = SumFunction([i \in DOMAIN Queue |->
                             IF i <= Len(wr.ready) THEN Queue[i].size ELSE Estimate(Queue[i].records)])
  BY <1>1 DEF InflightExact
<1> DEFINE r == Len(wr.ready)
           h == Holds(fin)
           d == Len(wr.detached)
           q == [i \in DOMAIN Queue |->
                   IF i <= r THEN Queue[i].size ELSE Estimate(Queue[i].records)]
           p == Weights(wr, fin)
           m == wr.ready \o Held
<1>3. /\ wr \in WrType /\ fin \in FinType /\ wr.ready \in Seq(PieceType)
      /\ wr.detached \in Seq(PieceType) /\ fin.item \in PieceType
  BY PieceSeqs DEF IInv, TypeInv, WrType, FinType, PieceType
<1>4. Queue \in Seq(PieceType) /\ Len(Queue) = r + h + d
  BY <1>2, QueueLinked
<1>5. r \in Nat /\ d \in Nat /\ h \in {0, 1}
  BY <1>3, HoldsIs
<1>6. wr.segments = Len(Queue)
  BY <1>2, <1>4 DEF IInv, QueueOK, Holds
<1>7. DOMAIN Queue = 1..(r + h + d)
  BY <1>4
<1>8. Held \in Seq(PieceType) /\ Len(Held) = h /\ (h = 1 => Held[1] = fin.item)
  BY <1>3 DEF Held, Holds
<1>9. /\ m \in Seq(PieceType) /\ Len(m) = r + h
      /\ \A i \in 1..(r + h) : m[i] = IF i <= r THEN wr.ready[i] ELSE Held[i - r]
  <2>1. /\ m \in Seq(PieceType) /\ Len(m) = Len(wr.ready) + Len(Held)
        /\ \A i \in 1..(Len(wr.ready) + Len(Held)) :
             m[i] = IF i <= Len(wr.ready) THEN wr.ready[i] ELSE Held[i - Len(wr.ready)]
    BY <1>3, <1>8, ConcatProperties
  <2> HIDE DEF m
  <2> QED
    BY <1>8, <2>1
<1> HIDE DEF r, h, d, m
<1>10. \A i \in 1..(r + h + d) : Queue[i] = IF i <= r + h THEN m[i] ELSE wr.detached[i - (r + h)]
  <2>1. Queue = m \o wr.detached
    BY DEF Queue, m
  <2> QED
    BY <1>3, <1>9, <2>1, ConcatProperties DEF d
<1>11. /\ p \in Seq(Nat) /\ Len(p) = r + h + d
       /\ \A i \in 1..(r + h + d) :
            p[i] = IF i <= r THEN wr.ready[i].size
                   ELSE IF i <= r + h THEN Estimate(fin.item.records)
                   ELSE Estimate(wr.detached[i - r - h].records)
  BY <1>3, WeightsSeq DEF r, h, d
<1> HIDE DEF p
<1>12. ASSUME NEW i \in 1..(r + h + d) PROVE q[i] = p[i]
  <2>0. q[i] = IF i <= r THEN Queue[i].size ELSE Estimate(Queue[i].records)
    BY <1>7
  <2>1. CASE i <= r
    <3>1. i \in 1..(r + h) /\ i <= r + h
      BY <1>5, <2>1
    <3>2. Queue[i] = wr.ready[i]
      BY <1>9, <1>10, <2>1, <3>1
    <3> QED
      BY <1>11, <2>0, <2>1, <3>2
  <2>2. CASE ~(i <= r) /\ i <= r + h
    <3>1. i \in 1..(r + h) /\ h = 1 /\ i - r = 1
      BY <1>5, <2>2
    <3>2. Queue[i] = fin.item
      BY <1>8, <1>9, <1>10, <2>2, <3>1
    <3> QED
      BY <1>11, <2>0, <2>2, <3>2
  <2>3. CASE ~(i <= r + h)
    <3>1. ~(i <= r) /\ i - (r + h) = i - r - h
      BY <1>5, <2>3
    <3>2. Queue[i] = wr.detached[i - r - h]
      BY <1>10, <2>3, <3>1
    <3> QED
      BY <1>11, <2>0, <2>3, <3>1, <3>2
  <2> QED
    BY <1>5, <2>1, <2>2, <2>3
<1>13. q = p
  <2>1. DOMAIN q = 1..(r + h + d) /\ DOMAIN p = 1..(r + h + d)
    BY <1>7, <1>11
  <2>2. q = [i \in 1..(r + h + d) |-> q[i]] /\ p = [i \in 1..(r + h + d) |-> p[i]]
    BY <1>7, <1>11, <2>1
  <2> HIDE DEF q
  <2> QED
    BY <1>12, <2>2
<1>14. wr.bytes = SumFunction(p)
  BY <1>2 DEF AccountInv, BytesOK, p
<1> QED
  BY <1>6, <1>13, <1>14 DEF r

(* Every part of the accounts, as the runs check it.                       *)
LEMMA AccountsHold == ASSUME IInv, AccountInv PROVE RecordsAccounted
<1>0. /\ Sound(wr) /\ wr \in WrType /\ wr.sinks \in Int /\ wr.handed \in Nat /\ Writers(wr) \in Nat
  BY AccountSound
<1>1. NoRecordIsLost /\ InflightExact
  BY RecordsThere, BudgetExact
<1>2. wr.sinks = Writers(wr) + wr.handed + Holds(fin) + Took(client.pc)
  BY DEF AccountInv, SinksInv
<1>3. Holds(fin) \in {0, 1} /\ Took(client.pc) \in {0, 1}
  BY HoldsIs, TookIs
<1>4. TypeOK
  <2>1. /\ wr.segments \in Nat /\ wr.bytes \in Nat /\ wr.nextLSN \in Nat
        /\ wr.transition \in {"none", "client", "ager"} /\ wr.firstErr \in Errors
        /\ wr.drain \in {"off", "cleanup", "join", "done"}
    BY <1>0 DEF WrType
  <2>2. wr.sinks \in Nat
    BY <1>0, <1>2, <1>3
  <2>3. wr.nextLSN \in 0..MaxLSN
    BY <2>1, WriterAssumption DEF AccountInv, Fit
  <2>4. wr.firstErr \in {"none", "errAborted"} \cup Causes
    BY <2>1 DEF Errors, Causes
  <2>5. client.pc \in {"idle", "transition", "empty", "drained", "join", "session", "note"} \cup OnStateWake
    BY DEF IInv, TypeInv, ClientType, OutPcs, Cutting, Draining, OnStateWake
  <2>6. /\ fin.pc \in {"top", "wait", "close", "exit"}
        /\ pub.pc \in {"top", "wait", "lock", "reconcile", "publish", "backoff", "note", "exit"}
    BY DEF IInv, TypeInv, FinType, PubType
  <2> QED
    BY <2>1, <2>2, <2>3, <2>4, <2>5, <2>6 DEF TypeOK, AccountInv, RetainInv
<1>5. NoSinkLeak
  <2>1. SUFFICES ASSUME wr.drain = "done" PROVE wr.sinks = Took(client.pc)
    BY DEF NoSinkLeak, Took
  <2>2. Writers(wr) = 0 /\ wr.handed = 0 /\ Holds(fin) = 0
    BY <2>1 DEF AccountInv, Fit, Holds
  <2> QED
    BY <1>2, <1>3, <2>2
<1>6. OneStateWaiter
  <2>1. age.pc = "reserve" => wr.transition = "ager"
    BY DEF IInv, CutInv
  <2>2. client.pc \in Cutting => wr.transition = "client"
    BY DEF IInv, CutInv
  <2>3. client.pc = "waitDrained" => wr.transition # "ager"
    BY DEF AccountInv, Draining
  <2> QED
    BY <2>1, <2>2, <2>3 DEF OneStateWaiter, OnStateWake, Cutting
<1> QED
  BY <1>1, <1>4, <1>5, <1>6 DEF RecordsAccounted

(* At the start there is nothing to account for.                           *)
LEMMA InitAccount == ASSUME Init PROVE AccountInv
<1>1. /\ wr.nextLSN = 0 /\ wr.active = NoActive /\ wr.segments = 0 /\ wr.bytes = 0
      /\ wr.detached = <<>> /\ wr.ready = <<>> /\ wr.closed = FALSE /\ wr.aborted = FALSE
      /\ wr.drain = "off" /\ wr.handed = 0 /\ wr.sinks = 0 /\ wr.policy \in Policies
  BY DEF Init
<1>2. /\ client.pc = "idle" /\ fin.pc = "top" /\ sessionMu = "none"
      /\ cat.head.ret = 0 /\ cat.pending = 0 /\ age.pc \in {"top", "exit"}
  BY DEF Init, Empty
<1>3. IInv
  BY InitIInv
<1>4. wr \in WrType /\ fin \in FinType
  BY <1>3 DEF IInv, TypeInv
<1>5. Writers(wr) = 0 /\ Len(wr.detached) = 0 /\ Len(wr.ready) = 0
  <2>1. Len(wr.detached) = 0 /\ Len(wr.ready) = 0 /\ ~wr.active.open
    BY <1>1, NoActiveType
  <2> QED
    BY <1>4, <2>1, WritersIs
<1>6. Fit(wr)
  BY <1>1, <1>5, NoActiveType, WriterAssumption DEF Fit
<1>7. Holds(fin) = 0 /\ Took(client.pc) = 0
  BY <1>2 DEF Holds, Took
<1>8. SinksInv
  BY <1>1, <1>5, <1>7 DEF SinksInv
<1>9. BytesOK(wr, fin)
  <2>1. Weights(wr, fin) \in Seq(Nat) /\ Len(Weights(wr, fin)) = 0
    BY <1>4, <1>5, <1>7, WeightsSeq
  <2> QED
    BY <1>1, <2>1, SeqSumEmpty DEF BytesOK
<1>10. RetainInv
  <2>1. wr.policy.retentions \in Nat
    BY <1>1, WriterAssumption
  <2> QED
    BY <1>2, <2>1 DEF RetainInv
<1> QED
  BY <1>1, <1>2, <1>6, <1>8, <1>9, <1>10 DEF AccountInv, Draining

-----------------------------------------------------------------------------
(* Results                                                                 *)

(* The struct of the writer, its goroutines, the owner's call and the      *)
(* catalog session agree in every reachable state, as IInv says.           *)
THEOREM WriterInvariant == Spec => []IInv
<1>1. Init => IInv
  BY InitIInv
<1>2. IInv /\ [Next]_vars => IInv'
  BY NextIInv, StutterIInv
<1> QED
  BY <1>1, <1>2, PTL DEF Spec

(* The terminal cause is returned by exactly one public call, whoever met  *)
(* it first: noteForegroundErr, noteAsyncErr and abortedErrLocked together *)
(* never report it twice or lose it.                                       *)
THEOREM CauseIsToldOnce == Spec => []CauseToldOnce
<1>1. IInv => CauseToldOnce
  BY DEF IInv
<1> QED
  BY <1>1, WriterInvariant, PTL

(* The writer never rejects a snapshot of its own session, but for a       *)
(* retention that meets a publication of unknown outcome, and an observer  *)
(* that waits on Committed() has seen the last snapshot.                   *)
THEOREM SnapshotsStaySound == Spec => []SnapshotsAreSound
<1>1. IInv => SnapshotsAreSound
  BY DEF IInv, InvalidInv, SnapshotsAreSound, AnswersAreValid
<1> QED
  BY <1>1, WriterInvariant, PTL

(* A Flush or Close that succeeded left no accepted record behind: all are *)
(* in the committed snapshot and in the catalog.                           *)
THEOREM FlushedIsDurable == Spec => []FlushIsDurable
<1>1. IInv => FlushIsDurable
  BY DEF IInv, SettledInv, Settled, FlushIsDurable
<1> QED
  BY <1>1, WriterInvariant, PTL

(* The committed snapshot moves forward only, by one segment or one        *)
(* retention at a time, and by no segment once the drain is done, whoever  *)
(* of the owner and publishLoop gets the session.                          *)
THEOREM CommittedOnlyAdvances == Spec => CommittedAdvances
<1>1. IInv /\ [Next]_vars => [Advances]_vars
  BY NextIInv
<1>2. CommittedAdvances <=> [][Advances]_vars
  BY DEF CommittedAdvances, Advances
<1> QED
  BY <1>1, <1>2, WriterInvariant, PTL DEF Spec

(* For every policy, budget, LSN bound and set of failures, and however    *)
(* the owner and the goroutines interleave: every accepted record is in    *)
(* exactly one place, reserveInflightLocked's budget is what the queues    *)
(* hold, every segment writer is closed or aborted once, and stateWake     *)
(* never has two goroutines waiting on it.                                 *)
THEOREM RecordsStayAccounted == Spec => []RecordsAccounted
<1>1. Init => IInv /\ AccountInv
  BY InitIInv, InitAccount
<1>2. IInv /\ AccountInv /\ [Next]_vars => (IInv /\ AccountInv)'
  <2>1. IInv /\ AccountInv /\ [Next]_vars => AccountInv'
    BY NextAccount
  <2>2. IInv /\ [Next]_vars => IInv'
    BY NextIInv, StutterIInv
  <2> QED
    BY <2>1, <2>2
<1>3. IInv /\ AccountInv => RecordsAccounted
  BY AccountsHold
<1> QED
  BY <1>1, <1>2, <1>3, PTL DEF Spec
=============================================================================
