--------------------------- MODULE CatalogSession ---------------------------
(***************************************************************************)
(* catengine.Engine and catengine.Session: writers that share one partition *)
(* head in an object store that offers nothing but a conditional put.       *)
(*                                                                         *)
(* Every call of a session holds Session.mu, so a session runs one call at  *)
(* a time; the steps of a call are its object-store requests, and the steps *)
(* of different writers interleave between them.                            *)
(*                                                                         *)
(* A conditional put has three outcomes for its caller.  It is answered     *)
(* "swapped"; it is answered "not swapped" with the current object (a token *)
(* mismatch, or the provider's ConditionalRequestConflict, which can also   *)
(* hit a matching token); or it fails, and then the request may still be on *)
(* its way: it lands later, before or after the caller's next step, or      *)
(* never.  A request that is overtaken by another write carries a token     *)
(* that no longer matches and cannot land, so `inflight' drops it.          *)
(***************************************************************************)
EXTENDS CatalogHead

CONSTANTS
  AcquireAttempts,  \* EngineOptions.AcquireAttempts
  CommitAttempts,   \* EngineOptions.CommitAttempts
  StartLSNs         \* LSNs an operator may initialize the partition at

ASSUME SessionAssumption ==
  /\ AcquireAttempts \in Nat \ {0}
  /\ CommitAttempts \in Nat \ {0}
  /\ StartLSNs \subseteq 0..MaxLSN

VARIABLES
  store,      \* the head object: its token (0: absent) and decoded body
  inflight,   \* conditional puts whose caller saw an error and that may land
  mailbox,    \* the retention request object (ver 0: absent)
  sess,       \* one OpenWriter call and its Session per writer incarnation
  committed,  \* history: every segment a stored head ever reached
  acked,      \* history: the states AppendSegment reported a commit with
  ackedVers   \* history: policy versions reported as applied

history == <<acked, ackedVers>>
vars == <<store, inflight, mailbox, sess, committed, history>>

NoRequest == [ver |-> 0, before |-> 0]
NoPending == [req |-> NoRequest, previous |-> NewHead(0), mutation |-> NewHead(0),
              resolved |-> FALSE]
NoState   == [next |-> 0, epoch |-> 0]

\* The part of pmeta.PartitionHead that the writer validates.
PartitionHead(h) == [next |-> h.next, epoch |-> h.epoch]

\* A session record.  While OpenWriter runs, head and token are its local
\* variables of the same names.  op, seg, req, attempt and state belong to the
\* call in progress.
NewSession ==
  [pc |-> "new", epoch |-> 0, head |-> NewHead(0), token |-> 0, stale |-> FALSE,
   lastAppend |-> NoSegment, lastAppendState |-> NoState, pending |-> NoPending,
   op |-> "none", seg |-> NoSegment, req |-> NoRequest, attempt |-> 0,
   result |-> "none", state |-> NoState]

ClosedSession == [NewSession EXCEPT !.pc = "closed"]

HasPending(s) == s.pending.req.ver # 0
Unresolved(s) == HasPending(s) /\ ~s.pending.resolved

-----------------------------------------------------------------------------
(* The object store.                                                        *)

\* The head object is replaced by h.
Install(h) ==
  /\ store' = [token |-> store.token + 1, head |-> h]
  /\ inflight' = {}
  /\ committed' = committed \cup h.log

\* A conditional put that was answered with an error.
Lose(token, h) ==
  /\ inflight' = IF token = store.token
                 THEN inflight \cup {[token |-> token, head |-> h]}
                 ELSE inflight
  /\ UNCHANGED <<store, committed>>

\* A put whose caller was told of an error reaches the store after all.
Land ==
  \E r \in inflight :
    /\ r.token = store.token
    /\ Install(r.head)
    /\ UNCHANGED history
    /\ UNCHANGED <<mailbox, sess>>

\* Engine.Initialize: create the head at a checkpoint; an existing head is
\* returned as it is.
Initialize(n) ==
  /\ store.token = 0
  /\ Install(NewHead(n)) \/ Lose(0, NewHead(n))
  /\ UNCHANGED history
  /\ UNCHANGED <<mailbox, sess>>

\* Catalog.RequestRetention: the mailbox only moves to newer versions with
\* the same or a higher LSN.
RequestRetention(r) ==
  /\ r.ver > mailbox.ver
  /\ r.before >= mailbox.before
  /\ mailbox' = r
  /\ UNCHANGED history
  /\ UNCHANGED <<store, inflight, sess, committed>>

-----------------------------------------------------------------------------
(* OpenWriter.                                                              *)

Become(w, s) == sess' = [sess EXCEPT ![w] = s]

NewWriterSession(h, token) ==
  [NewSession EXCEPT !.pc = "ready", !.epoch = h.epoch, !.head = h, !.token = token]

\* The head is loaded; an absent one is the synthetic NewHead(0), token "".
OpenWriter(w) ==
  /\ sess[w].pc = "new"
  /\ \/ Become(w, [NewSession EXCEPT !.pc = "acquire",
                                     !.head = store.head, !.token = store.token])
     \/ Become(w, ClosedSession)                              \* Load failed
  /\ UNCHANGED history
  /\ UNCHANGED <<store, inflight, mailbox, committed>>

\* After an attempt that did not decide: back off, or give up because the
\* context was cancelled.
NextAcquire(w, s) ==
  \/ Become(w, [s EXCEPT !.attempt = @ + 1])
  \/ Become(w, ClosedSession)                         \* ErrFenceIndeterminate

AcquireSwapped(w) ==
  LET s == sess[w]
  IN  /\ s.pc = "acquire"
      /\ CanTakeover(s.head)
      /\ s.token = store.token
      /\ Install(Takeover(s.head, w))
      /\ Become(w, NewWriterSession(Takeover(s.head, w), store.token + 1))
      /\ UNCHANGED history
      /\ UNCHANGED mailbox

AcquireConflict(w) ==
  LET s == sess[w]
      rebased == [s EXCEPT !.head = store.head, !.token = store.token]
  IN  /\ s.pc = "acquire"
      /\ CanTakeover(s.head)
      /\ \/ /\ store.token # 0
            /\ store.head = Takeover(s.head, w)
            /\ Become(w, NewWriterSession(store.head, store.token))
         \/ /\ store.token # 0
            /\ store.head # Takeover(s.head, w)
            /\ s.attempt + 1 < AcquireAttempts
            /\ NextAcquire(w, rebased)
         \/ /\ store.token = 0 \/ /\ store.head # Takeover(s.head, w)
                                  /\ s.attempt + 1 = AcquireAttempts
            /\ Become(w, ClosedSession)             \* no body, or ErrConflict
      /\ UNCHANGED history
      /\ UNCHANGED <<store, inflight, mailbox, committed>>

AcquireError(w) ==
  LET s == sess[w]
  IN  /\ s.pc = "acquire"
      /\ CanTakeover(s.head)
      /\ Lose(s.token, Takeover(s.head, w))
      /\ IF s.attempt + 1 < AcquireAttempts
         THEN NextAcquire(w, s)
         ELSE Become(w, [s EXCEPT !.pc = "acquireConfirm"])
      /\ UNCHANGED history
      /\ UNCHANGED mailbox

AcquireExhausted(w) ==
  /\ sess[w].pc = "acquire"
  /\ ~CanTakeover(sess[w].head)
  /\ Become(w, ClosedSession)
  /\ UNCHANGED history
  /\ UNCHANGED <<store, inflight, mailbox, committed>>

AcquireConfirmMutant(w) ==
  LET s == sess[w]
  IN  /\ s.pc = "acquireConfirm"
      /\ \/ /\ store.head.epoch = s.head.epoch + 1
            /\ Become(w, NewWriterSession(store.head, store.token))
         \/ Become(w, ClosedSession)
      /\ UNCHANGED history
      /\ UNCHANGED <<store, inflight, mailbox, committed>>

AcquireConfirm(w) ==
  LET s == sess[w]
      mine == store.head.writer = w /\ store.head.epoch = s.head.epoch + 1
  IN  /\ s.pc = "acquireConfirm"
      /\ \/ mine /\ Become(w, NewWriterSession(store.head, store.token))
         \/ Become(w, ClosedSession)         \* Load failed, or another fence
      /\ UNCHANGED history
      /\ UNCHANGED <<store, inflight, mailbox, committed>>

-----------------------------------------------------------------------------
(* Calls of a session.  An operator on a session record returns the set of  *)
(* records the code may leave behind; a page read or a page put that fails  *)
(* is one of them.                                                          *)

\* The session of w moves to s.  When that ends a call, its caller knows the
\* result and the call's own fields are gone.
Step(w, s) ==
  IF s.pc # "ready"
  THEN Become(w, s) /\ UNCHANGED history
  ELSE /\ Become(w, [s EXCEPT !.op = "none", !.seg = NoSegment, !.req = NoRequest,
                             !.attempt = 0, !.state = NoState, !.result = "none"])
       /\ acked' = acked \cup {a \in {[seg |-> s.seg, state |-> s.state]} : s.result = "ok"}
       /\ ackedVers' = ackedVers \cup {v \in {s.req.ver} : s.result = "applied"}

Return(s, res) == [s EXCEPT !.pc = "ready", !.result = res]

\* refreshLocked: observeFence, then cache the loaded head.
Observe(w, s) ==
  [s EXCEPT !.stale = @ \/ Fenced(store.head, w, s.epoch),
            !.head = store.head, !.token = store.token]

\* The rest of AppendSegment once no retention outcome is outstanding.
\* putPages may fail before the head is touched.
AppendBody(s) ==
  IF s.head.last = s.seg THEN {[s EXCEPT !.pc = "retry"]}
  ELSE IF CanAppend(s.head, s.seg)
       THEN {[s EXCEPT !.pc = "commit"], Return(s, "failed")}
  ELSE IF s.head.gen = MaxGeneration THEN {Return(s, "failed")}
  ELSE {Return(s, "conflict")}

\* The rest of acknowledgeRetentionLocked: only here is a pending result
\* consumed.
AcknowledgePending(s) ==
  [Return(s, "applied") EXCEPT !.req = s.pending.req, !.pending = NoPending]

\* resolveRetentionLocked succeeded; the call it served goes on.
Resolved(s) ==
  LET r == [s EXCEPT !.pending.resolved = TRUE, !.attempt = 0]
  IN  IF s.op = "append" THEN AppendBody(r) ELSE {AcknowledgePending(r)}

Mutation(s) ==
  IF Unresolved(s) THEN s.pending.mutation
  ELSE AppendSeg(s.head, s.seg)

\* The callback commitLocked is given: commitAppendLocked's or
\* commitRetentionLocked's.
AppliedMutant(s, observed) ==
  IF Unresolved(s) THEN RetentionApplied(observed, Mutation(s))
  ELSE FindSegment(observed, s.seg.base) # {}

Applied(s, observed) ==
  IF Unresolved(s) THEN RetentionApplied(observed, Mutation(s))
  ELSE s.seg \in FindSegment(observed, s.seg.base)

\* FindSegment may have to read catalog pages, which can fail, once the LSN is
\* inside the head's range.
NeedsPage(h, lsn) == FindSegment(h, lsn) # {}

\* commitLocked returned success with session record s for mutation m.
CommitDone(s, m) ==
  IF ~Unresolved(s)
  THEN {[Return(s, "ok") EXCEPT !.state = PartitionHead(m), !.lastAppend = s.seg,
                                !.lastAppendState = PartitionHead(m)]}
  ELSE IF s.op = "retention"
  THEN {[Return(s, "applied") EXCEPT !.pending = NoPending]}
  ELSE IF s.stale THEN {Return(s, "stale")} ELSE Resolved(s)

\* commitLocked returned an error.  A fresh retention request stays pending
\* only if its outcome is unknown; a replayed one always stays.
CommitFailedMutant(s, res) ==
  IF s.op = "retention" THEN [Return(s, res) EXCEPT !.pending = NoPending]
  ELSE Return(s, res)

CommitFailed(s, res) ==
  IF ~Unresolved(s) THEN Return(s, res)
  ELSE IF s.op = "retention"
  THEN [Return(s, res) EXCEPT !.pending = IF res = "indeterminate" THEN @ ELSE NoPending]
  ELSE Return(s, IF res \in {"stale", "conflict"} THEN res ELSE "indeterminate")

\* commitLocked looks at the stored head, after a refused put or at the end:
\* the mutation is there, or the fence moved, or the head is still the one
\* the mutation was built from (then `unchanged' is next), or it is another.
Reconcile(w, s, unchanged) ==
  LET h == store.head
      m == Mutation(s)
      seen == [s EXCEPT !.stale = @ \/ Fenced(h, w, s.epoch)]
  IN  (IF ~Unresolved(s) /\ NeedsPage(h, s.seg.base)
       THEN {CommitFailed(seen, "failed")} ELSE {})
      \cup
      (IF h = m \/ Applied(s, h)
       THEN CommitDone([seen EXCEPT !.head = h, !.token = store.token], m)
       ELSE IF seen.stale THEN {CommitFailed(seen, "stale")}
       ELSE IF h = s.head THEN unchanged
       ELSE {CommitFailed(seen, "conflict")})

\* Another attempt after the backoff, or none because the context ended.
NextAttempt(s) == {[s EXCEPT !.attempt = @ + 1], CommitFailed(s, "indeterminate")}

-----------------------------------------------------------------------------
AppendSegment(w, seg) ==
  LET s == [sess[w] EXCEPT !.op = "append", !.seg = seg]
      known == s.lastAppend = seg
  IN  /\ sess[w].pc = "ready"
      /\ seg.epoch = s.epoch /\ seg.tag = w
      /\ \E t \in
           IF s.stale
           THEN IF ~known THEN {Return(s, "stale")}
                ELSE IF seg.base < s.head.oldest THEN {Return(s, "indeterminate")}
                ELSE {[Return(s, "ok") EXCEPT !.state = s.lastAppendState]}
           ELSE IF Unresolved(s) THEN {[s EXCEPT !.pc = "resolve"]}
           ELSE AppendBody(s) :
           Step(w, t)
      /\ UNCHANGED <<store, inflight, mailbox, committed>>

\* writerSession.ApplyPendingRetention up to its first request: reconcile
\* what is pending, else load the mailbox.
ApplyPendingRetention(w) ==
  LET s == [sess[w] EXCEPT !.op = IF HasPending(sess[w]) THEN "reconcile" ELSE "retention"]
  IN  /\ sess[w].pc = "ready"
      /\ \E t \in
           IF s.stale THEN {Return(s, "stale")}
           ELSE IF Unresolved(s) THEN {[s EXCEPT !.pc = "resolve"]}
           ELSE IF HasPending(s) THEN {AcknowledgePending(s)}
           ELSE {[s EXCEPT !.pc = "refresh", !.req = mailbox], Return(s, "failed")} :
           Step(w, t)
      /\ UNCHANGED <<store, inflight, mailbox, committed>>

\* Session.ApplyPendingRetention: refreshActiveLocked, then
\* applyRetentionLocked up to its conditional put.
RetentionRefresh(w) ==
  LET s == Observe(w, sess[w])
  IN  /\ sess[w].pc = "refresh"
      /\ \E t \in {Return(sess[w], "failed")} \cup
           IF s.stale THEN {Return(s, "stale")}
           ELSE IF s.req.ver <= s.head.retVer THEN {Return(s, "unapplied")}
           ELSE IF ~CanRetain(s.head, s.req) THEN {Return(s, "failed")}
           ELSE {Return(s, "failed"),
                 [s EXCEPT !.pc = "commit",
                           !.pending = [req |-> s.req, previous |-> s.head,
                                        mutation |-> ApplyRetention(s.head, s.req),
                                        resolved |-> FALSE]]} :
           Step(w, t)
      /\ UNCHANGED <<store, inflight, mailbox, committed>>

\* resolveRetentionLocked: refresh, then confirm or replay the mutation.
ResolveRetention(w) ==
  LET s == Observe(w, sess[w])
  IN  /\ sess[w].pc = "resolve"
      /\ \E t \in {Return(sess[w], "indeterminate")} \cup
           IF s.stale THEN {Return(s, "stale")}
           ELSE IF RetentionApplied(s.head, Mutation(s)) THEN Resolved(s)
           ELSE IF s.head # s.pending.previous THEN {Return(s, "conflict")}
           ELSE {[s EXCEPT !.pc = "commit"]} :
           Step(w, t)
      /\ UNCHANGED <<store, inflight, mailbox, committed>>

\* The state a retry is acknowledged with is fixed before the refresh.
AcknowledgedState(s) ==
  IF s.lastAppend = s.seg THEN s.lastAppendState ELSE PartitionHead(s.head)

\* AppendSegment of the segment that is already the tip: refresh and check
\* that it is still reachable; the acknowledged state is not rebased.
AppendRetry(w) ==
  LET old == sess[w]
      s == Observe(w, old)
      acknowledged == AcknowledgedState(old)
      found == old.seg \in FindSegment(s.head, old.seg.base)
  IN  /\ old.pc = "retry"
      /\ \E t \in {Return(old, "failed")} \cup
           (IF NeedsPage(s.head, old.seg.base) THEN {Return(s, "failed")} ELSE {}) \cup
           (IF old.seg.base < s.head.oldest \/ ~found THEN {Return(s, "indeterminate")}
            ELSE {[Return(s, "ok") EXCEPT !.state = acknowledged]}) :
           Step(w, t)
      /\ UNCHANGED <<store, inflight, mailbox, committed>>

CommitSwapped(w) ==
  LET s == sess[w]
      m == Mutation(s)
  IN  /\ s.pc = "commit"
      /\ s.token = store.token
      /\ Install(m)
      /\ \E t \in CommitDone([s EXCEPT !.head = m, !.token = store.token + 1], m) : Step(w, t)
      /\ UNCHANGED mailbox

CommitConflict(w) ==
  LET s == sess[w]
  IN  /\ s.pc = "commit"
      /\ \E t \in Reconcile(w, s, IF s.attempt + 1 < CommitAttempts THEN NextAttempt(s)
                                  ELSE {CommitFailed(s, "conflict")}) : Step(w, t)
      /\ UNCHANGED <<store, inflight, mailbox, committed>>

CommitErrorMutant(w) ==
  LET s == sess[w]
  IN  /\ s.pc = "commit"
      /\ Lose(s.token, Mutation(s))
      /\ \E t \in IF s.attempt + 1 < CommitAttempts THEN NextAttempt(s)
                  ELSE {[s EXCEPT !.attempt = 0]} : Step(w, t)
      /\ UNCHANGED mailbox

CommitError(w) ==
  LET s == sess[w]
  IN  /\ s.pc = "commit"
      /\ Lose(s.token, Mutation(s))
      /\ \E t \in IF s.attempt + 1 < CommitAttempts THEN NextAttempt(s)
                  ELSE {[s EXCEPT !.pc = "confirm"]} : Step(w, t)
      /\ UNCHANGED mailbox

CommitConfirm(w) ==
  LET s == sess[w]
  IN  /\ s.pc = "confirm"
      /\ \E t \in {CommitFailed(s, "indeterminate")} \cup
                  Reconcile(w, s, {CommitFailed(s, "unchanged")}) : Step(w, t)
      /\ UNCHANGED <<store, inflight, mailbox, committed>>

\* The process dies; its requests may still land.
Crash(w) ==
  /\ sess[w].pc \notin {"new", "closed"}
  /\ Become(w, ClosedSession)
  /\ UNCHANGED history
  /\ UNCHANGED <<store, inflight, mailbox, committed>>

-----------------------------------------------------------------------------
Init ==
  /\ store = [token |-> 0, head |-> NewHead(0)]
  /\ inflight = {}
  /\ mailbox = NoRequest
  /\ sess = [w \in Writers |-> NewSession]
  /\ committed = {} /\ acked = {} /\ ackedVers = {}

OpenSteps(w) ==
  \/ AcquireSwapped(w) \/ AcquireConflict(w) \/ AcquireError(w)
  \/ AcquireExhausted(w) \/ AcquireConfirm(w)

CallSteps(w) ==
  \/ RetentionRefresh(w) \/ ResolveRetention(w) \/ AppendRetry(w)
  \/ CommitSwapped(w) \/ CommitConflict(w) \/ CommitError(w) \/ CommitConfirm(w)

Next ==
  \/ Land
  \/ \E n \in StartLSNs : Initialize(n)
  \/ \E r \in Requests : RequestRetention(r)
  \/ \E w \in Writers :
       \/ OpenWriter(w) \/ OpenSteps(w)
       \/ \E seg \in Segment : AppendSegment(w, seg)
       \/ ApplyPendingRetention(w)
       \/ CallSteps(w)
       \/ Crash(w)

Spec == Init /\ [][Next]_vars

-----------------------------------------------------------------------------
(* Properties.                                                              *)

Results == {"none", "ok", "applied", "unapplied", "conflict", "stale",
            "indeterminate", "failed", "unchanged"}

SessionType ==
  [pc : {"new", "acquire", "acquireConfirm", "ready", "resolve", "refresh",
         "retry", "commit", "confirm", "closed"},
   epoch : Nat, head : Heads, token : Nat, stale : BOOLEAN,
   lastAppend : Segment \cup {NoSegment}, lastAppendState : [next : Nat, epoch : Nat],
   pending : [req : Requests \cup {NoRequest}, previous : Heads, mutation : Heads,
              resolved : BOOLEAN],
   op : {"none", "append", "retention", "reconcile"},
   seg : Segment \cup {NoSegment}, req : Requests \cup {NoRequest},
   attempt : Nat, result : Results, state : [next : Nat, epoch : Nat]]

\* Every variable has its type.
TypeOK ==
  /\ store \in [token : Nat, head : Heads]
  /\ inflight \subseteq [token : Nat, head : Heads]
  /\ mailbox \in Requests \cup {NoRequest}
  /\ sess \in [Writers -> SessionType]
  /\ committed \subseteq Segment
  /\ acked \subseteq [seg : Segment, state : [next : Nat, epoch : Nat]]
  /\ ackedVers \subseteq Nat

\* A segment that AppendSegment reported as committed is part of the history
\* for good: a reader finds it from the head until retention passes it.
AckedIsDurable ==
  \A a \in acked : /\ a.seg \in committed
                   /\ a.seg \in store.head.log \/ a.seg.last < store.head.oldest

\* The history has neither gaps nor overlaps: every LSN between the floor and
\* the next LSN belongs to exactly one reachable segment, and no LSN was ever
\* given to two segments, whatever requests were lost, repeated or late.
HistoryIsExact ==
  /\ \A lsn \in 0..MaxLSN :
       (store.head.oldest <= lsn /\ lsn < store.head.next)
         <=> \E s \in store.head.log : Covers(s, lsn)
  /\ store.head.log = {s \in committed : s.base >= store.head.oldest}
  /\ \A s, t \in committed : s # t => s.last < t.base \/ t.last < s.base

\* An epoch has one owner and epochs follow each other in the history: a
\* writer that was taken over never gets a segment in behind its successor.
EpochsAreExclusive ==
  /\ \A s, t \in committed : /\ s.epoch = t.epoch => s.tag = t.tag
                             /\ s.base < t.base => s.epoch <= t.epoch
  /\ \A v, w \in Writers :
       v # w /\ sess[v].epoch # 0 => sess[v].epoch # sess[w].epoch

\* Session.stale is only set when the fence has moved, so a session never
\* stops a writer that still owns its partition.
StaleIsFenced ==
  \A w \in Writers : sess[w].stale => Fenced(store.head, w, sess[w].epoch)

\* Retention removes no segment that holds a record at or above the LSN it
\* was asked to keep, and a version reported as applied is in the head.
RetentionIsExact ==
  /\ \A s \in committed : s.base < store.head.oldest => s.last < store.head.retLSN
  /\ \A v \in ackedVers : v <= store.head.retVer

\* The state an append is acknowledged with is the one the writer expects:
\* its own epoch and the LSN after its segment, even when a successor's fence
\* was observed on the way (writer.validatePublishedSnapshot relies on it).
AckStateIsOwn ==
  \A a \in acked : a.state = [next |-> a.seg.last + 1, epoch |-> a.seg.epoch]

\* The log of a partition is exact: what AppendSegment and retention reported
\* is so for good, every LSN has one segment, and nothing else was removed.
LogIsExact == AckedIsDurable /\ HistoryIsExact /\ RetentionIsExact /\ AckStateIsOwn

\* Fencing neither lets a writer that was taken over in nor stops one that owns
\* the partition.
FencingHolds == EpochsAreExclusive /\ StaleIsFenced

\* A session forgets a retention commit only by reporting it as applied, or
\* while the head does not hold it: neither an append nor a refresh in between
\* swallows an outcome the retention caller has not been told.
PendingIsKept ==
  [][\A w \in Writers :
       HasPending(sess[w]) /\ ~HasPending(sess'[w]) /\ sess'[w].pc # "closed" =>
         LET ver == sess[w].pending.req.ver
         IN  ver \in ackedVers' \/ ver > store'.head.retVer]_vars
=============================================================================
