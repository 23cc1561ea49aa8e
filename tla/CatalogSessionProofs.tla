------------------------ MODULE CatalogSessionProofs ------------------------
(***************************************************************************)
(* Theorems about CatalogSession, for any number of writers, any bounds and *)
(* any set of retention requests: its types; the inductive invariant IInv   *)
(* of CatalogInvariant with the two safety properties that follow from it;  *)
(* the refinement of CatalogLog, step by step; and PendingIsKept.           *)
(***************************************************************************)
EXTENDS CatalogInvariant, CatalogRefinement, TLAPS

-----------------------------------------------------------------------------
(* The functions on heads return heads.                                     *)

\* A new head is a head.
LEMMA NewHeadType ==
  ASSUME NEW n \in Nat PROVE NewHead(n) \in Heads
BY DEF NewHead, Heads

\* So is a head after a takeover.
LEMMA TakeoverType ==
  ASSUME NEW h \in Heads, NEW w \in Writers PROVE Takeover(h, w) \in Heads
<1>1. h.epoch + 1 \in Nat /\ h.gen + 1 \in Nat /\ w \in Writers \cup {NoWriter}
  BY DEF Heads
<1> QED BY <1>1 DEF Takeover, Heads

\* So is a head after an append.
LEMMA AppendSegType ==
  ASSUME NEW h \in Heads, NEW s \in Segment PROVE AppendSeg(h, s) \in Heads
<1>1. s.last + 1 \in Nat /\ s.base \in Nat
  BY HeadAssumption DEF Segment
<1>2. /\ h.log \cup {s} \in SUBSET Segment
      /\ h.gen + 1 \in Nat /\ h.oldest \in Nat
  BY DEF Heads
<1> HIDE DEF Segment
<1> QED BY <1>1, <1>2 DEF AppendSeg, Heads

\* What FindSegment finds is a segment.
LEMMA FindSegmentType ==
  ASSUME NEW h \in Heads, NEW lsn, NEW s \in FindSegment(h, lsn)
  PROVE  s \in Segment /\ s.base \in Nat /\ s.last \in Nat /\ s.base <= s.last
BY HeadAssumption DEF FindSegment, Heads, Segment

\* A head after a retention is a head.
LEMMA ApplyRetentionType ==
  ASSUME NEW h \in Heads, NEW r \in Requests, CanRetain(h, r)
  PROVE  ApplyRetention(h, r) \in Heads
<1>1. r.before \in Nat /\ r.ver \in Nat
  BY HeadAssumption
<1>2. h.next \in Nat /\ h.oldest \in Nat
  BY DEF Heads
<1>3. RetentionTarget(h, r) \in Nat
  BY <1>1, <1>2 DEF RetentionTarget
<1>4. RetentionFloor(h, r) \in Nat
  <2>1. CASE h.oldest < RetentionTarget(h, r) /\ RetentionTarget(h, r) < h.next
    <3>1. FindSegment(h, RetentionTarget(h, r)) # {}
      BY <2>1 DEF CanRetain
    <3>2. (CHOOSE s \in FindSegment(h, RetentionTarget(h, r)) : TRUE)
            \in FindSegment(h, RetentionTarget(h, r))
      BY <3>1
    <3> QED BY <2>1, <3>2, <1>2, <1>3, FindSegmentType DEF RetentionFloor
  <2>2. CASE ~(h.oldest < RetentionTarget(h, r) /\ RetentionTarget(h, r) < h.next)
    BY <2>2, <1>2, <1>3 DEF RetentionFloor
  <2> QED BY <2>1, <2>2
<1> DEFINE kept == {s \in h.log : s.base >= RetentionFloor(h, r)}
<1>5. kept \in SUBSET Segment /\ h.gen + 1 \in Nat
  BY DEF Heads
<1>6. ApplyRetention(h, r) =
        [h EXCEPT !.gen = h.gen + 1, !.retLSN = RetentionTarget(h, r), !.retVer = r.ver,
                  !.oldest = RetentionFloor(h, r), !.log = kept]
  BY DEF ApplyRetention
<1> HIDE DEF kept
<1> QED BY <1>1, <1>3, <1>4, <1>5, <1>6 DEF Heads

-----------------------------------------------------------------------------
(* A session record between two steps, and one a call may leave behind.     *)

Base(s) ==
  /\ s \in SessionType
  /\ s.op = "append" => s.seg \in Segment
  /\ Unresolved(s) => Built(s.pending)

Good(t) ==
  /\ t \in SessionType
  /\ CallOK(t)
  /\ t.pc = "ready" /\ t.result = "ok" => t.seg \in Segment

\* A record between two steps has what the helpers need.
LEMMA GoodIsBase ==
  ASSUME NEW s \in SessionType, CallOK(s) PROVE Base(s)
BY DEF CallOK, Base

\* The record of a call that returned is well formed.
LEMMA ReturnGood ==
  ASSUME NEW s, Base(s), NEW res \in Results, res = "ok" => s.seg \in Segment
  PROVE  Good(Return(s, res))
<1> DEFINE t == Return(s, res)
<1>1. t \in SessionType /\ t.pc = "ready" /\ t.op = s.op /\ t.seg = s.seg
      /\ t.pending = s.pending /\ t.result = res
  BY DEF Base, Return, SessionType
<1> QED BY <1>1 DEF Good, CallOK, Base, Unresolved, HasPending

\* So is one after the body of AppendSegment.
LEMMA AppendBodyGood ==
  ASSUME NEW s, Base(s), s.op = "append", ~Unresolved(s), NEW t \in AppendBody(s)
  PROVE  Good(t)
<1>1. Good(Return(s, "failed")) /\ Good(Return(s, "conflict"))
  BY ReturnGood DEF Results
<1>2. Good([s EXCEPT !.pc = "retry"])
  <2> DEFINE r == [s EXCEPT !.pc = "retry"]
  <2>1. r \in SessionType /\ r.pc = "retry" /\ r.op = s.op /\ r.seg = s.seg
        /\ r.pending = s.pending
    BY DEF Base, SessionType
  <2> QED BY <2>1 DEF Good, CallOK, Base, Unresolved, HasPending
<1>3. ASSUME CanAppend(s.head, s.seg) PROVE Good([s EXCEPT !.pc = "commit"])
  <2> DEFINE r == [s EXCEPT !.pc = "commit"]
  <2>1. r \in SessionType /\ r.pc = "commit" /\ r.op = s.op /\ r.seg = s.seg
        /\ r.pending = s.pending /\ r.head = s.head
    BY DEF Base, SessionType
  <2> QED BY <1>3, <2>1 DEF Good, CallOK, Base, Unresolved, HasPending
<1> QED BY <1>1, <1>2, <1>3 DEF AppendBody

\* So is one whose pending retention was acknowledged.
LEMMA AcknowledgePendingGood ==
  ASSUME NEW s, Base(s) PROVE Good(AcknowledgePending(s))
<1> DEFINE t == AcknowledgePending(s)
<1>1. NoPending \in [req : Requests \cup {NoRequest}, previous : Heads,
                     mutation : Heads, resolved : BOOLEAN]
  BY NewHeadType DEF NoPending
<1> DEFINE r == Return(s, "applied")
<1>2. r \in SessionType /\ r.pc = "ready" /\ r.op = s.op /\ r.seg = s.seg
      /\ r.result = "applied"
  BY ZenonT(40) DEF Return, Base, SessionType, Results
<1>3. t = [r EXCEPT !.req = s.pending.req, !.pending = NoPending]
  BY DEF AcknowledgePending
<1>4. s.pending.req \in Requests \cup {NoRequest}
  BY DEF Base, SessionType
<1> HIDE DEF r, t
<1>5. t \in SessionType /\ t.pc = "ready" /\ t.op = s.op /\ t.seg = s.seg
      /\ t.pending = NoPending /\ t.result = "applied"
  BY <1>1, <1>2, <1>3, <1>4 DEF SessionType
<1> USE DEF t
<1> QED BY <1>5 DEF Good, CallOK, Base, Unresolved, HasPending, NoPending, NoRequest

\* So is one whose pending retention was resolved.
LEMMA ResolvedGood ==
  ASSUME NEW s, Base(s), NEW t \in Resolved(s) PROVE Good(t)
<1> DEFINE r == [s EXCEPT !.pending.resolved = TRUE, !.attempt = 0]
<1>1. r \in SessionType /\ r.op = s.op /\ r.seg = s.seg /\ r.pending.resolved = TRUE
  BY DEF Base, SessionType
<1>2. Base(r) /\ ~Unresolved(r)
  BY <1>1 DEF Base, Unresolved
<1>3. CASE s.op = "append"
  BY <1>1, <1>2, <1>3, AppendBodyGood DEF Resolved
<1>4. CASE s.op # "append"
  BY <1>2, <1>4, AcknowledgePendingGood DEF Resolved
<1> QED BY <1>3, <1>4

\* So is one whose commit took effect.
LEMMA CommitDoneGood ==
  ASSUME NEW s, Base(s), NEW m \in Heads, ~Unresolved(s) => s.seg \in Segment,
         NEW t \in CommitDone(s, m)
  PROVE  Good(t)
<1>1. CASE ~Unresolved(s)
  <2> DEFINE r == Return(s, "ok")
  <2>1. Good(r) /\ r.seg = s.seg /\ r.pc = "ready" /\ r.op = s.op /\ r.pending = s.pending
    BY <1>1, ReturnGood DEF Results, Return, Base, SessionType
  <2>2. PartitionHead(m) \in [next : Nat, epoch : Nat]
    BY DEF PartitionHead, Heads
  <2>3. t = [r EXCEPT !.state = PartitionHead(m), !.lastAppend = s.seg,
                     !.lastAppendState = PartitionHead(m)]
    BY <1>1 DEF CommitDone
  <2> HIDE DEF r
  <2>4. t \in SessionType /\ t.seg = s.seg /\ t.pc = "ready" /\ t.op = s.op
        /\ t.pending = s.pending
    BY <1>1, <2>1, <2>2, <2>3 DEF Good, SessionType
  <2> QED BY <1>1, <2>4 DEF Good, CallOK, Unresolved, HasPending
<1>2. CASE Unresolved(s) /\ s.op = "retention"
  <2> DEFINE r == Return(s, "applied")
  <2>1. Good(r) /\ r.seg = s.seg /\ r.pc = "ready" /\ r.op = s.op /\ r.result = "applied"
    BY ReturnGood DEF Results, Return, Base, SessionType
  <2>2. NoPending \in [req : Requests \cup {NoRequest}, previous : Heads,
                       mutation : Heads, resolved : BOOLEAN]
    BY NewHeadType DEF NoPending
  <2>3. t = [r EXCEPT !.pending = NoPending]
    BY <1>2 DEF CommitDone
  <2> HIDE DEF r
  <2>4. t \in SessionType /\ t.pc = "ready" /\ t.op = s.op /\ t.pending = NoPending
        /\ t.result = "applied"
    BY <2>1, <2>2, <2>3 DEF Good, SessionType
  <2> QED BY <1>2, <2>4 DEF Good, CallOK, Unresolved, HasPending, NoPending, NoRequest
<1>3. CASE Unresolved(s) /\ s.op # "retention"
  <2>1. Good(Return(s, "stale"))
    BY ReturnGood DEF Results
  <2> QED BY <1>3, <2>1, ResolvedGood DEF CommitDone
<1> QED BY <1>1, <1>2, <1>3

\* So is one whose commit failed.
LEMMA CommitFailedGood ==
  ASSUME NEW s, Base(s), NEW res \in Results \ {"ok"}
  PROVE  Good(CommitFailed(s, res))
<1>1. Good(Return(s, res)) /\ Good(Return(s, "indeterminate"))
  BY ReturnGood DEF Results
<1>2. CASE Unresolved(s) /\ s.op = "retention"
  <2> DEFINE r == Return(s, res)
             p == IF res = "indeterminate" THEN r.pending ELSE NoPending
             t == [r EXCEPT !.pending = p]
  <2>1. r.pc = "ready" /\ r.op = s.op /\ r.result = res
    BY DEF Return, Base, SessionType
  <2>2. NoPending \in [req : Requests \cup {NoRequest}, previous : Heads,
                       mutation : Heads, resolved : BOOLEAN]
    BY NewHeadType DEF NoPending
  <2>3. CommitFailed(s, res) = t
    BY <1>2 DEF CommitFailed
  <2>4. p \in [req : Requests \cup {NoRequest}, previous : Heads,
               mutation : Heads, resolved : BOOLEAN]
    BY <1>1, <2>2 DEF Good, SessionType
  <2>5. p = r.pending \/ p = NoPending
    OBVIOUS
  <2> HIDE DEF r, p
  <2>6. t \in SessionType /\ t.pc = "ready" /\ t.op = s.op /\ t.pending = p /\ t.result = res
    BY <1>1, <2>1, <2>4 DEF Good, SessionType, r
  <2>7. Unresolved(t) => p = r.pending
    BY <2>5, <2>6 DEF Unresolved, HasPending, NoPending, NoRequest
  <2> QED BY <1>1, <1>2, <2>3, <2>5, <2>6, <2>7 DEF Good, CallOK, Unresolved, HasPending, r
<1>3. CASE ~(Unresolved(s) /\ s.op = "retention")
  BY <1>1, <1>3 DEF CommitFailed
<1> QED BY <1>2, <1>3

\* So is one whose commit is tried again.
LEMMA NextAttemptGood ==
  ASSUME NEW s \in SessionType, CallOK(s), s.pc = "commit", NEW t \in NextAttempt(s)
  PROVE  Good(t)
<1> DEFINE r == [s EXCEPT !.attempt = @ + 1]
<1>1. r \in SessionType /\ r.pc = s.pc /\ r.op = s.op /\ r.seg = s.seg /\ r.req = s.req
      /\ r.pending = s.pending /\ r.head = s.head
  BY DEF SessionType
<1>2. Good(r)
  BY <1>1 DEF Good, CallOK, Unresolved, HasPending
<1> QED BY <1>2, CommitFailedGood, GoodIsBase DEF NextAttempt, Results

\* Observing the fence and caching a head disturb nothing a call relies on.
LEMMA ObservedBase ==
  ASSUME NEW s, Base(s), NEW b \in BOOLEAN, NEW h \in Heads, NEW n \in Nat
  PROVE  /\ Base([s EXCEPT !.stale = b])
         /\ Base([s EXCEPT !.stale = b, !.head = h, !.token = n])
<1>1. /\ [s EXCEPT !.stale = b] \in SessionType
      /\ [s EXCEPT !.stale = b, !.head = h, !.token = n] \in SessionType
  BY DEF Base, SessionType
<1>2. /\ [s EXCEPT !.stale = b].op = s.op
      /\ [s EXCEPT !.stale = b].seg = s.seg
      /\ [s EXCEPT !.stale = b].pending = s.pending
      /\ [s EXCEPT !.stale = b, !.head = h, !.token = n].op = s.op
      /\ [s EXCEPT !.stale = b, !.head = h, !.token = n].seg = s.seg
      /\ [s EXCEPT !.stale = b, !.head = h, !.token = n].pending = s.pending
  BY DEF Base, SessionType
<1> QED BY <1>1, <1>2 DEF Base, Unresolved, HasPending

\* What a commit writes is a head.
LEMMA MutationType ==
  ASSUME NEW s \in SessionType, CallOK(s), s.pc \in {"commit", "confirm"}
  PROVE  Mutation(s) \in Heads /\ (~Unresolved(s) => s.seg \in Segment)
<1>1. s.head \in Heads /\ s.pending.mutation \in Heads
  BY DEF SessionType
<1> QED BY <1>1, AppendSegType DEF Mutation, CallOK

\* The record after reconcile is well formed.
LEMMA ReconcileGood ==
  ASSUME NEW w, NEW s \in SessionType, CallOK(s), s.pc \in {"commit", "confirm"},
         store \in [token : Nat, head : Heads],
         NEW unchanged, \A u \in unchanged : Good(u),
         NEW t \in Reconcile(w, s, unchanged)
  PROVE  Good(t)
<1> DEFINE b == s.stale \/ Fenced(store.head, w, s.epoch)
           seen == [s EXCEPT !.stale = b]
           done == [seen EXCEPT !.head = store.head, !.token = store.token]
<1>1. b \in BOOLEAN /\ store.head \in Heads /\ store.token \in Nat
  BY DEF SessionType, Fenced
<1>2. done = [s EXCEPT !.stale = b, !.head = store.head, !.token = store.token]
  BY DEF SessionType
<1> HIDE DEF b
<1>3. Base(seen) /\ Base(done)
  BY <1>1, <1>2, GoodIsBase, ObservedBase
<1>4. /\ seen.pending = s.pending /\ done.pending = s.pending
      /\ seen.seg = s.seg /\ done.seg = s.seg
  BY DEF SessionType
<1> HIDE DEF seen, done
<1>5. Good(CommitFailed(seen, "failed")) /\ Good(CommitFailed(seen, "stale"))
      /\ Good(CommitFailed(seen, "conflict"))
  BY <1>3, CommitFailedGood DEF Results
<1>6. \A u \in CommitDone(done, Mutation(s)) : Good(u)
  BY <1>3, <1>4, CommitDoneGood, MutationType DEF Unresolved, HasPending
<1>7. \/ t = CommitFailed(seen, "failed")
      \/ t \in CommitDone(done, Mutation(s))
      \/ t = CommitFailed(seen, "stale")
      \/ t \in unchanged
      \/ t = CommitFailed(seen, "conflict")
  BY DEF Reconcile, seen, done, b
<1> QED BY <1>5, <1>6, <1>7

\* A step to a good record keeps the session table, the meaning of its fields
\* and the types of what callers were told.
LEMMA StepGood ==
  ASSUME TypeOK, CallInv, NEW w \in Writers, NEW t, Good(t), Step(w, t)
  PROVE  /\ sess' \in [Writers -> SessionType]
         /\ CallInv'
         /\ acked' \subseteq [seg : Segment, state : [next : Nat, epoch : Nat]]
         /\ ackedVers' \subseteq Nat
<1>1. CASE t.pc # "ready"
  <2>1. sess' = [sess EXCEPT ![w] = t] /\ UNCHANGED <<acked, ackedVers>>
    BY <1>1 DEF Step, Become, history
  <2>2. sess' \in [Writers -> SessionType]
    BY <2>1 DEF TypeOK, Good
  <2>3. \A v \in Writers : CallOK(sess'[v])
    BY <2>1 DEF TypeOK, CallInv, Good
  <2> QED BY <2>1, <2>2, <2>3 DEF TypeOK, CallInv
<1>2. CASE t.pc = "ready"
  <2> DEFINE r == [t EXCEPT !.op = "none", !.seg = NoSegment, !.req = NoRequest,
                            !.attempt = 0, !.state = NoState, !.result = "none"]
  <2>1. sess' = [sess EXCEPT ![w] = r]
    BY <1>2 DEF Step, Become
  <2>2. acked' = acked \cup {a \in {[seg |-> t.seg, state |-> t.state]} : t.result = "ok"}
        /\ ackedVers' = ackedVers \cup {v \in {t.req.ver} : t.result = "applied"}
    BY <1>2 DEF Step
  <2>3. NoState \in [next : Nat, epoch : Nat] /\ "none" \in Results
    BY DEF NoState, Results
  <2>4. r \in SessionType /\ r.pc = "ready" /\ r.op = "none" /\ r.pending = t.pending
    BY <1>2, <2>3 DEF Good, SessionType
  <2>5. CallOK(r)
    BY <2>4 DEF Good, CallOK, Unresolved, HasPending
  <2>6. t.req.ver \in Nat /\ t.state \in [next : Nat, epoch : Nat]
    BY HeadAssumption DEF Good, SessionType, NoRequest
  <2>7. t.result = "ok" => t.seg \in Segment
    BY <1>2 DEF Good
  <2> HIDE DEF r
  <2>8. sess' \in [Writers -> SessionType]
    BY <2>1, <2>4 DEF TypeOK
  <2>9. \A v \in Writers : CallOK(sess'[v])
    BY <2>1, <2>5 DEF TypeOK, CallInv
  <2>10. acked' \subseteq [seg : Segment, state : [next : Nat, epoch : Nat]]
    BY <2>2, <2>6, <2>7 DEF TypeOK
  <2>11. ackedVers' \subseteq Nat
    BY <2>2, <2>6 DEF TypeOK
  <2> QED BY <2>8, <2>9, <2>10, <2>11 DEF CallInv
<1> QED BY <1>1, <1>2

-----------------------------------------------------------------------------
(* Type correctness, together with what the session fields mean.            *)

\* Installing a head, or losing the put of one, keeps the store typed.
LEMMA StoreTyped ==
  ASSUME TypeOK, NEW h \in Heads, NEW n \in Nat, Install(h) \/ Lose(n, h)
  PROVE  /\ store' \in [token : Nat, head : Heads]
         /\ inflight' \subseteq [token : Nat, head : Heads]
         /\ committed' \subseteq Segment
<1>1. CASE Install(h)
  <2>1. h.log \subseteq Segment
    BY DEF Heads
  <2> QED BY <1>1, <2>1 DEF Install, TypeOK
<1>2. CASE Lose(n, h)
  BY <1>2 DEF Lose, TypeOK
<1> QED BY <1>1, <1>2

\* Become keeps the session table when the new record is good.
LEMMA BecomeGood ==
  ASSUME TypeOK, CallInv, NEW w \in Writers, NEW t \in SessionType, CallOK(t), Become(w, t)
  PROVE  sess' \in [Writers -> SessionType] /\ CallInv'
<1>1. sess' = [sess EXCEPT ![w] = t]
  BY DEF Become
<1> QED BY <1>1 DEF TypeOK, CallInv

\* So are the records of new, opened and closed sessions.
LEMMA OpeningRecords ==
  /\ NewSession \in SessionType /\ CallOK(NewSession)
  /\ ClosedSession \in SessionType /\ CallOK(ClosedSession)
  /\ \A h \in Heads, n \in Nat :
       NewWriterSession(h, n) \in SessionType /\ CallOK(NewWriterSession(h, n))
<1>1. NoPending \in [req : Requests \cup {NoRequest}, previous : Heads,
                     mutation : Heads, resolved : BOOLEAN]
      /\ NoPending.req.ver = 0
  BY NewHeadType DEF NoPending, NoRequest
<1>2. NoState \in [next : Nat, epoch : Nat] /\ NewHead(0) \in Heads
  BY NewHeadType DEF NoState
<1>3. NewSession \in SessionType
  BY <1>1, <1>2 DEF NewSession, SessionType, Results
<1>4. ASSUME NEW t \in SessionType, t.op = "none", t.pending = NoPending,
             t.pc \in {"new", "closed", "ready", "acquire", "acquireConfirm"}
      PROVE  CallOK(t)
  BY <1>1, <1>4 DEF CallOK, Unresolved, HasPending
<1>5. CallOK(NewSession)
  BY <1>3, <1>4 DEF NewSession
<1>6. ClosedSession \in SessionType /\ CallOK(ClosedSession)
  <2>1. ClosedSession \in SessionType
    BY <1>3 DEF ClosedSession, SessionType
  <2>2. ClosedSession.op = "none" /\ ClosedSession.pending = NoPending
        /\ ClosedSession.pc = "closed"
    BY DEF ClosedSession, NewSession
  <2> QED BY <2>1, <2>2, <1>4
<1>7. ASSUME NEW h \in Heads, NEW n \in Nat
      PROVE  NewWriterSession(h, n) \in SessionType /\ CallOK(NewWriterSession(h, n))
  <2>1. h.epoch \in Nat
    BY DEF Heads
  <2>2. NewWriterSession(h, n) \in SessionType
    BY <1>3, <2>1 DEF NewWriterSession, SessionType
  <2>3. NewWriterSession(h, n).op = "none" /\ NewWriterSession(h, n).pending = NoPending
        /\ NewWriterSession(h, n).pc = "ready"
    BY DEF NewWriterSession, NewSession
  <2> QED BY <2>2, <2>3, <1>4
<1> QED BY <1>3, <1>5, <1>6, <1>7

\* The steps of OpenWriter.
LEMMA OpenTyped ==
  ASSUME TypeOK, CallInv, NEW w \in Writers, OpenWriter(w) \/ OpenSteps(w)
  PROVE  (TypeOK /\ CallInv)'
<1> DEFINE s == sess[w]
<1>1. s \in SessionType /\ CallOK(s) /\ s.head \in Heads /\ s.token \in Nat
      /\ store.head \in Heads /\ store.token \in Nat
  BY DEF TypeOK, CallInv, SessionType
<1>2. ASSUME NEW a \in Nat, NEW h \in Heads, NEW n \in Nat,
             NEW t, t \in {[s EXCEPT !.attempt = a], [s EXCEPT !.pc = "acquireConfirm"],
                           [[s EXCEPT !.head = h, !.token = n] EXCEPT !.attempt = a]},
             s.pc = "acquire"
      PROVE  t \in SessionType /\ CallOK(t)
  <2>1. t \in SessionType /\ t.pc \in {"acquire", "acquireConfirm"} /\ t.op = s.op
        /\ t.seg = s.seg /\ t.pending = s.pending
    <3> HIDE DEF s
    <3>1. CASE t = [s EXCEPT !.attempt = a]
      BY <1>1, <1>2, <3>1 DEF SessionType
    <3>2. CASE t = [s EXCEPT !.pc = "acquireConfirm"]
      BY <1>1, <1>2, <3>2 DEF SessionType
    <3>3. CASE t = [[s EXCEPT !.head = h, !.token = n] EXCEPT !.attempt = a]
      BY <1>1, <1>2, <3>3 DEF SessionType
    <3> QED BY <1>2, <3>1, <3>2, <3>3
  <2> QED BY <1>1, <2>1 DEF CallOK, Unresolved, HasPending
<1>3. s.attempt + 1 \in Nat
  BY <1>1 DEF SessionType
<1>4. ASSUME UNCHANGED <<store, inflight, mailbox, committed>>, UNCHANGED history,
             NEW t \in SessionType, CallOK(t), Become(w, t)
      PROVE  (TypeOK /\ CallInv)'
  BY <1>4, BecomeGood DEF TypeOK, history
<1>5. CASE OpenWriter(w)
  <2> DEFINE t == [NewSession EXCEPT !.pc = "acquire", !.head = store.head,
                                     !.token = store.token]
  <2>1. t \in SessionType
    BY <1>1, OpeningRecords, ZenonT(40) DEF SessionType
  <2>2. t.op = "none" /\ t.pending = NoPending /\ t.pc = "acquire"
    BY DEF NewSession
  <2>3. CallOK(t)
    BY <2>1, <2>2 DEF CallOK, Unresolved, HasPending, NoPending, NoRequest
  <2> HIDE DEF t
  <2> QED BY <1>4, <1>5, <2>1, <2>3, OpeningRecords DEF OpenWriter, t
<1>6. CASE AcquireSwapped(w)
  <2>1. Takeover(s.head, w) \in Heads /\ store.token + 1 \in Nat
    BY <1>1, TakeoverType
  <2>2. Install(Takeover(s.head, w)) /\ UNCHANGED history /\ UNCHANGED mailbox
        /\ Become(w, NewWriterSession(Takeover(s.head, w), store.token + 1))
    BY <1>6 DEF AcquireSwapped
  <2>3. sess' \in [Writers -> SessionType] /\ CallInv'
    BY <2>1, <2>2, OpeningRecords, BecomeGood
  <2> QED BY <1>1, <2>1, <2>2, <2>3, StoreTyped DEF TypeOK, history
<1>7. CASE AcquireConflict(w)
  <2>1. UNCHANGED <<store, inflight, mailbox, committed>> /\ UNCHANGED history
        /\ s.pc = "acquire"
    BY <1>7 DEF AcquireConflict
  <2>2. \/ Become(w, NewWriterSession(store.head, store.token))
        \/ Become(w, ClosedSession)
        \/ Become(w, [[s EXCEPT !.head = store.head, !.token = store.token]
                         EXCEPT !.attempt = @ + 1])
    BY <1>7 DEF AcquireConflict, NextAcquire
  <2>3. [[s EXCEPT !.head = store.head, !.token = store.token] EXCEPT !.attempt = @ + 1]
          = [[s EXCEPT !.head = store.head, !.token = store.token]
               EXCEPT !.attempt = s.attempt + 1]
    BY <1>1 DEF SessionType
  <2>4. \E t \in SessionType : CallOK(t) /\ Become(w, t)
    BY <1>1, <1>2, <1>3, <2>1, <2>2, <2>3, OpeningRecords
  <2> QED BY <1>4, <2>1, <2>4
<1>8. CASE AcquireError(w)
  <2>1. Lose(s.token, Takeover(s.head, w)) /\ UNCHANGED history /\ UNCHANGED mailbox
        /\ s.pc = "acquire"
    BY <1>8 DEF AcquireError
  <2>2. \/ Become(w, ClosedSession) \/ Become(w, [s EXCEPT !.attempt = s.attempt + 1])
        \/ Become(w, [s EXCEPT !.pc = "acquireConfirm"])
    BY <1>8 DEF AcquireError, NextAcquire
  <2>3. \E t \in SessionType : CallOK(t) /\ Become(w, t)
    BY <1>1, <1>2, <1>3, <2>1, <2>2, OpeningRecords
  <2>4. sess' \in [Writers -> SessionType] /\ CallInv'
    BY <2>3, BecomeGood
  <2> QED BY <1>1, <2>1, <2>4, StoreTyped, TakeoverType DEF TypeOK, history
<1>9. CASE AcquireExhausted(w)
  BY <1>4, <1>9, OpeningRecords DEF AcquireExhausted
<1>10. CASE AcquireConfirm(w)
  BY <1>1, <1>4, <1>10, OpeningRecords DEF AcquireConfirm
<1> QED BY <1>5, <1>6, <1>7, <1>8, <1>9, <1>10 DEF OpenSteps

\* The calls of a session and their steps: each leaves a good record behind.
LEMMA CallTyped ==
  ASSUME TypeOK, CallInv, NEW w \in Writers,
         \/ \E seg \in Segment : AppendSegment(w, seg)
         \/ ApplyPendingRetention(w)
         \/ CallSteps(w)
  PROVE  (TypeOK /\ CallInv)'
<1> DEFINE s == sess[w]
<1>1. s \in SessionType /\ CallOK(s) /\ Base(s) /\ s.head \in Heads /\ s.token \in Nat
  BY GoodIsBase DEF TypeOK, CallInv, SessionType
<1>2. store \in [token : Nat, head : Heads] /\ store.head \in Heads /\ store.token \in Nat
  BY DEF TypeOK
<1>3. ASSUME UNCHANGED <<store, inflight, mailbox, committed>>, NEW t, Good(t), Step(w, t)
      PROVE  (TypeOK /\ CallInv)'
  BY <1>3, StepGood DEF TypeOK
<1>4. Base(Observe(w, s)) /\ Observe(w, s).pending = s.pending /\ Observe(w, s).op = s.op
      /\ Observe(w, s).seg = s.seg /\ Observe(w, s).req = s.req /\ Observe(w, s).pc = s.pc
      /\ Observe(w, s).head = store.head
  <2> DEFINE b == s.stale \/ Fenced(store.head, w, s.epoch)
  <2>1. b \in BOOLEAN
    BY <1>1 DEF SessionType, Fenced
  <2>2. Observe(w, s) = [s EXCEPT !.stale = b, !.head = store.head, !.token = store.token]
    BY DEF Observe
  <2> HIDE DEF b, s
  <2>3. Base([s EXCEPT !.stale = b, !.head = store.head, !.token = store.token])
    BY <1>1, <1>2, <2>1, ObservedBase
  <2>4. Observe(w, s).pending = s.pending /\ Observe(w, s).op = s.op
        /\ Observe(w, s).seg = s.seg /\ Observe(w, s).req = s.req
        /\ Observe(w, s).pc = s.pc /\ Observe(w, s).head = store.head
    BY <1>1, <2>2 DEF SessionType
  <2> QED BY <2>2, <2>3, <2>4
<1>5. ASSUME NEW res \in Results \ {"ok"}
      PROVE  Good(Return(s, res)) /\ Good(Return(Observe(w, s), res))
  BY <1>1, <1>4, ReturnGood
<1>6. ASSUME NEW seg \in Segment, AppendSegment(w, seg) PROVE (TypeOK /\ CallInv)'
  <2> DEFINE a == [s EXCEPT !.op = "append", !.seg = seg]
  <2>1. a \in SessionType /\ a.op = "append" /\ a.seg = seg /\ a.pending = s.pending
        /\ a.lastAppendState = s.lastAppendState
    BY <1>1 DEF SessionType
  <2>2. Base(a)
    BY <1>1, <2>1 DEF Base, Unresolved, HasPending
  <2>3. UNCHANGED <<store, inflight, mailbox, committed>>
    BY <1>6 DEF AppendSegment
  <2>4. PICK t : /\ Step(w, t)
                 /\ \/ t \in {Return(a, "stale"), Return(a, "indeterminate")}
                    \/ t = [Return(a, "ok") EXCEPT !.state = a.lastAppendState]
                    \/ Unresolved(a) /\ t = [a EXCEPT !.pc = "resolve"]
                    \/ ~Unresolved(a) /\ t \in AppendBody(a)
    BY <1>6 DEF AppendSegment
  <2> HIDE DEF a
  <2>5. Good(Return(a, "stale")) /\ Good(Return(a, "indeterminate")) /\ Good(Return(a, "ok"))
    BY <2>1, <2>2, ReturnGood DEF Results
  <2>6. Good([Return(a, "ok") EXCEPT !.state = a.lastAppendState])
    <3> DEFINE r == Return(a, "ok")
               u == [r EXCEPT !.state = a.lastAppendState]
    <3>1. a.lastAppendState \in [next : Nat, epoch : Nat]
      BY <2>1 DEF SessionType
    <3>2. r \in SessionType /\ r.pc = "ready" /\ r.op = "append" /\ r.seg = seg
          /\ r.pending = a.pending
      BY <2>1, <2>5 DEF Good, Return, SessionType
    <3> HIDE DEF r
    <3>3. u \in SessionType /\ u.pc = "ready" /\ u.op = "append" /\ u.seg = seg
          /\ u.pending = a.pending
      BY <3>1, <3>2 DEF SessionType
    <3> QED BY <2>2, <3>3 DEF Good, CallOK, Base, Unresolved, HasPending, r
  <2>7. Unresolved(a) => Good([a EXCEPT !.pc = "resolve"])
    <3> DEFINE u == [a EXCEPT !.pc = "resolve"]
    <3>1. u \in SessionType /\ u.pc = "resolve" /\ u.op = "append" /\ u.seg = seg
          /\ u.pending = a.pending
      BY <2>1 DEF SessionType
    <3> QED BY <2>2, <3>1 DEF Good, CallOK, Base, Unresolved, HasPending
  <2>8. Good(t)
    BY <2>1, <2>2, <2>4, <2>5, <2>6, <2>7, AppendBodyGood
  <2> QED BY <1>3, <2>3, <2>4, <2>8
<1>7. CASE ApplyPendingRetention(w)
  <2> DEFINE op == IF HasPending(s) THEN "reconcile" ELSE "retention"
             a == [s EXCEPT !.op = op]
  <2>1. a \in SessionType /\ a.op = op /\ a.op # "append" /\ a.pending = s.pending
        /\ a.pc = s.pc /\ (Unresolved(a) => op = "reconcile")
    BY <1>1 DEF SessionType, Unresolved, HasPending
  <2>2. Base(a)
    BY <1>1, <2>1 DEF Base, Unresolved, HasPending
  <2>3. UNCHANGED <<store, inflight, mailbox, committed>>
    BY <1>7 DEF ApplyPendingRetention
  <2>4. PICK t : /\ Step(w, t)
                 /\ \/ t \in {Return(a, "stale"), Return(a, "failed"), AcknowledgePending(a)}
                    \/ Unresolved(a) /\ t = [a EXCEPT !.pc = "resolve"]
                    \/ t = [a EXCEPT !.pc = "refresh", !.req = mailbox]
    BY <1>7 DEF ApplyPendingRetention
  <2>5. op # "append"
    OBVIOUS
  <2> HIDE DEF a, op
  <2>6. Good(Return(a, "stale")) /\ Good(Return(a, "failed")) /\ Good(AcknowledgePending(a))
    BY <2>2, ReturnGood, AcknowledgePendingGood DEF Results
  <2>7. Unresolved(a) => Good([a EXCEPT !.pc = "resolve"])
    <3> DEFINE u == [a EXCEPT !.pc = "resolve"]
    <3>1. u \in SessionType /\ u.pc = "resolve" /\ u.op = op /\ u.pending = a.pending
      BY <2>1 DEF SessionType
    <3> QED BY <2>1, <2>2, <2>5, <3>1 DEF Good, CallOK, Base, Unresolved, HasPending
  <2>8. Good([a EXCEPT !.pc = "refresh", !.req = mailbox])
    <3> DEFINE u == [a EXCEPT !.pc = "refresh", !.req = mailbox]
    <3>1. u \in SessionType /\ u.pc = "refresh" /\ u.op = op /\ u.pending = a.pending
      BY <2>1 DEF SessionType, TypeOK
    <3> QED BY <2>1, <2>2, <2>5, <3>1 DEF Good, CallOK, Base, Unresolved, HasPending
  <2>9. Good(t)
    BY <2>4, <2>6, <2>7, <2>8
  <2> QED BY <1>3, <2>3, <2>4, <2>9
<1>8. CASE RetentionRefresh(w)
  <2> DEFINE o == Observe(w, s)
             p == [req |-> o.req, previous |-> o.head,
                   mutation |-> ApplyRetention(o.head, o.req), resolved |-> FALSE]
             u == [o EXCEPT !.pc = "commit", !.pending = p]
  <2>1. UNCHANGED <<store, inflight, mailbox, committed>>
    BY <1>8 DEF RetentionRefresh
  <2>2. PICK t : /\ Step(w, t)
                 /\ \/ t = Return(s, "failed")
                    \/ t \in {Return(o, "stale"), Return(o, "unapplied"), Return(o, "failed")}
                    \/ CanRetain(o.head, o.req) /\ t = u
    BY <1>8 DEF RetentionRefresh
  <2> HIDE DEF o
  <2>3. Base(o) /\ o.head \in Heads /\ o.req \in Requests \cup {NoRequest}
    BY <1>4 DEF o, Base, SessionType
  <2>4. CanRetain(o.head, o.req) => o.req \in Requests /\ o.req.ver # 0
    BY <2>3, HeadAssumption DEF CanRetain, NoRequest, Heads
  <2>5. ASSUME CanRetain(o.head, o.req) PROVE Good(u)
    <3>1. Built(p) /\ p.mutation \in Heads
      BY <2>3, <2>4, <2>5, ApplyRetentionType DEF Built
    <3>2. p \in [req : Requests \cup {NoRequest}, previous : Heads,
                 mutation : Heads, resolved : BOOLEAN]
      BY <2>3, <3>1
    <3>3. p.req = o.req /\ p.previous = o.head /\ p.resolved = FALSE
      OBVIOUS
    <3> HIDE DEF p
    <3>4. u \in SessionType /\ u.pc = "commit" /\ u.pending = p /\ u.op = o.op
          /\ u.seg = o.seg /\ u.req = o.req /\ u.head = o.head
      BY <2>3, <3>2 DEF Base, SessionType
    <3>5. Unresolved(u)
      BY <2>4, <2>5, <3>3, <3>4 DEF Unresolved, HasPending
    <3> QED BY <2>3, <3>1, <3>3, <3>4, <3>5 DEF Good, CallOK, Base
  <2>6. Good(Return(o, "stale")) /\ Good(Return(o, "unapplied")) /\ Good(Return(o, "failed"))
        /\ Good(Return(s, "failed"))
    BY <1>5 DEF Results, o
  <2> QED BY <1>3, <2>1, <2>2, <2>5, <2>6
<1>9. CASE ResolveRetention(w)
  <2> DEFINE o == Observe(w, s)
             u == [o EXCEPT !.pc = "commit"]
  <2>1. UNCHANGED <<store, inflight, mailbox, committed>> /\ s.pc = "resolve"
    BY <1>9 DEF ResolveRetention
  <2>2. PICK t : /\ Step(w, t)
                 /\ \/ t = Return(s, "indeterminate")
                    \/ t \in {Return(o, "stale"), Return(o, "conflict")}
                    \/ t \in Resolved(o)
                    \/ o.head = o.pending.previous /\ t = u
    BY <1>9 DEF ResolveRetention
  <2> HIDE DEF o
  <2>3. Base(o) /\ Unresolved(o) /\ o.op # "retention"
    BY <1>1, <1>4, <2>1 DEF o, CallOK, Unresolved, HasPending
  <2>4. ASSUME o.head = o.pending.previous PROVE Good(u)
    <3>1. u \in SessionType /\ u.pc = "commit" /\ u.pending = o.pending /\ u.op = o.op
          /\ u.seg = o.seg /\ u.head = o.head
      BY <2>3 DEF Base, SessionType
    <3> QED BY <2>3, <2>4, <3>1 DEF Good, CallOK, Base, Unresolved, HasPending
  <2>5. Good(Return(o, "stale")) /\ Good(Return(o, "conflict")) /\ Good(Return(s, "indeterminate"))
    BY <1>5 DEF Results, o
  <2> QED BY <1>3, <2>1, <2>2, <2>3, <2>4, <2>5, ResolvedGood
<1>10. CASE AppendRetry(w)
  <2> DEFINE o == Observe(w, s)
             ack == AcknowledgedState(s)
             u == [Return(o, "ok") EXCEPT !.state = ack]
  <2>1. UNCHANGED <<store, inflight, mailbox, committed>> /\ s.pc = "retry"
    BY <1>10 DEF AppendRetry
  <2>2. PICK t : /\ Step(w, t)
                 /\ \/ t = Return(s, "failed")
                    \/ t \in {Return(o, "failed"), Return(o, "indeterminate")}
                    \/ t = u
    BY <1>10 DEF AppendRetry
  <2>3. ack \in [next : Nat, epoch : Nat]
    BY <1>1 DEF AcknowledgedState, PartitionHead, SessionType, Heads
  <2> HIDE DEF o, ack
  <2>4. Base(o) /\ o.op = "append" /\ o.seg \in Segment
    BY <1>1, <1>4, <2>1 DEF o, CallOK
  <2>5. Good(u)
    <3> DEFINE r == Return(o, "ok")
    <3>1. Good(r)
      BY <2>4, ReturnGood DEF Results
    <3>2. r.pc = "ready" /\ r.seg = o.seg /\ r.op = o.op
      BY <2>4 DEF Return, Base, SessionType
    <3> HIDE DEF r
    <3>3. [r EXCEPT !.state = ack] \in SessionType
          /\ [r EXCEPT !.state = ack].pc = "ready"
          /\ [r EXCEPT !.state = ack].op = "append"
          /\ [r EXCEPT !.state = ack].seg = o.seg
          /\ [r EXCEPT !.state = ack].pending = r.pending
      BY <2>3, <2>4, <3>1, <3>2 DEF Good, SessionType
    <3>4. Good([r EXCEPT !.state = ack])
      BY <2>4, <3>1, <3>3 DEF Good, CallOK, Unresolved, HasPending
    <3> QED BY <3>4 DEF r
  <2>6. Good(Return(o, "failed")) /\ Good(Return(o, "indeterminate")) /\ Good(Return(s, "failed"))
    BY <1>5 DEF Results, o
  <2> QED BY <1>3, <2>1, <2>2, <2>5, <2>6
<1>11. CASE CommitSwapped(w)
  <2> DEFINE m == Mutation(s)
             o == [s EXCEPT !.head = m, !.token = store.token + 1]
  <2>1. Install(m) /\ UNCHANGED mailbox /\ s.pc = "commit"
    BY <1>11 DEF CommitSwapped
  <2>2. PICK t \in CommitDone(o, m) : Step(w, t)
    BY <1>11 DEF CommitSwapped
  <2>3. m \in Heads /\ (~Unresolved(s) => s.seg \in Segment) /\ store.token + 1 \in Nat
    BY <1>1, <1>2, <2>1, MutationType
  <2> HIDE DEF m
  <2>4. o \in SessionType /\ o.op = s.op /\ o.seg = s.seg /\ o.pending = s.pending
    BY <1>1, <2>3 DEF SessionType
  <2> HIDE DEF o
  <2>5. Base(o) /\ (~Unresolved(o) => o.seg \in Segment)
    BY <1>1, <2>3, <2>4 DEF Base, Unresolved, HasPending
  <2>6. Good(t)
    BY <2>2, <2>3, <2>5, CommitDoneGood
  <2>7. /\ sess' \in [Writers -> SessionType] /\ CallInv'
        /\ acked' \subseteq [seg : Segment, state : [next : Nat, epoch : Nat]]
        /\ ackedVers' \subseteq Nat
    BY <2>2, <2>6, StepGood
  <2> QED BY <1>2, <2>1, <2>3, <2>7, StoreTyped DEF TypeOK
<1>12. CASE CommitConflict(w)
  <2> DEFINE U == IF s.attempt + 1 < CommitAttempts THEN NextAttempt(s)
                  ELSE {CommitFailed(s, "conflict")}
  <2>1. UNCHANGED <<store, inflight, mailbox, committed>> /\ s.pc = "commit"
    BY <1>12 DEF CommitConflict
  <2>2. PICK t \in Reconcile(w, s, U) : Step(w, t)
    BY <1>12 DEF CommitConflict
  <2>3. \A u \in U : Good(u)
    BY <1>1, <2>1, NextAttemptGood, CommitFailedGood DEF Results
  <2> HIDE DEF U
  <2>4. Good(t)
    BY <1>1, <1>2, <2>1, <2>3, ReconcileGood
  <2> QED BY <1>3, <2>1, <2>2, <2>4
<1>13. CASE CommitError(w)
  <2> DEFINE c == [s EXCEPT !.pc = "confirm"]
  <2>1. Lose(s.token, Mutation(s)) /\ UNCHANGED mailbox /\ s.pc = "commit"
    BY <1>13 DEF CommitError
  <2>2. PICK t : Step(w, t) /\ (t \in NextAttempt(s) \/ t = c)
    BY <1>13 DEF CommitError
  <2>3. c \in SessionType /\ c.pc = "confirm" /\ c.op = s.op /\ c.seg = s.seg /\ c.req = s.req
        /\ c.pending = s.pending /\ c.head = s.head
    BY <1>1 DEF SessionType
  <2>4. Good(c)
    BY <1>1, <2>1, <2>3 DEF Good, CallOK, Unresolved, HasPending
  <2>5. Good(t)
    BY <1>1, <2>1, <2>2, <2>4, NextAttemptGood
  <2>6. /\ sess' \in [Writers -> SessionType] /\ CallInv'
        /\ acked' \subseteq [seg : Segment, state : [next : Nat, epoch : Nat]]
        /\ ackedVers' \subseteq Nat
    BY <2>2, <2>5, StepGood
  <2>7. Mutation(s) \in Heads
    BY <1>1, <2>1, MutationType
  <2> QED BY <1>1, <2>1, <2>6, <2>7, StoreTyped DEF TypeOK
<1>14. CASE CommitConfirm(w)
  <2> DEFINE U == {CommitFailed(s, "unchanged")}
  <2>1. UNCHANGED <<store, inflight, mailbox, committed>> /\ s.pc = "confirm"
    BY <1>14 DEF CommitConfirm
  <2>2. PICK t : Step(w, t) /\ (t = CommitFailed(s, "indeterminate") \/ t \in Reconcile(w, s, U))
    BY <1>14 DEF CommitConfirm
  <2>3. (\A u \in U : Good(u)) /\ Good(CommitFailed(s, "indeterminate"))
    BY <1>1, CommitFailedGood DEF Results
  <2> HIDE DEF U
  <2>4. Good(t)
    BY <1>1, <1>2, <2>1, <2>2, <2>3, ReconcileGood
  <2> QED BY <1>3, <2>1, <2>2, <2>4
<1> QED BY <1>6, <1>7, <1>8, <1>9, <1>10, <1>11, <1>12, <1>13, <1>14 DEF CallSteps

\* Every step keeps the types and the meaning of the session fields.
LEMMA TypeStep ==
  ASSUME TypeOK, CallInv, [Next]_vars PROVE (TypeOK /\ CallInv)'
<1>1. CASE Land
  <2>1. PICK r \in inflight : Install(r.head) /\ UNCHANGED history /\ UNCHANGED <<mailbox, sess>>
    BY <1>1 DEF Land
  <2>2. r.head \in Heads /\ 0 \in Nat
    BY DEF TypeOK
  <2> QED BY <2>1, <2>2, StoreTyped DEF TypeOK, CallInv, history
<1>2. ASSUME NEW n \in StartLSNs, Initialize(n) PROVE (TypeOK /\ CallInv)'
  <2>1. NewHead(n) \in Heads /\ 0 \in Nat
    BY NewHeadType, SessionAssumption, HeadAssumption
  <2> QED BY <1>2, <2>1, StoreTyped DEF Initialize, TypeOK, CallInv, history
<1>3. ASSUME NEW r \in Requests, RequestRetention(r) PROVE (TypeOK /\ CallInv)'
  BY <1>3 DEF RequestRetention, TypeOK, CallInv, history
<1>4. ASSUME NEW w \in Writers, OpenWriter(w) \/ OpenSteps(w) PROVE (TypeOK /\ CallInv)'
  BY <1>4, OpenTyped
<1>5. ASSUME NEW w \in Writers,
             \/ \E seg \in Segment : AppendSegment(w, seg)
             \/ ApplyPendingRetention(w)
             \/ CallSteps(w)
      PROVE (TypeOK /\ CallInv)'
  BY <1>5, CallTyped
<1>6. ASSUME NEW w \in Writers, Crash(w) PROVE (TypeOK /\ CallInv)'
  BY <1>6, OpeningRecords, BecomeGood DEF Crash, TypeOK, history
<1>7. CASE UNCHANGED vars
  BY <1>7 DEF vars, history, TypeOK, CallInv
<1> QED BY <1>1, <1>2, <1>3, <1>4, <1>5, <1>6, <1>7 DEF Next

\* Whatever the store answers, every variable of the catalog engine keeps its
\* type, and a session in the middle of a call holds what that call needs:
\* a segment to append, or a retention mutation built from the cached head.
THEOREM TypeCorrect == Spec => []TypeOK
<1>1. Init => TypeOK /\ CallInv
  <2> SUFFICES ASSUME Init PROVE TypeOK /\ CallInv
    OBVIOUS
  <2>1. sess \in [Writers -> SessionType] /\ CallInv
    BY OpeningRecords DEF Init, CallInv
  <2> QED BY <2>1, NewHeadType DEF Init, TypeOK
<1>2. TypeOK /\ CallInv /\ [Next]_vars => (TypeOK /\ CallInv)'
  BY TypeStep
<1> QED BY <1>1, <1>2, PTL DEF Spec

-----------------------------------------------------------------------------
(* The log is exact and fencing holds.                                      *)

-----------------------------------------------------------------------------
(* What the functions on heads do to a head that describes its history.     *)

SoundHead(h, cm) == h \in Heads /\ cm \subseteq Segment /\ HeadOK(h, cm) /\ HistoryOK(h, cm)

\* m is later than h in the order of the heads of one partition.
Advances(h, m) ==
  /\ h.epoch <= m.epoch
  /\ m.epoch = h.epoch => m.writer = h.writer
  /\ h.next <= m.next /\ h.oldest <= m.oldest /\ h.retVer <= m.retVer

\* What a segment is made of.
LEMMA SegmentFields ==
  ASSUME NEW s \in Segment
  PROVE  /\ s.base \in Nat /\ s.last \in Nat /\ s.epoch \in Nat /\ s.base <= s.last
         /\ s.last <= MaxLSN /\ s.epoch # 0 /\ s # NoSegment
<1>1. /\ s.base \in Nat /\ s.last \in Nat /\ s.epoch \in Nat /\ s.base <= s.last
      /\ s.last <= MaxLSN /\ s.epoch # 0
  BY HeadAssumption DEF Segment
<1>2. NoSegment.epoch = 0
  BY DEF NoSegment
<1> QED BY <1>1, <1>2

\* What a head is made of.
LEMMA HeadFields ==
  ASSUME NEW h \in Heads
  PROVE  /\ h.epoch \in Nat /\ h.gen \in Nat /\ h.next \in Nat /\ h.oldest \in Nat
         /\ h.retLSN \in Nat /\ h.retVer \in Nat /\ h.log \subseteq Segment
         /\ h.last \in Segment \cup {NoSegment}
BY DEF Heads

\* What a takeover changes of the head: the epoch and the writer.
LEMMA TakeoverFields ==
  ASSUME NEW h \in Heads, NEW w \in Writers
  PROVE  LET m == Takeover(h, w)
         IN  /\ m.epoch = h.epoch + 1 /\ m.writer = w
             /\ m.next = h.next /\ m.oldest = h.oldest /\ m.retLSN = h.retLSN
             /\ m.retVer = h.retVer /\ m.log = h.log /\ m.last = h.last
BY DEF Heads, Takeover

\* What an append changes: the log and its end.
LEMMA AppendFields ==
  ASSUME NEW h \in Heads, NEW s \in Segment
  PROVE  LET m == AppendSeg(h, s)
         IN  /\ m.epoch = h.epoch /\ m.writer = h.writer
             /\ m.next = s.last + 1
             /\ m.oldest = IF h.last = NoSegment THEN s.base ELSE h.oldest
             /\ m.retLSN = h.retLSN
             /\ m.retVer = h.retVer /\ m.log = h.log \cup {s} /\ m.last = s
BY DEF Heads, AppendSeg

\* What a retention changes: its version, the floor, and the log below it.
LEMMA RetentionFields ==
  ASSUME NEW h \in Heads, NEW r
  PROVE  LET m == ApplyRetention(h, r)
         IN  /\ m.epoch = h.epoch /\ m.writer = h.writer
             /\ m.next = h.next /\ m.oldest = RetentionFloor(h, r)
             /\ m.retLSN = RetentionTarget(h, r)
             /\ m.retVer = r.ver /\ m.last = h.last
             /\ m.log = {s \in h.log : s.base >= RetentionFloor(h, r)}
BY DEF Heads, ApplyRetention

\* The floor of a retention lies on a boundary of the history: it passes the
\* retained segments that end before the target and no other.
LEMMA FloorIsBoundary ==
  ASSUME NEW h, NEW cm, SoundHead(h, cm), NEW r \in Requests, CanRetain(h, r)
  PROVE  LET floor == RetentionFloor(h, r)
             target == RetentionTarget(h, r)
         IN  /\ floor \in Nat /\ target \in Nat
             /\ h.oldest <= floor /\ floor <= h.next
             /\ h.retLSN <= target /\ target <= h.next
             /\ target <= r.before
             /\ floor <= target \/ floor = h.oldest
             /\ \A s \in cm : s.last < floor \/ s.base >= floor
             /\ \A s \in cm : s.base >= h.oldest => (s.base >= floor <=> s.last >= target)
<1> DEFINE floor == RetentionFloor(h, r)
           target == RetentionTarget(h, r)
<1>1. /\ h.oldest \in Nat /\ h.next \in Nat /\ h.retLSN \in Nat
      /\ h.oldest <= h.next /\ h.retLSN <= h.next
  BY HeadFields DEF SoundHead, HeadOK
<1>2. r.before \in Nat /\ r.before >= h.retLSN
  BY HeadAssumption DEF CanRetain
<1>3. target \in Nat /\ h.retLSN <= target /\ target <= h.next /\ target <= r.before
  BY <1>1, <1>2 DEF RetentionTarget
<1>4. \A s \in cm : /\ s.base \in Nat /\ s.last \in Nat /\ s.base <= s.last
                    /\ s.last < h.next
                    /\ s.base < h.oldest => s.last < h.oldest
  BY SegmentFields DEF SoundHead, HistoryOK
<1> HIDE DEF target
<1>5. CASE target <= h.oldest
  <2>1. floor = h.oldest
    BY <1>5 DEF RetentionFloor, target
  <2> QED BY <1>1, <1>3, <1>4, <1>5, <2>1 DEF target
<1>6. CASE ~(target <= h.oldest) /\ target >= h.next
  <2>1. floor = h.next
    BY <1>6 DEF RetentionFloor, target
  <2> QED BY <1>1, <1>3, <1>4, <1>6, <2>1 DEF target
<1>7. CASE h.oldest < target /\ target < h.next
  <2> DEFINE c == CHOOSE s \in FindSegment(h, target) : TRUE
  <2>1. c \in FindSegment(h, target)
    BY <1>7 DEF CanRetain, target
  <2>2. floor = c.base
    BY <1>1, <1>3, <1>7 DEF RetentionFloor, target
  <2> HIDE DEF c
  <2>3. c \in cm /\ c.base <= target /\ target <= c.last /\ h.oldest <= c.base
    BY <2>1 DEF FindSegment, Covers, SoundHead, HeadOK
  <2>4. \A s \in cm : s # c => s.last < c.base \/ c.last < s.base
    BY <2>3 DEF SoundHead, HistoryOK
  <2>5. \A s \in cm : s.last < floor \/ s.base >= floor
    BY <1>4, <2>2, <2>3, <2>4
  <2>6. \A s \in cm : s.base >= h.oldest => (s.base >= floor <=> s.last >= target)
    BY <1>3, <1>4, <2>2, <2>3, <2>4
  <2> QED BY <1>1, <1>3, <1>4, <1>7, <2>2, <2>3, <2>5, <2>6 DEF target
<1> QED BY <1>1, <1>3, <1>5, <1>6, <1>7

\* A takeover of a sound head is sound and ahead of it.
LEMMA TakeoverKeeps ==
  ASSUME NEW h, NEW cm, SoundHead(h, cm), NEW w \in Writers
  PROVE  LET m == Takeover(h, w)
         IN  SoundHead(m, cm \cup m.log) /\ Advances(h, m)
<1> DEFINE m == Takeover(h, w)
<1>1. h \in Heads /\ cm \subseteq Segment /\ h.epoch \in Nat /\ h.retVer \in Nat
      /\ h.next \in Nat /\ h.oldest \in Nat
  BY HeadFields DEF SoundHead
<1>2. /\ m.epoch = h.epoch + 1 /\ m.writer = w
      /\ m.next = h.next /\ m.oldest = h.oldest /\ m.retLSN = h.retLSN
      /\ m.retVer = h.retVer /\ m.log = h.log /\ m.last = h.last
  BY <1>1, TakeoverFields
<1>3. m \in Heads
  BY <1>1, TakeoverType
<1> HIDE DEF m
<1>4. cm \cup m.log = cm
  BY <1>2 DEF SoundHead, HeadOK
<1>5. HeadOK(m, cm)
  BY <1>2 DEF SoundHead, HeadOK
<1>6. \A s \in cm : s.epoch \in Nat /\ s.epoch <= h.epoch
  BY SegmentFields DEF SoundHead, HistoryOK
<1>7. HistoryOK(m, cm)
  BY <1>1, <1>2, <1>6 DEF SoundHead, HistoryOK
<1>8. Advances(h, m)
  BY <1>1, <1>2 DEF Advances
<1> QED BY <1>1, <1>3, <1>4, <1>5, <1>7, <1>8 DEF SoundHead, m

\* So is an append at its end.
LEMMA AppendKeeps ==
  ASSUME NEW h, NEW cm, SoundHead(h, cm), NEW s \in Segment, CanAppend(h, s)
  PROVE  LET m == AppendSeg(h, s)
         IN  /\ SoundHead(m, cm \cup m.log) /\ Advances(h, m)
             /\ cm \cup m.log = cm \cup {s} /\ m.oldest = h.oldest
<1> DEFINE m == AppendSeg(h, s)
           c2 == cm \cup {s}
<1>1. h \in Heads /\ cm \subseteq Segment /\ h.epoch \in Nat /\ h.retVer \in Nat
      /\ h.next \in Nat /\ h.oldest \in Nat /\ h.retLSN \in Nat
      /\ h.oldest <= h.next /\ h.retLSN <= h.next
  BY HeadFields DEF SoundHead, HeadOK
<1>2. /\ m.epoch = h.epoch /\ m.writer = h.writer
      /\ m.next = s.last + 1
      /\ m.oldest = IF h.last = NoSegment THEN s.base ELSE h.oldest
      /\ m.retLSN = h.retLSN
      /\ m.retVer = h.retVer /\ m.log = h.log \cup {s} /\ m.last = s
  BY <1>1, AppendFields
<1>3. m \in Heads
  BY <1>1, AppendSegType
<1>4. s.base = h.next /\ s.epoch = h.epoch /\ s.tag = h.writer
  BY DEF CanAppend
<1>5. s.base \in Nat /\ s.last \in Nat /\ s.base <= s.last /\ s.last <= MaxLSN /\ s # NoSegment
  BY SegmentFields
<1>6. m.oldest = h.oldest
  BY <1>2, <1>4 DEF SoundHead, HeadOK
<1>7. h.log = {t \in cm : t.base >= h.oldest}
  BY DEF SoundHead, HeadOK
<1>8. \A t \in cm : t.base \in Nat /\ t.last \in Nat /\ t.base <= t.last /\ t.last < h.next
  BY SegmentFields DEF SoundHead, HistoryOK
<1> HIDE DEF m
<1>9. cm \cup m.log = c2 /\ c2 \subseteq Segment
  BY <1>1, <1>2, <1>7
<1>10. HeadOK(m, c2)
  <2>1. m.oldest <= m.next /\ m.retLSN <= m.next /\ m.next <= MaxLSN + 1
    BY <1>1, <1>2, <1>4, <1>5, <1>6, HeadAssumption
  <2>2. m.log = {t \in c2 : t.base >= m.oldest}
    BY <1>1, <1>2, <1>4, <1>5, <1>6, <1>7
  <2>3. ASSUME NEW lsn \in 0..m.next, m.oldest <= lsn, lsn < m.next
        PROVE  \E t \in m.log : Covers(t, lsn)
    <3>1. CASE lsn < h.next
      <4>1. \E t \in h.log : Covers(t, lsn)
        BY <1>1, <1>6, <2>3, <3>1 DEF SoundHead, HeadOK
      <4> QED BY <4>1, <1>2
    <3>2. CASE lsn >= h.next
      BY <1>1, <1>2, <1>4, <1>5, <2>3, <3>2 DEF Covers
    <3> QED BY <1>1, <2>3, <3>1, <3>2
  <2>4. m.last # NoSegment /\ m.next = m.last.last + 1
    BY <1>2, <1>5
  <2> QED BY <2>1, <2>2, <2>3, <2>4 DEF HeadOK
<1>11. HistoryOK(m, c2)
  <2>1. ASSUME NEW t \in c2
        PROVE  /\ t.last < m.next /\ t.epoch <= m.epoch
               /\ t.epoch = m.epoch => t.tag = m.writer
               /\ t.base < m.oldest => t.last < m.oldest /\ t.last < m.retLSN
    <3>1. CASE t \in cm
      BY <3>1, <1>1, <1>2, <1>4, <1>5, <1>6, <1>8 DEF SoundHead, HistoryOK
    <3>2. CASE t = s
      BY <3>2, <1>1, <1>2, <1>4, <1>5, <1>6
    <3> QED BY <3>1, <3>2
  <2>2. ASSUME NEW t \in c2, NEW u \in c2
        PROVE  /\ t # u => t.last < u.base \/ u.last < t.base
               /\ t.epoch = u.epoch => t.tag = u.tag
               /\ t.base < u.base => t.epoch <= u.epoch
    <3>1. CASE t \in cm /\ u \in cm
      BY <3>1 DEF SoundHead, HistoryOK
    <3>2. \A v \in cm : /\ v.last < s.base /\ v.base < s.base
                        /\ v.epoch <= s.epoch /\ (v.epoch = s.epoch => v.tag = s.tag)
      BY <1>1, <1>4, <1>5, <1>8 DEF SoundHead, HistoryOK
    <3>3. CASE t = s /\ u = s
      BY <3>3, <1>5
    <3>4. CASE t = s /\ u \in cm
      BY <3>2, <3>4, <1>5, <1>8
    <3>5. CASE t \in cm /\ u = s
      BY <3>2, <3>5, <1>5, <1>8
    <3> QED BY <3>1, <3>3, <3>4, <3>5
  <2> QED BY <2>1, <2>2 DEF HistoryOK
<1>12. Advances(h, m)
  BY <1>1, <1>2, <1>4, <1>5, <1>6 DEF Advances
<1> QED BY <1>3, <1>6, <1>9, <1>10, <1>11, <1>12 DEF SoundHead, m

\* So is a retention that its request allows.
LEMMA RetentionKeeps ==
  ASSUME NEW h, NEW cm, SoundHead(h, cm), NEW r \in Requests, CanRetain(h, r)
  PROVE  LET m == ApplyRetention(h, r)
         IN  SoundHead(m, cm \cup m.log) /\ Advances(h, m) /\ cm \cup m.log = cm
<1> DEFINE m == ApplyRetention(h, r)
           floor == RetentionFloor(h, r)
           target == RetentionTarget(h, r)
<1>1. h \in Heads /\ cm \subseteq Segment /\ h.epoch \in Nat /\ h.retVer \in Nat
      /\ h.next \in Nat /\ h.oldest \in Nat /\ h.retLSN \in Nat
      /\ h.oldest <= h.next /\ h.retLSN <= h.next
  BY HeadFields DEF SoundHead, HeadOK
<1>2. /\ m.epoch = h.epoch /\ m.writer = h.writer
      /\ m.next = h.next /\ m.oldest = floor
      /\ m.retLSN = target
      /\ m.retVer = r.ver /\ m.last = h.last
      /\ m.log = {s \in h.log : s.base >= floor}
  BY <1>1, RetentionFields
<1>3. m \in Heads
  BY <1>1, ApplyRetentionType
<1>4. r.ver \in Nat /\ r.ver > h.retVer
  BY HeadAssumption DEF CanRetain
<1>5. /\ floor \in Nat /\ target \in Nat
      /\ h.oldest <= floor /\ floor <= h.next
      /\ h.retLSN <= target /\ target <= h.next
      /\ \A s \in cm : s.last < floor \/ s.base >= floor
      /\ \A s \in cm : s.base >= h.oldest => (s.base >= floor <=> s.last >= target)
  BY FloorIsBoundary
<1>6. h.log = {t \in cm : t.base >= h.oldest}
  BY DEF SoundHead, HeadOK
<1>7. \A t \in cm : t.base \in Nat /\ t.last \in Nat /\ t.base <= t.last
  BY SegmentFields DEF SoundHead
<1> HIDE DEF m, floor, target
<1>8. cm \cup m.log = cm
  BY <1>2, <1>6
<1>9. HeadOK(m, cm)
  <2>1. m.oldest <= m.next /\ m.retLSN <= m.next /\ m.next <= MaxLSN + 1
    BY <1>1, <1>2, <1>5 DEF SoundHead, HeadOK
  <2>2. m.log = {t \in cm : t.base >= m.oldest}
    BY <1>1, <1>2, <1>5, <1>6, <1>7
  <2>3. ASSUME NEW lsn \in 0..m.next, m.oldest <= lsn, lsn < m.next
        PROVE  \E t \in m.log : Covers(t, lsn)
    <3>1. PICK t \in h.log : Covers(t, lsn)
      BY <1>1, <1>2, <1>5, <2>3 DEF SoundHead, HeadOK
    <3>2. t \in cm /\ t.last >= floor
      BY <1>1, <1>2, <1>5, <1>6, <1>7, <2>3, <3>1 DEF Covers
    <3>3. t.base >= floor
      BY <1>5, <1>7, <3>2
    <3> QED BY <1>2, <3>1, <3>3
  <2>4. m.last = NoSegment => m.oldest = m.next
    BY <1>1, <1>2, <1>5 DEF SoundHead, HeadOK
  <2>5. m.last # NoSegment => m.next = m.last.last + 1
    BY <1>2 DEF SoundHead, HeadOK
  <2> QED BY <2>1, <2>2, <2>3, <2>4, <2>5 DEF HeadOK
<1>10. HistoryOK(m, cm)
  <2>1. ASSUME NEW t \in cm
        PROVE  /\ t.last < m.next /\ t.epoch <= m.epoch
               /\ t.epoch = m.epoch => t.tag = m.writer
               /\ t.base < m.oldest => t.last < m.oldest /\ t.last < m.retLSN
    <3>1. t.last < m.next /\ t.epoch <= m.epoch /\ (t.epoch = m.epoch => t.tag = m.writer)
      BY <1>2 DEF SoundHead, HistoryOK
    <3>2. ASSUME t.base < floor PROVE t.last < floor /\ t.last < target
      <4>1. t.base < h.oldest => t.last < h.retLSN
        BY DEF SoundHead, HistoryOK
      <4> QED BY <1>1, <1>5, <1>7, <3>2, <4>1
    <3> QED BY <1>2, <3>1, <3>2
  <2> QED BY <2>1 DEF SoundHead, HistoryOK
<1>11. Advances(h, m)
  BY <1>1, <1>2, <1>4, <1>5 DEF Advances
<1> QED BY <1>1, <1>3, <1>8, <1>9, <1>10, <1>11 DEF SoundHead, m

\* Whatever mutation of the stored head lands, the new head describes the
\* history with what it added, and is later than the old one.
LEMMA LegalKeeps ==
  ASSUME NEW h, NEW cm, SoundHead(h, cm), NEW m, Legal(h, m)
  PROVE  SoundHead(m, cm \cup m.log) /\ Advances(h, m)
BY TakeoverKeeps, AppendKeeps, RetentionKeeps DEF Legal

\* A new partition begins with a sound head.
LEMMA NewHeadKeeps ==
  ASSUME NEW n \in 0..MaxLSN
  PROVE  SoundHead(NewHead(n), {}) /\ Advances(NewHead(0), NewHead(n)) /\ NewHead(n).log = {}
<1> DEFINE h == NewHead(n)
<1>1. n \in Nat /\ n <= MaxLSN
  BY HeadAssumption
<1>2. h \in Heads
  BY <1>1, NewHeadType
<1>3. /\ h.oldest = n /\ h.next = n /\ h.retLSN = 0 /\ h.log = {} /\ h.last = NoSegment
      /\ h.epoch = 0 /\ h.retVer = 0 /\ h.writer = NoWriter
  BY DEF NewHead
<1>4. /\ NewHead(0).oldest = 0 /\ NewHead(0).next = 0 /\ NewHead(0).epoch = 0
      /\ NewHead(0).retVer = 0 /\ NewHead(0).writer = NoWriter
  BY DEF NewHead
<1> HIDE DEF h
<1>5. HeadOK(h, {}) /\ HistoryOK(h, {})
  BY <1>1, <1>3, HeadAssumption DEF HeadOK, HistoryOK
<1>6. Advances(NewHead(0), h)
  BY <1>1, <1>3, <1>4 DEF Advances
<1> QED BY <1>2, <1>3, <1>5, <1>6 DEF SoundHead, h

-----------------------------------------------------------------------------
(* What the store does between two steps of a session.                      *)

\* The store is left alone, or a mutation of the stored head, or the head of a
\* new partition, replaces it.
Moved ==
  \/ UNCHANGED <<store, committed>>
  \/ \E m : Install(m) /\ Legal(store.head, m)
  \/ \E n \in StartLSNs : store.token = 0 /\ Install(NewHead(n))

\* The stored head is sound.
LEMMA StoreSound ==
  ASSUME TypeOK, StoreInv
  PROVE  /\ SoundHead(store.head, committed)
         /\ store \in [token : Nat, head : Heads]
         /\ store.token \in Nat /\ store.head \in Heads
BY DEF TypeOK, StoreInv, SoundHead

\* Whatever swaps the head moves it forward.
LEMMA MoveAdvances ==
  ASSUME TypeOK, StoreInv, Moved
  PROVE  /\ StoreInv'
         /\ Advances(store.head, store'.head)
         /\ committed \subseteq committed'
         /\ \/ UNCHANGED <<store, committed>>
            \/ store'.token = store.token + 1
<1>1. SoundHead(store.head, committed) /\ store.token \in Nat
  BY StoreSound
<1>2. CASE UNCHANGED <<store, committed>>
  <2>1. Advances(store.head, store.head)
    BY <1>1, HeadFields DEF SoundHead, Advances
  <2> QED BY <1>2, <2>1 DEF StoreInv
<1>3. ASSUME NEW m, Install(m), Legal(store.head, m)
      PROVE  /\ StoreInv' /\ Advances(store.head, store'.head) /\ committed \subseteq committed'
             /\ store'.token = store.token + 1
  <2>1. /\ store'.token = store.token + 1 /\ store'.head = m
        /\ committed' = committed \cup m.log
    BY <1>3 DEF Install
  <2>2. SoundHead(m, committed \cup m.log) /\ Advances(store.head, m)
    BY <1>1, <1>3, LegalKeeps
  <2>3. store'.token # 0
    BY <1>1, <2>1
  <2> QED BY <2>1, <2>2, <2>3 DEF StoreInv, SoundHead
<1>4. ASSUME NEW n \in StartLSNs, store.token = 0, Install(NewHead(n))
      PROVE  /\ StoreInv' /\ Advances(store.head, store'.head) /\ committed \subseteq committed'
             /\ store'.token = store.token + 1
  <2>1. store.head = NewHead(0) /\ committed = {}
    BY <1>4 DEF StoreInv
  <2>2. n \in 0..MaxLSN
    BY SessionAssumption
  <2>3. SoundHead(NewHead(n), {}) /\ Advances(NewHead(0), NewHead(n)) /\ NewHead(n).log = {}
    BY <2>2, NewHeadKeeps
  <2>4. /\ store'.token = store.token + 1 /\ store'.head = NewHead(n)
        /\ committed' = {}
    BY <1>4, <2>1, <2>3 DEF Install
  <2>5. store'.token # 0
    BY <1>1, <2>4
  <2> QED BY <2>1, <2>3, <2>4, <2>5 DEF StoreInv, SoundHead
<1> QED BY <1>2, <1>3, <1>4 DEF Moved

\* What a session holds stays true while the store moves on.
LEMMA SessionOutlives ==
  ASSUME TypeOK, TypeOK', StoreInv, Moved,
         NEW w, NEW s \in SessionType, SessionOK(w, s, store, committed)
  PROVE  SessionOK(w, s, store', committed')
<1>1. /\ Advances(store.head, store'.head) /\ committed \subseteq committed'
      /\ UNCHANGED <<store, committed>> \/ store'.token = store.token + 1
  BY MoveAdvances
<1>2. /\ store.head \in Heads /\ store'.head \in Heads
      /\ store.token \in Nat /\ store'.token \in Nat
      /\ s.token \in Nat /\ s.epoch \in Nat
      /\ store.head.epoch \in Nat /\ store'.head.epoch \in Nat
      /\ store.head.retVer \in Nat /\ store'.head.retVer \in Nat
  BY HeadFields DEF TypeOK, SessionType
<1>3. CacheOK(s, store')
  BY <1>1, <1>2 DEF SessionOK, CacheOK
<1>4. FenceOK(w, s, store'.head)
  BY <1>1, <1>2 DEF SessionOK, FenceOK, Advances
<1>5. MemoryOK(s, store'.head, committed')
  <2>1. HasPending(s) /\ s.pending.resolved => s.pending.req.ver <= store'.head.retVer
    <3>1. HasPending(s) => s.pending.req.ver \in Nat
      BY HeadAssumption DEF SessionOK, MemoryOK
    <3> QED BY <1>1, <1>2, <3>1 DEF SessionOK, MemoryOK, Advances
  <2> QED BY <1>1, <2>1 DEF SessionOK, MemoryOK
<1> QED BY <1>3, <1>4, <1>5 DEF SessionOK

\* SessionOK speaks of some fields only.
LEMMA SameSession ==
  ASSUME NEW w, NEW s, NEW t, NEW st, NEW cm, SessionOK(w, s, st, cm),
         t.token = s.token, t.head = s.head, t.epoch = s.epoch, t.stale = s.stale,
         t.pending = s.pending, t.lastAppend = s.lastAppend,
         t.lastAppendState = s.lastAppendState,
         t.pc \in Serving => s.pc \in Serving,
         t.pc = "retry" => s.pc = "retry" /\ t.seg = s.seg,
         t.op = "append" => s.op = "append" /\ t.seg = s.seg
  PROVE  SessionOK(w, t, st, cm)
<1>1. CacheOK(t, st)
  BY DEF SessionOK, CacheOK
<1>2. FenceOK(w, t, st.head)
  BY DEF SessionOK, FenceOK
<1>3. OwnOK(w, t)
  BY DEF SessionOK, OwnOK
<1>4. MemoryOK(t, st.head, cm)
  BY DEF SessionOK, MemoryOK, HasPending
<1> QED BY <1>1, <1>2, <1>3, <1>4 DEF SessionOK

\* A serving session that looks at the stored head: its fence check is exact,
\* and the head it may cache is its own unless it turned stale.
LEMMA Observed ==
  ASSUME TypeOK, StoreInv, NEW w, NEW s \in SessionType,
         SessionOK(w, s, store, committed), s.pc \in Serving,
         NEW t, t.pc \in Serving \ {"retry"}, t.epoch = s.epoch,
         t.stale <=> s.stale \/ Fenced(store.head, w, s.epoch),
         \/ t.head = store.head /\ t.token = store.token
         \/ t.head = s.head /\ t.token = s.token,
         t.pending = s.pending, t.lastAppend = s.lastAppend,
         t.lastAppendState = s.lastAppendState,
         t.op = "append" => s.op = "append" /\ t.seg = s.seg
  PROVE  SessionOK(w, t, store, committed)
<1>1. SoundHead(store.head, committed) /\ store.token \in Nat /\ store.head.epoch \in Nat
  BY StoreSound, HeadFields
<1>2. s.epoch \in Nat /\ s.epoch # 0
  BY DEF SessionType, SessionOK, OwnOK
<1>3. CacheOK(t, store)
  BY <1>1 DEF SessionOK, CacheOK
<1>4. FenceOK(w, t, store.head)
  BY <1>1, <1>2 DEF SessionOK, FenceOK, Fenced
<1>5. OwnOK(w, t)
  BY <1>2 DEF SessionOK, OwnOK, Fenced, StoreInv, HeadOK, Serving
<1>6. MemoryOK(t, store.head, committed)
  BY DEF SessionOK, MemoryOK, HasPending
<1> QED BY <1>3, <1>4, <1>5, <1>6 DEF SessionOK

-----------------------------------------------------------------------------
(* The records a call may leave behind, against the head and history they   *)
(* are left with.                                                           *)

\* A call that ends tells its caller the truth.
Told(t, h, cm) ==
  t.pc = "ready" =>
    /\ t.result = "ok" => t.seg \in cm /\ t.state = EndState(t.seg)
    /\ t.result = "applied" => t.req \in Requests /\ t.req.ver <= h.retVer

Fine(w, e, t, st, cm) ==
  /\ SessionOK(w, t, st, cm)
  /\ Told(t, st.head, cm)
  /\ t.pc \in Serving /\ t.epoch = e

\* A session of epoch e in the middle of a call, or about to start one.
Busy(w, e, s, st, cm) ==
  /\ s \in SessionType
  /\ SessionOK(w, s, st, cm)
  /\ s.pc \in Serving /\ s.epoch = e

\* A call that returns leaves its session as the invariant wants it.
LEMMA ReturnFine ==
  ASSUME NEW w, NEW e, NEW s, NEW st, NEW cm, Busy(w, e, s, st, cm), NEW res
  PROVE  /\ SessionOK(w, Return(s, res), st, cm)
         /\ res \notin {"ok", "applied"} => Fine(w, e, Return(s, res), st, cm)
<1> DEFINE t == Return(s, res)
<1>1. /\ t.token = s.token /\ t.head = s.head /\ t.epoch = s.epoch /\ t.stale = s.stale
      /\ t.pending = s.pending /\ t.lastAppend = s.lastAppend
      /\ t.lastAppendState = s.lastAppendState /\ t.pc = "ready" /\ t.op = s.op
      /\ t.seg = s.seg /\ t.result = res
  BY DEF Busy, Return, SessionType
<1> HIDE DEF t
<1>2. SessionOK(w, t, st, cm)
  BY <1>1, SameSession DEF Busy
<1> QED BY <1>1, <1>2 DEF Fine, Busy, Told, Serving, t

\* A session that leaves the ready state, or stays in a call.
LEMMA EnterFine ==
  ASSUME NEW w, NEW e, NEW s, NEW st, NEW cm, Busy(w, e, s, st, cm),
         NEW pc \in Serving \ {"ready"},
         pc = "retry" => s.head.last = s.seg /\ ~s.stale
  PROVE  Fine(w, e, [s EXCEPT !.pc = pc], st, cm)
<1> DEFINE t == [s EXCEPT !.pc = pc]
<1>1. /\ t.token = s.token /\ t.head = s.head /\ t.epoch = s.epoch /\ t.stale = s.stale
      /\ t.pending = s.pending /\ t.lastAppend = s.lastAppend
      /\ t.lastAppendState = s.lastAppendState /\ t.pc = pc /\ t.op = s.op
      /\ t.seg = s.seg
  BY DEF Busy, SessionType
<1> HIDE DEF t
<1>2. OwnOK(w, t)
  BY <1>1 DEF Busy, SessionOK, OwnOK
<1>3. CacheOK(t, st) /\ FenceOK(w, t, st.head)
  BY <1>1 DEF Busy, SessionOK, CacheOK, FenceOK
<1>4. MemoryOK(t, st.head, cm)
  BY <1>1 DEF Busy, SessionOK, MemoryOK, HasPending
<1> QED BY <1>1, <1>2, <1>3, <1>4 DEF Fine, Busy, Told, SessionOK, t

\* So does the body of AppendSegment, from the head it has cached.
LEMMA AppendBodyFine ==
  ASSUME NEW w, NEW e, NEW s, NEW st, NEW cm, Busy(w, e, s, st, cm), ~s.stale,
         NEW t \in AppendBody(s)
  PROVE  Fine(w, e, t, st, cm)
<1>1. Fine(w, e, Return(s, "failed"), st, cm) /\ Fine(w, e, Return(s, "conflict"), st, cm)
  BY ReturnFine
<1>2. s.head.last = s.seg => Fine(w, e, [s EXCEPT !.pc = "retry"], st, cm)
  BY EnterFine DEF Serving
<1>3. Fine(w, e, [s EXCEPT !.pc = "commit"], st, cm)
  BY EnterFine DEF Serving
<1> QED BY <1>1, <1>2, <1>3 DEF AppendBody

\* A pending retention that is in the head is reported and forgotten.
LEMMA ForgetFine ==
  ASSUME NEW w, NEW e, NEW s, NEW st, NEW cm, Busy(w, e, s, st, cm),
         NEW q \in Requests, q.ver <= st.head.retVer, NEW t,
         \/ t = [Return(s, "applied") EXCEPT !.req = q, !.pending = NoPending]
         \/ s.req = q /\ t = [Return(s, "applied") EXCEPT !.pending = NoPending]
  PROVE  Fine(w, e, t, st, cm)
<1> DEFINE r == Return(s, "applied")
<1>1. SessionOK(w, r, st, cm)
  BY ReturnFine
<1>2. r \in SessionType /\ r.req = s.req /\ r.pc = "ready" /\ r.result = "applied"
      /\ r.epoch = e
  BY ZenonT(40) DEF Busy, Return, SessionType, Results
<1>3. /\ t.token = r.token /\ t.head = r.head /\ t.epoch = r.epoch /\ t.stale = r.stale
      /\ t.lastAppend = r.lastAppend /\ t.lastAppendState = r.lastAppendState
      /\ t.pc = "ready" /\ t.op = r.op /\ t.seg = r.seg
      /\ t.result = "applied" /\ t.req = q /\ t.pending = NoPending
  <2> HIDE DEF r
  <2>1. CASE t = [r EXCEPT !.req = q, !.pending = NoPending]
    BY <1>2, <2>1 DEF SessionType
  <2>2. CASE s.req = q /\ t = [r EXCEPT !.pending = NoPending]
    BY <1>2, <2>2 DEF SessionType
  <2> QED BY <2>1, <2>2 DEF r
<1> HIDE DEF r
<1>4. CacheOK(t, st) /\ FenceOK(w, t, st.head)
  BY <1>1, <1>3 DEF SessionOK, CacheOK, FenceOK
<1>5. OwnOK(w, t)
  BY <1>1, <1>2, <1>3 DEF SessionOK, OwnOK
<1>6. MemoryOK(t, st.head, cm)
  BY <1>1, <1>3 DEF SessionOK, MemoryOK, HasPending, NoPending, NoRequest
<1> QED BY <1>2, <1>3, <1>4, <1>5, <1>6 DEF Fine, Told, SessionOK, Serving

\* So does a call whose pending retention turned out to be in the head.
LEMMA ResolvedFine ==
  ASSUME NEW w, NEW e, NEW s, NEW st, NEW cm, Busy(w, e, s, st, cm), s.pc # "retry", ~s.stale,
         HasPending(s), s.pending.req.ver <= st.head.retVer, NEW t \in Resolved(s)
  PROVE  Fine(w, e, t, st, cm)
<1> DEFINE r == [s EXCEPT !.pending.resolved = TRUE, !.attempt = 0]
<1>1. /\ r \in SessionType
      /\ r.token = s.token /\ r.head = s.head /\ r.epoch = s.epoch /\ r.stale = s.stale
      /\ r.lastAppend = s.lastAppend /\ r.lastAppendState = s.lastAppendState
      /\ r.pc = s.pc /\ r.op = s.op /\ r.seg = s.seg
      /\ r.pending.req = s.pending.req /\ r.pending.mutation = s.pending.mutation
  BY DEF Busy, SessionType
<1>2. t \in (IF s.op = "append" THEN AppendBody(r) ELSE {AcknowledgePending(r)})
  BY DEF Resolved
<1> HIDE DEF r
<1>3. CacheOK(r, st) /\ FenceOK(w, r, st.head)
  BY <1>1 DEF Busy, SessionOK, CacheOK, FenceOK
<1>4. OwnOK(w, r)
  BY <1>1 DEF Busy, SessionOK, OwnOK
<1>5. MemoryOK(r, st.head, cm)
  BY <1>1 DEF Busy, SessionOK, MemoryOK, HasPending
<1>6. Busy(w, e, r, st, cm) /\ ~r.stale
  BY <1>1, <1>3, <1>4, <1>5 DEF Busy, SessionOK
<1>7. r.pending.req \in Requests /\ r.pending.req.ver <= st.head.retVer
  BY <1>1 DEF Busy, SessionOK, MemoryOK
<1>8. Fine(w, e, AcknowledgePending(r), st, cm)
  BY <1>6, <1>7, ForgetFine DEF AcknowledgePending
<1> QED BY <1>2, <1>6, <1>8, AppendBodyFine

\* commitLocked succeeded with record s: the segment or the retention it was
\* to commit is in the head.
LEMMA CommitDoneFine ==
  ASSUME NEW w, NEW e, NEW s, NEW st, NEW cm, Busy(w, e, s, st, cm), s.pc # "retry", NEW m,
         ~Unresolved(s) => /\ s.op = "append" /\ s.seg \in Segment /\ s.seg \in cm
                           /\ PartitionHead(m) = EndState(s.seg),
         Unresolved(s) => /\ s.pending.req.ver <= st.head.retVer
                          /\ s.op = "retention" => s.req = s.pending.req,
         NEW t \in CommitDone(s, m)
  PROVE  Fine(w, e, t, st, cm)
<1>1. CASE ~Unresolved(s)
  <2> DEFINE r == Return(s, "ok")
  <2>1. SessionOK(w, r, st, cm)
    BY ReturnFine
  <2>2. r \in SessionType /\ r.seg = s.seg /\ r.pc = "ready" /\ r.result = "ok"
        /\ r.epoch = e
    BY ZenonT(40) DEF Return, Busy, SessionType, Results
  <2>3. t = [r EXCEPT !.state = PartitionHead(m), !.lastAppend = s.seg,
                     !.lastAppendState = PartitionHead(m)]
    BY <1>1 DEF CommitDone
  <2> HIDE DEF r
  <2>4. /\ t.token = r.token /\ t.head = r.head /\ t.epoch = r.epoch /\ t.stale = r.stale
        /\ t.pending = r.pending /\ t.pc = r.pc /\ t.op = r.op /\ t.seg = r.seg
        /\ t.result = r.result
        /\ t.state = PartitionHead(m) /\ t.lastAppend = s.seg
        /\ t.lastAppendState = PartitionHead(m)
    BY <2>2, <2>3 DEF SessionType
  <2>5. CacheOK(t, st) /\ FenceOK(w, t, st.head) /\ OwnOK(w, t)
    BY <2>1, <2>4 DEF SessionOK, CacheOK, FenceOK, OwnOK
  <2>6. MemoryOK(t, st.head, cm)
    BY <1>1, <2>1, <2>4 DEF SessionOK, MemoryOK, HasPending
  <2> QED BY <1>1, <2>2, <2>4, <2>5, <2>6 DEF Fine, Told, SessionOK, Serving
<1>2. CASE Unresolved(s) /\ s.op = "retention"
  <2>1. s.pending.req \in Requests
    BY <1>2 DEF Busy, SessionOK, MemoryOK, Unresolved
  <2>2. t = [Return(s, "applied") EXCEPT !.pending = NoPending]
    BY <1>2 DEF CommitDone
  <2> QED BY <1>2, <2>1, <2>2, ForgetFine
<1>3. CASE Unresolved(s) /\ s.op # "retention"
  <2>1. Fine(w, e, Return(s, "stale"), st, cm)
    BY ReturnFine
  <2>2. s.stale \in BOOLEAN /\ HasPending(s)
    BY <1>3 DEF Busy, SessionType, Unresolved
  <2>3. CASE s.stale
    BY <1>3, <2>1, <2>3 DEF CommitDone
  <2>4. CASE ~s.stale
    <3>1. t \in Resolved(s)
      BY <1>3, <2>4 DEF CommitDone
    <3> QED BY <1>3, <2>2, <2>4, <3>1, ResolvedFine
  <2> QED BY <2>3, <2>4
<1> QED BY <1>1, <1>2, <1>3

\* So does a commit that failed for good.
LEMMA CommitFailedFine ==
  ASSUME NEW w, NEW e, NEW s, NEW st, NEW cm, Busy(w, e, s, st, cm),
         NEW res \in Results \ {"ok", "applied"}
  PROVE  Fine(w, e, CommitFailed(s, res), st, cm)
<1>1. Fine(w, e, Return(s, res), st, cm) /\ Fine(w, e, Return(s, "indeterminate"), st, cm)
  BY ReturnFine
<1>2. CASE Unresolved(s) /\ s.op = "retention"
  <2> DEFINE r == Return(s, res)
             p == IF res = "indeterminate" THEN r.pending ELSE NoPending
             t == [r EXCEPT !.pending = p]
  <2>1. r \in SessionType /\ r.pc = "ready" /\ r.result = res /\ r.epoch = e
    BY DEF Return, Busy, SessionType
  <2>2. CommitFailed(s, res) = t
    BY <1>2 DEF CommitFailed
  <2>3. p = r.pending \/ p = NoPending
    OBVIOUS
  <2> HIDE DEF r, p
  <2>4. /\ t.token = r.token /\ t.head = r.head /\ t.epoch = r.epoch /\ t.stale = r.stale
        /\ t.lastAppend = r.lastAppend /\ t.lastAppendState = r.lastAppendState
        /\ t.pending = p /\ t.pc = r.pc /\ t.op = r.op /\ t.seg = r.seg
        /\ t.result = r.result
    BY <2>1 DEF SessionType
  <2> HIDE DEF t
  <2>5. SessionOK(w, r, st, cm)
    BY <1>1 DEF Fine, r
  <2>6. CacheOK(t, st) /\ FenceOK(w, t, st.head) /\ OwnOK(w, t)
    BY <2>4, <2>5 DEF SessionOK, CacheOK, FenceOK, OwnOK
  <2>7. MemoryOK(t, st.head, cm)
    BY <2>3, <2>4, <2>5 DEF SessionOK, MemoryOK, HasPending, NoPending, NoRequest
  <2> QED BY <2>1, <2>2, <2>4, <2>6, <2>7 DEF Fine, Told, SessionOK, Serving
<1>3. CASE ~(Unresolved(s) /\ s.op = "retention")
  BY <1>1, <1>3 DEF CommitFailed
<1> QED BY <1>2, <1>3

\* So does a commit that is tried again.
LEMMA NextAttemptFine ==
  ASSUME NEW w, NEW e, NEW s, NEW st, NEW cm, Busy(w, e, s, st, cm), s.pc \in {"commit", "confirm"},
         NEW t \in NextAttempt(s)
  PROVE  Fine(w, e, t, st, cm)
<1> DEFINE r == [s EXCEPT !.attempt = @ + 1]
<1>1. /\ r.token = s.token /\ r.head = s.head /\ r.epoch = s.epoch /\ r.stale = s.stale
      /\ r.pending = s.pending /\ r.lastAppend = s.lastAppend
      /\ r.lastAppendState = s.lastAppendState /\ r.pc = s.pc /\ r.op = s.op
      /\ r.seg = s.seg
  BY DEF Busy, SessionType
<1>2. t = r \/ t = CommitFailed(s, "indeterminate")
  BY DEF NextAttempt
<1>3. Fine(w, e, CommitFailed(s, "indeterminate"), st, cm)
  BY CommitFailedFine DEF Results
<1> HIDE DEF r
<1>4. SessionOK(w, r, st, cm)
  BY <1>1, SameSession DEF Busy
<1>5. Fine(w, e, r, st, cm)
  BY <1>1, <1>4 DEF Fine, Told, Busy
<1> QED BY <1>2, <1>3, <1>5

\* The mutation a commit is about.
LEMMA MutationFields ==
  ASSUME NEW s \in SessionType, CallOK(s), s.pc \in {"commit", "confirm"}
  PROVE  /\ Legal(s.head, Mutation(s))
         /\ ~Unresolved(s) => /\ s.op = "append" /\ s.seg \in Segment
                              /\ CanAppend(s.head, s.seg)
                              /\ Mutation(s) = AppendSeg(s.head, s.seg)
                              /\ s.seg \in Mutation(s).log
                              /\ PartitionHead(Mutation(s)) = EndState(s.seg)
         /\ Unresolved(s) => /\ s.pending.req \in Requests
                             /\ CanRetain(s.head, s.pending.req)
                             /\ Mutation(s) = ApplyRetention(s.head, s.pending.req)
                             /\ Mutation(s).retVer = s.pending.req.ver
                             /\ s.op = "retention" => s.req = s.pending.req
<1>1. s.head \in Heads
  BY DEF SessionType
<1>2. CASE ~Unresolved(s)
  <2>1. /\ s.op = "append" /\ s.seg \in Segment /\ CanAppend(s.head, s.seg)
        /\ Mutation(s) = AppendSeg(s.head, s.seg)
    BY <1>2 DEF CallOK, Mutation
  <2>2. /\ Mutation(s).epoch = s.head.epoch /\ Mutation(s).next = s.seg.last + 1
        /\ Mutation(s).log = s.head.log \cup {s.seg}
    BY <1>1, <2>1, AppendFields
  <2>3. s.head.epoch = s.seg.epoch
    BY <2>1 DEF CanAppend
  <2> QED BY <1>2, <2>1, <2>2, <2>3 DEF Legal, PartitionHead, EndState
<1>3. CASE Unresolved(s)
  <2>1. /\ s.pending.req \in Requests /\ CanRetain(s.head, s.pending.req)
        /\ Mutation(s) = ApplyRetention(s.head, s.pending.req)
        /\ s.op = "retention" => s.req = s.pending.req
    BY <1>3 DEF CallOK, Built, Mutation
  <2>2. Mutation(s).retVer = s.pending.req.ver
    BY <1>1, <2>1, RetentionFields
  <2> QED BY <1>3, <2>1, <2>2 DEF Legal
<1> QED BY <1>2, <1>3

\* So does reconcile, which tells from the head what became of a commit.
LEMMA ReconcileFine ==
  ASSUME TypeOK, StoreInv, NEW w, NEW e, NEW s, Busy(w, e, s, store, committed), CallOK(s),
         s.pc \in {"commit", "confirm"},
         NEW unchanged, \A u \in unchanged : Fine(w, e, u, store, committed),
         NEW t \in Reconcile(w, s, unchanged)
  PROVE  Fine(w, e, t, store, committed)
<1> DEFINE b == s.stale \/ Fenced(store.head, w, s.epoch)
           seen == [s EXCEPT !.stale = b]
           done == [seen EXCEPT !.head = store.head, !.token = store.token]
           m == Mutation(s)
<1>1. /\ s \in SessionType /\ b \in BOOLEAN
      /\ store.head \in Heads /\ store.token \in Nat /\ SoundHead(store.head, committed)
  BY StoreSound DEF Busy, SessionType, Fenced
<1>2. b <=> s.stale \/ Fenced(store.head, w, s.epoch)
  OBVIOUS
<1>3. \/ t = CommitFailed(seen, "failed")
      \/ t \in CommitDone(done, m) /\ (store.head = m \/ Applied(s, store.head))
      \/ t = CommitFailed(seen, "stale")
      \/ t \in unchanged
      \/ t = CommitFailed(seen, "conflict")
  BY DEF Reconcile
<1> HIDE DEF b
<1>4. /\ seen \in SessionType
      /\ seen.pc = s.pc /\ seen.epoch = s.epoch /\ seen.stale = b
      /\ seen.head = s.head /\ seen.token = s.token /\ seen.pending = s.pending
      /\ seen.lastAppend = s.lastAppend /\ seen.lastAppendState = s.lastAppendState
      /\ seen.op = s.op /\ seen.seg = s.seg /\ seen.req = s.req
  BY <1>1 DEF SessionType
<1> HIDE DEF seen
<1>5. /\ done \in SessionType
      /\ done.pc = s.pc /\ done.epoch = s.epoch /\ done.stale = b
      /\ done.head = store.head /\ done.token = store.token /\ done.pending = s.pending
      /\ done.lastAppend = s.lastAppend /\ done.lastAppendState = s.lastAppendState
      /\ done.op = s.op /\ done.seg = s.seg /\ done.req = s.req
  BY <1>1, <1>4 DEF SessionType
<1> HIDE DEF done
<1>6. Busy(w, e, seen, store, committed)
  <2>1. SessionOK(w, seen, store, committed)
    BY <1>1, <1>2, <1>4, Observed DEF Busy, Serving
  <2> QED BY <1>4, <2>1 DEF Busy, Serving
<1>7. Busy(w, e, done, store, committed)
  <2>1. SessionOK(w, done, store, committed)
    BY <1>1, <1>2, <1>5, Observed DEF Busy, Serving
  <2> QED BY <1>5, <2>1 DEF Busy, Serving
<1>8. /\ Fine(w, e, CommitFailed(seen, "failed"), store, committed)
      /\ Fine(w, e, CommitFailed(seen, "stale"), store, committed)
      /\ Fine(w, e, CommitFailed(seen, "conflict"), store, committed)
  BY <1>6, CommitFailedFine DEF Results
<1>9. ASSUME store.head = m \/ Applied(s, store.head), t \in CommitDone(done, m)
      PROVE  Fine(w, e, t, store, committed)
  <2>1. Unresolved(done) <=> Unresolved(s)
    BY <1>5 DEF Unresolved, HasPending
  <2>2. store.head.log \subseteq committed
    BY <1>1 DEF SoundHead, HeadOK
  <2>3. ~Unresolved(s) => s.seg \in committed
    BY <1>1, <1>9, <2>2, MutationFields DEF Applied, FindSegment
  <2>4. Unresolved(s) => s.pending.req.ver <= store.head.retVer
    <3>1. store.head.retVer \in Nat
      BY <1>1, HeadFields
    <3> QED BY <1>1, <1>9, <3>1, MutationFields DEF Applied, RetentionApplied
  <2>5. ~Unresolved(s) => s.op = "append" /\ s.seg \in Segment
                          /\ PartitionHead(m) = EndState(s.seg)
    BY <1>1, MutationFields
  <2>6. Unresolved(s) => (s.op = "retention" => s.req = s.pending.req)
    BY <1>1, MutationFields
  <2>7. done.pc # "retry"
    BY <1>5
  <2> HIDE DEF m
  <2> QED BY <1>5, <1>7, <1>9, <2>1, <2>3, <2>4, <2>5, <2>6, <2>7, CommitDoneFine
<1> QED BY <1>3, <1>8, <1>9

\* AppendSegment reports a segment that is in the history, with its end.
LEMMA OkFine ==
  ASSUME NEW w, NEW e, NEW s, NEW st, NEW cm, Busy(w, e, s, st, cm), s.seg \in cm,
         NEW state, state = EndState(s.seg)
  PROVE  Fine(w, e, [Return(s, "ok") EXCEPT !.state = state], st, cm)
<1> DEFINE r == Return(s, "ok")
           t == [r EXCEPT !.state = state]
<1>1. SessionOK(w, r, st, cm)
  BY ReturnFine
<1>2. r \in SessionType /\ r.seg = s.seg /\ r.pc = "ready" /\ r.result = "ok"
      /\ r.epoch = e
  BY ZenonT(40) DEF Return, Busy, SessionType, Results
<1> HIDE DEF r
<1>3. /\ t.token = r.token /\ t.head = r.head /\ t.epoch = r.epoch /\ t.stale = r.stale
      /\ t.pending = r.pending /\ t.lastAppend = r.lastAppend
      /\ t.lastAppendState = r.lastAppendState
      /\ t.pc = r.pc /\ t.op = r.op /\ t.seg = r.seg
      /\ t.result = r.result /\ t.state = state
  BY <1>2 DEF SessionType
<1> HIDE DEF t
<1>4. SessionOK(w, t, st, cm)
  BY <1>1, <1>2, <1>3, SameSession
<1>5. Fine(w, e, t, st, cm)
  BY <1>2, <1>3, <1>4 DEF Fine, Told, Serving
<1> QED BY <1>5 DEF t, r

-----------------------------------------------------------------------------
(* The actions.                                                             *)

\* What the invariant says of the session of one writer.
LEMMA SessionFacts ==
  ASSUME IInv, NEW w \in Writers
  PROVE  /\ sess[w] \in SessionType /\ CallOK(sess[w])
         /\ SessionOK(w, sess[w], store, committed)
         /\ sess[w].pc \in Serving => Busy(w, sess[w].epoch, sess[w], store, committed)
BY DEF IInv, TypeOK, CallInv, SessionInv, Busy

\* refreshLocked leaves a session that may go on with its call or end it.
LEMMA ObserveBusy ==
  ASSUME IInv, NEW w \in Writers, sess[w].pc \in Serving
  PROVE  LET o == Observe(w, sess[w])
             r == [o EXCEPT !.pc = "ready"]
         IN  /\ o.pc # "retry" => Busy(w, sess[w].epoch, o, store, committed)
             /\ Busy(w, sess[w].epoch, r, store, committed)
             /\ \A res : Return(o, res) = Return(r, res)
             /\ o.head = store.head /\ o.pc = sess[w].pc /\ o.pending = sess[w].pending
             /\ o.op = sess[w].op /\ o.seg = sess[w].seg /\ o.req = sess[w].req
             /\ r.seg = sess[w].seg
<1> DEFINE s == sess[w]
           b == s.stale \/ Fenced(store.head, w, s.epoch)
           o == Observe(w, s)
           r == [o EXCEPT !.pc = "ready"]
<1>1. s \in SessionType /\ SessionOK(w, s, store, committed)
  BY SessionFacts
<1>2. b \in BOOLEAN /\ store.head \in Heads /\ store.token \in Nat /\ TypeOK /\ StoreInv
  BY <1>1, StoreSound DEF IInv, SessionType, Fenced
<1>3. o = [s EXCEPT !.stale = b, !.head = store.head, !.token = store.token]
  BY DEF Observe
<1>4. b <=> s.stale \/ Fenced(store.head, w, s.epoch)
  OBVIOUS
<1>5. s.pc \in Serving
  OBVIOUS
<1> HIDE DEF b, s, o
<1>6. /\ o \in SessionType
      /\ o.pc = s.pc /\ o.epoch = s.epoch /\ o.stale = b
      /\ o.head = store.head /\ o.token = store.token /\ o.pending = s.pending
      /\ o.lastAppend = s.lastAppend /\ o.lastAppendState = s.lastAppendState
      /\ o.op = s.op /\ o.seg = s.seg /\ o.req = s.req
  BY <1>1, <1>2, <1>3 DEF SessionType
<1>7. /\ r \in SessionType
      /\ r.pc = "ready" /\ r.epoch = s.epoch /\ r.stale = b
      /\ r.head = store.head /\ r.token = store.token /\ r.pending = s.pending
      /\ r.lastAppend = s.lastAppend /\ r.lastAppendState = s.lastAppendState
      /\ r.op = s.op /\ r.seg = s.seg
  BY <1>6 DEF SessionType
<1>8. \A res : Return(o, res) = Return(r, res)
  BY <1>6 DEF Return, SessionType
<1> HIDE DEF r
<1>9. o.pc # "retry" => SessionOK(w, o, store, committed)
  BY <1>1, <1>2, <1>4, <1>5, <1>6, Observed
<1>10. SessionOK(w, r, store, committed)
  BY <1>1, <1>2, <1>4, <1>5, <1>7, Observed DEF Serving
<1> QED BY <1>5, <1>6, <1>7, <1>8, <1>9, <1>10 DEF Busy, Serving, r, o, s

\* Whatever a call does next, the record it leaves is true of the store as the
\* step leaves it, and so is what its caller is told.
Leaves(w) == \E t : Step(w, t) /\ Fine(w, sess[w].epoch, t, store', committed')

\* AppendSegment leaves its session as the invariant wants it.
LEMMA AppendSegmentFine ==
  ASSUME IInv, NEW w \in Writers, NEW seg \in Segment, AppendSegment(w, seg)
  PROVE  Leaves(w)
<1> DEFINE s == sess[w]
           e == s.epoch
           a == [s EXCEPT !.op = "append", !.seg = seg]
<1>1. s \in SessionType /\ SessionOK(w, s, store, committed)
  BY SessionFacts
<1>2. s.pc = "ready" /\ seg.epoch = a.epoch /\ seg.tag = w
      /\ UNCHANGED <<store, inflight, mailbox, committed>>
  BY DEF AppendSegment
<1>3. PICK t : /\ Step(w, t)
               /\ \/ t \in {Return(a, "stale"), Return(a, "indeterminate")}
                  \/ a.lastAppend = seg /\ t = [Return(a, "ok") EXCEPT !.state = a.lastAppendState]
                  \/ t = [a EXCEPT !.pc = "resolve"]
                  \/ ~a.stale /\ t \in AppendBody(a)
  BY DEF AppendSegment
<1> HIDE DEF s
<1>4. /\ a \in SessionType /\ a.pc = "ready" /\ a.epoch = e /\ a.op = "append" /\ a.seg = seg
      /\ a.token = s.token /\ a.head = s.head /\ a.stale = s.stale
      /\ a.pending = s.pending /\ a.lastAppend = s.lastAppend
      /\ a.lastAppendState = s.lastAppendState
  BY <1>1, <1>2 DEF SessionType
<1> HIDE DEF a
<1>5. Busy(w, e, a, store, committed)
  <2>1. CacheOK(a, store) /\ FenceOK(w, a, store.head)
    BY <1>1, <1>4 DEF SessionOK, CacheOK, FenceOK
  <2>2. OwnOK(w, a)
    BY <1>1, <1>2, <1>4 DEF SessionOK, OwnOK
  <2>3. MemoryOK(a, store.head, committed)
    BY <1>1, <1>4 DEF SessionOK, MemoryOK, HasPending
  <2> QED BY <1>4, <2>1, <2>2, <2>3 DEF Busy, SessionOK, Serving
<1>6. /\ Fine(w, e, Return(a, "stale"), store, committed)
      /\ Fine(w, e, Return(a, "indeterminate"), store, committed)
  BY <1>5, ReturnFine
<1>7. Fine(w, e, [a EXCEPT !.pc = "resolve"], store, committed)
  BY <1>5, EnterFine DEF Serving
<1>8. a.lastAppend = seg =>
        Fine(w, e, [Return(a, "ok") EXCEPT !.state = a.lastAppendState], store, committed)
  <2>1. seg # NoSegment
    BY SegmentFields
  <2>2. a.lastAppend = seg => seg \in committed /\ a.lastAppendState = EndState(seg)
    BY <1>5, <2>1 DEF Busy, SessionOK, MemoryOK
  <2> QED BY <1>4, <1>5, <2>2, OkFine
<1>9. ~a.stale /\ t \in AppendBody(a) => Fine(w, e, t, store, committed)
  BY <1>5, AppendBodyFine
<1>10. Fine(w, e, t, store', committed')
  BY <1>2, <1>3, <1>6, <1>7, <1>8, <1>9
<1> QED BY <1>3, <1>10 DEF Leaves, s

\* So does ApplyPendingRetention.
LEMMA ApplyPendingFine ==
  ASSUME IInv, NEW w \in Writers, ApplyPendingRetention(w)
  PROVE  Leaves(w)
<1> DEFINE s == sess[w]
           e == s.epoch
           op == IF HasPending(s) THEN "reconcile" ELSE "retention"
           a == [s EXCEPT !.op = op]
           u == [a EXCEPT !.pc = "refresh", !.req = mailbox]
<1>1. s \in SessionType /\ SessionOK(w, s, store, committed)
  BY SessionFacts
<1>2. s.pc = "ready" /\ UNCHANGED <<store, inflight, mailbox, committed>>
  BY DEF ApplyPendingRetention
<1>3. PICK t : /\ Step(w, t)
               /\ \/ t \in {Return(a, "stale"), Return(a, "failed")}
                  \/ HasPending(a) /\ ~Unresolved(a) /\ t = AcknowledgePending(a)
                  \/ t = [a EXCEPT !.pc = "resolve"]
                  \/ t = u
  BY DEF ApplyPendingRetention
<1>4. op \in {"reconcile", "retention"} /\ mailbox \in Requests \cup {NoRequest}
  BY DEF IInv, TypeOK
<1> HIDE DEF s, op
<1>5. /\ a \in SessionType /\ a.pc = "ready" /\ a.epoch = e /\ a.op = op /\ a.seg = s.seg
      /\ a.token = s.token /\ a.head = s.head /\ a.stale = s.stale
      /\ a.pending = s.pending /\ a.lastAppend = s.lastAppend
      /\ a.lastAppendState = s.lastAppendState
  BY <1>1, <1>2, <1>4 DEF SessionType
<1> HIDE DEF a
<1>6. Busy(w, e, a, store, committed)
  <2>1. SessionOK(w, a, store, committed)
    BY <1>1, <1>2, <1>4, <1>5, SameSession DEF Serving
  <2> QED BY <1>5, <2>1 DEF Busy, Serving
<1>7. /\ Fine(w, e, Return(a, "stale"), store, committed)
      /\ Fine(w, e, Return(a, "failed"), store, committed)
  BY <1>6, ReturnFine
<1>8. Fine(w, e, [a EXCEPT !.pc = "resolve"], store, committed)
  BY <1>6, EnterFine DEF Serving
<1>9. Fine(w, e, u, store, committed)
  <2>1. /\ u.pc = "refresh" /\ u.epoch = e /\ u.op = a.op /\ u.seg = a.seg
        /\ u.token = a.token /\ u.head = a.head /\ u.stale = a.stale
        /\ u.pending = a.pending /\ u.lastAppend = a.lastAppend
        /\ u.lastAppendState = a.lastAppendState
    BY <1>5 DEF SessionType
  <2> HIDE DEF u
  <2>2. SessionOK(w, u, store, committed)
    BY <1>6, <2>1, SameSession DEF Busy
  <2> QED BY <2>1, <2>2 DEF Fine, Told, Serving
<1>10. HasPending(a) /\ ~Unresolved(a) => Fine(w, e, AcknowledgePending(a), store, committed)
  <2>1. HasPending(a) /\ ~Unresolved(a) => a.pending.req \in Requests
                                           /\ a.pending.req.ver <= store.head.retVer
    BY <1>6 DEF Busy, SessionOK, MemoryOK, Unresolved
  <2> QED BY <1>6, <2>1, ForgetFine DEF AcknowledgePending
<1>11. Fine(w, e, t, store', committed')
  BY <1>2, <1>3, <1>7, <1>8, <1>9, <1>10
<1> QED BY <1>3, <1>11 DEF Leaves, s

\* So does the refresh that a retention call begins with.
LEMMA RetentionRefreshFine ==
  ASSUME IInv, NEW w \in Writers, RetentionRefresh(w)
  PROVE  Leaves(w)
<1> DEFINE s == sess[w]
           e == s.epoch
           o == Observe(w, s)
           p == [req |-> o.req, previous |-> o.head,
                 mutation |-> ApplyRetention(o.head, o.req), resolved |-> FALSE]
           u == [o EXCEPT !.pc = "commit", !.pending = p]
<1>1. s.pc = "refresh" /\ UNCHANGED <<store, inflight, mailbox, committed>>
  BY DEF RetentionRefresh
<1>2. PICK t : /\ Step(w, t)
               /\ \/ t = Return(s, "failed")
                  \/ t \in {Return(o, "stale"), Return(o, "unapplied"), Return(o, "failed")}
                  \/ CanRetain(o.head, o.req) /\ t = u
  BY DEF RetentionRefresh
<1>3. Busy(w, e, s, store, committed) /\ Busy(w, e, o, store, committed)
      /\ o.head = store.head /\ o.pc = "refresh"
  BY <1>1, SessionFacts, ObserveBusy DEF Serving
<1> HIDE DEF s, o
<1>4. /\ Fine(w, e, Return(s, "failed"), store, committed)
      /\ Fine(w, e, Return(o, "stale"), store, committed)
      /\ Fine(w, e, Return(o, "unapplied"), store, committed)
      /\ Fine(w, e, Return(o, "failed"), store, committed)
  BY <1>3, ReturnFine
<1>5. ASSUME CanRetain(o.head, o.req) PROVE Fine(w, e, u, store, committed)
  <2>1. o \in SessionType /\ o.head \in Heads /\ o.req \in Requests \cup {NoRequest}
    BY <1>3 DEF Busy, SessionType
  <2>2. o.req \in Requests
    BY <1>5, <2>1, HeadFields DEF CanRetain, NoRequest
  <2>3. p.req = o.req /\ p.mutation.retVer = o.req.ver /\ p.resolved = FALSE
    BY <2>1, RetentionFields
  <2> HIDE DEF p
  <2>4. /\ u.pc = "commit" /\ u.epoch = o.epoch /\ u.op = o.op /\ u.seg = o.seg
        /\ u.token = o.token /\ u.head = o.head /\ u.stale = o.stale
        /\ u.pending = p /\ u.lastAppend = o.lastAppend
        /\ u.lastAppendState = o.lastAppendState
    BY <2>1 DEF SessionType
  <2> HIDE DEF u
  <2>5. CacheOK(u, store) /\ FenceOK(w, u, store.head)
    BY <1>3, <2>4 DEF Busy, SessionOK, CacheOK, FenceOK
  <2>6. OwnOK(w, u)
    BY <1>3, <2>4 DEF Busy, SessionOK, OwnOK
  <2>7. MemoryOK(u, store.head, committed)
    BY <1>3, <2>2, <2>3, <2>4 DEF Busy, SessionOK, MemoryOK, HasPending
  <2> QED BY <1>3, <2>4, <2>5, <2>6, <2>7 DEF Busy, Fine, Told, SessionOK, Serving
<1>6. Fine(w, e, t, store', committed')
  BY <1>1, <1>2, <1>4, <1>5
<1> QED BY <1>2, <1>6 DEF Leaves, s

\* So does the resolution of a pending retention.
LEMMA ResolveRetentionFine ==
  ASSUME IInv, NEW w \in Writers, ResolveRetention(w)
  PROVE  Leaves(w)
<1> DEFINE s == sess[w]
           e == s.epoch
           o == Observe(w, s)
<1>1. s.pc = "resolve" /\ UNCHANGED <<store, inflight, mailbox, committed>>
  BY DEF ResolveRetention
<1>2. PICK t : /\ Step(w, t)
               /\ \/ t = Return(s, "indeterminate")
                  \/ t \in {Return(o, "stale"), Return(o, "conflict")}
                  \/ ~o.stale /\ RetentionApplied(o.head, Mutation(o)) /\ t \in Resolved(o)
                  \/ t = [o EXCEPT !.pc = "commit"]
  BY DEF ResolveRetention
<1>3. /\ Busy(w, e, s, store, committed) /\ Busy(w, e, o, store, committed)
      /\ o.head = store.head /\ o.pc = "resolve" /\ o.pending = s.pending
  BY <1>1, SessionFacts, ObserveBusy DEF Serving
<1>4. Unresolved(s)
  BY <1>1, SessionFacts DEF CallOK
<1> HIDE DEF s, o
<1>5. /\ Fine(w, e, Return(s, "indeterminate"), store, committed)
      /\ Fine(w, e, Return(o, "stale"), store, committed)
      /\ Fine(w, e, Return(o, "conflict"), store, committed)
  BY <1>3, ReturnFine
<1>6. Fine(w, e, [o EXCEPT !.pc = "commit"], store, committed)
  BY <1>3, EnterFine DEF Serving
<1>7. ASSUME ~o.stale, RetentionApplied(o.head, Mutation(o)), t \in Resolved(o)
      PROVE  Fine(w, e, t, store, committed)
  <2>1. Unresolved(o) /\ HasPending(o)
    BY <1>3, <1>4 DEF Unresolved, HasPending
  <2>2. o.pending.mutation.retVer = o.pending.req.ver
    BY <1>3, <2>1 DEF Busy, SessionOK, MemoryOK
  <2>3. Mutation(o) = o.pending.mutation
    BY <2>1 DEF Mutation
  <2>4. o.pending.req.ver \in Nat /\ store.head.retVer \in Nat
    BY <1>3, <2>1, HeadAssumption, HeadFields DEF Busy, SessionOK, MemoryOK, IInv, TypeOK
  <2>5. o.pending.req.ver <= store.head.retVer
    BY <1>3, <1>7, <2>2, <2>3, <2>4 DEF RetentionApplied
  <2> QED BY <1>3, <1>7, <2>1, <2>5, ResolvedFine
<1>8. Fine(w, e, t, store', committed')
  BY <1>1, <1>2, <1>5, <1>6, <1>7
<1> QED BY <1>2, <1>8 DEF Leaves, s

\* So does an append that looks for itself in the log.
LEMMA AppendRetryFine ==
  ASSUME IInv, NEW w \in Writers, AppendRetry(w)
  PROVE  Leaves(w)
<1> DEFINE s == sess[w]
           e == s.epoch
           o == Observe(w, s)
           r == [o EXCEPT !.pc = "ready"]
           ack == AcknowledgedState(s)
<1>1. s.pc = "retry" /\ UNCHANGED <<store, inflight, mailbox, committed>>
  BY DEF AppendRetry
<1>2. PICK t : /\ Step(w, t)
               /\ \/ t = Return(s, "failed")
                  \/ t \in {Return(o, "failed"), Return(o, "indeterminate")}
                  \/ /\ s.seg \in FindSegment(o.head, s.seg.base)
                     /\ t = [Return(o, "ok") EXCEPT !.state = ack]
  BY DEF AppendRetry
<1>3. /\ Busy(w, e, s, store, committed) /\ Busy(w, e, r, store, committed)
      /\ (\A res : Return(o, res) = Return(r, res))
      /\ o.head = store.head /\ r.seg = s.seg
  BY <1>1, SessionFacts, ObserveBusy DEF Serving
<1>4. CallOK(s)
  BY SessionFacts
<1> HIDE DEF s, o, r, ack
<1>5. /\ Fine(w, e, Return(s, "failed"), store, committed)
      /\ Fine(w, e, Return(r, "failed"), store, committed)
      /\ Fine(w, e, Return(r, "indeterminate"), store, committed)
  BY <1>3, ReturnFine
<1>6. ASSUME s.seg \in FindSegment(o.head, s.seg.base)
      PROVE  Fine(w, e, [Return(r, "ok") EXCEPT !.state = ack], store, committed)
  <2>1. r.seg \in committed
    BY <1>3, <1>6 DEF FindSegment, IInv, StoreInv, HeadOK
  <2>2. s.op = "append" /\ s.seg \in Segment /\ s.seg # NoSegment
    BY <1>1, <1>4, SegmentFields DEF CallOK
  <2>3. CASE s.lastAppend = s.seg
    <3>1. ack = EndState(s.seg)
      BY <1>3, <2>2, <2>3 DEF ack, AcknowledgedState, Busy, SessionOK, MemoryOK
    <3> QED BY <1>3, <2>1, <3>1, OkFine
  <2>4. CASE s.lastAppend # s.seg
    <3>1. ack = PartitionHead(s.head)
      BY <2>4 DEF ack, AcknowledgedState
    <3>2. /\ s.head.last = s.seg /\ ~s.stale /\ s.head.epoch = s.epoch
          /\ s.seg.epoch = s.epoch /\ s.head.next = s.seg.last + 1
      BY <1>1, <1>3, <2>2 DEF Busy, SessionOK, OwnOK, Serving
    <3>3. ack = EndState(s.seg)
      BY <3>1, <3>2 DEF PartitionHead, EndState
    <3> QED BY <1>3, <2>1, <3>3, OkFine
  <2> QED BY <2>3, <2>4
<1>7. Fine(w, e, t, store', committed')
  BY <1>1, <1>2, <1>3, <1>5, <1>6
<1> QED BY <1>2, <1>7 DEF Leaves, s

\* The four outcomes of a conditional put of a mutation.
LEMMA CommitSwappedFine ==
  ASSUME IInv, TypeOK', NEW w \in Writers, CommitSwapped(w)
  PROVE  Leaves(w) /\ Moved /\ InflightInv'
<1> DEFINE s == sess[w]
           e == s.epoch
           m == Mutation(s)
           o == [s EXCEPT !.head = m, !.token = store.token + 1]
<1>1. s.pc = "commit" /\ s.token = store.token /\ Install(m)
  BY DEF CommitSwapped
<1>2. PICK t \in CommitDone(o, m) : Step(w, t)
  BY DEF CommitSwapped
<1>3. s \in SessionType /\ CallOK(s) /\ SessionOK(w, s, store, committed)
  BY SessionFacts
<1>4. s.head = store.head
  BY <1>1, <1>3 DEF SessionOK, CacheOK
<1>5. Moved
  BY <1>1, <1>3, <1>4, MutationFields DEF Moved
<1>6. StoreInv' /\ SessionOK(w, s, store', committed')
  BY <1>3, <1>5, MoveAdvances, SessionOutlives DEF IInv
<1>7. /\ store'.head = m /\ store'.token = store.token + 1 /\ inflight' = {}
      /\ committed' = committed \cup m.log
  BY <1>1 DEF Install
<1>8. m \in Heads /\ store'.token \in Nat
  BY <1>7 DEF TypeOK
<1>9. m.epoch = s.head.epoch /\ m.writer = s.head.writer
  <2>1. s.head \in Heads
    BY <1>3 DEF SessionType
  <2> QED BY <1>1, <1>3, <2>1, MutationFields, AppendFields, RetentionFields, SMTT(30)
<1>10. /\ ~Unresolved(s) => s.op = "append" /\ s.seg \in Segment /\ s.seg \in committed'
                            /\ PartitionHead(m) = EndState(s.seg)
       /\ Unresolved(s) => s.pending.req.ver <= store'.head.retVer
                           /\ (s.op = "retention" => s.req = s.pending.req)
  <2>1. m.retVer \in Nat
    BY <1>8, HeadFields
  <2> QED BY <1>1, <1>3, <1>7, <2>1, MutationFields
<1> HIDE DEF s, m
<1>11. /\ o \in SessionType
       /\ o.pc = s.pc /\ o.epoch = s.epoch /\ o.stale = s.stale
       /\ o.head = m /\ o.token = store'.token /\ o.pending = s.pending
       /\ o.lastAppend = s.lastAppend /\ o.lastAppendState = s.lastAppendState
       /\ o.op = s.op /\ o.seg = s.seg /\ o.req = s.req
  BY <1>3, <1>7, <1>8 DEF SessionType
<1> HIDE DEF o
<1>12. Busy(w, e, o, store', committed')
  <2>1. CacheOK(o, store') /\ FenceOK(w, o, store'.head)
    BY <1>6, <1>7, <1>8, <1>11 DEF SessionOK, CacheOK, FenceOK
  <2>2. OwnOK(w, o)
    <3>1. m.last # NoSegment => m.next = m.last.last + 1
      BY <1>6, <1>7 DEF StoreInv, HeadOK
    <3> QED BY <1>1, <1>3, <1>9, <1>11, <3>1 DEF SessionOK, OwnOK
  <2>3. MemoryOK(o, store'.head, committed')
    BY <1>6, <1>11 DEF SessionOK, MemoryOK, HasPending
  <2> QED BY <1>1, <1>11, <2>1, <2>2, <2>3 DEF Busy, SessionOK, Serving
<1>13. Unresolved(o) <=> Unresolved(s)
  BY <1>11 DEF Unresolved, HasPending
<1>14. o.pc # "retry"
  BY <1>1, <1>11
<1>15. Fine(w, e, t, store', committed')
  BY <1>2, <1>10, <1>11, <1>12, <1>13, <1>14, CommitDoneFine
<1> QED BY <1>2, <1>5, <1>7, <1>15 DEF Leaves, InflightInv, s

\* So does a commit that lost the swap and reads what the head is.
LEMMA CommitConflictFine ==
  ASSUME IInv, NEW w \in Writers, CommitConflict(w) \/ CommitConfirm(w)
  PROVE  Leaves(w)
<1> DEFINE s == sess[w]
           e == s.epoch
           U == IF s.attempt + 1 < CommitAttempts THEN NextAttempt(s)
                ELSE {CommitFailed(s, "conflict")}
           V == {CommitFailed(s, "unchanged")}
<1>1. /\ s.pc \in {"commit", "confirm"}
      /\ UNCHANGED <<store, inflight, mailbox, committed>>
  BY DEF CommitConflict, CommitConfirm
<1>2. PICK t : /\ Step(w, t)
               /\ \/ t \in Reconcile(w, s, U)
                  \/ t = CommitFailed(s, "indeterminate")
                  \/ t \in Reconcile(w, s, V)
  BY DEF CommitConflict, CommitConfirm
<1>3. Busy(w, e, s, store, committed) /\ CallOK(s) /\ TypeOK /\ StoreInv
  BY <1>1, SessionFacts DEF IInv, Serving
<1> HIDE DEF s
<1>4. /\ Fine(w, e, CommitFailed(s, "conflict"), store, committed)
      /\ Fine(w, e, CommitFailed(s, "indeterminate"), store, committed)
      /\ Fine(w, e, CommitFailed(s, "unchanged"), store, committed)
  BY <1>3, CommitFailedFine DEF Results
<1>5. /\ \A u \in U : Fine(w, e, u, store, committed)
      /\ \A u \in V : Fine(w, e, u, store, committed)
  BY <1>1, <1>3, <1>4, NextAttemptFine
<1> HIDE DEF U, V
<1>6. Fine(w, e, t, store, committed)
  BY <1>1, <1>2, <1>3, <1>4, <1>5, ReconcileFine
<1> QED BY <1>1, <1>2, <1>6 DEF Leaves, s

\* A put that is lost carries a mutation of the head its session has cached.
LEMMA LoseKeeps ==
  ASSUME IInv, NEW w \in Writers, NEW m, Legal(sess[w].head, m), Lose(sess[w].token, m)
  PROVE  Moved /\ InflightInv'
<1>1. UNCHANGED <<store, committed>>
  BY DEF Lose
<1>2. sess[w].token = store.token => sess[w].head = store.head
  BY SessionFacts DEF SessionOK, CacheOK
<1>3. ASSUME NEW r \in inflight'
      PROVE  /\ r.token = store.token
             /\ \/ Legal(store.head, r.head)
                \/ store.token = 0 /\ \E n \in StartLSNs : r.head = NewHead(n)
  <2>1. CASE r \in inflight
    BY <2>1 DEF IInv, InflightInv
  <2>2. CASE r \notin inflight
    <3>1. r = [token |-> sess[w].token, head |-> m] /\ sess[w].token = store.token
      BY <1>3, <2>2 DEF Lose
    <3> QED BY <1>2, <3>1
  <2> QED BY <2>1, <2>2
<1> QED BY <1>1, <1>3 DEF Moved, InflightInv

\* So does a commit that ends without knowing.
LEMMA CommitErrorFine ==
  ASSUME IInv, NEW w \in Writers, CommitError(w)
  PROVE  Leaves(w) /\ Moved /\ InflightInv'
<1> DEFINE s == sess[w]
           e == s.epoch
<1>1. s.pc = "commit" /\ Lose(s.token, Mutation(s))
  BY DEF CommitError
<1>2. PICK t : Step(w, t) /\ (t \in NextAttempt(s) \/ t = [s EXCEPT !.pc = "confirm"])
  BY DEF CommitError
<1>3. Busy(w, e, s, store, committed) /\ CallOK(s) /\ s \in SessionType
  BY <1>1, SessionFacts DEF Serving
<1>4. Moved /\ InflightInv'
  BY <1>1, <1>3, MutationFields, LoseKeeps
<1>5. UNCHANGED <<store, committed>>
  BY <1>1 DEF Lose
<1> HIDE DEF s
<1>6. Fine(w, e, [s EXCEPT !.pc = "confirm"], store, committed)
  BY <1>3, EnterFine DEF Serving
<1>7. Fine(w, e, t, store', committed')
  BY <1>1, <1>2, <1>3, <1>5, <1>6, NextAttemptFine
<1> QED BY <1>2, <1>4, <1>7 DEF Leaves, s

\* A call of w, or a step of one.
CallOf(w) ==
  \/ \E seg \in Segment : AppendSegment(w, seg)
  \/ ApplyPendingRetention(w)
  \/ CallSteps(w)

\* So does every step of a call, and the head only moves as it may.
LEMMA CallFine ==
  ASSUME IInv, TypeOK', NEW w \in Writers, CallOf(w)
  PROVE  Leaves(w) /\ Moved /\ InflightInv'
<1>1. ASSUME UNCHANGED <<store, inflight, mailbox, committed>>
      PROVE  Moved /\ InflightInv'
  BY <1>1 DEF Moved, IInv, InflightInv
<1>2. ASSUME NEW seg \in Segment, AppendSegment(w, seg) PROVE Leaves(w) /\ Moved /\ InflightInv'
  <2>1. UNCHANGED <<store, inflight, mailbox, committed>>
    BY <1>2 DEF AppendSegment
  <2> QED BY <1>1, <1>2, <2>1, AppendSegmentFine
<1>3. CASE ApplyPendingRetention(w)
  <2>1. UNCHANGED <<store, inflight, mailbox, committed>>
    BY <1>3 DEF ApplyPendingRetention
  <2> QED BY <1>1, <1>3, <2>1, ApplyPendingFine
<1>4. CASE RetentionRefresh(w)
  <2>1. UNCHANGED <<store, inflight, mailbox, committed>>
    BY <1>4 DEF RetentionRefresh
  <2> QED BY <1>1, <1>4, <2>1, RetentionRefreshFine
<1>5. CASE ResolveRetention(w)
  <2>1. UNCHANGED <<store, inflight, mailbox, committed>>
    BY <1>5 DEF ResolveRetention
  <2> QED BY <1>1, <1>5, <2>1, ResolveRetentionFine
<1>6. CASE AppendRetry(w)
  <2>1. UNCHANGED <<store, inflight, mailbox, committed>>
    BY <1>6 DEF AppendRetry
  <2> QED BY <1>1, <1>6, <2>1, AppendRetryFine
<1>7. CASE CommitSwapped(w)
  BY <1>7, CommitSwappedFine
<1>8. CASE CommitConflict(w) \/ CommitConfirm(w)
  <2>1. UNCHANGED <<store, inflight, mailbox, committed>>
    BY <1>8 DEF CommitConflict, CommitConfirm
  <2> QED BY <1>1, <1>8, <2>1, CommitConflictFine
<1>9. CASE CommitError(w)
  BY <1>9, CommitErrorFine
<1> QED BY <1>2, <1>3, <1>4, <1>5, <1>6, <1>7, <1>8, <1>9 DEF CallOf, CallSteps

\* A step of w to a record that is true of the new store leaves every session
\* true of it, and gives no epoch out twice.
LEMMA BecomeKeeps ==
  ASSUME IInv, TypeOK', Moved, NEW w \in Writers, NEW r, Become(w, r),
         SessionOK(w, r, store', committed'),
         \/ r.epoch \in {0, sess[w].epoch}
         \/ r.epoch = store'.head.epoch /\ store'.head.writer = w
  PROVE  SessionInv' /\ EpochInv'
<1>1. /\ sess' = [sess EXCEPT ![w] = r] /\ sess \in [Writers -> SessionType]
      /\ TypeOK /\ StoreInv /\ EpochInv
  BY DEF Become, IInv, TypeOK
<1>2. sess'[w] = r /\ \A v \in Writers : v # w => sess'[v] = sess[v]
  BY <1>1
<1>3. \A v \in Writers : SessionOK(v, sess[v], store', committed')
  BY <1>1, SessionFacts, SessionOutlives
<1>4. SessionInv'
  BY <1>2, <1>3 DEF SessionInv
<1>5. ASSUME NEW v \in Writers, v # w, sess[v].epoch # 0 PROVE sess[v].epoch # r.epoch
  <2>1. CASE r.epoch \in {0, sess[w].epoch}
    BY <1>1, <1>5, <2>1 DEF EpochInv
  <2>2. CASE r.epoch = store'.head.epoch /\ store'.head.writer = w
    BY <1>3, <1>5, <2>2 DEF SessionOK, FenceOK
  <2> QED BY <2>1, <2>2
<1>6. EpochInv'
  <2> SUFFICES ASSUME NEW u \in Writers, NEW v \in Writers, u # v, sess'[u].epoch # 0
               PROVE  sess'[u].epoch # sess'[v].epoch
    BY DEF EpochInv
  <2>1. CASE u # w /\ v # w
    BY <1>1, <1>2, <2>1 DEF EpochInv
  <2>2. CASE u = w
    BY <1>2, <1>5, <2>2
  <2>3. CASE v = w
    BY <1>2, <1>5, <2>3
  <2> QED BY <2>1, <2>2, <2>3
<1> QED BY <1>4, <1>6

\* What callers were told stays true while the store moves on.
LEMMA AckOutlives ==
  ASSUME IInv, TypeOK', Moved
  PROVE  /\ \A a \in acked : a.seg \in committed' /\ a.state = EndState(a.seg)
         /\ \A v \in ackedVers : v <= store'.head.retVer
<1>1. Advances(store.head, store'.head) /\ committed \subseteq committed'
  BY MoveAdvances DEF IInv
<1>2. ackedVers \subseteq Nat /\ store.head.retVer \in Nat /\ store'.head.retVer \in Nat
  BY HeadFields DEF IInv, TypeOK
<1> QED BY <1>1, <1>2 DEF IInv, AckInv, Advances

\* The acknowledgements and epochs that other sessions hold outlive the step.
LEMMA CallKeeps ==
  ASSUME IInv, TypeOK', Moved, NEW w \in Writers, Leaves(w)
  PROVE  (SessionInv /\ EpochInv /\ AckInv)'
<1>1. PICK t : Step(w, t) /\ Fine(w, sess[w].epoch, t, store', committed')
  BY DEF Leaves
<1>2. /\ \A a \in acked : a.seg \in committed' /\ a.state = EndState(a.seg)
      /\ \A v \in ackedVers : v <= store'.head.retVer
  BY AckOutlives
<1>3. CASE t.pc # "ready"
  <2>1. Become(w, t) /\ UNCHANGED <<acked, ackedVers>>
    BY <1>1, <1>3 DEF Step, history
  <2>2. SessionInv' /\ EpochInv'
    BY <1>1, <2>1, BecomeKeeps DEF Fine
  <2> QED BY <1>2, <2>1, <2>2 DEF AckInv
<1>4. CASE t.pc = "ready"
  <2> DEFINE r == [t EXCEPT !.op = "none", !.seg = NoSegment, !.req = NoRequest,
                            !.attempt = 0, !.state = NoState, !.result = "none"]
  <2>1. /\ Become(w, r)
        /\ acked' = acked \cup {a \in {[seg |-> t.seg, state |-> t.state]} : t.result = "ok"}
        /\ ackedVers' = ackedVers \cup {v \in {t.req.ver} : t.result = "applied"}
    BY <1>1, <1>4 DEF Step
  <2>2. r \in SessionType
    <3>1. sess'[w] = r
      BY <2>1 DEF Become, IInv, TypeOK
    <3> QED BY <3>1 DEF TypeOK
  <2>3. DOMAIN r = DOMAIN t
    OBVIOUS
  <2>4. DOMAIN r = {"pc", "epoch", "head", "token", "stale", "lastAppend", "lastAppendState",
                    "pending", "op", "seg", "req", "attempt", "result", "state"}
    <3> HIDE DEF r
    <3> QED BY <2>2 DEF SessionType
  <2>5. /\ r.token = t.token /\ r.head = t.head /\ r.epoch = t.epoch /\ r.stale = t.stale
        /\ r.pending = t.pending /\ r.lastAppend = t.lastAppend
        /\ r.lastAppendState = t.lastAppendState /\ r.pc = t.pc /\ r.op = "none"
    BY <2>3, <2>4
  <2> HIDE DEF r
  <2>6. SessionOK(w, r, store', committed')
    BY <1>1, <1>4, <2>5, SameSession DEF Fine
  <2>7. SessionInv' /\ EpochInv'
    BY <1>1, <2>1, <2>5, <2>6, BecomeKeeps DEF Fine
  <2>8. AckInv'
    BY <1>1, <1>2, <1>4, <2>1 DEF AckInv, Fine, Told
  <2> QED BY <2>7, <2>8
<1> QED BY <1>3, <1>4

\* The records of OpenWriter.
LEMMA OpenRecordsOK ==
  ASSUME NEW st \in [token : Nat, head : Heads], NEW cm, HeadOK(st.head, cm),
         st.token = 0 => st.head = NewHead(0), NEW w
  PROVE  /\ SessionOK(w, NewSession, st, cm) /\ NewSession.epoch = 0
         /\ SessionOK(w, ClosedSession, st, cm) /\ ClosedSession.epoch = 0
         /\ LET t == [NewSession EXCEPT !.pc = "acquire", !.head = st.head,
                                        !.token = st.token]
            IN  SessionOK(w, t, st, cm) /\ t.epoch = 0
         /\ st.head.writer = w /\ st.head.epoch # 0 =>
              LET t == NewWriterSession(st.head, st.token)
              IN  SessionOK(w, t, st, cm) /\ t.epoch = st.head.epoch
<1>1. /\ st.token \in Nat /\ st.head.epoch \in Nat
      /\ st.token = 0 => st.head = NewHead(0)
      /\ st.head.last # NoSegment => st.head.next = st.head.last.last + 1
  BY HeadFields DEF HeadOK
<1>2. NewHead(0).last = NoSegment
  BY DEF NewHead
<1>3. ASSUME NEW t, t.stale = FALSE, t.op = "none", t.lastAppend = NoSegment,
             t.pending = NoPending, t.pc # "retry",
             \/ t.token = 0 /\ t.head = NewHead(0)
             \/ t.token = st.token /\ t.head = st.head,
             \/ t.epoch = 0 /\ t.pc \notin Serving
             \/ /\ st.head.writer = w /\ st.head.epoch # 0
                /\ t.epoch = st.head.epoch /\ t.head = st.head
      PROVE  SessionOK(w, t, st, cm)
  <2>1. CacheOK(t, st)
    BY <1>1, <1>3 DEF CacheOK
  <2>2. FenceOK(w, t, st.head)
    BY <1>1, <1>3 DEF FenceOK
  <2>3. OwnOK(w, t)
    BY <1>1, <1>2, <1>3 DEF OwnOK
  <2>4. MemoryOK(t, st.head, cm)
    BY <1>3 DEF MemoryOK, HasPending, NoPending, NoRequest
  <2> QED BY <2>1, <2>2, <2>3, <2>4 DEF SessionOK
<1>4. SessionOK(w, NewSession, st, cm) /\ NewSession.epoch = 0
  BY <1>3 DEF NewSession, Serving
<1>5. SessionOK(w, ClosedSession, st, cm) /\ ClosedSession.epoch = 0
  <2> DEFINE t == ClosedSession
  <2>1. /\ t.stale = FALSE /\ t.op = "none" /\ t.lastAppend = NoSegment
        /\ t.pending = NoPending /\ t.pc = "closed" /\ t.token = 0 /\ t.head = NewHead(0)
        /\ t.epoch = 0
    BY DEF ClosedSession, NewSession
  <2> QED BY <1>3, <2>1 DEF Serving
<1>6. LET t == [NewSession EXCEPT !.pc = "acquire", !.head = st.head, !.token = st.token]
      IN  SessionOK(w, t, st, cm) /\ t.epoch = 0
  <2> DEFINE t == [NewSession EXCEPT !.pc = "acquire", !.head = st.head,
                                     !.token = st.token]
  <2>1. /\ t.stale = FALSE /\ t.op = "none" /\ t.lastAppend = NoSegment
        /\ t.pending = NoPending /\ t.pc = "acquire" /\ t.token = st.token
        /\ t.head = st.head /\ t.epoch = 0
    BY DEF NewSession
  <2> HIDE DEF t
  <2>2. SessionOK(w, t, st, cm)
    BY <1>3, <2>1 DEF Serving
  <2> QED BY <2>1, <2>2 DEF t
<1>7. ASSUME st.head.writer = w, st.head.epoch # 0
      PROVE  LET t == NewWriterSession(st.head, st.token)
             IN  SessionOK(w, t, st, cm) /\ t.epoch = st.head.epoch
  <2> DEFINE t == NewWriterSession(st.head, st.token)
  <2>1. /\ t.stale = FALSE /\ t.op = "none" /\ t.lastAppend = NoSegment
        /\ t.pending = NoPending /\ t.pc = "ready" /\ t.token = st.token
        /\ t.head = st.head /\ t.epoch = st.head.epoch
    BY DEF NewWriterSession, NewSession
  <2> HIDE DEF t
  <2>2. SessionOK(w, t, st, cm)
    BY <1>3, <1>7, <2>1
  <2> QED BY <2>1, <2>2 DEF t
<1> QED BY <1>4, <1>5, <1>6, <1>7

\* The steps of OpenWriter.
LEMMA OpenKeeps ==
  ASSUME IInv, TypeOK', NEW w \in Writers, OpenWriter(w) \/ OpenSteps(w) \/ Crash(w)
  PROVE  Moved /\ (SessionInv /\ EpochInv /\ AckInv /\ InflightInv)'
<1> DEFINE s == sess[w]
<1>1. /\ s \in SessionType /\ SessionOK(w, s, store, committed)
      /\ s.head \in Heads /\ s.head.epoch \in Nat
  BY SessionFacts, HeadFields DEF SessionType
<1>2. /\ store \in [token : Nat, head : Heads] /\ store.head.epoch \in Nat
      /\ StoreInv /\ HeadOK(store.head, committed)
      /\ store.token = 0 => store.head = NewHead(0)
  BY StoreSound, HeadFields DEF IInv, StoreInv
<1>3. UNCHANGED history
  BY DEF OpenWriter, OpenSteps, Crash, AcquireSwapped, AcquireConflict, AcquireError,
         AcquireExhausted, AcquireConfirm
<1>4. Moved => AckInv'
  BY <1>3, AckOutlives DEF AckInv, history
<1>5. ASSUME UNCHANGED <<store, committed>>, NEW t, Become(w, t),
             SessionOK(w, t, store, committed),
             \/ t.epoch \in {0, sess[w].epoch}
             \/ t.epoch = store.head.epoch /\ store.head.writer = w
      PROVE  Moved /\ (SessionInv /\ EpochInv /\ AckInv)'
  <2>1. Moved
    BY <1>5 DEF Moved
  <2>2. SessionOK(w, t, store', committed')
    BY <1>5
  <2>3. \/ t.epoch \in {0, sess[w].epoch}
        \/ t.epoch = store'.head.epoch /\ store'.head.writer = w
    BY <1>5
  <2>4. SessionInv' /\ EpochInv'
    BY <1>5, <2>1, <2>2, <2>3, BecomeKeeps
  <2> QED BY <1>4, <2>1, <2>4
<1>6. UNCHANGED <<store, inflight, committed>> => InflightInv'
  BY DEF IInv, InflightInv
<1>7. ASSUME UNCHANGED <<store, committed>>, Become(w, ClosedSession)
      PROVE  Moved /\ (SessionInv /\ EpochInv /\ AckInv)'
  BY <1>2, <1>5, <1>7, OpenRecordsOK
<1>8. ASSUME UNCHANGED <<store, committed>>, s.pc = "acquire",
             NEW t, Become(w, t),
             NEW a \in Nat,
             \/ t = [s EXCEPT !.attempt = a]
             \/ t = [s EXCEPT !.pc = "acquireConfirm"]
             \/ t = [[s EXCEPT !.head = store.head, !.token = store.token] EXCEPT !.attempt = a]
      PROVE  Moved /\ (SessionInv /\ EpochInv /\ AckInv)'
  <2> HIDE DEF s
  <2>1. /\ \/ t.token = s.token /\ t.head = s.head
           \/ t.token = store.token /\ t.head = store.head
        /\ t.epoch = s.epoch /\ t.stale = s.stale
        /\ t.pending = s.pending /\ t.lastAppend = s.lastAppend
        /\ t.lastAppendState = s.lastAppendState
        /\ t.pc \in {"acquire", "acquireConfirm"}
        /\ t.op = s.op /\ t.seg = s.seg
    <3>1. CASE t = [s EXCEPT !.attempt = a]
      BY <1>1, <1>8, <3>1 DEF SessionType
    <3>2. CASE t = [s EXCEPT !.pc = "acquireConfirm"]
      BY <1>1, <1>8, <3>2 DEF SessionType
    <3>3. CASE t = [[s EXCEPT !.head = store.head, !.token = store.token] EXCEPT !.attempt = a]
      BY <1>1, <1>8, <3>3 DEF SessionType
    <3> QED BY <1>8, <3>1, <3>2, <3>3
  <2>2. CacheOK(t, store) /\ FenceOK(w, t, store.head)
    BY <1>1, <1>2, <2>1 DEF SessionOK, CacheOK, FenceOK
  <2>3. OwnOK(w, t)
    BY <1>1, <1>2, <2>1 DEF SessionOK, OwnOK, HeadOK, Serving
  <2>4. MemoryOK(t, store.head, committed)
    BY <1>1, <2>1 DEF SessionOK, MemoryOK, HasPending
  <2>5. SessionOK(w, t, store, committed)
    BY <2>2, <2>3, <2>4 DEF SessionOK
  <2> QED BY <1>5, <1>8, <2>1, <2>5 DEF s
<1>9. ASSUME UNCHANGED <<store, committed>>,
             Become(w, NewWriterSession(store.head, store.token)),
             store.head.writer = w, store.head.epoch # 0
      PROVE  Moved /\ (SessionInv /\ EpochInv /\ AckInv)'
  BY <1>2, <1>5, <1>9, OpenRecordsOK
<1>10. s.attempt + 1 \in Nat
  BY <1>1 DEF SessionType
<1>11. CASE OpenWriter(w)
  <2>1. UNCHANGED <<store, inflight, committed>>
    BY <1>11 DEF OpenWriter
  <2>2. \/ Become(w, ClosedSession)
        \/ Become(w, [NewSession EXCEPT !.pc = "acquire", !.head = store.head,
                                        !.token = store.token])
    BY <1>11 DEF OpenWriter
  <2> QED BY <1>2, <1>5, <1>6, <1>7, <2>1, <2>2, OpenRecordsOK
<1>12. CASE AcquireSwapped(w)
  <2> DEFINE m == Takeover(s.head, w)
  <2>1. /\ CanTakeover(s.head) /\ s.token = store.token /\ Install(m)
        /\ Become(w, NewWriterSession(m, store.token + 1))
    BY <1>12 DEF AcquireSwapped
  <2>2. s.head = store.head
    BY <1>1, <2>1 DEF SessionOK, CacheOK
  <2>3. Moved
    BY <2>1, <2>2 DEF Moved, Legal
  <2>4. /\ store'.head = m /\ store'.token = store.token + 1 /\ inflight' = {}
        /\ m.writer = w /\ m.epoch = s.head.epoch + 1
    BY <1>1, <2>1, TakeoverFields DEF Install
  <2>5. StoreInv' /\ store' \in [token : Nat, head : Heads]
    BY <1>2, <2>3, MoveAdvances DEF IInv, TypeOK
  <2>6. HeadOK(store'.head, committed') /\ (store'.token = 0 => store'.head = NewHead(0))
    BY <2>5 DEF StoreInv
  <2>7. store'.head.writer = w /\ store'.head.epoch # 0
    BY <1>1, <2>4
  <2>8. /\ SessionOK(w, NewWriterSession(store'.head, store'.token), store', committed')
        /\ NewWriterSession(store'.head, store'.token).epoch = store'.head.epoch
    BY <2>5, <2>6, <2>7, OpenRecordsOK
  <2>9. Become(w, NewWriterSession(store'.head, store'.token))
    BY <2>1, <2>4
  <2>10. SessionInv' /\ EpochInv'
    BY <2>3, <2>7, <2>8, <2>9, BecomeKeeps
  <2> QED BY <1>4, <2>3, <2>4, <2>10 DEF InflightInv
<1>13. CASE AcquireConflict(w)
  <2> DEFINE t == [[s EXCEPT !.head = store.head, !.token = store.token]
                     EXCEPT !.attempt = s.attempt + 1]
  <2>1. UNCHANGED <<store, inflight, committed>> /\ s.pc = "acquire"
    BY <1>13 DEF AcquireConflict
  <2>2. \/ store.head = Takeover(s.head, w) /\ Become(w, NewWriterSession(store.head, store.token))
        \/ Become(w, ClosedSession)
        \/ Become(w, [[s EXCEPT !.head = store.head, !.token = store.token]
                         EXCEPT !.attempt = @ + 1])
    BY <1>13 DEF AcquireConflict, NextAcquire
  <2>3. [[s EXCEPT !.head = store.head, !.token = store.token] EXCEPT !.attempt = @ + 1] = t
    BY <1>1 DEF SessionType
  <2>4. store.head = Takeover(s.head, w) => store.head.writer = w /\ store.head.epoch # 0
    BY <1>1, TakeoverFields
  <2>5. CASE Become(w, t)
    <3> HIDE DEF s
    <3> QED BY <1>6, <1>8, <1>10, <2>1, <2>5
  <2> QED BY <1>6, <1>7, <1>9, <2>1, <2>2, <2>3, <2>4, <2>5
<1>14. CASE AcquireError(w)
  <2>1. Lose(s.token, Takeover(s.head, w)) /\ CanTakeover(s.head) /\ s.pc = "acquire"
    BY <1>14 DEF AcquireError
  <2>2. \/ Become(w, ClosedSession) \/ Become(w, [s EXCEPT !.attempt = s.attempt + 1])
        \/ Become(w, [s EXCEPT !.pc = "acquireConfirm"])
    BY <1>14 DEF AcquireError, NextAcquire
  <2>3. Legal(s.head, Takeover(s.head, w))
    BY <2>1 DEF Legal
  <2>4. InflightInv' /\ UNCHANGED <<store, committed>>
    BY <2>1, <2>3, LoseKeeps DEF Lose
  <2> HIDE DEF s
  <2> QED BY <1>7, <1>8, <1>10, <2>1, <2>2, <2>4
<1>15. CASE AcquireExhausted(w) \/ Crash(w)
  BY <1>6, <1>7, <1>15 DEF AcquireExhausted, Crash
<1>16. CASE AcquireConfirm(w)
  <2>1. UNCHANGED <<store, inflight, committed>>
    BY <1>16 DEF AcquireConfirm
  <2>2. \/ Become(w, ClosedSession)
        \/ /\ store.head.writer = w /\ store.head.epoch = s.head.epoch + 1
           /\ Become(w, NewWriterSession(store.head, store.token))
    BY <1>16 DEF AcquireConfirm
  <2> QED BY <1>1, <1>6, <1>7, <1>9, <2>1, <2>2
<1> QED BY <1>11, <1>12, <1>13, <1>14, <1>15, <1>16 DEF OpenSteps

-----------------------------------------------------------------------------
(* The theorems.                                                            *)

\* The invariant holds of an empty store.
LEMMA InitIInv == Init => IInv
<1> SUFFICES ASSUME Init PROVE IInv
  OBVIOUS
<1>1. sess \in [Writers -> SessionType] /\ CallInv
  BY OpeningRecords DEF Init, CallInv
<1>2. TypeOK
  BY <1>1, NewHeadType DEF Init, TypeOK
<1>3. StoreInv
  <2>1. 0 \in 0..MaxLSN
    BY HeadAssumption
  <2> QED BY <2>1, NewHeadKeeps DEF Init, StoreInv, SoundHead
<1>4. SessionInv /\ EpochInv
  <2>1. \A w : SessionOK(w, NewSession, store, committed) /\ NewSession.epoch = 0
    BY <1>2, <1>3, OpenRecordsOK DEF TypeOK, StoreInv
  <2> QED BY <2>1 DEF Init, SessionInv, EpochInv
<1> QED BY <1>1, <1>2, <1>3, <1>4 DEF Init, IInv, InflightInv, AckInv

\* Every step of the system moves the store as the writers' protocol allows
\* and keeps the invariant.
LEMMA StepIInv ==
  ASSUME IInv, [Next]_vars PROVE Moved /\ IInv'
<1>1. TypeOK' /\ CallInv'
  BY TypeStep DEF IInv
<1>2. SUFFICES Moved /\ (SessionInv /\ EpochInv /\ AckInv /\ InflightInv)'
  BY <1>1, MoveAdvances DEF IInv
<1>3. ASSUME UNCHANGED <<sess, acked, ackedVers>>, Moved
      PROVE  (SessionInv /\ EpochInv /\ AckInv)'
  <2>1. \A w \in Writers : SessionOK(w, sess[w], store', committed')
    BY <1>1, <1>3, SessionFacts, SessionOutlives DEF IInv
  <2>2. SessionInv' /\ EpochInv'
    BY <1>3, <2>1 DEF SessionInv, EpochInv, IInv
  <2>3. AckInv'
    BY <1>1, <1>3, AckOutlives DEF AckInv
  <2> QED BY <2>2, <2>3
<1>4. CASE Land
  <2>1. PICK r \in inflight : Install(r.head)
    BY <1>4 DEF Land
  <2>2. UNCHANGED <<sess, acked, ackedVers>>
    BY <1>4 DEF Land, history
  <2>3. Moved
    BY <2>1 DEF Moved, IInv, InflightInv
  <2>4. InflightInv'
    BY <2>1 DEF Install, InflightInv
  <2> QED BY <1>3, <2>2, <2>3, <2>4
<1>5. ASSUME NEW n \in StartLSNs, Initialize(n)
      PROVE  Moved /\ (SessionInv /\ EpochInv /\ AckInv /\ InflightInv)'
  <2>1. UNCHANGED <<sess, acked, ackedVers>> /\ store.token = 0
    BY <1>5 DEF Initialize, history
  <2>2. CASE Install(NewHead(n))
    <3>1. Moved /\ InflightInv'
      BY <2>1, <2>2 DEF Moved, Install, InflightInv
    <3> QED BY <1>3, <2>1, <3>1
  <2>3. CASE Lose(0, NewHead(n))
    <3>1. UNCHANGED <<store, committed>>
          /\ inflight' = inflight \cup {[token |-> 0, head |-> NewHead(n)]}
      BY <2>1, <2>3 DEF Lose
    <3>2. Moved /\ InflightInv'
      BY <2>1, <3>1 DEF Moved, IInv, InflightInv
    <3> QED BY <1>3, <2>1, <3>2
  <2> QED BY <1>5, <2>2, <2>3 DEF Initialize
<1>6. ASSUME NEW r \in Requests, RequestRetention(r)
      PROVE  Moved /\ (SessionInv /\ EpochInv /\ AckInv /\ InflightInv)'
  BY <1>6 DEF RequestRetention, Moved, IInv, SessionInv, EpochInv, AckInv, InflightInv, history
<1>7. ASSUME NEW w \in Writers, OpenWriter(w) \/ OpenSteps(w) \/ Crash(w)
      PROVE  Moved /\ (SessionInv /\ EpochInv /\ AckInv /\ InflightInv)'
  BY <1>1, <1>7, OpenKeeps
<1>8. ASSUME NEW w \in Writers, CallOf(w)
      PROVE  Moved /\ (SessionInv /\ EpochInv /\ AckInv /\ InflightInv)'
  BY <1>1, <1>8, CallFine, CallKeeps
<1>9. CASE UNCHANGED vars
  BY <1>9 DEF vars, history, Moved, IInv, SessionInv, EpochInv, AckInv, InflightInv
<1> QED BY <1>4, <1>5, <1>6, <1>7, <1>8, <1>9 DEF Next, CallOf

\* The inductive invariant: the stored head describes exactly the retained part
\* of a history that tiles the LSNs, every put that can still land is a legal
\* mutation of it, and what the sessions cache, remember and have told their
\* callers is true of it.
THEOREM InvariantHolds == Spec => []IInv
BY InitIInv, StepIInv, PTL DEF Spec

\* For any number of writers racing for a partition, whatever conditional puts
\* are lost, refused or land late and wherever a process dies: a segment that
\* AppendSegment acknowledged is in the history for good, every LSN between
\* the floor and the end belongs to exactly one segment, retention removes
\* only what it was asked to, and an append is acknowledged with its own end.
THEOREM LogStaysExact == Spec => []LogIsExact
<1>1. IInv => LogIsExact
  <2> SUFFICES ASSUME IInv PROVE LogIsExact
    OBVIOUS
  <2> DEFINE h == store.head
  <2>1. SoundHead(h, committed)
    BY StoreSound DEF IInv
  <2>2. h.next \in Nat /\ h.oldest \in Nat /\ h.retLSN \in Nat
    BY <2>1, HeadFields DEF SoundHead
  <2>3. h.log = {s \in committed : s.base >= h.oldest}
    BY <2>1 DEF SoundHead, HeadOK
  <2>4. \A s \in committed : /\ s.base \in Nat /\ s.last \in Nat /\ s.base <= s.last
                             /\ s.last < h.next
                             /\ s.base < h.oldest => s.last < h.oldest /\ s.last < h.retLSN
    BY <2>1, SegmentFields DEF SoundHead, HistoryOK
  <2>5. AckedIsDurable
    BY <2>2, <2>3, <2>4 DEF AckedIsDurable, IInv, AckInv
  <2>6. HistoryIsExact
    <3>1. ASSUME NEW lsn \in 0..MaxLSN
          PROVE  (h.oldest <= lsn /\ lsn < h.next) <=> \E s \in h.log : Covers(s, lsn)
      <4>1. lsn \in Nat
        BY HeadAssumption
      <4>2. ASSUME h.oldest <= lsn, lsn < h.next PROVE \E s \in h.log : Covers(s, lsn)
        BY <2>1, <2>2, <4>1, <4>2 DEF SoundHead, HeadOK
      <4>3. ASSUME NEW s \in h.log, Covers(s, lsn) PROVE h.oldest <= lsn /\ lsn < h.next
        BY <2>2, <2>3, <2>4, <4>1, <4>3 DEF Covers
      <4> QED BY <4>2, <4>3
    <3>2. \A s, t \in committed : s # t => s.last < t.base \/ t.last < s.base
      BY <2>1 DEF SoundHead, HistoryOK
    <3> QED BY <2>3, <3>1, <3>2 DEF HistoryIsExact
  <2>7. RetentionIsExact
    BY <2>4 DEF RetentionIsExact, IInv, AckInv
  <2>8. AckStateIsOwn
    BY DEF AckStateIsOwn, IInv, AckInv, EndState
  <2> QED BY <2>5, <2>6, <2>7, <2>8 DEF LogIsExact
<1> QED BY <1>1, InvariantHolds, PTL

\* An epoch is never given to two writers, a writer that was taken over gets
\* no segment in behind its successor, and a session turns stale only when
\* the partition has really been taken over.
THEOREM FencingIsSound == Spec => []FencingHolds
<1>1. IInv => FencingHolds
  <2> SUFFICES ASSUME IInv PROVE FencingHolds
    OBVIOUS
  <2>1. \A s, t \in committed : /\ s.epoch = t.epoch => s.tag = t.tag
                                /\ s.base < t.base => s.epoch <= t.epoch
    BY DEF IInv, StoreInv, HistoryOK
  <2>2. EpochsAreExclusive
    BY <2>1 DEF EpochsAreExclusive, IInv, EpochInv
  <2>3. ASSUME NEW w \in Writers, sess[w].stale PROVE Fenced(store.head, w, sess[w].epoch)
    <3>1. sess[w].epoch < store.head.epoch /\ sess[w].epoch \in Nat /\ store.head.epoch \in Nat
      BY <2>3, SessionFacts, HeadFields DEF SessionOK, FenceOK, SessionType, IInv, TypeOK
    <3> QED BY <3>1 DEF Fenced
  <2> QED BY <2>2, <2>3 DEF FencingHolds, StaleIsFenced
<1> QED BY <1>1, InvariantHolds, PTL

-----------------------------------------------------------------------------
(* CatalogSession implements CatalogLog.                                    *)

\* What a step may tell a caller: nothing, one segment, one policy version.
TellsNothing == UNCHANGED <<acked, ackedVers>>

TellsSegment(s) ==
  /\ \E state : acked' = acked \cup {[seg |-> s, state |-> state]}
  /\ UNCHANGED ackedVers

TellsVersion(v) ==
  /\ ackedVers' = ackedVers \cup {v}
  /\ UNCHANGED acked

-----------------------------------------------------------------------------
(* The steps of the abstract log.                                           *)

\* An acknowledged segment joins the abstract set of them.
LEMMA TellsAbstract ==
  ASSUME NEW s, TellsSegment(s)
  PROVE  {a.seg : a \in acked'} = {a.seg : a \in acked} \cup {s}
<1>1. PICK state : acked' = acked \cup {[seg |-> s, state |-> state]}
  BY DEF TellsSegment
<1> DEFINE new == [seg |-> s, state |-> state]
<1>2. new.seg = s /\ acked' = acked \cup {new}
  BY <1>1
<1> HIDE DEF new
<1> QED BY <1>2

\* A step that leaves the store alone acknowledges what is so, or nothing.
LEMMA QuietRefines ==
  ASSUME UNCHANGED <<store, committed>>,
         \/ TellsNothing
         \/ \E s \in committed : TellsSegment(s)
         \/ \E r \in Requests : r.ver <= store.head.retVer /\ TellsVersion(r.ver)
  PROVE  [Log!LogNext]_(Log!logVars)
<1>1. CASE TellsNothing
  BY <1>1 DEF TellsNothing, Log!logVars
<1>2. ASSUME NEW s \in committed, TellsSegment(s) PROVE Log!LogNext
  <2>1. {a.seg : a \in acked'} = {a.seg : a \in acked} \cup {s} /\ UNCHANGED ackedVers
    BY <1>2, TellsAbstract DEF TellsSegment
  <2>2. Log!Acknowledge(s)
    BY <2>1 DEF Log!Acknowledge
  <2> QED BY <2>2 DEF Log!LogNext
<1>3. ASSUME NEW r \in Requests, r.ver <= store.head.retVer, TellsVersion(r.ver)
      PROVE  Log!LogNext
  <2>1. Log!AcknowledgeRetention(r.ver)
    BY <1>3 DEF TellsVersion, Log!AcknowledgeRetention
  <2> QED BY <2>1 DEF Log!LogNext
<1> QED BY <1>1, <1>2, <1>3

\* A takeover is the abstract fence.
LEMMA TakeoverRefines ==
  ASSUME IInv, NEW w \in Writers, Install(Takeover(store.head, w)), TellsNothing
  PROVE  Log!LogNext
<1> DEFINE m == Takeover(store.head, w)
<1>1. SoundHead(store.head, committed) /\ store.head \in Heads
  BY StoreSound DEF IInv
<1>2. store'.head = m /\ committed' = committed \cup m.log
  BY DEF Install
<1>3. /\ m.epoch = store.head.epoch + 1 /\ m.writer = w
      /\ m.next = store.head.next /\ m.oldest = store.head.oldest
      /\ m.retLSN = store.head.retLSN
      /\ m.retVer = store.head.retVer /\ m.log = store.head.log
  BY <1>1, TakeoverFields
<1>4. committed' = committed
  BY <1>1, <1>2, <1>3 DEF SoundHead, HeadOK
<1> HIDE DEF m
<1>5. Log!Fence(w)
  BY <1>2, <1>3, <1>4 DEF Log!Fence, TellsNothing
<1> QED BY <1>5 DEF Log!LogNext

\* An append adds its segment to the history and keeps the floor.
LEMMA AppendAdds ==
  ASSUME NEW h, NEW cm, SoundHead(h, cm), NEW s \in Segment, CanAppend(h, s)
  PROVE  cm \cup AppendSeg(h, s).log = cm \cup {s} /\ AppendSeg(h, s).oldest = h.oldest
<1> DEFINE m == AppendSeg(h, s)
<1>1. h \in Heads /\ s.base = h.next /\ h.log \subseteq cm
      /\ (h.last = NoSegment => h.oldest = h.next)
  BY DEF SoundHead, HeadOK, CanAppend
<1>2. m.oldest = (IF h.last = NoSegment THEN s.base ELSE h.oldest) /\ m.log = h.log \cup {s}
  BY <1>1, AppendFields
<1> HIDE DEF m
<1>3. cm \cup m.log = cm \cup {s} /\ m.oldest = h.oldest
  BY <1>1, <1>2
<1> QED BY <1>3 DEF m

\* An append is the abstract commit, which its writer may learn at once.
LEMMA AppendRefines ==
  ASSUME IInv, NEW s \in Segment, CanAppend(store.head, s),
         Install(AppendSeg(store.head, s)), TellsNothing \/ TellsSegment(s)
  PROVE  Log!LogNext
<1> DEFINE m == AppendSeg(store.head, s)
<1>1. SoundHead(store.head, committed) /\ store.head \in Heads
  BY StoreSound DEF IInv
<1>2. store'.head = m /\ committed' = committed \cup m.log
  BY DEF Install
<1>3. /\ m.epoch = store.head.epoch /\ m.writer = store.head.writer
      /\ m.next = s.last + 1 /\ m.retLSN = store.head.retLSN /\ m.retVer = store.head.retVer
  BY <1>1, AppendFields
<1>4. committed' = committed \cup {s} /\ m.oldest = store.head.oldest
  <2>1. committed \cup m.log = committed \cup {s} /\ m.oldest = store.head.oldest
    BY <1>1, AppendAdds
  <2> HIDE DEF m
  <2> QED BY <1>2, <2>1
<1> HIDE DEF m
<1>5. {a.seg : a \in acked'} \in {{a.seg : a \in acked}, {a.seg : a \in acked} \cup {s}}
      /\ UNCHANGED ackedVers
  <2>1. CASE TellsNothing
    <3>1. acked' = acked /\ ackedVers' = ackedVers
      BY <2>1 DEF TellsNothing
    <3>2. {a.seg : a \in acked'} = {a.seg : a \in acked}
      BY <3>1
    <3> QED BY <3>1, <3>2
  <2>2. CASE TellsSegment(s)
    <3>1. {a.seg : a \in acked'} = {a.seg : a \in acked} \cup {s}
      BY <2>2, TellsAbstract
    <3>2. ackedVers' = ackedVers
      BY <2>2 DEF TellsSegment
    <3> QED BY <3>1, <3>2
  <2> QED BY <2>1, <2>2
<1>6. s.epoch = store.head.epoch /\ s.tag = store.head.writer /\ s.base = store.head.next
  BY DEF CanAppend
<1>7. Log!Commit(s)
  BY <1>2, <1>3, <1>4, <1>5, <1>6 DEF Log!Commit
<1> QED BY <1>7 DEF Log!LogNext, Log!Segment, Segment

\* A retention commit raises the abstract floor.
LEMMA RetentionRefines ==
  ASSUME IInv, NEW r \in Requests, CanRetain(store.head, r),
         Install(ApplyRetention(store.head, r)), TellsNothing \/ TellsVersion(r.ver)
  PROVE  Log!LogNext
<1> DEFINE h == store.head
           m == ApplyRetention(h, r)
           floor == RetentionFloor(h, r)
           target == RetentionTarget(h, r)
<1>1. SoundHead(h, committed) /\ h \in Heads
  BY StoreSound DEF IInv
<1>2. store'.head = m /\ committed' = committed \cup m.log
  BY DEF Install
<1>3. /\ m.epoch = h.epoch /\ m.writer = h.writer /\ m.next = h.next
      /\ m.oldest = floor /\ m.retLSN = target /\ m.retVer = r.ver
  BY <1>1, RetentionFields
<1>4. committed' = committed
  BY <1>1, <1>2, RetentionKeeps
<1>5. /\ floor \in Nat /\ target \in Nat
      /\ h.oldest <= floor /\ floor <= h.next
      /\ h.retLSN <= target /\ target <= h.next
      /\ \A s \in committed : s.last < floor \/ s.base >= floor
      /\ \A s \in committed : s.base >= h.oldest => (s.base >= floor <=> s.last >= target)
  BY <1>1, FloorIsBoundary
<1>6. /\ h.next \in Nat /\ h.oldest \in Nat /\ h.retLSN \in Nat /\ h.retVer \in Nat
      /\ h.next <= MaxLSN + 1 /\ MaxLSN \in Nat
  BY <1>1, HeadFields, HeadAssumption DEF SoundHead, HeadOK
<1>7. r.ver > h.retVer
  BY DEF CanRetain
<1>8. ackedVers' \in {ackedVers, ackedVers \cup {r.ver}} /\ UNCHANGED acked
  BY DEF TellsNothing, TellsVersion
<1> HIDE DEF m, floor, target
<1>9. floor \in 0..MaxLSN + 1 /\ target \in 0..MaxLSN + 1
  BY <1>5, <1>6
<1>10. floor >= h.oldest /\ target >= h.retLSN
  BY <1>5, <1>6
<1>11. Log!Retain(r.ver, target, floor)
  BY <1>2, <1>3, <1>4, <1>5, <1>7, <1>8, <1>10 DEF Log!Retain
<1> QED BY <1>9, <1>11 DEF Log!LogNext

\* Initialize creates the partition at a checkpoint.
LEMMA CreateRefines ==
  ASSUME IInv, NEW n \in StartLSNs, store.token = 0, Install(NewHead(n)), TellsNothing
  PROVE  Log!LogNext
<1>1. store.head = NewHead(0) /\ committed = {}
  BY DEF IInv, StoreInv
<1>2. store'.head = NewHead(n) /\ committed' = {} /\ n \in 0..MaxLSN
  BY <1>1, SessionAssumption DEF Install, NewHead
<1>3. Log!Create(n)
  BY <1>1, <1>2 DEF NewHead, Log!Create, TellsNothing
<1> QED BY <1>2, <1>3 DEF Log!LogNext

-----------------------------------------------------------------------------
(* The steps of the sessions.                                               *)

\* What a call that ends tells its caller is so.
LEMMA StepTells ==
  ASSUME NEW w, NEW e, NEW t, Step(w, t), Fine(w, e, t, store', committed')
  PROVE  \/ TellsNothing
         \/ /\ t.pc = "ready" /\ t.result = "ok"
            /\ t.seg \in committed' /\ TellsSegment(t.seg)
         \/ /\ t.pc = "ready" /\ t.result = "applied" /\ t.req \in Requests
            /\ t.req.ver <= store'.head.retVer /\ TellsVersion(t.req.ver)
<1>1. CASE t.pc # "ready"
  BY <1>1 DEF Step, history, TellsNothing
<1>2. CASE t.pc = "ready"
  <2>1. /\ acked' = acked \cup {a \in {[seg |-> t.seg, state |-> t.state]} : t.result = "ok"}
        /\ ackedVers' = ackedVers \cup {v \in {t.req.ver} : t.result = "applied"}
    BY <1>2 DEF Step
  <2>2. CASE t.result = "ok"
    <3>1. acked' = acked \cup {[seg |-> t.seg, state |-> t.state]} /\ ackedVers' = ackedVers
      BY <2>1, <2>2
    <3> QED BY <1>2, <2>2, <3>1 DEF TellsSegment, Fine, Told
  <2>3. CASE t.result = "applied"
    <3>1. acked' = acked /\ ackedVers' = ackedVers \cup {t.req.ver}
      BY <2>1, <2>3
    <3> QED BY <1>2, <2>3, <3>1 DEF TellsVersion, Fine, Told
  <2>4. CASE t.result \notin {"ok", "applied"}
    BY <2>1, <2>4 DEF TellsNothing
  <2> QED BY <2>2, <2>3, <2>4
<1> QED BY <1>1, <1>2

\* A commit reports its own segment or its own retention request.
LEMMA CommitDoneTells ==
  ASSUME NEW s \in SessionType, NEW m, NEW t \in CommitDone(s, m),
         s.op = "retention" /\ Unresolved(s) => s.req = s.pending.req
  PROVE  /\ ~Unresolved(s) => t.result = "ok" /\ t.seg = s.seg
         /\ Unresolved(s) /\ t.pc = "ready" =>
              /\ t.result # "ok"
              /\ t.result = "applied" => t.req = s.pending.req
<1>1. \A u, res : u \in SessionType =>
        /\ Return(u, res).result = res /\ Return(u, res).pc = "ready"
        /\ Return(u, res).seg = u.seg /\ Return(u, res).req = u.req
        /\ DOMAIN Return(u, res) = DOMAIN u
  BY DEF Return, SessionType
<1>2. CASE ~Unresolved(s)
  <2> DEFINE r == Return(s, "ok")
  <2>1. t = [r EXCEPT !.state = PartitionHead(m), !.lastAppend = s.seg,
                     !.lastAppendState = PartitionHead(m)]
    BY <1>2 DEF CommitDone
  <2>2. r.result = "ok" /\ r.seg = s.seg /\ DOMAIN r = DOMAIN s
    BY <1>1
  <2>3. "result" \in DOMAIN s /\ "seg" \in DOMAIN s
    BY DEF SessionType
  <2> HIDE DEF r
  <2>4. t.result = r.result /\ t.seg = r.seg
    BY <2>1, <2>2, <2>3
  <2> QED BY <1>2, <2>2, <2>4
<1>3. CASE Unresolved(s) /\ s.op = "retention"
  <2> DEFINE r == Return(s, "applied")
  <2>1. t = [r EXCEPT !.pending = NoPending]
    BY <1>3 DEF CommitDone
  <2>2. r.result = "applied" /\ r.req = s.req /\ DOMAIN r = DOMAIN s
    BY <1>1
  <2>3. "result" \in DOMAIN s /\ "req" \in DOMAIN s
    BY DEF SessionType
  <2> HIDE DEF r
  <2>4. t.result = r.result /\ t.req = r.req
    BY <2>1, <2>2, <2>3
  <2> QED BY <1>3, <2>2, <2>4
<1>4. CASE Unresolved(s) /\ s.op # "retention"
  <2> DEFINE r == [s EXCEPT !.pending.resolved = TRUE, !.attempt = 0]
  <2>1. r \in SessionType /\ r.pending.req = s.pending.req
    BY DEF SessionType
  <2>2. t = Return(s, "stale") \/ t \in AppendBody(r) \/ t = AcknowledgePending(r)
    BY <1>4 DEF CommitDone, Resolved
  <2> HIDE DEF r
  <2>3. CASE t = Return(s, "stale")
    BY <1>1, <1>4, <2>3
  <2>4. CASE t \in AppendBody(r)
    <3>1. [r EXCEPT !.pc = "retry"].pc = "retry" /\ [r EXCEPT !.pc = "commit"].pc = "commit"
      BY <2>1 DEF SessionType
    <3>2. Return(r, "failed").result = "failed" /\ Return(r, "conflict").result = "conflict"
      BY <1>1, <2>1
    <3>3. t \in {[r EXCEPT !.pc = "retry"], [r EXCEPT !.pc = "commit"],
                 Return(r, "failed"), Return(r, "conflict")}
      BY <2>4 DEF AppendBody
    <3>4. t.pc = "ready" => t.result \in {"failed", "conflict"}
      BY <3>1, <3>2, <3>3
    <3> QED BY <1>4, <3>4
  <2>5. CASE t = AcknowledgePending(r)
    <3> DEFINE q == Return(r, "applied")
    <3>1. q.result = "applied" /\ DOMAIN q = DOMAIN r
      BY <1>1, <2>1
    <3>2. "result" \in DOMAIN r /\ "req" \in DOMAIN r
      BY <2>1 DEF SessionType
    <3>3. t = [q EXCEPT !.req = r.pending.req, !.pending = NoPending]
      BY <2>5 DEF AcknowledgePending
    <3> HIDE DEF q
    <3>4. t.result = "applied" /\ t.req = r.pending.req
      BY <3>1, <3>2, <3>3
    <3> QED BY <1>4, <2>1, <3>4
  <2> QED BY <2>2, <2>3, <2>4, <2>5
<1> QED BY <1>2, <1>3, <1>4

\* The swap of a commit is an append or a retention of the abstract log.
LEMMA CommitSwappedRefines ==
  ASSUME IInv, TypeOK', NEW w \in Writers, CommitSwapped(w)
  PROVE  Log!LogNext
<1> DEFINE s == sess[w]
           m == Mutation(s)
           o == [s EXCEPT !.head = m, !.token = store.token + 1]
<1>1. s.pc = "commit" /\ s.token = store.token /\ Install(m)
  BY DEF CommitSwapped
<1>2. PICK t \in CommitDone(o, m) : Step(w, t)
  BY DEF CommitSwapped
<1>3. s \in SessionType /\ CallOK(s) /\ SessionOK(w, s, store, committed)
  BY SessionFacts
<1>4. s.head = store.head
  BY <1>1, <1>3 DEF SessionOK, CacheOK
<1>5. m \in Heads /\ store.token + 1 \in Nat
  BY <1>1, <1>3, MutationType, StoreSound DEF IInv
<1> HIDE DEF s, m
<1>6. o \in SessionType /\ o.op = s.op /\ o.req = s.req /\ o.seg = s.seg /\ o.pending = s.pending
  BY <1>3, <1>5 DEF SessionType
<1> HIDE DEF o
<1>7. Unresolved(o) <=> Unresolved(s)
  BY <1>6 DEF Unresolved, HasPending
<1>8. /\ ~Unresolved(s) => t.result = "ok" /\ t.seg = s.seg
      /\ Unresolved(s) /\ t.pc = "ready" =>
           t.result # "ok" /\ (t.result = "applied" => t.req = s.pending.req)
  <2>1. o.op = "retention" /\ Unresolved(o) => o.req = o.pending.req
    BY <1>1, <1>3, <1>6, <1>7, MutationFields
  <2> QED BY <1>2, <1>6, <1>7, <2>1, CommitDoneTells
<1>9. t.pc = "ready" =>
        /\ acked' = acked \cup {a \in {[seg |-> t.seg, state |-> t.state]} : t.result = "ok"}
        /\ ackedVers' = ackedVers \cup {v \in {t.req.ver} : t.result = "applied"}
  BY <1>2 DEF Step
<1>10. t.pc # "ready" => TellsNothing
  BY <1>2 DEF Step, history, TellsNothing
<1>11. CASE ~Unresolved(s)
  <2>1. TellsNothing \/ TellsSegment(s.seg)
    BY <1>8, <1>9, <1>10, <1>11 DEF TellsSegment
  <2>2. s.seg \in Segment /\ CanAppend(store.head, s.seg) /\ Install(AppendSeg(store.head, s.seg))
    BY <1>1, <1>3, <1>4, <1>11, MutationFields DEF m
  <2> QED BY <2>1, <2>2, AppendRefines
<1>12. CASE Unresolved(s)
  <2>1. TellsNothing \/ TellsVersion(s.pending.req.ver)
    <3>1. CASE t.pc = "ready" /\ t.result = "applied"
      BY <1>8, <1>9, <1>12, <3>1 DEF TellsVersion
    <3>2. CASE t.pc = "ready" /\ t.result # "applied"
      BY <1>8, <1>9, <1>12, <3>2 DEF TellsNothing
    <3> QED BY <1>10, <3>1, <3>2
  <2>2. /\ s.pending.req \in Requests /\ CanRetain(store.head, s.pending.req)
        /\ Install(ApplyRetention(store.head, s.pending.req))
    BY <1>1, <1>3, <1>4, <1>12, MutationFields DEF m
  <2> QED BY <2>1, <2>2, RetentionRefines
<1> QED BY <1>11, <1>12

\* Every step of the catalog is a step of the abstract log or none.
LEMMA StepRefines ==
  ASSUME IInv, [Next]_vars PROVE [Log!LogNext]_(Log!logVars)
<1>1. TypeOK'
  BY StepIInv DEF IInv
<1>2. ASSUME UNCHANGED <<store, committed>>, TellsNothing
      PROVE  [Log!LogNext]_(Log!logVars)
  BY <1>2, QuietRefines
<1>3. CASE Land
  <2>1. PICK r \in inflight : Install(r.head)
    BY <1>3 DEF Land
  <2>2. TellsNothing
    BY <1>3 DEF Land, history, TellsNothing
  <2>3. \/ Legal(store.head, r.head)
        \/ store.token = 0 /\ \E n \in StartLSNs : r.head = NewHead(n)
    BY DEF IInv, InflightInv
  <2>4. Log!LogNext
    BY <2>1, <2>2, <2>3, TakeoverRefines, AppendRefines, RetentionRefines, CreateRefines
       DEF Legal
  <2> QED BY <2>4
<1>4. ASSUME NEW n \in StartLSNs, Initialize(n) PROVE [Log!LogNext]_(Log!logVars)
  <2>1. TellsNothing /\ store.token = 0
    BY <1>4 DEF Initialize, history, TellsNothing
  <2>2. CASE Install(NewHead(n))
    BY <2>1, <2>2, CreateRefines
  <2>3. CASE Lose(0, NewHead(n))
    BY <1>2, <2>1, <2>3 DEF Lose
  <2> QED BY <1>4, <2>2, <2>3 DEF Initialize
<1>5. ASSUME NEW r \in Requests, RequestRetention(r) PROVE [Log!LogNext]_(Log!logVars)
  BY <1>2, <1>5 DEF RequestRetention, history, TellsNothing
<1>6. ASSUME NEW w \in Writers, OpenWriter(w) \/ OpenSteps(w) \/ Crash(w)
      PROVE  [Log!LogNext]_(Log!logVars)
  <2>1. TellsNothing
    BY <1>6 DEF OpenWriter, OpenSteps, Crash, AcquireSwapped, AcquireConflict, AcquireError,
                AcquireExhausted, AcquireConfirm, history, TellsNothing
  <2>2. CASE AcquireSwapped(w)
    <3>1. sess[w].token = store.token /\ Install(Takeover(sess[w].head, w))
      BY <2>2 DEF AcquireSwapped
    <3>2. sess[w].head = store.head
      BY <3>1, SessionFacts DEF SessionOK, CacheOK
    <3> QED BY <2>1, <3>1, <3>2, TakeoverRefines
  <2>3. CASE ~AcquireSwapped(w)
    <3>1. UNCHANGED <<store, committed>>
      BY <1>6, <2>3 DEF OpenWriter, OpenSteps, Crash, AcquireConflict, AcquireError, Lose,
                        AcquireExhausted, AcquireConfirm
    <3> QED BY <1>2, <2>1, <3>1
  <2> QED BY <2>2, <2>3
<1>7. ASSUME NEW w \in Writers, CallOf(w) PROVE [Log!LogNext]_(Log!logVars)
  <2>1. CASE CommitSwapped(w)
    BY <1>1, <2>1, CommitSwappedRefines
  <2>2. CASE ~CommitSwapped(w)
    <3>1. UNCHANGED <<store, committed>>
      BY <1>7, <2>2 DEF CallOf, CallSteps, AppendSegment, ApplyPendingRetention,
         RetentionRefresh, ResolveRetention, AppendRetry, CommitConflict, CommitError, Lose,
         CommitConfirm
    <3>2. PICK t : Step(w, t) /\ Fine(w, sess[w].epoch, t, store', committed')
      BY <1>1, <1>7, CallFine DEF Leaves
    <3>3. \/ TellsNothing
          \/ t.seg \in committed' /\ TellsSegment(t.seg)
          \/ t.req \in Requests /\ t.req.ver <= store'.head.retVer /\ TellsVersion(t.req.ver)
      BY <3>2, StepTells
    <3> QED BY <3>1, <3>3, QuietRefines
  <2> QED BY <2>1, <2>2
<1>8. CASE UNCHANGED vars
  BY <1>2, <1>8 DEF vars, history, TellsNothing
<1> QED BY <1>3, <1>4, <1>5, <1>6, <1>7, <1>8 DEF Next, CallOf

\* However many writers race for a partition and whatever the store does with
\* their requests, the sessions of catengine behave as one fenced append-only
\* log with a retention floor, and every answer a writer gets is a true answer
\* of that log.
THEOREM SessionsImplementLog == Spec => ImplementsLog
<1>1. Init => Log!LogInit
  BY DEF Init, NewHead, Log!LogInit
<1>2. IInv /\ [Next]_vars => [Log!LogNext]_(Log!logVars)
  BY StepRefines
<1> QED BY <1>1, <1>2, InvariantHolds, PTL DEF Spec, ImplementsLog, Log!LogSpec

-----------------------------------------------------------------------------
(* PendingIsKept: the outcome of a retention commit is not swallowed.       *)
(*                                                                         *)
(* A session drops a pending retention without reporting it only when       *)
(* retentionApplied says that the head is not at or past its mutation.      *)
(* That test compares a version and a floor, so the proof has to show that  *)
(* a head with the version has the floor too (FloorInv), and this rests on  *)
(* the order in which the mailbox hands requests out (RequestInv).          *)

-----------------------------------------------------------------------------
(* The records a call may leave behind, against the head they are left      *)
(* with: what becomes of the requests and of the pending retention.         *)

\* A pending retention that was just built from head h.
Fresh(p, h) ==
  /\ p.req \in Requests /\ CanRetain(h, p.req)
  /\ p.mutation = ApplyRetention(h, p.req)

\* The pending retention of s is dropped with its outcome reported, or while
\* the head h does not hold it.
Dropped(s, t, h) ==
  \/ t.pc = "ready" /\ t.result = "applied" /\ t.req = s.pending.req
  \/ Unresolved(s) /\ ~RetentionApplied(h, s.pending.mutation)

Follows(s, t, h) ==
  /\ t.req \in {s.req, s.pending.req, mailbox, NoRequest}
  /\ t.pending.req \in {s.pending.req, s.req, NoRequest}
  /\ Unresolved(t) => t.pending = s.pending \/ Fresh(t.pending, h)
  /\ HasPending(s) /\ ~HasPending(t) => Dropped(s, t, h)

\* A record with the same request and the same pending retention.
LEMMA SameFollows ==
  ASSUME NEW s, NEW t, NEW h, t.req \in {s.req, mailbox}, t.pending = s.pending
  PROVE  Follows(s, t, h)
BY DEF Follows, HasPending, Unresolved

\* What follows from a record follows from one that differs elsewhere.
LEMMA FollowsVia ==
  ASSUME NEW s, NEW u, NEW t, NEW h, u.req = s.req, u.pending = s.pending, Follows(u, t, h)
  PROVE  Follows(s, t, h)
BY DEF Follows, Dropped, HasPending, Unresolved

\* A call that returns keeps the request and the pending retention.
LEMMA ReturnFollows ==
  ASSUME NEW s \in SessionType, NEW res, NEW h
  PROVE  Follows(s, Return(s, res), h)
<1>1. Return(s, res).req = s.req /\ Return(s, res).pending = s.pending
  BY DEF Return, SessionType
<1> QED BY <1>1, SameFollows

\* So does one that only moves on.
LEMMA EnterFollows ==
  ASSUME NEW s \in SessionType, NEW pc, NEW h
  PROVE  Follows(s, [s EXCEPT !.pc = pc], h)
<1> DEFINE t == [s EXCEPT !.pc = pc]
<1>1. t.req = s.req /\ t.pending = s.pending
  BY DEF SessionType
<1> HIDE DEF t
<1>2. Follows(s, t, h)
  BY <1>1, SameFollows
<1> QED BY <1>2 DEF t

\* The rest of an append touches neither.
LEMMA AppendBodyFollows ==
  ASSUME NEW s \in SessionType, NEW t \in AppendBody(s), NEW h
  PROVE  Follows(s, t, h) /\ t.pending = s.pending /\ t.req = s.req
<1> DEFINE a == [s EXCEPT !.pc = "retry"]
           b == [s EXCEPT !.pc = "commit"]
           c == Return(s, "failed")
           d == Return(s, "conflict")
<1>1. t \in {a, b, c, d}
  BY DEF AppendBody
<1>2. /\ a.req = s.req /\ a.pending = s.pending /\ b.req = s.req /\ b.pending = s.pending
      /\ c.req = s.req /\ c.pending = s.pending /\ d.req = s.req /\ d.pending = s.pending
  BY DEF SessionType, Return
<1> HIDE DEF a, b, c, d
<1>3. t.req = s.req /\ t.pending = s.pending
  BY <1>1, <1>2
<1> QED BY <1>3, SameFollows

\* A pending retention is reported and forgotten.
LEMMA ForgetFollows ==
  ASSUME NEW s \in SessionType, NEW h, NEW t,
         \/ t = [Return(s, "applied") EXCEPT !.req = s.pending.req, !.pending = NoPending]
         \/ /\ s.req = s.pending.req
            /\ t = [Return(s, "applied") EXCEPT !.pending = NoPending]
  PROVE  Follows(s, t, h) /\ t.pending = NoPending
<1> DEFINE r == Return(s, "applied")
<1>1. r \in SessionType /\ r.req = s.req /\ r.pc = "ready" /\ r.result = "applied"
  BY ZenonT(40) DEF Return, SessionType, Results
<1>2. t.req = s.pending.req /\ t.pending = NoPending /\ t.pc = "ready" /\ t.result = "applied"
  <2> HIDE DEF r
  <2>1. CASE t = [r EXCEPT !.req = s.pending.req, !.pending = NoPending]
    BY <1>1, <2>1 DEF SessionType
  <2>2. CASE s.req = s.pending.req /\ t = [r EXCEPT !.pending = NoPending]
    BY <1>1, <2>2 DEF SessionType
  <2> QED BY <2>1, <2>2 DEF r
<1>3. t.pending.req = NoRequest /\ ~HasPending(t)
  BY <1>2 DEF NoPending, NoRequest, HasPending
<1> QED BY <1>2, <1>3 DEF Follows, Dropped, Unresolved

\* A pending retention found in the head ends with its outcome reported.
LEMMA ResolvedFollows ==
  ASSUME NEW s \in SessionType, NEW t \in Resolved(s), NEW h
  PROVE  Follows(s, t, h)
<1> DEFINE r == [s EXCEPT !.pending.resolved = TRUE, !.attempt = 0]
<1>1. /\ r \in SessionType /\ r.req = s.req
      /\ r.pending.req = s.pending.req /\ r.pending.resolved
  BY DEF SessionType
<1>2. t \in (IF s.op = "append" THEN AppendBody(r) ELSE {AcknowledgePending(r)})
  BY DEF Resolved
<1> HIDE DEF r
<1>3. CASE t \in AppendBody(r)
  <2>1. t.pending = r.pending /\ t.req = r.req
    BY <1>1, <1>3, AppendBodyFollows
  <2> QED BY <1>1, <2>1 DEF Follows, HasPending, Unresolved
<1>4. CASE t = AcknowledgePending(r)
  <2>1. t = [Return(r, "applied") EXCEPT !.req = r.pending.req, !.pending = NoPending]
    BY <1>4 DEF AcknowledgePending
  <2>2. Follows(r, t, h)
    BY <1>1, <2>1, ForgetFollows
  <2>3. HasPending(s) <=> HasPending(r)
    BY <1>1 DEF HasPending
  <2>4. ~Unresolved(r)
    BY <1>1 DEF Unresolved
  <2>5. t.pending.req \in {r.pending.req, r.req, NoRequest} /\ ~Unresolved(t)
    <3>1. t.pending = NoPending
      BY <1>1, <2>1, ForgetFollows
    <3> QED BY <3>1 DEF Unresolved, HasPending, NoPending, NoRequest
  <2> QED BY <1>1, <2>2, <2>3, <2>4, <2>5 DEF Follows, Dropped
<1> QED BY <1>2, <1>3, <1>4

\* commitLocked succeeded with record s.
LEMMA CommitDoneFollows ==
  ASSUME NEW s \in SessionType, NEW m, NEW t \in CommitDone(s, m), NEW h,
         s.op = "retention" /\ Unresolved(s) => s.req = s.pending.req
  PROVE  Follows(s, t, h)
<1>1. CASE ~Unresolved(s)
  <2> DEFINE r == Return(s, "ok")
  <2>1. r \in SessionType /\ r.req = s.req /\ r.pending = s.pending
    BY ZenonT(40) DEF Return, SessionType, Results
  <2>2. t = [r EXCEPT !.state = PartitionHead(m), !.lastAppend = s.seg,
                     !.lastAppendState = PartitionHead(m)]
    BY <1>1 DEF CommitDone
  <2> HIDE DEF r
  <2>3. t.req = r.req /\ t.pending = r.pending
    BY <2>1, <2>2 DEF SessionType
  <2> QED BY <2>1, <2>3, SameFollows
<1>2. CASE Unresolved(s) /\ s.op = "retention"
  <2>1. t = [Return(s, "applied") EXCEPT !.pending = NoPending]
    BY <1>2 DEF CommitDone
  <2> QED BY <1>2, <2>1, ForgetFollows
<1>3. CASE Unresolved(s) /\ s.op # "retention"
  <2>1. t = Return(s, "stale") \/ t \in Resolved(s)
    BY <1>3 DEF CommitDone
  <2> QED BY <2>1, ReturnFollows, ResolvedFollows
<1> QED BY <1>1, <1>2, <1>3

\* commitLocked failed: a pending retention is given up only when the head
\* was seen not to hold it.
LEMMA CommitFailedFollows ==
  ASSUME NEW s \in SessionType, NEW res, NEW h,
         \/ res = "indeterminate"
         \/ Unresolved(s) => ~RetentionApplied(h, s.pending.mutation)
  PROVE  Follows(s, CommitFailed(s, res), h)
<1>1. CASE Unresolved(s) /\ s.op = "retention"
  <2> DEFINE r == Return(s, res)
             p == IF res = "indeterminate" THEN r.pending ELSE NoPending
             t == [r EXCEPT !.pending = p]
  <2>1. DOMAIN r = DOMAIN s /\ r.req = s.req /\ r.pending = s.pending
        /\ "req" \in DOMAIN s /\ "pending" \in DOMAIN s
    BY DEF Return, SessionType
  <2>2. CommitFailed(s, res) = t
    BY <1>1 DEF CommitFailed
  <2>3. \/ p = r.pending
        \/ p = NoPending /\ res # "indeterminate"
    OBVIOUS
  <2> HIDE DEF r, p
  <2>4. t.req = s.req /\ t.pending = p
    BY <2>1
  <2> HIDE DEF t
  <2>5. CASE p = r.pending
    BY <2>1, <2>2, <2>4, <2>5, SameFollows
  <2>6. CASE p = NoPending /\ res # "indeterminate"
    <3>1. t.pending.req = NoRequest /\ ~HasPending(t)
      BY <2>4, <2>6 DEF NoPending, NoRequest, HasPending
    <3>2. Dropped(s, t, h)
      BY <1>1, <2>6 DEF Dropped
    <3> QED BY <2>2, <2>4, <3>1, <3>2 DEF Follows, Unresolved
  <2> QED BY <2>3, <2>5, <2>6
<1>2. CASE ~(Unresolved(s) /\ s.op = "retention")
  BY <1>2, ReturnFollows DEF CommitFailed
<1> QED BY <1>1, <1>2

\* A commit that is tried again, or given up.
LEMMA NextAttemptFollows ==
  ASSUME NEW s \in SessionType, NEW t \in NextAttempt(s), NEW h
  PROVE  Follows(s, t, h)
<1> DEFINE r == [s EXCEPT !.attempt = @ + 1]
<1>1. r.req = s.req /\ r.pending = s.pending
  BY DEF SessionType
<1>2. t = r \/ t = CommitFailed(s, "indeterminate")
  BY DEF NextAttempt
<1> HIDE DEF r
<1> QED BY <1>1, <1>2, SameFollows, CommitFailedFollows

\* commitLocked looks at the stored head.
LEMMA ReconcileFollows ==
  ASSUME TypeOK, NEW w, NEW s \in SessionType, CallOK(s), s.pc \in {"commit", "confirm"},
         NEW unchanged,
         \A u \in unchanged :
            (Unresolved(s) => ~RetentionApplied(store.head, s.pending.mutation)) =>
              Follows(s, u, store.head),
         NEW t \in Reconcile(w, s, unchanged)
  PROVE  Follows(s, t, store.head)
<1> DEFINE h == store.head
           b == s.stale \/ Fenced(h, w, s.epoch)
           seen == [s EXCEPT !.stale = b]
           done == [seen EXCEPT !.head = h, !.token = store.token]
           m == Mutation(s)
           gone == Unresolved(s) => ~RetentionApplied(h, s.pending.mutation)
<1>1. b \in BOOLEAN /\ h \in Heads /\ store.token \in Nat
  BY DEF SessionType, TypeOK, Fenced
<1>2. \/ t = CommitFailed(seen, "failed") /\ ~Unresolved(s)
      \/ t \in CommitDone(done, m)
      \/ ~Applied(s, h) /\ t \in {CommitFailed(seen, "stale"), CommitFailed(seen, "conflict")}
      \/ ~Applied(s, h) /\ t \in unchanged
  BY DEF Reconcile
<1>3. ~Applied(s, h) => gone
  BY DEF Applied, Mutation
<1> HIDE DEF b
<1>4. seen \in SessionType /\ seen.req = s.req /\ seen.pending = s.pending /\ seen.op = s.op
  BY <1>1 DEF SessionType
<1> HIDE DEF seen
<1>5. done \in SessionType /\ done.req = s.req /\ done.pending = s.pending /\ done.op = s.op
  BY <1>1, <1>4 DEF SessionType
<1> HIDE DEF done
<1>6. /\ Unresolved(seen) <=> Unresolved(s)
      /\ Unresolved(done) <=> Unresolved(s)
  BY <1>4, <1>5 DEF Unresolved, HasPending
<1>7. CASE t \in CommitDone(done, m)
  <2>1. done.op = "retention" /\ Unresolved(done) => done.req = done.pending.req
    BY <1>5, <1>6 DEF CallOK
  <2>2. Follows(done, t, h)
    BY <1>5, <1>7, <2>1, CommitDoneFollows
  <2> QED BY <1>5, <2>2, FollowsVia
<1>8. ASSUME NEW res, t = CommitFailed(seen, res), gone PROVE Follows(s, t, h)
  <2>1. Unresolved(seen) => ~RetentionApplied(h, seen.pending.mutation)
    BY <1>4, <1>6, <1>8
  <2>2. Follows(seen, t, h)
    BY <1>4, <1>8, <2>1, CommitFailedFollows
  <2> QED BY <1>4, <2>2, FollowsVia
<1> QED BY <1>2, <1>3, <1>7, <1>8

-----------------------------------------------------------------------------
(* The calls.                                                               *)

\* Whatever w's call does, it leaves a record that follows from the last one.
Leads(w) == \E t : Step(w, t) /\ Follows(sess[w], t, store'.head)

\* Looking at the stored head changes neither the request nor what is pending.
LEMMA ObserveSame ==
  ASSUME TypeOK, NEW w \in Writers
  PROVE  LET s == Observe(w, sess[w])
         IN  /\ s \in SessionType /\ s.req = sess[w].req /\ s.pending = sess[w].pending
             /\ s.head = store.head /\ s.op = sess[w].op
<1> DEFINE b == sess[w].stale \/ Fenced(store.head, w, sess[w].epoch)
           s == [sess[w] EXCEPT !.stale = b, !.head = store.head, !.token = store.token]
<1>1. sess[w] \in SessionType /\ b \in BOOLEAN /\ store.head \in Heads /\ store.token \in Nat
  BY DEF TypeOK, SessionType, Fenced
<1>2. Observe(w, sess[w]) = s
  BY DEF Observe
<1> HIDE DEF b
<1>3. /\ s \in SessionType /\ s.req = sess[w].req /\ s.pending = sess[w].pending
      /\ s.head = store.head /\ s.op = sess[w].op
  BY <1>1 DEF SessionType
<1> QED BY <1>2, <1>3

\* AppendSegment leaves a record that follows from the one it began with.
LEMMA AppendSegmentLeads ==
  ASSUME IInv, NEW w \in Writers, NEW seg \in Segment, AppendSegment(w, seg)
  PROVE  Leads(w)
<1> DEFINE s == [sess[w] EXCEPT !.op = "append", !.seg = seg]
           o == Return(s, "ok")
<1>1. sess[w] \in SessionType
  BY SessionFacts
<1>2. s \in SessionType /\ s.req = sess[w].req /\ s.pending = sess[w].pending
  BY <1>1 DEF SessionType
<1>3. PICK t : /\ Step(w, t)
               /\ \/ \E res : t = Return(s, res)
                  \/ t = [o EXCEPT !.state = s.lastAppendState]
                  \/ t = [s EXCEPT !.pc = "resolve"]
                  \/ t \in AppendBody(s)
  BY DEF AppendSegment
<1>4. store' = store
  BY DEF AppendSegment
<1> HIDE DEF s
<1>5. o \in SessionType /\ o.req = s.req /\ o.pending = s.pending
  BY <1>2, ZenonT(40) DEF Return, SessionType, Results
<1> HIDE DEF o
<1>6. CASE t = [o EXCEPT !.state = s.lastAppendState]
  <2>1. t.req = s.req /\ t.pending = s.pending
    BY <1>5, <1>6 DEF SessionType
  <2> QED BY <1>2, <1>3, <2>1, SameFollows DEF Leads
<1>7. CASE t # [o EXCEPT !.state = s.lastAppendState]
  <2>1. Follows(s, t, store'.head)
    BY <1>2, <1>3, <1>7, ReturnFollows, EnterFollows, AppendBodyFollows
  <2> QED BY <1>2, <1>3, <2>1, FollowsVia DEF Leads
<1> QED BY <1>6, <1>7

\* So does ApplyPendingRetention, which takes its request from the mailbox.
LEMMA ApplyPendingLeads ==
  ASSUME IInv, NEW w \in Writers, ApplyPendingRetention(w)
  PROVE  Leads(w)
<1> DEFINE op == IF HasPending(sess[w]) THEN "reconcile" ELSE "retention"
           s == [sess[w] EXCEPT !.op = op]
<1>1. sess[w] \in SessionType /\ op \in {"reconcile", "retention"}
  BY SessionFacts
<1>2. PICK t : /\ Step(w, t)
               /\ \/ \E res : t = Return(s, res)
                  \/ t = [s EXCEPT !.pc = "resolve"]
                  \/ t = AcknowledgePending(s)
                  \/ t = [s EXCEPT !.pc = "refresh", !.req = mailbox]
  BY DEF ApplyPendingRetention
<1> HIDE DEF op
<1>3. s \in SessionType /\ s.req = sess[w].req /\ s.pending = sess[w].pending
  BY <1>1 DEF SessionType
<1> HIDE DEF s
<1>4. CASE t = [s EXCEPT !.pc = "refresh", !.req = mailbox]
  <2>1. t.req = mailbox /\ t.pending = sess[w].pending
    BY <1>3, <1>4 DEF SessionType
  <2> QED BY <1>2, <2>1, SameFollows DEF Leads
<1>5. CASE t = AcknowledgePending(s)
  <2>1. Follows(s, t, store'.head)
    BY <1>3, <1>5, ForgetFollows DEF AcknowledgePending
  <2> QED BY <1>2, <1>3, <2>1, FollowsVia DEF Leads
<1>6. CASE t = [s EXCEPT !.pc = "resolve"] \/ \E res : t = Return(s, res)
  <2>1. Follows(s, t, store'.head)
    BY <1>3, <1>6, ReturnFollows, EnterFollows
  <2> QED BY <1>2, <1>3, <2>1, FollowsVia DEF Leads
<1> QED BY <1>2, <1>4, <1>5, <1>6

\* So does the refresh that a retention call begins with.
LEMMA RetentionRefreshLeads ==
  ASSUME IInv, NEW w \in Writers, RetentionRefresh(w)
  PROVE  Leads(w)
<1> DEFINE s == Observe(w, sess[w])
           p == [req |-> s.req, previous |-> s.head,
                 mutation |-> ApplyRetention(s.head, s.req), resolved |-> FALSE]
           u == [s EXCEPT !.pc = "commit", !.pending = p]
<1>1. /\ s \in SessionType /\ s.req = sess[w].req /\ s.pending = sess[w].pending
      /\ s.head = store.head
  BY ObserveSame DEF IInv
<1>2. sess[w] \in SessionType /\ store' = store
  BY SessionFacts DEF RetentionRefresh
<1>3. PICK t : /\ Step(w, t)
               /\ \/ t = Return(sess[w], "failed")
                  \/ \E res : t = Return(s, res)
                  \/ t = u /\ CanRetain(s.head, s.req)
  BY DEF RetentionRefresh
<1> HIDE DEF s
<1>4. CASE t = Return(sess[w], "failed")
  BY <1>2, <1>3, <1>4, ReturnFollows DEF Leads
<1>5. CASE \E res : t = Return(s, res)
  <2>1. Follows(s, t, store'.head)
    BY <1>1, <1>5, ReturnFollows
  <2> QED BY <1>1, <1>3, <2>1, FollowsVia DEF Leads
<1>6. CASE t = u /\ CanRetain(s.head, s.req)
  <2>1. p.req = s.req /\ p.mutation = ApplyRetention(store.head, s.req)
    BY <1>1
  <2>2. s.req.ver > s.head.retVer /\ s.head.retVer \in Nat
    <3>1. s.head \in Heads
      BY <1>1 DEF SessionType
    <3>2. s.head.retVer \in Nat
      BY <3>1, HeadFields
    <3>3. s.req.ver > s.head.retVer
      BY <1>6 DEF CanRetain
    <3> QED BY <3>2, <3>3
  <2>3. s.req \in Requests
    <3>1. s.req \in Requests \cup {NoRequest}
      BY <1>1 DEF SessionType
    <3> QED BY <2>2, <3>1 DEF NoRequest
  <2>4. s.req.ver # 0
    BY <2>3, HeadAssumption
  <2> HIDE DEF p
  <2>5. t.req = s.req /\ t.pending = p
    BY <1>1, <1>6 DEF SessionType
  <2>6. HasPending(t)
    BY <2>1, <2>4, <2>5 DEF HasPending
  <2>7. Fresh(t.pending, store'.head)
    BY <1>1, <1>2, <1>6, <2>1, <2>3, <2>5 DEF Fresh
  <2>8. Follows(sess[w], t, store'.head)
    BY <1>1, <2>1, <2>5, <2>6, <2>7 DEF Follows
  <2> QED BY <1>3, <2>8 DEF Leads
<1> QED BY <1>3, <1>4, <1>5, <1>6

\* So does the resolution of a pending retention against the head.
LEMMA ResolveRetentionLeads ==
  ASSUME IInv, NEW w \in Writers, ResolveRetention(w)
  PROVE  Leads(w)
<1> DEFINE s == Observe(w, sess[w])
<1>1. s \in SessionType /\ s.req = sess[w].req /\ s.pending = sess[w].pending
  BY ObserveSame DEF IInv
<1>2. PICK t : /\ Step(w, t)
               /\ \/ t = Return(sess[w], "indeterminate")
                  \/ \E res : t = Return(s, res)
                  \/ t \in Resolved(s)
                  \/ t = [s EXCEPT !.pc = "commit"]
  BY DEF ResolveRetention
<1>3. sess[w] \in SessionType
  BY SessionFacts
<1> HIDE DEF s
<1>4. CASE t = Return(sess[w], "indeterminate")
  BY <1>2, <1>3, <1>4, ReturnFollows DEF Leads
<1>5. CASE t # Return(sess[w], "indeterminate")
  <2>1. Follows(s, t, store'.head)
    BY <1>1, <1>2, <1>5, ReturnFollows, ResolvedFollows, EnterFollows
  <2> QED BY <1>1, <1>2, <2>1, FollowsVia DEF Leads
<1> QED BY <1>4, <1>5

\* So does an append that is found in the log, or starts again.
LEMMA AppendRetryLeads ==
  ASSUME IInv, NEW w \in Writers, AppendRetry(w)
  PROVE  Leads(w)
<1> DEFINE s == Observe(w, sess[w])
           o == Return(s, "ok")
           a == AcknowledgedState(sess[w])
<1>1. s \in SessionType /\ s.req = sess[w].req /\ s.pending = sess[w].pending
  BY ObserveSame DEF IInv
<1>2. PICK t : /\ Step(w, t)
               /\ \/ t = Return(sess[w], "failed")
                  \/ \E res : t = Return(s, res)
                  \/ t = [o EXCEPT !.state = a]
  BY DEF AppendRetry
<1>3. sess[w] \in SessionType
  BY SessionFacts
<1> HIDE DEF s, a
<1>4. o \in SessionType /\ o.req = s.req /\ o.pending = s.pending
  BY <1>1, ZenonT(40) DEF Return, SessionType, Results
<1> HIDE DEF o
<1>5. CASE t = Return(sess[w], "failed")
  BY <1>2, <1>3, <1>5, ReturnFollows DEF Leads
<1>6. CASE \E res : t = Return(s, res)
  <2>1. Follows(s, t, store'.head)
    BY <1>1, <1>6, ReturnFollows
  <2> QED BY <1>1, <1>2, <2>1, FollowsVia DEF Leads
<1>7. CASE t = [o EXCEPT !.state = a]
  <2>1. t.req = s.req /\ t.pending = s.pending
    BY <1>4, <1>7 DEF SessionType
  <2> QED BY <1>1, <1>2, <2>1, SameFollows DEF Leads
<1> QED BY <1>2, <1>5, <1>6, <1>7

\* So does a commit whose swap took effect: the head holds the mutation.
LEMMA CommitSwappedLeads ==
  ASSUME IInv, NEW w \in Writers, CommitSwapped(w)
  PROVE  Leads(w)
<1> DEFINE s == sess[w]
           m == Mutation(s)
           o == [s EXCEPT !.head = m, !.token = store.token + 1]
<1>1. s \in SessionType /\ CallOK(s) /\ s.pc = "commit"
  BY SessionFacts DEF CommitSwapped
<1>2. PICK t \in CommitDone(o, m) : Step(w, t)
  BY DEF CommitSwapped
<1>3. m \in Heads /\ store.token + 1 \in Nat
  BY <1>1, MutationType, StoreSound DEF IInv
<1> HIDE DEF s, m
<1>4. o \in SessionType /\ o.op = s.op /\ o.req = s.req /\ o.pending = s.pending
  BY <1>1, <1>3 DEF SessionType
<1> HIDE DEF o
<1>5. o.op = "retention" /\ Unresolved(o) => o.req = o.pending.req
  BY <1>1, <1>4 DEF CallOK, Unresolved, HasPending
<1>6. Follows(o, t, store'.head)
  BY <1>2, <1>4, <1>5, CommitDoneFollows
<1>7. Follows(s, t, store'.head)
  BY <1>4, <1>6, FollowsVia
<1> QED BY <1>2, <1>7 DEF Leads, s

\* So does a commit that lost the swap and reads what the head is.
LEMMA CommitReadsLead ==
  ASSUME IInv, NEW w \in Writers, CommitConflict(w) \/ CommitConfirm(w)
  PROVE  Leads(w)
<1> DEFINE s == sess[w]
           again == IF s.attempt + 1 < CommitAttempts THEN NextAttempt(s)
                    ELSE {CommitFailed(s, "conflict")}
           left == {CommitFailed(s, "unchanged")}
<1>1. s \in SessionType /\ CallOK(s) /\ s.pc \in {"commit", "confirm"} /\ TypeOK
  BY SessionFacts DEF CommitConflict, CommitConfirm, IInv
<1>2. store' = store
  BY DEF CommitConflict, CommitConfirm
<1>3. PICK t : /\ Step(w, t)
               /\ \/ t = CommitFailed(s, "indeterminate")
                  \/ t \in Reconcile(w, s, again)
                  \/ t \in Reconcile(w, s, left)
  BY DEF CommitConflict, CommitConfirm
<1>4. /\ again \subseteq NextAttempt(s) \cup {CommitFailed(s, "conflict")}
      /\ left = {CommitFailed(s, "unchanged")}
  OBVIOUS
<1> HIDE DEF s, again, left
<1>5. ASSUME NEW u \in again \cup left,
             Unresolved(s) => ~RetentionApplied(store.head, s.pending.mutation)
      PROVE  Follows(s, u, store.head)
  BY <1>1, <1>4, <1>5, NextAttemptFollows, CommitFailedFollows
<1>6. t \in Reconcile(w, s, again) => Follows(s, t, store.head)
  BY <1>1, <1>5, ReconcileFollows
<1>7. t \in Reconcile(w, s, left) => Follows(s, t, store.head)
  BY <1>1, <1>5, ReconcileFollows
<1>8. Follows(s, t, store.head)
  BY <1>1, <1>3, <1>6, <1>7, CommitFailedFollows
<1> QED BY <1>2, <1>3, <1>8 DEF Leads, s

\* So does a commit that ends without knowing.
LEMMA CommitErrorLeads ==
  ASSUME IInv, NEW w \in Writers, CommitError(w)
  PROVE  Leads(w)
<1> DEFINE s == sess[w]
<1>1. s \in SessionType
  BY SessionFacts
<1>2. PICK t : Step(w, t) /\ (t \in NextAttempt(s) \/ t = [s EXCEPT !.pc = "confirm"])
  BY DEF CommitError
<1> HIDE DEF s
<1>3. Follows(s, t, store'.head)
  BY <1>1, <1>2, NextAttemptFollows, EnterFollows
<1> QED BY <1>2, <1>3 DEF Leads, s

\* Every step of a call leaves a record that follows from the one before.
LEMMA CallLeads ==
  ASSUME IInv, NEW w \in Writers, CallOf(w) PROVE Leads(w)
BY AppendSegmentLeads, ApplyPendingLeads, RetentionRefreshLeads, ResolveRetentionLeads,
   AppendRetryLeads, CommitSwappedLeads, CommitReadsLead, CommitErrorLeads
   DEF CallOf, CallSteps

-----------------------------------------------------------------------------
(* The floor of a pending mutation while the store moves on.                *)

\* NoRequest is the request of version 0.
LEMMA RequestFields ==
  ASSUME NEW r \in Requests \cup {NoRequest}
  PROVE  r.ver \in Nat /\ r.before \in Nat /\ (r.ver = 0 <=> r = NoRequest)
BY HeadAssumption DEF NoRequest

\* A retention that asks for as much leaves the floor at or above f.
LEMMA FloorUnderRetention ==
  ASSUME NEW h, NEW cm, SoundHead(h, cm), NEW r \in Requests, CanRetain(h, r),
         NEW req \in Requests \cup {NoRequest}, Agree(req, r),
         NEW f \in Nat, FloorOK(f, req, h, cm)
  PROVE  FloorOK(f, req, ApplyRetention(h, r), cm)
<1> DEFINE m == ApplyRetention(h, r)
           floor == RetentionFloor(h, r)
           target == RetentionTarget(h, r)
<1>1. /\ h.oldest \in Nat /\ h.next \in Nat /\ h.retVer \in Nat /\ h \in Heads
      /\ cm \subseteq Segment
  BY HeadFields DEF SoundHead
<1>2. m.oldest = floor /\ m.next = h.next /\ m.retVer = r.ver
  BY <1>1, RetentionFields
<1>3. /\ floor \in Nat /\ target \in Nat
      /\ h.oldest <= floor /\ floor <= h.next
      /\ \A s \in cm : s.base >= h.oldest => (s.base >= floor <=> s.last >= target)
  BY FloorIsBoundary
<1>4. r.before \in Nat /\ r.ver \in Nat /\ req.before \in Nat /\ req.ver \in Nat
  BY RequestFields
<1>5. target = IF r.before > h.next THEN h.next ELSE r.before
  BY DEF RetentionTarget
<1>6. \/ f <= h.oldest
      \/ f <= req.before /\ f <= h.next /\ \A c \in cm : c.base < f => c.last < f
  BY DEF FloorOK
<1> HIDE DEF m, floor, target
<1>7. ASSUME req.ver <= r.ver, ~(f <= h.oldest) PROVE f <= floor
  <2>1. req.before <= r.before /\ f <= target
    BY <1>1, <1>4, <1>5, <1>6, <1>7 DEF Agree
  <2>2. CASE floor < h.next
    <3>1. floor \in 0..h.next /\ h.oldest <= floor
      BY <1>1, <1>3, <2>2
    <3>2. PICK c \in h.log : Covers(c, floor)
      BY <1>1, <2>2, <3>1 DEF SoundHead, HeadOK
    <3>3. c \in cm /\ c.base \in Nat /\ c.last \in Nat /\ c.base >= h.oldest
      BY <1>1, SegmentFields DEF SoundHead, HeadOK
    <3>4. c.base <= floor /\ floor <= c.last
      BY <3>2 DEF Covers
    <3>5. c.base >= floor
      <4>1. \A s \in cm : s.last < floor \/ s.base >= floor
        BY FloorIsBoundary DEF floor
      <4> QED BY <1>3, <3>3, <3>4, <4>1
    <3>6. c.last >= target
      BY <1>3, <3>3, <3>5
    <3>7. c.base >= f
      BY <1>1, <1>3, <1>6, <1>7, <2>1, <3>3, <3>6
    <3> QED BY <1>3, <3>3, <3>4, <3>7
  <2>3. CASE floor = h.next
    BY <1>6, <1>7, <2>3
  <2> QED BY <1>1, <1>3, <2>2, <2>3
<1>8. req.ver <= r.ver => f <= floor
  BY <1>1, <1>3, <1>7
<1>9. \/ f <= floor
      \/ f <= req.before /\ f <= h.next /\ \A c \in cm : c.base < f => c.last < f
  BY <1>1, <1>3, <1>6
<1> QED BY <1>2, <1>8, <1>9 DEF FloorOK, m

\* The other mutations leave the floor and the version alone.
LEMMA FloorUnderAppend ==
  ASSUME NEW h, NEW cm, SoundHead(h, cm), NEW s \in Segment, CanAppend(h, s),
         NEW req, NEW f \in Nat, FloorOK(f, req, h, cm)
  PROVE  FloorOK(f, req, AppendSeg(h, s), cm \cup AppendSeg(h, s).log)
<1> DEFINE m == AppendSeg(h, s)
<1>1. h \in Heads /\ h.next \in Nat /\ h.oldest \in Nat /\ s.base = h.next
      /\ s.base \in Nat /\ s.last \in Nat /\ s.base <= s.last /\ h.log \subseteq cm
      /\ (h.last = NoSegment => h.oldest = h.next)
  BY HeadFields, SegmentFields DEF SoundHead, HeadOK, CanAppend
<1>2. /\ m.next = s.last + 1 /\ m.retVer = h.retVer /\ m.log = h.log \cup {s}
      /\ m.oldest = IF h.last = NoSegment THEN s.base ELSE h.oldest
  BY <1>1, AppendFields
<1> HIDE DEF m
<1>3. m.oldest = h.oldest /\ cm \cup m.log = cm \cup {s}
  BY <1>1, <1>2
<1>4. FloorOK(f, req, m, cm \cup {s})
  BY <1>1, <1>2, <1>3 DEF FloorOK
<1> QED BY <1>3, <1>4 DEF m

\* A takeover leaves version and floor of the retention alone.
LEMMA FloorUnderTakeover ==
  ASSUME NEW h, NEW cm, SoundHead(h, cm), NEW w \in Writers, NEW req, NEW f,
         FloorOK(f, req, h, cm)
  PROVE  FloorOK(f, req, Takeover(h, w), cm \cup Takeover(h, w).log)
<1> DEFINE m == Takeover(h, w)
<1>1. /\ m.next = h.next /\ m.oldest = h.oldest /\ m.retVer = h.retVer /\ m.log = h.log
      /\ h.log \subseteq cm
  BY TakeoverFields DEF SoundHead, HeadOK
<1> HIDE DEF m
<1>2. cm \cup m.log = cm
  BY <1>1
<1> QED BY <1>1, <1>2 DEF FloorOK, m

\* The store is left alone, or it moves by a mutation whose request, if it is
\* a retention, agrees with every request that is being worked on.
Shifted ==
  \/ UNCHANGED <<store, committed>>
  \/ \E m : /\ Install(m)
            /\ \/ \E w \in Writers : m = Takeover(store.head, w)
               \/ \E s \in Segment : CanAppend(store.head, s) /\ m = AppendSeg(store.head, s)
               \/ \E r \in Requests : /\ CanRetain(store.head, r)
                                      /\ m = ApplyRetention(store.head, r)
                                      /\ \A q \in Live : Agree(q, r)
  \/ \E n \in StartLSNs : store.token = 0 /\ Install(NewHead(n))

\* The floor of a pending retention holds in the next head as well.
LEMMA FloorOutlives ==
  ASSUME IInv, Shifted, NEW v \in Writers, Unresolved(sess[v]), FloorInv
  PROVE  FloorOK(sess[v].pending.mutation.oldest, sess[v].pending.req,
                 store'.head, committed')
<1> DEFINE f == sess[v].pending.mutation.oldest
           req == sess[v].pending.req
           h == store.head
<1>1. SoundHead(h, committed) /\ h \in Heads
  BY StoreSound DEF IInv
<1>2. sess[v] \in SessionType
  BY SessionFacts
<1>3. f \in Nat /\ req \in Requests \cup {NoRequest}
  BY <1>2, HeadFields DEF SessionType
<1>4. FloorOK(f, req, h, committed) /\ req \in Live
  BY DEF FloorInv, Live
<1> HIDE DEF f, req
<1>5. CASE UNCHANGED <<store, committed>>
  BY <1>4, <1>5 DEF f, req
<1>6. ASSUME NEW m, Install(m), NEW w \in Writers, m = Takeover(h, w)
      PROVE  FloorOK(f, req, store'.head, committed')
  <2>1. store'.head = m /\ committed' = committed \cup m.log
    BY <1>6 DEF Install
  <2> QED BY <1>1, <1>4, <1>6, <2>1, FloorUnderTakeover
<1>7. ASSUME NEW m, Install(m), NEW s \in Segment, CanAppend(h, s), m = AppendSeg(h, s)
      PROVE  FloorOK(f, req, store'.head, committed')
  <2>1. store'.head = m /\ committed' = committed \cup m.log
    BY <1>7 DEF Install
  <2> QED BY <1>1, <1>3, <1>4, <1>7, <2>1, FloorUnderAppend
<1>8. ASSUME NEW m, Install(m), NEW r \in Requests, CanRetain(h, r),
             m = ApplyRetention(h, r), \A q \in Live : Agree(q, r)
      PROVE  FloorOK(f, req, store'.head, committed')
  <2>1. store'.head = m /\ committed' = committed \cup m.log
    BY <1>8 DEF Install
  <2>2. committed \cup m.log = committed
    BY <1>1, <1>8, RetentionKeeps
  <2> QED BY <1>1, <1>3, <1>4, <1>8, <2>1, <2>2, FloorUnderRetention
<1>9. ASSUME NEW n \in StartLSNs, store.token = 0, Install(NewHead(n))
      PROVE  FloorOK(f, req, store'.head, committed')
  <2>1. h = NewHead(0) /\ committed = {}
    BY <1>9 DEF IInv, StoreInv
  <2>2. store'.head = NewHead(n) /\ n \in Nat
    BY <1>9, SessionAssumption, HeadAssumption DEF Install
  <2>3. /\ NewHead(0).oldest = 0 /\ NewHead(0).next = 0 /\ NewHead(0).retVer = 0
        /\ NewHead(n).oldest = n /\ NewHead(n).retVer = 0
    BY DEF NewHead
  <2>4. f <= n
    BY <1>3, <1>4, <2>1, <2>2, <2>3 DEF FloorOK
  <2> QED BY <2>2, <2>3, <2>4 DEF FloorOK
<1> QED BY <1>5, <1>6, <1>7, <1>8, <1>9 DEF Shifted, f, req

\* The floor of a mutation that was just built.
LEMMA FreshFloor ==
  ASSUME NEW h, NEW cm, SoundHead(h, cm), NEW p, Fresh(p, h)
  PROVE  FloorOK(p.mutation.oldest, p.req, h, cm)
<1> DEFINE floor == RetentionFloor(h, p.req)
<1>1. p.req \in Requests /\ CanRetain(h, p.req) /\ h \in Heads /\ cm \subseteq Segment
  BY DEF Fresh, SoundHead
<1>2. p.mutation.oldest = floor
  BY <1>1, RetentionFields DEF Fresh
<1>3. /\ floor \in Nat /\ RetentionTarget(h, p.req) \in Nat
      /\ floor <= h.next
      /\ RetentionTarget(h, p.req) <= p.req.before
      /\ floor <= RetentionTarget(h, p.req) \/ floor = h.oldest
      /\ \A s \in cm : s.last < floor \/ s.base >= floor
  BY <1>1, FloorIsBoundary
<1>4. h.retVer \in Nat /\ h.oldest \in Nat /\ h.next \in Nat /\ p.req.ver > h.retVer
      /\ p.req.ver \in Nat /\ p.req.before \in Nat
  BY <1>1, HeadFields, RequestFields DEF CanRetain
<1>5. \A s \in cm : s.base \in Nat /\ s.last \in Nat
  BY <1>1, SegmentFields
<1> HIDE DEF floor
<1> QED BY <1>2, <1>3, <1>4, <1>5 DEF FloorOK

-----------------------------------------------------------------------------
(* The sessions.                                                            *)

\* A step of w keeps the other sessions, and what is left of w's requests and
\* of its pending retention comes from where it should.
Traced(w) ==
  /\ \A v \in Writers : v # w => sess'[v] = sess[v]
  /\ sess'[w].req \in {sess[w].req, sess[w].pending.req, mailbox, NoRequest}
  /\ sess'[w].pending.req \in {sess[w].pending.req, sess[w].req, NoRequest}
  /\ Unresolved(sess'[w]) =>
       sess'[w].pending = sess[w].pending \/ Fresh(sess'[w].pending, store'.head)
  /\ sess'[w].pc \notin Serving => ~HasPending(sess'[w])

\* w forgets a pending retention only with its version reported, or while the
\* head does not hold it.
Remembers(w) ==
  HasPending(sess[w]) /\ ~HasPending(sess'[w]) /\ sess'[w].pc # "closed" =>
    sess[w].pending.req.ver \in ackedVers' \/ sess[w].pending.req.ver > store'.head.retVer

\* Become changes one session.
LEMMA BecomeOne ==
  ASSUME TypeOK, NEW w \in Writers, NEW t, Become(w, t)
  PROVE  sess'[w] = t /\ \A v \in Writers : v # w => sess'[v] = sess[v]
BY DEF Become, TypeOK

\* The record a call is left with.
LEMMA StepRecord ==
  ASSUME TypeOK, TypeOK', NEW w \in Writers, NEW t, Step(w, t)
  PROVE  /\ \A v \in Writers : v # w => sess'[v] = sess[v]
         /\ sess'[w].pc = t.pc /\ sess'[w].pending = t.pending
         /\ sess'[w].req \in {t.req, NoRequest}
         /\ t.pc = "ready" /\ t.result = "applied" => t.req.ver \in ackedVers'
<1>1. CASE t.pc # "ready"
  <2>1. Become(w, t)
    BY <1>1 DEF Step
  <2> QED BY <1>1, <2>1, BecomeOne
<1>2. CASE t.pc = "ready"
  <2> DEFINE r == [t EXCEPT !.op = "none", !.seg = NoSegment, !.req = NoRequest,
                            !.attempt = 0, !.state = NoState, !.result = "none"]
  <2>1. /\ Become(w, r)
        /\ ackedVers' = ackedVers \cup {v \in {t.req.ver} : t.result = "applied"}
    BY <1>2 DEF Step
  <2>2. sess'[w] = r /\ \A v \in Writers : v # w => sess'[v] = sess[v]
    BY <2>1, BecomeOne
  <2>3. r \in SessionType
    BY <2>2 DEF TypeOK
  <2>4. DOMAIN r = DOMAIN t
    OBVIOUS
  <2>5. "pc" \in DOMAIN r /\ "pending" \in DOMAIN r /\ "req" \in DOMAIN r
    <3> HIDE DEF r
    <3> QED BY <2>3 DEF SessionType
  <2>6. r.pc = t.pc /\ r.pending = t.pending /\ r.req = NoRequest
    BY <2>4, <2>5
  <2> HIDE DEF r
  <2> QED BY <2>1, <2>2, <2>6
<1> QED BY <1>1, <1>2

\* The requests a call leaves behind are ones it had or took from the mailbox.
LEMMA CallTraced ==
  ASSUME IInv, FloorInv, Shifted, TypeOK', NEW w \in Writers, CallOf(w)
  PROVE  Traced(w) /\ Remembers(w)
<1> DEFINE s == sess[w]
<1>1. PICK t : Step(w, t) /\ Follows(s, t, store'.head)
  BY CallLeads DEF Leads
<1>2. TypeOK /\ s \in SessionType /\ SessionOK(w, s, store, committed)
  BY SessionFacts DEF IInv
<1>3. /\ \A v \in Writers : v # w => sess'[v] = sess[v]
      /\ sess'[w].pc = t.pc /\ sess'[w].pending = t.pending
      /\ sess'[w].req \in {t.req, NoRequest}
      /\ t.pc = "ready" /\ t.result = "applied" => t.req.ver \in ackedVers'
  BY <1>1, <1>2, StepRecord
<1>4. sess'[w].pc \in Serving
  <2>1. PICK u : Step(w, u) /\ Fine(w, sess[w].epoch, u, store', committed')
    BY CallFine DEF Leaves
  <2>2. sess'[w].pc = u.pc
    BY <1>2, <2>1, StepRecord
  <2> QED BY <2>1, <2>2 DEF Fine
<1>5. /\ Unresolved(sess'[w]) <=> Unresolved(t)
      /\ HasPending(sess'[w]) <=> HasPending(t)
  BY <1>3 DEF Unresolved, HasPending
<1>6. Traced(w)
  BY <1>1, <1>3, <1>4, <1>5 DEF Traced, Follows
<1>7. ASSUME HasPending(s), ~HasPending(t)
      PROVE  s.pending.req.ver \in ackedVers' \/ s.pending.req.ver > store'.head.retVer
  <2>1. Dropped(s, t, store'.head)
    BY <1>1, <1>7 DEF Follows
  <2>2. CASE Unresolved(s) /\ ~RetentionApplied(store'.head, s.pending.mutation)
    <3>1. FloorOK(s.pending.mutation.oldest, s.pending.req, store'.head, committed')
      BY <2>2, FloorOutlives
    <3>2. s.pending.mutation.retVer = s.pending.req.ver
      BY <1>2, <1>7 DEF SessionOK, MemoryOK
    <3>3. s.pending.mutation \in Heads /\ s.pending.req \in Requests \cup {NoRequest}
          /\ store'.head \in Heads
      BY <1>2 DEF SessionType, TypeOK
    <3>4. /\ s.pending.mutation.oldest \in Nat /\ s.pending.req.ver \in Nat
          /\ store'.head.oldest \in Nat /\ store'.head.retVer \in Nat
      BY <3>3, HeadFields, RequestFields
    <3> QED BY <2>2, <3>1, <3>2, <3>4 DEF RetentionApplied, FloorOK
  <2>3. CASE t.pc = "ready" /\ t.result = "applied" /\ t.req = s.pending.req
    BY <1>3, <2>3
  <2> QED BY <2>1, <2>2, <2>3 DEF Dropped
<1> QED BY <1>5, <1>6, <1>7 DEF Remembers

\* OpenWriter starts with nothing pending, and a crash leaves nothing.
LEMMA OpenTraced ==
  ASSUME IInv, OpenInv, NEW w \in Writers, OpenWriter(w) \/ OpenSteps(w) \/ Crash(w)
  PROVE  Traced(w) /\ Remembers(w)
<1> DEFINE s == sess[w]
           again == [s EXCEPT !.attempt = @ + 1]
           rebased == [s EXCEPT !.head = store.head, !.token = store.token]
           later == [rebased EXCEPT !.attempt = @ + 1]
           confirm == [s EXCEPT !.pc = "acquireConfirm"]
           opened == [NewSession EXCEPT !.pc = "acquire", !.head = store.head,
                                        !.token = store.token]
<1>1. TypeOK /\ s \in SessionType
  BY SessionFacts DEF IInv
<1>2. /\ NewSession.pending = NoPending /\ NewSession.req = NoRequest
      /\ ClosedSession.pending = NoPending /\ ClosedSession.req = NoRequest
      /\ opened.pending = NoPending /\ opened.req = NoRequest
      /\ ClosedSession.pc = "closed"
      /\ \A h, tk : /\ NewWriterSession(h, tk).pending = NoPending
                    /\ NewWriterSession(h, tk).req = NoRequest
  BY DEF NewSession, ClosedSession, NewWriterSession
<1>3. store.head \in Heads /\ store.token \in Nat
  BY StoreSound DEF IInv
<1>4. PICK t : /\ Become(w, t)
               /\ \/ t \in {ClosedSession, opened}
                  \/ \E h, tk : t = NewWriterSession(h, tk)
                  \/ t \in {again, later, confirm} /\ s.pc = "acquire"
  <2>1. CASE OpenWriter(w)
    BY <2>1 DEF OpenWriter
  <2>2. CASE AcquireSwapped(w)
    BY <2>2 DEF AcquireSwapped
  <2>3. CASE AcquireConflict(w)
    BY <2>3 DEF AcquireConflict, NextAcquire
  <2>4. CASE AcquireError(w)
    BY <2>4 DEF AcquireError, NextAcquire
  <2>5. CASE AcquireExhausted(w) \/ AcquireConfirm(w) \/ Crash(w)
    BY <2>5 DEF AcquireExhausted, AcquireConfirm, Crash
  <2> QED BY <2>1, <2>2, <2>3, <2>4, <2>5 DEF OpenSteps
<1>5. s.pc \in {"new", "acquire", "acquireConfirm"} \/ t = ClosedSession
  <2>1. CASE Crash(w)
    <3>1. sess'[w] = ClosedSession
      BY <1>1, <2>1, BecomeOne DEF Crash
    <3>2. sess'[w] = t
      BY <1>1, <1>4, BecomeOne
    <3> QED BY <3>1, <3>2
  <2>2. CASE ~Crash(w)
    BY <2>2 DEF OpenWriter, OpenSteps, AcquireSwapped, AcquireConflict, AcquireError,
                AcquireExhausted, AcquireConfirm
  <2> QED BY <2>1, <2>2
<1>6. sess'[w] = t /\ \A v \in Writers : v # w => sess'[v] = sess[v]
  BY <1>1, <1>4, BecomeOne
<1> HIDE DEF opened
<1>7. \/ t.pending = NoPending /\ t.req = NoRequest
      \/ t.pending = s.pending /\ t.req = s.req /\ s.pc = "acquire"
  <2>1. again.pending = s.pending /\ again.req = s.req
        /\ confirm.pending = s.pending /\ confirm.req = s.req
    BY <1>1 DEF SessionType
  <2>2. rebased \in SessionType /\ rebased.pending = s.pending /\ rebased.req = s.req
    BY <1>1, <1>3 DEF SessionType
  <2> HIDE DEF again, confirm, rebased
  <2>3. later.pending = s.pending /\ later.req = s.req
    BY <2>2 DEF SessionType
  <2> HIDE DEF later
  <2> QED BY <1>2, <1>4, <2>1, <2>3
<1>8. NoPending.req = NoRequest /\ NoRequest.ver = 0
  BY DEF NoPending, NoRequest
<1>9. s.pc \in {"new", "acquire", "acquireConfirm"} => ~HasPending(s)
  BY DEF OpenInv, Serving
<1>10. ~HasPending(t)
  BY <1>7, <1>8, <1>9 DEF HasPending
<1>11. Traced(w)
  BY <1>6, <1>7, <1>8, <1>10 DEF Traced, Unresolved
<1>12. Remembers(w)
  BY <1>2, <1>5, <1>6, <1>9 DEF Remembers
<1> QED BY <1>11, <1>12

-----------------------------------------------------------------------------
(* The requests.                                                            *)

\* The live requests are requests.
LEMMA LiveTyped ==
  ASSUME TypeOK
  PROVE  Live \subseteq Requests \cup {NoRequest} /\ mailbox \in Requests \cup {NoRequest}
<1>1. \A w \in Writers : sess[w] \in SessionType
  BY DEF TypeOK
<1>2. \A w \in Writers : /\ sess[w].req \in Requests \cup {NoRequest}
                         /\ sess[w].pending.req \in Requests \cup {NoRequest}
  BY <1>1 DEF SessionType
<1> QED BY <1>2 DEF Live, TypeOK

\* No step makes a request up.
LEMMA LiveTraced ==
  ASSUME NEW w \in Writers, Traced(w)
  PROVE  Live' \subseteq Live \cup {mailbox, NoRequest}
<1> SUFFICES ASSUME NEW v \in Writers, NEW q \in {sess'[v].req, sess'[v].pending.req}
             PROVE  q \in Live \cup {mailbox, NoRequest}
  BY DEF Live
<1>1. CASE v = w
  BY <1>1 DEF Traced, Live
<1>2. CASE v # w
  BY <1>2 DEF Traced, Live
<1> QED BY <1>1, <1>2

\* What a request agrees with, when it and the mailbox agree with what was
\* being worked on.
LEMMA AgreeKept ==
  ASSUME IInv, RequestInv, Live' \subseteq Live \cup {mailbox, NoRequest},
         NEW r \in Requests \cup {NoRequest},
         r.ver <= mailbox.ver, Agree(r, mailbox), \A q \in Live : Agree(q, r)
  PROVE  \A q \in Live' : Agree(q, r)
<1>1. mailbox \in Requests \cup {NoRequest}
  BY LiveTyped DEF IInv
<1>2. Agree(mailbox, r)
  BY DEF Agree
<1>3. Agree(NoRequest, r)
  BY RequestFields DEF Agree, NoRequest
<1> QED BY <1>2, <1>3

\* A step that takes its requests from the mailbox or from what is being
\* worked on, and loses no put but one of these or one that is no retention.
LEMMA RequestsKept ==
  ASSUME IInv, RequestInv, mailbox' = mailbox,
         Live' \subseteq Live \cup {mailbox, NoRequest},
         \A x \in inflight' :
           /\ store' = store
           /\ \/ x \in inflight
              \/ x.head.retVer = store.head.retVer
              \/ \E r \in Requests \cap Live : Behind(r, x.head)
  PROVE  RequestInv'
<1>1. Live \subseteq Requests \cup {NoRequest} /\ mailbox \in Requests \cup {NoRequest}
  BY LiveTyped DEF IInv
<1>2. Agree(mailbox, mailbox) /\ mailbox.ver <= mailbox.ver
      /\ Agree(NoRequest, mailbox) /\ NoRequest.ver <= mailbox.ver
  BY <1>1, RequestFields DEF Agree, NoRequest
<1>3. \A q \in Live' : q.ver <= mailbox.ver /\ Agree(q, mailbox)
                       /\ q \in Requests \cup {NoRequest}
  BY <1>1, <1>2 DEF RequestInv
<1>4. \A q, r \in Live' : Agree(q, r)
  <2>1. ASSUME NEW r \in Live \cup {mailbox, NoRequest}
        PROVE  \A q \in Live' : Agree(q, r)
    <3>1. r \in Requests \cup {NoRequest} /\ r.ver <= mailbox.ver /\ Agree(r, mailbox)
      BY <1>1, <1>2 DEF RequestInv
    <3>2. \A q \in Live : Agree(q, r)
      <4>1. CASE r \in Live
        BY <4>1 DEF RequestInv
      <4>2. CASE r = mailbox
        BY <4>2 DEF RequestInv
      <4>3. CASE r = NoRequest
        <5>1. ASSUME NEW q \in Live PROVE Agree(q, NoRequest)
          <6>1. q.ver \in Nat /\ q.before \in Nat /\ (q.ver = 0 <=> q = NoRequest)
            BY <1>1, RequestFields
          <6> QED BY <6>1 DEF Agree, NoRequest
        <5> QED BY <4>3, <5>1
      <4> QED BY <4>1, <4>2, <4>3
    <3> QED BY <3>1, <3>2, AgreeKept
  <2> QED BY <2>1
<1>5. ASSUME NEW x \in inflight', ~(x.head.retVer = store'.head.retVer)
      PROVE  \E r \in Requests : /\ (CanRetain(store.head, r)
                                     /\ x.head = ApplyRetention(store.head, r))'
                                 /\ r.ver <= mailbox'.ver /\ Agree(r, mailbox')
                                 /\ \A q \in Live' : Agree(q, r)
  <2>1. store' = store
    BY <1>5
  <2>2. PICK r \in Requests : /\ Behind(r, x.head)
                              /\ r.ver <= mailbox.ver /\ Agree(r, mailbox)
                              /\ \A q \in Live : Agree(q, r)
    BY <1>5, <2>1 DEF RequestInv
  <2>3. \A q \in Live' : Agree(q, r)
    BY <2>2, AgreeKept
  <2> QED BY <2>1, <2>2, <2>3 DEF Behind
<1> QED BY <1>3, <1>4, <1>5 DEF RequestInv, Behind

\* A newer request in the mailbox asks for no less than the older ones.
LEMMA NewRequestKept ==
  ASSUME IInv, RequestInv, NEW r \in Requests, RequestRetention(r)
  PROVE  RequestInv'
<1>1. /\ r.ver > mailbox.ver /\ r.before >= mailbox.before /\ mailbox' = r
      /\ store' = store /\ inflight' = inflight /\ sess' = sess
  BY DEF RequestRetention
<1>2. Live' = Live
  BY <1>1 DEF Live
<1>3. Live \subseteq Requests \cup {NoRequest} /\ mailbox \in Requests \cup {NoRequest}
  BY LiveTyped DEF IInv
<1>4. ASSUME NEW q \in Requests \cup {NoRequest}, q.ver <= mailbox.ver, Agree(q, mailbox)
      PROVE  q.ver <= r.ver /\ Agree(q, r)
  <2>1. /\ q.ver \in Nat /\ q.before \in Nat /\ r.ver \in Nat /\ r.before \in Nat
        /\ mailbox.ver \in Nat /\ mailbox.before \in Nat
    BY <1>3, RequestFields
  <2> QED BY <1>1, <1>4, <2>1 DEF Agree
<1>5. \A q \in Live' : q.ver <= mailbox'.ver /\ Agree(q, mailbox')
  BY <1>1, <1>2, <1>3, <1>4 DEF RequestInv
<1>6. ASSUME NEW x \in inflight', ~(x.head.retVer = store'.head.retVer)
      PROVE  \E q \in Requests : /\ (CanRetain(store.head, q)
                                     /\ x.head = ApplyRetention(store.head, q))'
                                 /\ q.ver <= mailbox'.ver /\ Agree(q, mailbox')
                                 /\ \A p \in Live' : Agree(p, q)
  <2>1. PICK q \in Requests : /\ Behind(q, x.head)
                              /\ q.ver <= mailbox.ver /\ Agree(q, mailbox)
                              /\ \A p \in Live : Agree(p, q)
    BY <1>1, <1>6 DEF RequestInv
  <2>2. q.ver <= r.ver /\ Agree(q, r)
    BY <1>4, <2>1
  <2> QED BY <1>1, <1>2, <2>1, <2>2 DEF Behind
<1> QED BY <1>2, <1>5, <1>6 DEF RequestInv, Behind

-----------------------------------------------------------------------------
(* The steps.                                                               *)

\* A put that lands late brings a request that agrees with the others.
LEMMA LandShifts ==
  ASSUME IInv, RequestInv, Land PROVE Shifted
<1>1. PICK x \in inflight : Install(x.head)
  BY DEF Land
<1>2. SoundHead(store.head, committed) /\ store.head \in Heads
  BY StoreSound DEF IInv
<1>3. \/ Legal(store.head, x.head)
      \/ store.token = 0 /\ \E n \in StartLSNs : x.head = NewHead(n)
  BY DEF IInv, InflightInv
<1>4. ASSUME NEW r \in Requests, CanRetain(store.head, r),
             x.head = ApplyRetention(store.head, r)
      PROVE  \E q \in Requests : /\ CanRetain(store.head, q)
                                 /\ x.head = ApplyRetention(store.head, q)
                                 /\ \A p \in Live : Agree(p, q)
  <2>1. x.head.retVer = r.ver /\ r.ver > store.head.retVer /\ store.head.retVer \in Nat
        /\ r.ver \in Nat
    BY <1>2, <1>4, RetentionFields, HeadFields, RequestFields DEF CanRetain
  <2> QED BY <2>1 DEF RequestInv, Behind
<1> QED BY <1>1, <1>3, <1>4 DEF Shifted, Legal

\* A session's own retention carries one of the requests being worked on.
LEMMA CommitShifts ==
  ASSUME IInv, RequestInv, NEW w \in Writers, CommitSwapped(w) PROVE Shifted
<1> DEFINE s == sess[w]
<1>1. s.pc = "commit" /\ s.token = store.token /\ Install(Mutation(s))
  BY DEF CommitSwapped
<1>2. s \in SessionType /\ CallOK(s) /\ SessionOK(w, s, store, committed)
  BY SessionFacts
<1>3. s.head = store.head
  BY <1>1, <1>2 DEF SessionOK, CacheOK
<1>4. s.pending.req \in Live
  BY DEF Live
<1>5. \A q \in Live : Agree(q, s.pending.req)
  BY <1>4 DEF RequestInv
<1> HIDE DEF s
<1>6. CASE ~Unresolved(s)
  BY <1>1, <1>2, <1>3, <1>6, MutationFields DEF Shifted
<1>7. CASE Unresolved(s)
  BY <1>1, <1>2, <1>3, <1>5, <1>7, MutationFields DEF Shifted
<1> QED BY <1>6, <1>7

\* The put of a session that was answered with an error.
LEMMA LostRequests ==
  ASSUME IInv, NEW w \in Writers, NEW m, Lose(sess[w].token, m),
         \/ m.retVer = sess[w].head.retVer
         \/ /\ sess[w].pending.req \in Requests /\ CanRetain(sess[w].head, sess[w].pending.req)
            /\ m = ApplyRetention(sess[w].head, sess[w].pending.req)
  PROVE  \A x \in inflight' :
           /\ store' = store
           /\ \/ x \in inflight
              \/ x.head.retVer = store.head.retVer
              \/ \E r \in Requests \cap Live : Behind(r, x.head)
<1>1. sess[w].token = store.token => sess[w].head = store.head
  BY SessionFacts DEF SessionOK, CacheOK
<1>2. sess[w].pending.req \in Live
  BY DEF Live
<1>3. store' = store
  BY DEF Lose
<1> SUFFICES ASSUME NEW x \in inflight', x \notin inflight
             PROVE  \/ x.head.retVer = store.head.retVer
                    \/ \E r \in Requests \cap Live : Behind(r, x.head)
  BY <1>3
<1>4. x = [token |-> sess[w].token, head |-> m] /\ sess[w].token = store.token
  BY DEF Lose
<1>5. x.head = m
  BY <1>4
<1> QED BY <1>1, <1>2, <1>4, <1>5 DEF Behind

\* Opening a session, and losing one, brings no retention into play.
LEMMA OpenRequests ==
  ASSUME IInv, RequestInv, NEW w \in Writers, OpenWriter(w) \/ OpenSteps(w) \/ Crash(w),
         Traced(w)
  PROVE  RequestInv' /\ Shifted
<1>1. mailbox' = mailbox
  BY DEF OpenWriter, OpenSteps, AcquireSwapped, AcquireConflict, AcquireError,
         AcquireExhausted, AcquireConfirm, Crash
<1>2. Live' \subseteq Live \cup {mailbox, NoRequest}
  BY LiveTraced
<1>3. sess[w] \in SessionType /\ SessionOK(w, sess[w], store, committed)
  BY SessionFacts
<1>4. sess[w].head \in Heads
  BY <1>3 DEF SessionType
<1>5. Takeover(sess[w].head, w).retVer = sess[w].head.retVer
  BY <1>4, TakeoverFields
<1>6. CASE AcquireSwapped(w)
  <2>1. sess[w].token = store.token /\ Install(Takeover(sess[w].head, w))
    BY <1>6 DEF AcquireSwapped
  <2>2. sess[w].head = store.head
    BY <1>3, <2>1 DEF SessionOK, CacheOK
  <2>3. inflight' = {}
    BY <2>1 DEF Install
  <2>4. Shifted
    BY <2>1, <2>2 DEF Shifted
  <2> QED BY <1>1, <1>2, <2>3, <2>4, RequestsKept
<1>7. CASE AcquireError(w)
  <2>1. Lose(sess[w].token, Takeover(sess[w].head, w))
    BY <1>7 DEF AcquireError
  <2>2. Shifted
    BY <2>1 DEF Lose, Shifted
  <2>3. \A x \in inflight' :
           /\ store' = store
           /\ \/ x \in inflight
              \/ x.head.retVer = store.head.retVer
              \/ \E r \in Requests \cap Live : Behind(r, x.head)
    BY <1>5, <2>1, LostRequests
  <2> QED BY <1>1, <1>2, <2>2, <2>3, RequestsKept
<1>8. CASE ~AcquireSwapped(w) /\ ~AcquireError(w)
  <2>1. UNCHANGED <<store, inflight, committed>>
    BY <1>8 DEF OpenWriter, OpenSteps, AcquireConflict, AcquireExhausted, AcquireConfirm, Crash
  <2>2. Shifted
    BY <2>1 DEF Shifted
  <2> QED BY <1>1, <1>2, <2>1, <2>2, RequestsKept
<1> QED BY <1>6, <1>7, <1>8

\* What a call does to the head and to the writes in flight is a live request.
LEMMA CallShifts ==
  ASSUME IInv, RequestInv, NEW w \in Writers, CallOf(w)
  PROVE  /\ Shifted /\ mailbox' = mailbox
         /\ \A x \in inflight' :
              /\ store' = store
              /\ \/ x \in inflight
                 \/ x.head.retVer = store.head.retVer
                 \/ \E r \in Requests \cap Live : Behind(r, x.head)
<1>1. mailbox' = mailbox
  BY DEF CallOf, CallSteps, AppendSegment, ApplyPendingRetention, RetentionRefresh,
         ResolveRetention, AppendRetry, CommitSwapped, CommitConflict, CommitError, CommitConfirm
<1>2. CASE CommitSwapped(w)
  <2>1. Shifted
    BY <1>2, CommitShifts
  <2>2. inflight' = {}
    BY <1>2 DEF CommitSwapped, Install
  <2> QED BY <1>1, <2>1, <2>2
<1>3. CASE CommitError(w)
  <2> DEFINE s == sess[w]
  <2>1. s.pc = "commit" /\ Lose(s.token, Mutation(s))
    BY <1>3 DEF CommitError
  <2>2. s \in SessionType /\ CallOK(s) /\ s.head \in Heads
    BY SessionFacts DEF SessionType
  <2>3. \/ Mutation(s).retVer = s.head.retVer
        \/ /\ s.pending.req \in Requests /\ CanRetain(s.head, s.pending.req)
           /\ Mutation(s) = ApplyRetention(s.head, s.pending.req)
    <3> HIDE DEF s
    <3>1. CASE ~Unresolved(s)
      BY <2>1, <2>2, <3>1, MutationFields, AppendFields
    <3>2. CASE Unresolved(s)
      BY <2>1, <2>2, <3>2, MutationFields
    <3> QED BY <3>1, <3>2
  <2>4. Shifted
    BY <2>1 DEF Lose, Shifted
  <2> QED BY <1>1, <2>1, <2>3, <2>4, LostRequests
<1>4. CASE ~CommitSwapped(w) /\ ~CommitError(w)
  <2>1. UNCHANGED <<store, inflight, committed>>
    BY <1>4 DEF CallOf, CallSteps, AppendSegment, ApplyPendingRetention, RetentionRefresh,
                ResolveRetention, AppendRetry, CommitConflict, CommitConfirm
  <2> QED BY <1>1, <2>1 DEF Shifted
<1> QED BY <1>2, <1>3, <1>4

\* The sessions after a step of w.
LEMMA TracedKeeps ==
  ASSUME IInv, IInv', FloorInv, OpenInv, Shifted, NEW w \in Writers, Traced(w)
  PROVE  FloorInv' /\ OpenInv'
<1>1. SoundHead(store'.head, committed')
  BY StoreSound DEF IInv, StoreInv, TypeOK, SoundHead
<1>2. ASSUME NEW v \in Writers, Unresolved(sess'[v])
      PROVE  FloorOK(sess'[v].pending.mutation.oldest, sess'[v].pending.req,
                     store'.head, committed')
  <2>1. CASE v # w
    BY <1>2, <2>1, FloorOutlives DEF Traced
  <2>2. CASE v = w
    <3>1. CASE sess'[w].pending = sess[w].pending
      <4>1. Unresolved(sess[w])
        BY <1>2, <2>2, <3>1 DEF Unresolved, HasPending
      <4> QED BY <2>2, <3>1, <4>1, FloorOutlives
    <3>2. CASE Fresh(sess'[w].pending, store'.head)
      BY <1>1, <2>2, <3>2, FreshFloor
    <3> QED BY <1>2, <2>2, <3>1, <3>2 DEF Traced
  <2> QED BY <2>1, <2>2
<1>3. FloorInv'
  BY <1>2 DEF FloorInv
<1>4. OpenInv'
  BY DEF OpenInv, Traced
<1> QED BY <1>3, <1>4

\* KeepInv is inductive on IInv, and no step swallows a pending retention.
LEMMA StepKeeps ==
  ASSUME IInv, KeepInv, [Next]_vars
  PROVE  KeepInv' /\ \A w \in Writers : Remembers(w)
<1>1. IInv' /\ TypeOK'
  BY StepIInv DEF IInv
<1>2. ASSUME UNCHANGED sess, Shifted
      PROVE  /\ FloorInv' /\ OpenInv' /\ \A w \in Writers : Remembers(w)
             /\ Live' \subseteq Live \cup {mailbox, NoRequest}
  <2>1. FloorInv'
    BY <1>2, FloorOutlives DEF FloorInv, KeepInv
  <2>2. OpenInv' /\ \A w \in Writers : Remembers(w)
    BY <1>2 DEF OpenInv, KeepInv, Remembers
  <2>3. Live' = Live
    BY <1>2 DEF Live
  <2> QED BY <2>1, <2>2, <2>3
<1>3. CASE Land
  <2>1. Shifted
    BY <1>3, LandShifts DEF KeepInv
  <2>2. UNCHANGED sess /\ mailbox' = mailbox /\ inflight' = {}
    BY <1>3 DEF Land, Install
  <2>3. RequestInv'
    BY <1>2, <2>1, <2>2, RequestsKept DEF KeepInv
  <2> QED BY <1>2, <2>1, <2>2, <2>3 DEF KeepInv
<1>4. ASSUME NEW n \in StartLSNs, Initialize(n)
      PROVE  KeepInv' /\ \A w \in Writers : Remembers(w)
  <2>1. UNCHANGED sess /\ mailbox' = mailbox /\ store.token = 0
    BY <1>4 DEF Initialize
  <2>2. CASE Install(NewHead(n))
    <3>1. Shifted /\ inflight' = {}
      BY <2>1, <2>2 DEF Shifted, Install
    <3>2. RequestInv'
      BY <1>2, <2>1, <3>1, RequestsKept DEF KeepInv
    <3> QED BY <1>2, <2>1, <3>1, <3>2 DEF KeepInv
  <2>3. CASE Lose(0, NewHead(n))
    <3>1. Shifted /\ store' = store
      BY <2>3 DEF Lose, Shifted
    <3>2. store.head.retVer = 0
      BY <2>1 DEF IInv, StoreInv, NewHead
    <3>3. ASSUME NEW x \in inflight' PROVE x \in inflight \/ x.head.retVer = store.head.retVer
      <4>1. x \in inflight \/ x = [token |-> 0, head |-> NewHead(n)]
        BY <2>3 DEF Lose
      <4>2. NewHead(n).retVer = 0
        BY DEF NewHead
      <4> QED BY <3>2, <4>1, <4>2
    <3>4. RequestInv'
      BY <1>2, <2>1, <3>1, <3>3, RequestsKept DEF KeepInv
    <3> QED BY <1>2, <2>1, <3>1, <3>4 DEF KeepInv
  <2> QED BY <1>4, <2>2, <2>3 DEF Initialize
<1>5. ASSUME NEW r \in Requests, RequestRetention(r)
      PROVE  KeepInv' /\ \A w \in Writers : Remembers(w)
  <2>1. UNCHANGED sess /\ Shifted
    BY <1>5 DEF RequestRetention, Shifted
  <2> QED BY <1>2, <1>5, <2>1, NewRequestKept DEF KeepInv
<1>6. ASSUME NEW w \in Writers, Shifted, Traced(w), Remembers(w), RequestInv'
      PROVE  KeepInv' /\ \A v \in Writers : Remembers(v)
  <2>1. FloorInv' /\ OpenInv'
    BY <1>1, <1>6, TracedKeeps DEF KeepInv
  <2>2. \A v \in Writers : Remembers(v)
    BY <1>6 DEF Traced, Remembers
  <2> QED BY <1>6, <2>1, <2>2 DEF KeepInv
<1>7. ASSUME NEW w \in Writers, OpenWriter(w) \/ OpenSteps(w) \/ Crash(w)
      PROVE  KeepInv' /\ \A v \in Writers : Remembers(v)
  <2>1. Traced(w) /\ Remembers(w)
    BY <1>7, OpenTraced DEF KeepInv
  <2>2. RequestInv' /\ Shifted
    BY <1>7, <2>1, OpenRequests DEF KeepInv
  <2> QED BY <1>6, <2>1, <2>2
<1>8. ASSUME NEW w \in Writers, CallOf(w)
      PROVE  KeepInv' /\ \A v \in Writers : Remembers(v)
  <2>1. /\ Shifted /\ mailbox' = mailbox
        /\ \A x \in inflight' :
             /\ store' = store
             /\ \/ x \in inflight
                \/ x.head.retVer = store.head.retVer
                \/ \E r \in Requests \cap Live : Behind(r, x.head)
    BY <1>8, CallShifts DEF KeepInv
  <2>2. Traced(w) /\ Remembers(w)
    BY <1>1, <1>8, <2>1, CallTraced DEF KeepInv
  <2>3. Live' \subseteq Live \cup {mailbox, NoRequest}
    BY <2>2, LiveTraced
  <2>4. RequestInv'
    BY <2>1, <2>3, RequestsKept DEF KeepInv
  <2> QED BY <1>6, <2>1, <2>2, <2>4
<1>9. CASE UNCHANGED vars
  <2>1. UNCHANGED <<store, inflight, mailbox, sess, committed>> /\ Shifted
    BY <1>9 DEF vars, Shifted
  <2>2. RequestInv'
    BY <1>2, <2>1, RequestsKept DEF KeepInv
  <2> QED BY <1>2, <2>1, <2>2 DEF KeepInv
<1> QED BY <1>3, <1>4, <1>5, <1>7, <1>8, <1>9 DEF Next, CallOf

\* Nothing is pending at the start.
LEMMA InitKeepInv == Init => KeepInv
<1> SUFFICES ASSUME Init PROVE KeepInv
  OBVIOUS
<1>1. \A w \in Writers : sess[w] = NewSession
  BY DEF Init
<1>2. NewSession.pending.req = NoRequest /\ NewSession.req = NoRequest /\ NoRequest.ver = 0
      /\ NoRequest.before = 0
  BY DEF NewSession, NoPending, NoRequest
<1> HIDE DEF NewSession
<1>3. \A q \in Live : q = NoRequest
  BY <1>1, <1>2 DEF Live
<1>4. mailbox = NoRequest /\ inflight = {}
  BY DEF Init
<1>5. RequestInv
  BY <1>2, <1>3, <1>4 DEF RequestInv, Agree
<1>6. \A w \in Writers : ~HasPending(sess[w])
  BY <1>1, <1>2 DEF HasPending
<1>7. FloorInv /\ OpenInv
  BY <1>6 DEF FloorInv, OpenInv, Unresolved
<1> QED BY <1>5, <1>7 DEF KeepInv

\* A session forgets a retention commit only by reporting it as applied, or
\* while the head does not hold its version: neither AppendSegment nor a
\* refresh in between swallows an outcome that the retention caller has not
\* been told, even with other writers' requests landing late.
THEOREM PendingStaysKept == Spec => PendingIsKept
<1>1. Init => KeepInv
  BY InitKeepInv
<1>2. IInv /\ KeepInv /\ [Next]_vars => KeepInv'
  BY StepKeeps
<1>3. IInv /\ KeepInv /\ [Next]_vars =>
        [\A w \in Writers :
           HasPending(sess[w]) /\ ~HasPending(sess'[w]) /\ sess'[w].pc # "closed" =>
             LET ver == sess[w].pending.req.ver
             IN  ver \in ackedVers' \/ ver > store'.head.retVer]_vars
  BY StepKeeps DEF Remembers
<1> QED BY <1>1, <1>2, <1>3, InvariantHolds, PTL DEF Spec, PendingIsKept
=============================================================================
