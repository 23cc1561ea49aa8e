--------------------------- MODULE MemoryCatalog ---------------------------
(***************************************************************************)
(* The in-process catalog (catalog/memory.go): one partition under one      *)
(* mutex, the sessions of its writers and the retention mailbox.  It is the *)
(* second implementation of the contract CatalogLog states, and the catalog *)
(* the readers of module Reader query.                                      *)
(*                                                                         *)
(* A call that is refused (stale writer, conflict, regression) changes      *)
(* nothing and is therefore not a step.  Segments out of timestamp order    *)
(* and duplicate object names are refused too and never offered here.       *)
(***************************************************************************)
EXTENDS CatalogHead, Sequences, FiniteSetsExt

CONSTANT PageLimit   \* segments of one ListSegments page (MaxSegmentPageLimit)

ASSUME PageLimitAssumption == PageLimit \in Nat \ {0}

VARIABLES
  part,       \* memoryPartition; headVersion 0: not created yet
  request,    \* the retention mailbox: <<>> or <<request>>
  session,    \* memoryWriterSession of each writer; epoch 0: not opened
  committed,  \* history: every segment ever appended
  acked,      \* history: segments an AppendSegment call returned as committed
  ackedVers   \* history: policy versions ApplyPendingRetention reported

catalogVars == <<part, request, session, committed, acked, ackedVers>>

\* pmeta.PartitionHead.  `last` is <<>> while HasLastSegment is false.
ZeroHead ==
  [next |-> 0, oldest |-> 0, retLSN |-> 0, retVer |-> 0, epoch |-> 0,
   last |-> <<>>, count |-> 0, reachable |-> 0]

\* Record timestamps never decrease with the LSN, and neighbours may share one.
Timestamp(lsn) == lsn \div 2

\* acquireWriter on the partition.
Acquired(p, w) == [p EXCEPT !.state.epoch = @ + 1, !.writer = w, !.version = @ + 1]

CatalogInit ==
  /\ part = [state |-> ZeroHead, writer |-> NoWriter, version |-> 0, segments |-> <<>>]
  /\ request = <<>>
  /\ session = [w \in Writers |-> [epoch |-> 0, state |-> ZeroHead]]
  /\ committed = {} /\ acked = {} /\ ackedVers = {}

----------------------------------------------------------------------------
\* sort.Search over the retained segments, which are in LSN order.
FirstIndex(segments, Reaches(_)) ==
  Min({i \in 1..Len(segments) + 1 : i = Len(segments) + 1 \/ Reaches(segments[i])})

firstSegmentAtOrAfter(segments, lsn) ==
  FirstIndex(segments, LAMBDA s : s.last >= lsn)

firstSegmentAtOrAfterTimestamp(segments, ts) ==
  FirstIndex(segments, LAMBDA s : Timestamp(s.last) >= ts)

\* The queries of readers: each is one critical section of the catalog.
LoadPartition == part.state

LoadPartitionSnapshot == [version |-> part.version, head |-> part.state]

\* RefreshPartitionSnapshot hands the previous snapshot back when nothing
\* changed since.
RefreshPartitionSnapshot(previous) ==
  IF part.version = previous.version
  THEN [snapshot |-> previous, changed |-> FALSE]
  ELSE [snapshot |-> LoadPartitionSnapshot, changed |-> TRUE]

\* The retained segment that holds lsn, as <<>> or <<segment>>.
FindSegmentAt(lsn) ==
  LET i == firstSegmentAtOrAfter(part.segments, lsn)
  IN  IF i <= Len(part.segments) /\ Covers(part.segments[i], lsn)
      THEN <<part.segments[i]>> ELSE <<>>

ListSegments(from) ==
  LET start == firstSegmentAtOrAfter(part.segments, from)
  IN  SubSeq(part.segments, start, Min({start + PageLimit - 1, Len(part.segments)}))

LookupTimestamp(ts) ==
  LET i == firstSegmentAtOrAfterTimestamp(part.segments, ts)
  IN  [head |-> part.state,
       found |-> IF i <= Len(part.segments) THEN <<part.segments[i]>> ELSE <<>>]

----------------------------------------------------------------------------
InitializePartition(n) ==
  /\ part.version = 0
  /\ part' = [part EXCEPT !.state.next = n, !.state.oldest = n, !.version = 1]
  /\ UNCHANGED <<request, session, committed, acked, ackedVers>>

\* OpenWriter: every incarnation has its own writer ID.
OpenWriter(w) ==
  LET opened == Acquired(part, w)
  IN  /\ session[w].epoch = 0 /\ part.state.epoch < MaxEpoch
      /\ part' = opened
      /\ session' = [session EXCEPT ![w] = [epoch |-> opened.state.epoch,
                                            state |-> opened.state]]
      /\ UNCHANGED <<request, committed, acked, ackedVers>>

\* memoryWriterSession.AppendSegment: the LSN the session expects the segment
\* at, which is the last segment's own base when the call repeats it.
knownRetry(w, s) == session[w].state.last = <<s>>

expectedNextLSN(w, s) ==
  LET last == session[w].state.last
  IN  IF last # <<>> /\ last[1].base = s.base THEN s.base ELSE session[w].state.next

\* ValidateAppendSegment and the writer tag.
ValidAppend(w, s) ==
  /\ session[w].epoch # 0
  /\ s.base = expectedNextLSN(w, s) /\ s.epoch = session[w].epoch /\ s.tag = w

idempotentRetryMutant(s) ==
  LET i == firstSegmentAtOrAfter(part.segments, s.base)
  IN  i <= Len(part.segments) /\ part.segments[i].base = s.base

idempotentRetry(s) ==
  LET i == firstSegmentAtOrAfter(part.segments, s.base)
  IN  i <= Len(part.segments) /\ part.segments[i] = s

\* A repeated append is confirmed, also to a writer that lost the fence since;
\* a known retry does not rebase that writer onto the current head.
AppendRetry(w, s) ==
  /\ ValidAppend(w, s) /\ idempotentRetry(s)
  /\ session' = [session EXCEPT ![w].state = IF knownRetry(w, s) THEN @ ELSE part.state]
  /\ acked' = acked \cup {s}
  /\ UNCHANGED <<part, request, committed, ackedVers>>

\* A retry of a commit that retention has passed is refused as indeterminate.
AppendCommits(w, s) ==
  LET h == part.state
  IN  /\ ~idempotentRetry(s)
      /\ ~(knownRetry(w, s) /\ s.base < h.oldest)
      /\ session[w].epoch = h.epoch /\ part.writer = w
      /\ expectedNextLSN(w, s) = h.next
      /\ h.last # <<>> => Timestamp(s.base) >= Timestamp(h.last[1].last)

Appended(h, s) ==
  [h EXCEPT !.next = s.last + 1, !.oldest = IF h.last = <<>> THEN s.base ELSE @,
            !.last = <<s>>, !.count = @ + 1, !.reachable = @ + 1]

AppendSegment(w, s) ==
  /\ ValidAppend(w, s) /\ AppendCommits(w, s)
  /\ part' = [part EXCEPT !.state = Appended(@, s), !.version = @ + 1,
                          !.segments = Append(@, s)]
  /\ session' = [session EXCEPT ![w].state = part'.state]
  /\ committed' = committed \cup {s}
  /\ acked' = acked \cup {s}
  /\ UNCHANGED <<request, ackedVers>>

\* RequestRetention: neither the policy version nor the LSN may go back.
RequestRetention(r) ==
  /\ request # <<>> => r.ver > request[1].ver /\ r.before >= request[1].before
  /\ request' = <<r>>
  /\ UNCHANGED <<part, session, committed, acked, ackedVers>>

\* The mailbox holds a request the head has not applied.
RetentionIsPending == request # <<>> /\ request[1].ver > part.state.retVer

\* applyPendingRetention: whole segments below the request are dropped.
Retained(p, r) ==
  LET target == Min({r.before, p.state.next})
      start  == firstSegmentAtOrAfter(p.segments, target)
      trims  == target > p.state.oldest /\ p.segments # <<>>
      kept   == IF trims THEN SubSeq(p.segments, start, Len(p.segments)) ELSE p.segments
      floor  == IF ~trims THEN p.state.oldest
                ELSE IF kept = <<>> THEN p.state.next ELSE kept[1].base
  IN  [p EXCEPT !.state.oldest = floor, !.state.retLSN = target, !.state.retVer = r.ver,
                !.state.reachable = Len(kept), !.segments = kept, !.version = @ + 1]

ApplyPendingRetention(w) ==
  /\ session[w].epoch # 0
  /\ session[w].epoch = part.state.epoch /\ part.writer = w
  /\ RetentionIsPending => request[1].before >= part.state.retLSN
  /\ part' = IF RetentionIsPending THEN Retained(part, request[1]) ELSE part
  /\ session' = [session EXCEPT ![w].state = part'.state]
  /\ ackedVers' = ackedVers \cup {r.ver : r \in {request[i] : i \in DOMAIN request}}
  /\ UNCHANGED <<request, committed, acked>>

\* What any writer or operator of the partition may do next.
CatalogNext ==
  \/ \E n \in 0..MaxLSN : InitializePartition(n)
  \/ \E w \in Writers : OpenWriter(w) \/ ApplyPendingRetention(w)
  \/ \E w \in Writers, s \in Segment : AppendRetry(w, s) \/ AppendSegment(w, s)
  \/ \E r \in Requests : RequestRetention(r)

----------------------------------------------------------------------------
Log == INSTANCE CatalogLog WITH
         epoch <- part.state.epoch, owner <- part.writer,
         next <- part.state.next, oldest <- part.state.oldest,
         retLSN <- part.state.retLSN, retVer <- part.state.retVer

\* The in-process catalog keeps the same promise as the one over an object
\* store: one fenced append-only log, whose answers to appends, retries and
\* retention calls are all true.
ImplementsLog == Log!LogSpec

=============================================================================
