------------------------------- MODULE Reader -------------------------------
(***************************************************************************)
(* The readers of one process (reader/reader.go and the public half of      *)
(* reader/api.go): one-shot reads, fetches and timestamp reads, cursors     *)
(* with checkpoints, watches and blocking tailers, over the shared refresh  *)
(* coordinator, while writers append, retention raises the floor and a      *)
(* reclaimer deletes the objects below it.                                  *)
(*                                                                         *)
(* A catalog query, a segment read and a critical section is one step each. *)
(* A workload fixes the read strategy: "none" reads ranges without a cache, *)
(* the others go through module ReaderCaches.  Metrics, option checks and   *)
(* the one stream identity of a partition are left out.                     *)
(***************************************************************************)
EXTENDS RefreshCoordinator, ReaderCaches

CONSTANTS
  Tailers,      \* the clients that tail a Watch; the others own a cursor
  BatchLimit,   \* normalizedLimit of every request
  Workloads     \* what an instance may do: initial values of `left`

ASSUME ReaderAssumption ==
  /\ Tailers \subseteq Clients
  /\ BatchLimit \in Nat \ {0}

\* What a workload says: who may do what, from which LSNs, and how often.
ASSUME WorkloadAssumption ==
  Workloads \subseteq
    [after : Nat, writers : SUBSET Writers, create : BOOLEAN, lsns : Nat, policies : Nat,
     clients : SUBSET Clients, ops : SUBSET STRING, calls : Nat, starts : SUBSET Nat,
     fresh : SUBSET STRING, faults : Nat, stops : Nat, evictions : Nat,
     watchers : SUBSET Watches, watches : Nat, strategy : STRING,
     follows : Clients \cup Watches \cup {TheReader}]

\* The open of a segment waits for a range as clients do, and is none of them.
ASSUME ClientsAssumption == Clients \cap ({"open"} \X Segment \X Nat) = {}

VARIABLES
  gone,        \* segment objects with a base below this LSN are deleted
  cl,          \* the call each client is in, and the result of its last
  cursor,      \* Cursor or Tailer: position, hint, checkpoint, watch, closed
  membership,  \* the membershipChanged channel a tailer holds
  watch,       \* Watch objects
  rd           \* Reader.Close: its progress and the watches it still closes

clientVars == <<cl, cursor, membership>>
vars == <<catalogVars, coordinatorVars, left, gone, clientVars, watch, rd, cacheVars>>

NoCall ==
  [op |-> "none", pc |-> "idle", start |-> 0, fresh |-> "tail", head |-> <<>>,
   recs |-> {}, segs |-> <<>>, hint |-> <<>>, cause |-> "", ts |-> 0,
   search |-> FALSE, gen |-> 0, stop |-> FALSE, res |-> ""]

ReaderInit ==
  /\ left \in Workloads
  /\ CatalogInit /\ CoordinatorInit /\ CachesInit
  /\ gone = 0
  /\ cl = [c \in Clients |-> NoCall]
  /\ cursor = [c \in Clients |-> [pos |-> 0, hint |-> <<>>, ckpt |-> <<>>, watch |-> <<>>,
                                  closed |-> FALSE, from |-> 0, seen |-> {}]]
  /\ membership = [c \in Clients |-> "none"]
  /\ watch = [w \in Watches |-> [pc |-> "none", member |-> FALSE, stopped |-> FALSE]]
  /\ rd = [pc |-> "open", todo |-> {}, on |-> <<>>]

----------------------------------------------------------------------------
(* The environment: writers and operators of the catalog, and the reclaimer. *)

\* The bounds of the instance on the history of the partition.
WithinBounds ==
  /\ part'.writer \in left.writers \cup {NoWriter} /\ part'.state.next <= left.lsns
  /\ left.create \/ part'.version = 0 \/ part'.state.epoch # 0
  /\ request' # <<>> => request'[1].ver <= left.policies

Environment ==
  /\ CatalogNext /\ WithinBounds
  /\ UNCHANGED <<coordinatorVars, left, gone, clientVars, watch, rd, cacheVars>>

\* The reclaimer deletes segments the retention floor has passed.
ReclaimObjects ==
  /\ gone < part.state.oldest
  /\ gone' = part.state.oldest
  /\ UNCHANGED <<catalogVars, coordinatorVars, left, clientVars, watch, rd, cacheVars>>

----------------------------------------------------------------------------
(* How a call ends and how its caller's cursor or tailer follows.           *)

LSNs(recs) == {r.lsn : r \in recs}

Follows(c) == cl[c].op \in {"next", "tail"}

Cancelled(c) ==
  \/ cl[c].stop
  \/ cl[c].op = "tail" /\ (cursor[c].closed \/ watch[cursor[c].watch[1]].stopped)

ReturnsMutant(c, call, hint) ==
  LET dropped == cl[c].op = "tail" /\ cursor[c].closed
      out == IF dropped THEN [call EXCEPT !.recs = {}, !.res = "cancelled"] ELSE call
  IN  /\ cl' = [cl EXCEPT ![c] = [out EXCEPT !.pc = "idle", !.stop = FALSE, !.segs = <<>>,
                                    !.hint = <<>>, !.search = FALSE, !.gen = 0, !.cause = ""]]
      /\ cursor' = IF ~Follows(c) THEN cursor
                   ELSE [cursor EXCEPT ![c].hint = hint,
                           ![c].pos = IF call.recs = {} THEN @ ELSE Max(LSNs(call.recs)) + 1,
                           ![c].seen = @ \cup LSNs(out.recs)]

\* The position moves only when records are returned; a tailer closed during
\* its call keeps everything as it is and returns no records.
Returns(c, call, hint) ==
  LET dropped == cl[c].op = "tail" /\ cursor[c].closed
      out == IF dropped THEN [call EXCEPT !.recs = {}, !.res = "cancelled"] ELSE call
  IN  /\ cl' = [cl EXCEPT ![c] = [out EXCEPT !.pc = "idle", !.stop = FALSE, !.segs = <<>>,
                                    !.hint = <<>>, !.search = FALSE, !.gen = 0, !.cause = ""]]
      /\ cursor' = IF ~Follows(c) \/ dropped THEN cursor
                   ELSE [cursor EXCEPT ![c].hint = hint,
                           ![c].pos = IF out.recs = {} THEN @ ELSE Max(LSNs(out.recs)) + 1,
                           ![c].seen = @ \cup LSNs(out.recs)]

Fails(c, err, hint) ==
  Returns(c, [cl[c] EXCEPT !.recs = {}, !.res = err], hint)

Stays(c, call) == cl' = [cl EXCEPT ![c] = call] /\ UNCHANGED cursor

\* refreshAfterReadAnomaly: the first error refreshes the head and tries once
\* more without the hint, the second is the caller's.
Anomaly(c, err) ==
  IF cl[c].cause # "" THEN Fails(c, err, <<>>)
  ELSE Stays(c, [cl[c] EXCEPT !.pc = "join", !.cause = err, !.hint = <<>>,
                              !.recs = {}, !.segs = <<>>])

\* An empty batch ends a read; a tailer goes on to wait.
Empty(c, h) ==
  LET call == [cl[c] EXCEPT !.head = <<h>>, !.recs = {}, !.hint = <<>>, !.res = "empty"]
  IN  IF cl[c].op = "tail" THEN Stays(c, [call EXCEPT !.pc = "tailed", !.cause = "", !.head = <<>>, !.res = ""])
      ELSE Returns(c, call, <<>>)

segmentHintContains(hint, lsn) == hint # <<>> /\ Covers(hint[1], lsn)

\* consumeFromHeadOnce and fetchFromHead up to their first query.
UseHead(c, h) ==
  LET call == [cl[c] EXCEPT !.head = <<h>>, !.recs = {}]
  IN  IF call.op = "head" THEN Returns(c, [call EXCEPT !.res = "ok"], <<>>)
      ELSE IF call.start < h.oldest THEN Fails(c, "expired", <<>>)
      ELSE IF call.start >= h.next THEN Empty(c, h)
      ELSE IF h.last = <<>> THEN Anomaly(c, "corrupt")
      ELSE IF cl[c].op = "fetch" THEN Stays(c, [call EXCEPT !.pc = "find"])
      ELSE IF segmentHintContains(call.hint, call.start)
           THEN Stays(c, [call EXCEPT !.pc = "segment", !.segs = call.hint])
           ELSE Stays(c, [call EXCEPT !.pc = "list"])

----------------------------------------------------------------------------
(* The calls.                                                               *)

Start(c, call) ==
  /\ cl[c].pc = "idle" /\ rd.pc = "open"
  /\ c \in left.clients /\ call.op \in left.ops /\ part.version >= left.after
  /\ Spend("calls")
  /\ cl' = [cl EXCEPT ![c] = call]
  /\ UNCHANGED <<catalogVars, coordinatorVars, gone, cursor, membership, watch, rd, cacheVars>>

\* PartitionReader.Head: any head will do.
PartitionHead(c) ==
  Start(c, [NoCall EXCEPT !.op = "head", !.pc = "head", !.fresh = "cached"])

\* PartitionReader.Read, and Reader.Consume with its fixed freshness.
Read(c, lsn, fresh) ==
  Start(c, [NoCall EXCEPT !.op = "read", !.pc = "head", !.start = lsn, !.fresh = fresh])

Consume(c, lsn) ==
  Start(c, [NoCall EXCEPT !.op = "consume", !.pc = "head", !.start = lsn, !.fresh = "tail"])

Fetch(c, lsn) ==
  Start(c, [NoCall EXCEPT !.op = "fetch", !.pc = "fetch", !.start = lsn])

ConsumeFromTimestamp(c, ts) ==
  Start(c, [NoCall EXCEPT !.op = "stamp", !.pc = "lookup", !.ts = ts])

\* Cursor.Next, and Tailer.Next, which refuses a closed tailer.
CursorNext(c) ==
  Start(c, [NoCall EXCEPT !.op = "next", !.pc = "head", !.start = cursor[c].pos,
                          !.hint = cursor[c].hint])

TailNext(c) ==
  /\ cursor[c].watch # <<>> /\ ~cursor[c].closed
  /\ Start(c, [NoCall EXCEPT !.op = "tail", !.pc = "head", !.start = cursor[c].pos,
                             !.hint = cursor[c].hint])

Checkpoint(c) ==
  Start(c, [NoCall EXCEPT !.op = "checkpoint", !.pc = "join", !.start = cursor[c].pos])

ResumeCursor(c) ==
  /\ cursor[c].ckpt # <<>>
  /\ Start(c, [NoCall EXCEPT !.op = "resume", !.pc = "join", !.start = cursor[c].ckpt[1].pos])

\* Seek keeps a hint that holds the new position.
Seek(c, lsn) ==
  /\ cl[c].pc = "idle" /\ rd.pc = "open"
  /\ c \in left.clients /\ "seek" \in left.ops
  /\ Spend("calls")
  /\ cursor' = [cursor EXCEPT ![c].pos = lsn, ![c].from = lsn, ![c].seen = {},
                  ![c].hint = IF segmentHintContains(@, lsn) THEN @ ELSE <<>>]
  /\ UNCHANGED <<catalogVars, coordinatorVars, gone, cl, membership, watch, rd, cacheVars>>

\* The caller's context ends during a call.
CancelCall(c) ==
  /\ cl[c].pc # "idle" /\ ~cl[c].stop
  /\ Spend("stops")
  /\ cl' = [cl EXCEPT ![c].stop = TRUE]
  /\ UNCHANGED <<catalogVars, coordinatorVars, gone, cursor, membership, watch, rd, cacheVars>>

----------------------------------------------------------------------------
(* The steps of a call.                                                     *)

OthersStay == UNCHANGED <<catalogVars, left, gone, watch, rd>>
ClientStep == OthersStay /\ UNCHANGED cacheVars
LocalStep == ClientStep /\ UNCHANGED <<coordinatorVars, membership>>

\* headForRead: which known head is fresh enough.
FreshEnough(c, h) ==
  \/ cl[c].fresh = "cached"
  \/ cl[c].fresh = "tail" /\ cl[c].start < h.next

headForRead(c) ==
  LET s == partitionSnapshot
  IN  /\ cl[c].pc = "head"
      /\ IF rd.pc # "open" THEN Fails(c, "closed", cl[c].hint)
         ELSE IF s # <<>> /\ FreshEnough(c, s[1].snap.head)
              THEN UseHead(c, s[1].snap.head)
              ELSE Stays(c, [cl[c] EXCEPT !.pc = "join"])
      /\ LocalStep

\* refresh: the closed checks, then the load group.
RefreshJoin(c) ==
  /\ cl[c].pc = "join"
  /\ IF ref.closed \/ group.closed
     THEN Fails(c, "closed", cl[c].hint) /\ UNCHANGED coordinatorVars
     ELSE /\ Do(c) /\ Stays(c, [cl[c] EXCEPT !.pc = "load"])
          /\ UNCHANGED <<ref, answer, signal>>
  /\ ClientStep /\ UNCHANGED membership

\* Checkpoint and ResumeCursor: the position must lie in the head's range.  The
\* resumed cursor takes the client's old one's place; what its caller has seen is
\* what the checkpointed one's had (from and seen are history, not code).
UsePosition(c, h) ==
  LET res == IF cl[c].start < h.oldest THEN "expired"
             ELSE IF cl[c].start > h.next THEN "ahead" ELSE "ok"
  IN  /\ cl' = [cl EXCEPT ![c].pc = "idle", ![c].res = res, ![c].stop = FALSE]
      /\ cursor' = CASE cl[c].op = "checkpoint" /\ res = "ok" ->
                          [cursor EXCEPT ![c].ckpt = <<[pos |-> cl[c].start, from |-> cursor[c].from,
                                                         seen |-> cursor[c].seen]>>]
                     [] cl[c].op = "checkpoint" /\ res # "ok" ->
                          [cursor EXCEPT ![c].hint = <<>>]
                     [] cl[c].op = "resume" /\ res = "ok" ->
                          [cursor EXCEPT ![c].pos = cl[c].start, ![c].hint = <<>>,
                                         ![c].from = cursor[c].ckpt[1].from,
                                         ![c].seen = cursor[c].ckpt[1].seen]
                     [] OTHER -> cursor

\* The refresh returned: a head to go on with, or an error.
Refreshed(c) ==
  /\ cl[c].pc = "load" /\ answer[c] # <<>>
  /\ LET a == answer[c][1]
     IN  CASE ~a.ok -> Fails(c, a.err, cl[c].hint)
           [] a.ok /\ cl[c].op = "stamp" -> Stays(c, [cl[c] EXCEPT !.pc = "lookup"])
           [] a.ok /\ cl[c].op \in {"checkpoint", "resume"} -> UsePosition(c, a.head)
           [] OTHER -> UseHead(c, a.head)
  /\ answer' = [answer EXCEPT ![c] = <<>>]
  /\ ClientStep /\ UNCHANGED <<ref, group, signal, membership>>

FetchHead(c) ==
  /\ cl[c].pc = "fetch" /\ UseHead(c, LoadPartition) /\ LocalStep

FetchFind(c) ==
  LET found == FindSegmentAt(cl[c].start)
  IN  /\ cl[c].pc = "find"
      /\ IF found = <<>> THEN Anomaly(c, "corrupt")
         ELSE Stays(c, [cl[c] EXCEPT !.pc = "segment", !.segs = found])
      /\ LocalStep

\* consumeFromTimestampLookup: the segment that may hold the timestamp, then
\* the first record in it that does.
TimestampLookup(c) ==
  LET found == LookupTimestamp(cl[c].ts).found
      h     == LookupTimestamp(cl[c].ts).head
      call  == [cl[c] EXCEPT !.head = <<h>>, !.segs = found]
  IN  /\ cl[c].pc = "lookup"
      /\ IF found = <<>> THEN Empty(c, h)
         ELSE IF found[1].base < h.oldest \/ found[1].last >= h.next THEN Anomaly(c, "corrupt")
         ELSE Stays(c, [call EXCEPT !.pc = "stamp", !.search = TRUE, !.start = found[1].base])
      /\ LocalStep

Caching == left.strategy # "none"

findTimestampStart(s, ts) == Min({lsn \in s.base..s.last : Timestamp(lsn) >= ts})

UseTimestamp(c) ==
  LET s == cl[c].segs[1]
  IN  Stays(c, [cl[c] EXCEPT !.pc = "list", !.search = FALSE, !.segs = <<>>,
                             !.start = findTimestampStart(s, cl[c].ts)])

TimestampStart(c) ==
  /\ cl[c].pc = "stamp" /\ ~Caching
  /\ IF cl[c].segs[1].base < gone THEN Anomaly(c, "missing") ELSE UseTimestamp(c)
  /\ LocalStep

NextLSN(call) == call.start + Cardinality(call.recs)

\* consumeFromHeadOnce: the next page of segments.
ListPage(c) ==
  LET page == ListSegments(NextLSN(cl[c]))
  IN  /\ cl[c].pc = "list"
      /\ IF page = <<>> THEN Anomaly(c, "corrupt")
         ELSE Stays(c, [cl[c] EXCEPT !.pc = "segment", !.segs = page])
      /\ LocalStep

\* readSegmentWith: at most `limit` records from `from` on, none of them at or
\* past the head the batch is read under.
readSegment(s, from, limit, headNext) ==
  {[lsn |-> l, seg |-> s] : l \in from..Min({s.last, from + limit - 1, headNext - 1})}

\* Whether the segment list has a gap before the next record.
GapMutant(s, next) == FALSE

Gap(s, next) == s.base > next

Limit(call) == IF call.op = "fetch" THEN 1 ELSE BatchLimit

\* One segment of the page; a segment cut short becomes the next call's hint.
UseSegment(c) ==
  LET s     == Head(cl[c].segs)
      limit == Limit(cl[c])
      recs  == cl[c].recs \cup readSegment(s, NextLSN(cl[c]), limit - Cardinality(cl[c].recs),
                                           cl[c].head[1].next)
      call  == [cl[c] EXCEPT !.recs = recs, !.segs = Tail(@)]
      full  == Cardinality(recs) >= limit \/ NextLSN(call) >= call.head[1].next
  IN  IF full
      THEN Returns(c, [call EXCEPT !.res = "records"],
                   IF NextLSN(call) <= s.last THEN <<s>> ELSE <<>>)
      ELSE Stays(c, [call EXCEPT !.pc = IF call.segs = <<>> THEN "list" ELSE "segment"])

ReadSegment(c) ==
  LET s == Head(cl[c].segs)
  IN  /\ cl[c].pc = "segment" /\ ~Caching
      /\ IF Gap(s, NextLSN(cl[c])) THEN Anomaly(c, "corrupt")
         ELSE IF s.base < gone THEN Anomaly(c, "missing")
         ELSE UseSegment(c)
      /\ LocalStep

----------------------------------------------------------------------------
(* Reading a segment through the caches.                                    *)

CacheStep == OthersStay /\ UNCHANGED <<coordinatorVars, membership>>

Intent(call) ==
  CASE call.op = "fetch" -> "point" [] call.op \in {"next", "tail"} -> "continuous"
    [] OTHER -> "sequential"

Leases(c) == cl[c].pc \in {"leased", "reading"}

\* openWholeSegmentForRead.
OpenWhole(c) ==
  LET s == Head(cl[c].segs)
      limit == Limit(cl[c]) - Cardinality(cl[c].recs)
      a == IF chooseReadStrategy(left.strategy, s, NextLSN(cl[c]), limit, Intent(cl[c])) = "whole"
           THEN Acquire(c, s)
           ELSE IF left.strategy = "auto" THEN AcquireCached(s)
           ELSE [now |-> "ranges", whole |-> whole, flights |-> flights]
  IN  /\ cl[c].pc = "segment" /\ Caching
      /\ IF Gap(s, NextLSN(cl[c])) THEN Anomaly(c, "corrupt") /\ UNCHANGED <<whole, flights>>
         ELSE /\ whole' = a.whole /\ flights' = a.flights
              /\ IF a.now = "closed" THEN Anomaly(c, "closed")
                 ELSE Stays(c, [cl[c] EXCEPT !.pc = a.now])
      /\ CacheStep /\ UNCHANGED <<opened, ranges>>

\* The flight a client waits for is done: go on with what it brought, or fail.
Collect(c, pc, use) ==
  /\ cl[c].pc = pc /\ Landed(c)
  /\ flights' = leave(flights, c)
  /\ IF FlightOf(c).out \in {"ok", "unavailable"} THEN use
     ELSE Anomaly(c, FlightOf(c).out)
  /\ CacheStep /\ UNCHANGED <<whole, opened, ranges>>

\* A load without a lease falls back to ranges.
WholeLoaded(c) ==
  Collect(c, "whole",
    Stays(c, [cl[c] EXCEPT !.pc = IF FlightOf(c).out = "ok" THEN "leased" ELSE "ranges"]))

\* Lease.Reader: the cache was closed since.
LeaseReader(c) ==
  /\ cl[c].pc = "leased"
  /\ IF Cached(Head(cl[c].segs)) THEN Stays(c, [cl[c] EXCEPT !.pc = "reading"])
     ELSE Anomaly(c, "closed")
  /\ CacheStep /\ UNCHANGED cacheVars

LeaseRead(c) ==
  /\ cl[c].pc = "reading"
  /\ UseSegment(c)
  /\ whole' = Release(Head(cl[c].segs))
  /\ CacheStep /\ UNCHANGED <<opened, ranges, flights>>

\* openSegment, for a read and for the search of a timestamp.
OpenSegment(c) ==
  LET s == Head(cl[c].segs)
  IN  /\ cl[c].pc = "ranges" \/ (cl[c].pc = "stamp" /\ Caching)
      /\ IF InList(opened, s)
         THEN /\ opened' = ToFront(opened, s) /\ UNCHANGED flights
              /\ Stays(c, [cl[c] EXCEPT !.pc = "block"])
         ELSE /\ flights' = begin(flights, "open", s, c) /\ UNCHANGED opened
              /\ Stays(c, [cl[c] EXCEPT !.pc = "open"])
      /\ CacheStep /\ UNCHANGED <<whole, ranges>>

SegmentOpened(c) ==
  Collect(c, "open", Stays(c, [cl[c] EXCEPT !.pc = "block"]))

\* The search of a timestamp needs no block if the first record will do.
InFirst(c) == cl[c].search /\ cl[c].ts <= Timestamp(Head(cl[c].segs).base)

UseBlock(c) == IF cl[c].search THEN UseTimestamp(c) ELSE UseSegment(c)

\* Store.ReadAt of the blocks: lookup, join, wait.
BlockGet(c) ==
  LET key == DataRange(Head(cl[c].segs))
  IN  /\ cl[c].pc = "block"
      /\ IF InFirst(c) THEN UseBlock(c) /\ UNCHANGED ranges
         ELSE IF InList(ranges, key) THEN UseBlock(c) /\ ranges' = ToFront(ranges, key)
         ELSE Stays(c, [cl[c] EXCEPT !.pc = "begin"]) /\ UNCHANGED ranges
      /\ CacheStep /\ UNCHANGED <<whole, opened, flights>>

BlockBegin(c) ==
  /\ cl[c].pc = "begin"
  /\ flights' = begin(flights, "range", DataRange(Head(cl[c].segs)), c)
  /\ Stays(c, [cl[c] EXCEPT !.pc = "range"])
  /\ CacheStep /\ UNCHANGED <<whole, opened, ranges>>

BlockRead(c) == Collect(c, "range", UseBlock(c))

CacheSteps(c) ==
  \/ OpenWhole(c) \/ WholeLoaded(c) \/ LeaseReader(c) \/ LeaseRead(c)
  \/ OpenSegment(c) \/ SegmentOpened(c) \/ BlockGet(c) \/ BlockBegin(c) \/ BlockRead(c)

FlightsAlone == UNCHANGED <<catalogVars, coordinatorVars, gone, clientVars, watch, rd>>

FlightSteps ==
  /\ \E f \in flights :
       \/ StoreAnswers(f, SegmentOf(f).base < gone)
       \/ f.cause # "" /\ StoreFails(f)
       \/ OpenGet(f) \/ OpenBegin(f) \/ OpenAnswered(f) \/ OpenGivesUp(f) \/ FlightFinish(f)
  /\ FlightsAlone /\ UNCHANGED left

FlightFault == (\E f \in flights : f.cause = "" /\ StoreFails(f)) /\ Spend("faults") /\ FlightsAlone

----------------------------------------------------------------------------
\* A catalog query or a segment read fails for a reason of its own.
QueryFails(c) ==
  /\ cl[c].pc \in {"fetch", "find", "lookup", "list"} \cup
                   (IF Caching THEN {} ELSE {"stamp", "segment"})
  /\ Spend("faults")
  /\ IF cl[c].pc = "fetch" THEN Fails(c, "fault", <<>>) ELSE Anomaly(c, "fault")
  /\ UNCHANGED <<catalogVars, coordinatorVars, gone, membership, watch, rd, cacheVars>>

AtTail(c) == cl[c].pc \in {"tailed", "member", "channel", "wait", "recheck"}

\* A call whose context ended returns from wherever it is, leaves the load or
\* flight it waits for and releases its lease.  It keeps its hint unless an anomaly has dropped it.
CallCancelled(c) ==
  /\ cl[c].pc # "idle" /\ Cancelled(c)
  /\ Fails(c, "cancelled", IF AtTail(c) THEN cursor[c].hint ELSE cl[c].hint)
  /\ group' = IF Waits(c) THEN releaseWaiter(c) ELSE group
  /\ answer' = [answer EXCEPT ![c] = <<>>]
  /\ signal' = [signal EXCEPT ![c] = "none"]
  /\ membership' = [membership EXCEPT ![c] = "none"]
  /\ flights' = leave(flights, c)
  /\ whole' = IF Leases(c) THEN Release(Head(cl[c].segs)) ELSE leaveWhole(c)
  /\ OthersStay /\ UNCHANGED <<ref, opened, ranges>>

----------------------------------------------------------------------------
(* Tailer.Next at the tail: waitForAdvance.                                 *)

\* A head that has moved on since the empty read is read at once.
TailSnapshot(c) ==
  LET s == partitionSnapshot
  IN  /\ cl[c].pc = "tailed"
      /\ IF s # <<>> /\ s[1].snap.head.next > cl[c].start
         THEN Stays(c, [cl[c] EXCEPT !.pc = "head"])
         ELSE Stays(c, [cl[c] EXCEPT !.pc = "member", !.gen = IF s = <<>> THEN 0 ELSE s[1].gen])
      /\ LocalStep

WatchOf(c) == watch[cursor[c].watch[1]]

\* partitionMembership: waits for the Watch's mutex, which RemovePartition
\* holds while it waits for the poll loop.
MembershipError(c) ==
  IF WatchOf(c).pc # "open" THEN "watch closed"
  ELSE IF ~WatchOf(c).member THEN "not watched" ELSE ""

TailMembership(c) ==
  /\ cl[c].pc = "member" /\ WatchOf(c).pc # "removing"
  /\ IF MembershipError(c) # ""
     THEN Fails(c, MembershipError(c), cursor[c].hint) /\ UNCHANGED membership
     ELSE /\ Stays(c, [cl[c] EXCEPT !.pc = "channel"])
          /\ membership' = [membership EXCEPT ![c] = "open"]
  /\ ClientStep /\ UNCHANGED coordinatorVars

TailChannel(c) ==
  /\ cl[c].pc = "channel"
  /\ IF CanWait(cl[c].gen)
     THEN /\ Stays(c, [cl[c] EXCEPT !.pc = "wait", !.gen = 0])
          /\ signal' = [signal EXCEPT ![c] = "open"]
     ELSE Stays(c, [cl[c] EXCEPT !.pc = "recheck", !.gen = 0]) /\ UNCHANGED signal
  /\ ClientStep /\ UNCHANGED <<ref, group, answer, membership>>

TailWoken(c) ==
  /\ cl[c].pc = "wait"
  /\ signal[c] = "closed" \/ membership[c] = "closed"
  /\ Stays(c, [cl[c] EXCEPT !.pc = "recheck"])
  /\ UNCHANGED <<coordinatorVars, membership>> /\ ClientStep

TailRecheck(c) ==
  /\ cl[c].pc = "recheck" /\ WatchOf(c).pc # "removing"
  /\ IF MembershipError(c) # "" THEN Fails(c, MembershipError(c), cursor[c].hint)
     ELSE Stays(c, [cl[c] EXCEPT !.pc = "head"])
  /\ signal' = [signal EXCEPT ![c] = "none"]
  /\ membership' = [membership EXCEPT ![c] = "none"]
  /\ ClientStep /\ UNCHANGED <<ref, group, answer>>

TailerClose(c) ==
  /\ cursor[c].watch # <<>> /\ ~cursor[c].closed /\ "closeTailer" \in left.ops
  /\ cursor' = [cursor EXCEPT ![c].closed = TRUE, ![c].hint = <<>>]
  /\ UNCHANGED <<catalogVars, coordinatorVars, left, gone, cl, membership, watch, rd, cacheVars>>

----------------------------------------------------------------------------
(* Watch and Reader.Close.                                                  *)

WatchStep == UNCHANGED <<catalogVars, gone, cl, cursor, cacheVars>>

\* signalMembershipChangedLocked, and its closing by Watch.Close.
MembershipClosed(w) ==
  [c \in Clients |-> IF cursor[c].watch = <<w>> /\ membership[c] = "open"
                     THEN "closed" ELSE membership[c]]

\* Reader.Watch with the partition.
OpenWatch(w) ==
  /\ watch[w].pc = "none" /\ rd.pc = "open"
  /\ w \in left.watchers /\ part.version >= left.after /\ Spend("watches")
  /\ watch' = [watch EXCEPT ![w].pc = "open", ![w].member = TRUE]
  /\ ref' = watchPartition
  /\ WatchStep /\ UNCHANGED <<group, answer, signal, membership, rd>>

AddPartition(w) ==
  /\ watch[w].pc = "open" /\ ~watch[w].member /\ Spend("watches")
  /\ watch' = [watch EXCEPT ![w].member = TRUE]
  /\ ref' = watchPartition
  /\ WatchStep /\ UNCHANGED <<group, answer, signal, membership, rd>>

\* Watch.Tail.
OpenTail(c, w, lsn) ==
  /\ c \in left.clients /\ cursor[c].watch = <<>>
  /\ watch[w].pc = "open" /\ watch[w].member
  /\ cursor' = [cursor EXCEPT ![c].watch = <<w>>, ![c].pos = lsn, ![c].from = lsn]
  /\ UNCHANGED <<catalogVars, coordinatorVars, left, gone, cl, membership, watch, rd, cacheVars>>

\* RemovePartition keeps the Watch's mutex until the poll loop, if it was the
\* last to need it, has stopped.
RemovePartition(w) ==
  /\ watch[w].pc = "open" /\ watch[w].member /\ "remove" \in left.ops
  /\ watch' = [watch EXCEPT ![w].pc = "removing", ![w].member = FALSE]
  /\ membership' = MembershipClosed(w)
  /\ unwatchPartition(w)
  /\ WatchStep /\ UNCHANGED <<answer, left, rd>>

RemoveReturns(w) ==
  /\ watch[w].pc = "removing" /\ ~Waits(w)
  /\ watch' = [watch EXCEPT ![w].pc = "open"]
  /\ WatchStep /\ UNCHANGED <<coordinatorVars, left, membership, rd>>

\* Watch.Close, by its owner, by the goroutine that watches its context or by
\* Reader.Close: mark the Watch, cancel and unwatch, wait for the loop.
MarkClosed(w) ==
  /\ watch[w].pc = "open"
  /\ watch' = [watch EXCEPT ![w].pc = "closing"]
  /\ membership' = MembershipClosed(w)

CloseWatch(w) ==
  /\ "closeWatch" \in left.ops
  /\ MarkClosed(w)
  /\ WatchStep /\ UNCHANGED <<coordinatorVars, left, rd>>

CloseUnwatches(w) ==
  /\ watch[w].pc = "closing"
  /\ watch' = [watch EXCEPT ![w].pc = "draining", ![w].stopped = TRUE, ![w].member = FALSE]
  /\ IF watch[w].member THEN unwatchPartition(w) ELSE UNCHANGED <<ref, group, signal>>
  /\ WatchStep /\ UNCHANGED <<answer, left, membership, rd>>

CloseReturns(w) ==
  /\ watch[w].pc = "draining" /\ ~Waits(w)
  /\ watch' = [watch EXCEPT ![w].pc = "closed"]
  /\ WatchStep /\ UNCHANGED <<coordinatorVars, left, membership, rd>>

\* Reader.Close takes the registered watches and closes one after the other.
CloseReader ==
  /\ rd.pc = "open" /\ "closeReader" \in left.ops
  /\ rd' = [rd EXCEPT !.pc = "watches",
                      !.todo = {w \in Watches : watch[w].pc # "none" /\ ~watch[w].stopped}]
  /\ WatchStep /\ UNCHANGED <<coordinatorVars, left, membership, watch>>

\* A Watch that somebody else is closing is not waited for.
CloseNextWatch(w) ==
  /\ rd.pc = "watches" /\ rd.on = <<>> /\ w \in rd.todo
  /\ \/ MarkClosed(w) /\ rd' = [rd EXCEPT !.todo = @ \ {w}, !.on = <<w>>]
     \/ /\ watch[w].pc \in {"closing", "draining", "closed"}
        /\ rd' = [rd EXCEPT !.todo = @ \ {w}]
        /\ UNCHANGED <<watch, membership>>
  /\ WatchStep /\ UNCHANGED <<coordinatorVars, left>>

CloseWatchDone ==
  /\ rd.on # <<>> /\ watch[rd.on[1]].pc = "closed"
  /\ rd' = [rd EXCEPT !.on = <<>>]
  /\ WatchStep /\ UNCHANGED <<coordinatorVars, left, membership, watch>>

\* refreshCoordinator.close: mark, close the load group, wait for both.
CloseRefresh ==
  /\ rd.pc = "watches" /\ rd.on = <<>> /\ rd.todo = {}
  /\ closeCoordinator
  /\ rd' = [rd EXCEPT !.pc = "group"]
  /\ WatchStep /\ UNCHANGED <<answer, left, membership, watch>>

CloseGroup ==
  /\ rd.pc = "group"
  /\ group' = [group EXCEPT !.closed = TRUE]
  /\ rd' = [rd EXCEPT !.pc = "waiting"]
  /\ WatchStep /\ UNCHANGED <<ref, answer, signal, left, membership, watch>>

CloseWaits == group.call = <<>> /\ group.orphans = {}

\* wholeSegmentCache.Close, then the other caches are cleared; opens and range
\* reads under way are not waited for.
CloseStep == UNCHANGED <<catalogVars, coordinatorVars, left, gone, clientVars, watch>>

CloseWhole ==
  /\ rd.pc = "waiting" /\ CloseWaits
  /\ whole' = Revoked
  /\ rd' = [rd EXCEPT !.pc = "cancel"]
  /\ CloseStep /\ UNCHANGED <<opened, ranges, flights>>

CloseCancels ==
  /\ rd.pc = "cancel"
  /\ flights' = CancelUnfinished
  /\ rd' = [rd EXCEPT !.pc = "loads"]
  /\ CloseStep /\ UNCHANGED <<whole, opened, ranges>>

CloseDone ==
  /\ rd.pc = "loads" /\ Unfinished = {}
  /\ opened' = <<>> /\ ranges' = <<>>
  /\ rd' = [rd EXCEPT !.pc = "closed"]
  /\ CloseStep /\ UNCHANGED <<whole, flights>>

----------------------------------------------------------------------------
ClientSteps(c) ==
  \/ headForRead(c) \/ RefreshJoin(c) \/ Refreshed(c)
  \/ FetchHead(c) \/ FetchFind(c) \/ TimestampLookup(c) \/ TimestampStart(c)
  \/ ListPage(c) \/ ReadSegment(c) \/ CacheSteps(c) \/ CallCancelled(c)
  \/ TailSnapshot(c) \/ TailMembership(c) \/ TailChannel(c) \/ TailWoken(c) \/ TailRecheck(c)

StartCall(c) ==
  \/ PartitionHead(c)
  \/ \E lsn \in left.starts : Fetch(c, lsn) \/ Consume(c, lsn) \/ \E f \in left.fresh : Read(c, lsn, f)
  \/ \E ts \in {Timestamp(lsn) : lsn \in left.starts} : ConsumeFromTimestamp(c, ts)
  \/ c \notin Tailers /\ (CursorNext(c) \/ Checkpoint(c) \/ ResumeCursor(c))
  \/ c \notin Tailers /\ \E lsn \in left.starts : Seek(c, lsn)
  \/ c \in Tailers /\ (TailNext(c) \/ TailerClose(c))
  \/ c \in Tailers /\ \E w \in Watches, lsn \in left.starts : OpenTail(c, w, lsn)

WatchSteps(w) ==
  RemoveReturns(w) \/ CloseUnwatches(w) \/ CloseReturns(w)

CloseSteps ==
  \/ \E w \in Watches : CloseNextWatch(w)
  \/ CloseWatchDone \/ CloseRefresh \/ CloseGroup
  \/ CloseWhole \/ CloseCancels \/ CloseDone

\* The steps of the poll loop and the loads leave clients and watches alone.
Alone == UNCHANGED <<catalogVars, gone, clientVars, watch, rd, cacheVars>>
LoadSteps == (LoadBegin \/ LoadQuery \/ LoadDone) /\ Alone
OrphanEnds == (\E o \in group.orphans : OrphanDone(o)) /\ Alone
OrphanAnswered == (\E o \in group.orphans : OrphanQuery(o)) /\ Alone
PollSteps == (Poll \/ \E x \in Watches \cup {TheReader} : StoppedPollLeaves(x)) /\ Alone
Disturbances == (LoadFails \/ PollTimeout \/ EvictCachedHead) /\ Alone
Background == LoadSteps \/ OrphanEnds \/ OrphanAnswered \/ PollSteps \/ Disturbances

Next ==
  \/ Environment \/ ReclaimObjects \/ Background \/ FlightSteps \/ FlightFault \/ CloseReader \/ CloseSteps
  \/ \E c \in Clients : StartCall(c) \/ CancelCall(c) \/ ClientSteps(c) \/ QueryFails(c)
  \/ \E w \in Watches : OpenWatch(w) \/ AddPartition(w) \/ RemovePartition(w)
                        \/ CloseWatch(w) \/ WatchSteps(w)

Spec == ReaderInit /\ [][Next]_vars

\* The store and the catalog answer every request in the end, the runtime
\* schedules every goroutine and the poll ticker fires again and again.
FairSpec ==
  /\ Spec
  /\ WF_vars(LoadSteps) /\ WF_vars(OrphanEnds) /\ WF_vars(PollSteps)
  /\ WF_vars(CloseSteps) /\ WF_vars(FlightSteps)
  /\ \A c \in Clients : WF_vars(ClientSteps(c))
  /\ \A w \in Watches : WF_vars(WatchSteps(w))

----------------------------------------------------------------------------
(* Properties                                                               *)

Records(s) == {[lsn |-> l, seg |-> s] : l \in s.base..s.last}

\* A batch starts at the requested LSN (of a timestamp: at the first retained
\* record that is not older), has no gap, holds only records of committed
\* segments, stays below the head it is returned with and is empty only at its
\* end, although retention may move the floor and delete objects during the
\* call and hints may be out of date.
BatchIsExact ==
  \A c \in Clients :
    LET call == cl[c]
        h    == call.head[1]
    IN  call.pc = "idle" /\ call.res \in {"records", "empty"} =>
          /\ LSNs(call.recs) = call.start..NextLSN(call) - 1
          /\ call.recs \subseteq UNION {Records(s) : s \in committed}
          /\ Cardinality(call.recs) <= BatchLimit
          /\ call.recs # {} => NextLSN(call) <= h.next
          /\ call.op = "stamp" =>
               LET later == {l \in h.oldest..h.next - 1 : Timestamp(l) >= call.ts}
               IN  IF later = {} THEN call.recs = {} ELSE call.start = Min(later)
          /\ call.op \notin {"stamp"} /\ call.recs = {} => call.start >= h.next

\* A call fails as expired, corrupt or missing only when retention has passed
\* the LSN it asked for, and never because another waiter of its shared load
\* went away.
AnswersAreTrue ==
  \A c \in Clients :
    /\ cl[c].res \in {"expired", "corrupt", "missing"} => cl[c].start < part.state.oldest
    /\ cl[c].res # "no waiters"

\* Whatever reads, cancellations, closings, checkpoints and resumptions came
\* between, everything from where a cursor or tailer started up to its position
\* was returned to its caller.
NothingSkipped ==
  \A c \in Clients : cursor[c].from..cursor[c].pos - 1 \subseteq cursor[c].seen

\* The shared subscription counts the watches that hold it, and the poll loop
\* runs exactly while there is one.
SubscriptionsExact ==
  LET holders == {w \in Watches : watch[w].member}
  IN  ~ref.closed =>
        /\ ref.loop <=> holders # {}
        /\ ref.watched # <<>> <=> holders # {}
        /\ ref.watched # <<>> => ref.watched[1].refs = Cardinality(holders)

\* A client that reads from a cached segment, or has only to collect it, keeps
\* it in the cache, and no pin is left behind: unless the cache was closed, the
\* pins of an entry are exactly these clients.
LeasesArePinned ==
  LET holders(s) == {c \in Clients : \/ Leases(c) /\ Head(cl[c].segs) = s
                                     \/ cl[c].pc = "whole" /\ Landed(c) /\ FlightOf(c).out = "ok"
                                        /\ FlightOf(c).key = s}
  IN  ~whole.closed =>
        /\ \A i \in DOMAIN whole.lru :
             whole.lru[i].refs = Cardinality(holders(whole.lru[i].key))
        /\ \A s \in committed : holders(s) # {} => Cached(s)

\* The whole-segment cache stays within its budget and keeps what is in use.
CachesAreExact == WholeBytesExact /\ LeasesArePinned

\* When Reader.Close returns, no load and no loop of it runs, neither a head nor
\* a whole segment is kept and every reserved byte is given back, those of
\* abandoned loads included.
QuietAfterClose ==
  rd.pc = "closed" => /\ group.call = <<>> /\ group.orphans = {}
                      /\ ~ref.loop /\ ref.watched = <<>> /\ ref.cached = <<>>
                      /\ Unfinished = {} /\ whole.bytes = 0 /\ whole.lru = <<>>

\* A call of a client is due to return, unless it is a tailer's at the tail of
\* a watched partition; so is a call that closes the reader or stops a watch.
Due(x) ==
  \/ /\ x \in Clients /\ cl[x].pc # "idle"
     /\ \/ cl[x].op # "tail" \/ part.state.next > cl[x].start
        \/ Cancelled(x) \/ ~WatchOf(x).member
  \/ x \in Watches /\ watch[x].pc \in {"removing", "closing", "draining"}
  \/ x = TheReader /\ rd.pc \notin {"open", "closed"}

\* Every call returns, of whichever client, watch or reader is followed: a
\* tailer's when records were committed past it, when its watch ends or when it
\* is cancelled, however loads, wake-ups and head changes interleave.
CallsReturn == Due(left.follows) ~> ~Due(left.follows)
=============================================================================
