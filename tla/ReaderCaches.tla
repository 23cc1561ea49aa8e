---------------------------- MODULE ReaderCaches ----------------------------
(***************************************************************************)
(* The caches between a reader and the object store: whole segments under a *)
(* byte budget with leases (reader/whole_cache.go), opened segments under   *)
(* an entry count (reader/segment_cache.go) and byte ranges under a byte    *)
(* budget (blob/cache/cache.go).  Each lets its callers share one flight    *)
(* for a key; a flight whose last waiter left is cancelled and goes on      *)
(* unseen until the store lets go of it.                                    *)
(*                                                                         *)
(* A segment's size is its number of records.  What an open reads (trailer, *)
(* preamble, index) is one range of size 1, its blocks are another.         *)
(***************************************************************************)
EXTENDS Naturals, Sequences, FiniteSetsExt

CONSTANTS
  WholeMax,   \* Options.WholeSegmentCacheBytes
  MaxWhole,   \* Options.MaxWholeSegmentBytes
  Threshold,  \* Options.WholeSegmentThresholdPercent
  OpenMax,    \* SegmentReaderCache.maxEntries
  RangeMax    \* cache.LRU.maxBytes

\* What normalizeOptions and NewSegmentReaderCache insist on.
ASSUME CachesAssumption ==
  /\ WholeMax \in Nat \ {0} /\ MaxWhole \in 1..WholeMax
  /\ Threshold \in 1..100 /\ OpenMax \in Nat \ {0} /\ RangeMax \in Nat \ {0}

VARIABLES
  whole,    \* wholeSegmentCache: bytes, entries (most recently used first), closed
  opened,   \* SegmentReaderCache: keys, most recently used first
  ranges,   \* cache.LRU: keys, most recently used first
  flights   \* the loads of the three, finished ones while a waiter is to collect

cacheVars == <<whole, opened, ranges, flights>>

CachesInit ==
  /\ whole = [bytes |-> 0, lru |-> <<>>, closed |-> FALSE]
  /\ opened = <<>> /\ ranges = <<>> /\ flights = {}

Size(s) == s.last - s.base + 1
IndexRange(s) == [seg |-> s, part |-> "index", size |-> 1]
DataRange(s) == [seg |-> s, part |-> "data", size |-> Size(s)]
SegmentOf(f) == IF f.level = "range" THEN f.key.seg ELSE f.key

\* The strategy of one read; a read of one record is a point read, that of a
\* cursor or tailer a continuous one.
chooseReadStrategy(strategy, s, from, limit, intent) ==
  LET available == s.last - from + 1
      wanted == IF intent = "continuous" THEN available ELSE Min({limit, available})
      worth == /\ limit > 0 /\ from \in s.base..s.last
               /\ wanted * 100 >= Size(s) * Threshold
  IN  IF /\ Size(s) <= MaxWhole
         /\ \/ strategy = "whole"
            \/ strategy = "auto" /\ intent # "point" /\ worth
      THEN "whole" ELSE "ranges"

----------------------------------------------------------------------------
(* Least recently used lists.                                               *)

InList(list, x) == \E i \in DOMAIN list : list[i] = x
ToFront(list, x) == <<x>> \o SelectSeq(list, LAMBDA y : y # x)

setOpened(s) ==
  LET list == ToFront(opened, s) IN SubSeq(list, 1, Min({OpenMax, Len(list)}))

Total(list, n) == MapThenSumSet(LAMBDA i : list[i].size, 1..n)

\* LRU.Set: a range larger than the cache is not kept, one it holds is replaced.
setRange(key) ==
  LET list == ToFront(ranges, key)
  IN  IF key.size > RangeMax THEN SelectSeq(ranges, LAMBDA y : y # key)
      ELSE SubSeq(list, 1, Max({n \in 1..Len(list) : Total(list, n) <= RangeMax}))

----------------------------------------------------------------------------
(* Flights.                                                                 *)

Id(f) == <<f.level, f.key, f.n>>

Current(level, key) == {f \in flights : f.level = level /\ f.key = key /\ f.current}

\* begin: join the flight for the key or start one.
begin(fs, level, key, x) ==
  LET same == {f \in fs : f.level = level /\ f.key = key}
      cur  == {f \in same : f.current}
      n    == Min((1..Cardinality(same) + 1) \ {f.n : f \in same})
  IN  IF cur # {} THEN (fs \ cur) \cup {[f EXCEPT !.waiters = @ \cup {x}] : f \in cur}
      ELSE fs \cup {[level |-> level, key |-> key, n |-> n, waiters |-> {x},
                     current |-> TRUE, stage |-> "read", cause |-> "", out |-> ""]}

\* releaseWaiter: the last waiter to leave an unfinished flight takes it out of
\* the map of flights and cancels it.
leave(fs, x) ==
  LET after(f) ==
        IF x \notin f.waiters THEN f
        ELSE IF f.waiters = {x} /\ f.stage # "done"
        THEN [f EXCEPT !.waiters = {}, !.current = FALSE,
                       !.cause = IF @ = "" THEN "no waiters" ELSE @]
        ELSE [f EXCEPT !.waiters = @ \ {x}]
  IN  {f \in {after(g) : g \in fs} : f.stage # "done" \/ f.waiters # {}}

FlightOf(x) == CHOOSE f \in flights : x \in f.waiters
InFlight(x) == \E f \in flights : x \in f.waiters
Landed(x) == InFlight(x) /\ FlightOf(x).stage = "done"

\* What the run of a flight has come to, unless its context was cancelled.
Answered(fs, f, out) ==
  (fs \ {f}) \cup {[f EXCEPT !.stage = "finish", !.out = IF f.cause # "" THEN f.cause ELSE out]}

\* The store answers a flight of the whole or the range cache; a range is kept
\* even if nobody waits for it any more.
StoreAnswers(f, missing) ==
  /\ f.stage = "read" /\ f.level \in {"whole", "range"}
  /\ flights' = Answered(flights, f, IF missing THEN "missing" ELSE "ok")
  /\ ranges' = IF f.level = "range" /\ ~missing THEN setRange(f.key) ELSE ranges
  /\ UNCHANGED <<whole, opened>>

\* The read fails, or gives up because its context was cancelled.
StoreFails(f) ==
  /\ f.stage = "read" /\ f.level \in {"whole", "range"}
  /\ flights' = Answered(flights, f, "fault")
  /\ UNCHANGED <<whole, opened, ranges>>

\* An open reads through the range cache, whose lookup and join are two steps.
OpenGet(f) ==
  LET key == IndexRange(f.key)
  IN  /\ f.level = "open" /\ f.stage = "read"
      /\ IF InList(ranges, key)
         THEN /\ ranges' = ToFront(ranges, key) /\ opened' = setOpened(f.key)
              /\ flights' = Answered(flights, f, "ok")
         ELSE /\ flights' = (flights \ {f}) \cup {[f EXCEPT !.stage = "begin"]}
              /\ UNCHANGED <<opened, ranges>>
      /\ UNCHANGED whole

OpenBegin(f) ==
  LET waits == [f EXCEPT !.stage = "wait"]
  IN  /\ f.level = "open" /\ f.stage = "begin"
      /\ flights' = begin((flights \ {f}) \cup {waits}, "range", IndexRange(f.key), Id(f))
      /\ UNCHANGED <<whole, opened, ranges>>

OpenAnswered(f) ==
  /\ f.level = "open" /\ f.stage = "wait" /\ Landed(Id(f))
  /\ opened' = IF FlightOf(Id(f)).out = "ok" THEN setOpened(f.key) ELSE opened
  /\ flights' = Answered(leave(flights, Id(f)), f, FlightOf(Id(f)).out)
  /\ UNCHANGED <<whole, ranges>>

OpenGivesUp(f) ==
  /\ f.level = "open" /\ f.stage \in {"read", "begin", "wait"} /\ f.cause # ""
  /\ flights' = Answered(leave(flights, Id(f)), f, f.cause)
  /\ UNCHANGED <<whole, opened, ranges>>

\* The loaded object becomes an entry, pinned for everyone who waits for it.
Installs(f) ==
  f.level = "whole" /\ f.out = "ok" /\ f.current /\ ~whole.closed /\ f.waiters # {}

\* finish, and the second half of wholeSegmentCache.run.
FlightFinish(f) ==
  LET unavailable == f.level = "whole" /\ f.out = "ok" /\ ~Installs(f)
      done == [f EXCEPT !.stage = "done", !.current = FALSE,
                        !.out = IF unavailable THEN "unavailable" ELSE @]
  IN  /\ f.stage = "finish"
      /\ flights' = (flights \ {f}) \cup (IF f.waiters = {} THEN {} ELSE {done})
      /\ whole' = IF f.level # "whole" THEN whole
                  ELSE IF Installs(f)
                  THEN [whole EXCEPT !.lru = <<[key |-> f.key, refs |-> Cardinality(f.waiters)]>> \o @]
                  ELSE [whole EXCEPT !.bytes = @ - Size(f.key)]
      /\ UNCHANGED <<opened, ranges>>

----------------------------------------------------------------------------
(* The whole-segment cache.                                                 *)

EntryOf(s) == {i \in DOMAIN whole.lru : whole.lru[i].key = s}
Cached(s) == EntryOf(s) # {}

Pins(s) == whole.lru[Min(EntryOf(s))].refs

\* The entry of s moves to the front with the given number of pins.
Repinned(s, refs) ==
  [whole EXCEPT !.lru = <<[key |-> s, refs |-> refs]>> \o SelectSeq(@, LAMBDA e : e.key # s)]

acquireCached(s) == Repinned(s, Pins(s) + 1)

Unpinned(s) ==
  LET less(e) == IF e.key = s THEN [e EXCEPT !.refs = @ - 1] ELSE e
  IN  [whole EXCEPT !.lru = [i \in DOMAIN @ |-> less(@[i])]]

Release(s) == IF Cached(s) THEN Repinned(s, Pins(s) - 1) ELSE whole

\* reserveLocked: entries without pins go, the least recently used first, until
\* there is room; all of them when even that is not enough.
reserve(size) ==
  LET cold == {i \in DOMAIN whole.lru : whole.lru[i].refs = 0}
      coldest(n) == {i \in cold : Cardinality({j \in cold : j >= i}) <= n}
      bytes(n) == whole.bytes - MapThenSumSet(LAMBDA i : Size(whole.lru[i].key), coldest(n))
      enough == {n \in 0..Cardinality(cold) : bytes(n) + size <= WholeMax}
      n == IF enough = {} THEN Cardinality(cold) ELSE Min(enough)
      keep == {whole.lru[i].key : i \in DOMAIN whole.lru \ coldest(n)}
      evicted == [whole EXCEPT !.lru = SelectSeq(@, LAMBDA e : e.key \in keep), !.bytes = bytes(n)]
  IN  IF enough = {} THEN [ok |-> FALSE, whole |-> evicted]
      ELSE [ok |-> TRUE, whole |-> [evicted EXCEPT !.bytes = @ + size]]

\* Acquire: what the caller does next, and the cache and flights it leaves.
Acquire(x, s) ==
  LET now(step, w, fs) == [now |-> step, whole |-> w, flights |-> fs]
      joined == begin(flights, "whole", s, x)
      room == reserve(Size(s))
  IN  IF whole.closed THEN now("closed", whole, flights)
      ELSE IF Cached(s) THEN now("leased", acquireCached(s), flights)
      ELSE IF Current("whole", s) # {} THEN now("whole", whole, joined)
      ELSE IF room.ok THEN now("whole", room.whole, joined)
      ELSE now("ranges", room.whole, flights)

AcquireCached(s) ==
  LET now(step, w) == [now |-> step, whole |-> w, flights |-> flights]
  IN  IF whole.closed THEN now("closed", whole)
      ELSE IF Cached(s) THEN now("leased", acquireCached(s)) ELSE now("ranges", whole)

leaveWholeMutant(x) ==
  IF ~InFlight(x) \/ FlightOf(x).level # "whole" THEN whole
  ELSE IF FlightOf(x).stage = "done"
       THEN IF FlightOf(x).out = "ok" THEN Unpinned(FlightOf(x).key) ELSE whole
  ELSE IF FlightOf(x).waiters = {x} THEN [whole EXCEPT !.bytes = @ - Size(FlightOf(x).key)]
  ELSE whole

\* wholeSegmentCache.releaseWaiter: a waiter that leaves a finished flight gives
\* its pin back; the reservation of an unfinished one stays until its run ends.
leaveWhole(x) ==
  IF InFlight(x) /\ FlightOf(x).level = "whole" /\ FlightOf(x).stage = "done"
                 /\ FlightOf(x).out = "ok"
  THEN Unpinned(FlightOf(x).key) ELSE whole

\* wholeSegmentCache.Close: revoke the entries, then cancel the flights that
\* were current, then wait for every run.
Revoked ==
  [lru |-> <<>>, closed |-> TRUE,
   bytes |-> whole.bytes - MapThenSumSet(LAMBDA i : Size(whole.lru[i].key), DOMAIN whole.lru)]

Unfinished == {f \in flights : f.level = "whole" /\ f.stage # "done"}

CancelUnfinished ==
  (flights \ Unfinished)
    \cup {[f EXCEPT !.cause = IF @ = "" THEN "closed" ELSE @] : f \in Unfinished}

----------------------------------------------------------------------------
\* Bytes are counted once: those of the entries and those reserved by the runs
\* that have not ended, cancelled ones included, whose buffers the store may
\* still fill; together they never exceed the budget.
WholeBytesExact ==
  /\ whole.bytes = MapThenSumSet(LAMBDA i : Size(whole.lru[i].key), DOMAIN whole.lru)
                     + MapThenSumSet(LAMBDA f : Size(f.key), Unfinished)
  /\ whole.bytes <= WholeMax
=============================================================================
