----------------------------- MODULE Reclaimer -----------------------------
(***************************************************************************)
(* lifecycle.Reclaimer.RunPartition: workers that share a leased state      *)
(* object and delete, in bounded passes, the segments, catalog pages and    *)
(* staging objects that the partition's head no longer needs.               *)
(*                                                                         *)
(* The partition is composed from CatalogTree: each commit, retention and   *)
(* takeover of a writer is one step here (CatalogSession models how it gets *)
(* through).  Time is a number that all workers read; a pass reads it once  *)
(* at its start (now) and again where the code calls r.now().  A pass that  *)
(* is older than MaxPass has an expired context.                            *)
(*                                                                         *)
(* Every segment holds one record and all objects have the same size, so    *)
(* MaxDeleteBytes never binds.  DryRun and keys that do not parse are not   *)
(* modelled.  Module Scrubber adds ScrubPartition.                          *)
(***************************************************************************)
EXTENDS CatalogTree, FiniteSets, FiniteSetsExt

CONSTANTS
  Workers,        \* Reclaimer instances, one OwnerID each
  NoOwner,        \* the empty owner_id
  DeleteDelay, MaxPass,                  \* Options, in units of the clock
  ListPageSize, MaxObjects, MaxDeletes,  \* Options
  CASAttempts,                           \* Options
  Committed,      \* segments committed before the first pass
  MaxLSN, MaxEpoch, MaxGen, MaxTime,     \* bounds
  MaxPasses,      \* bound: passes started in total
  MaxFaults,      \* bound: requests that fail and workers that crash
  Cuts            \* bound: the LSNs retention is asked for

ASSUME ReclaimerAssumption ==
  /\ NoOwner \notin Workers
  /\ {DeleteDelay, MaxPass, ListPageSize, MaxObjects, MaxDeletes, CASAttempts} \subseteq Nat \ {0}
  /\ {MaxLSN, MaxEpoch, MaxGen, MaxTime, MaxPasses} \subseteq Nat
  /\ MaxFaults \in Nat
  /\ Cuts \subseteq Nat
  /\ Committed \in 0..MaxLSN + 1

VARIABLES
  clock,
  head,       \* the partition head
  objects,    \* segments, pages and staging objects in the store
  late,       \* objects whose delete failed for its caller and may still happen
  file,       \* the state object: its token (0: absent) and decoded body
  work,       \* the pass of each worker
  passes,     \* passes started
  faults,     \* faults so far
  log,        \* history: segments ever committed
  retired     \* history: objects once reachable, and since when they are not

partition == <<head, log, retired>>
vars == <<clock, objects, late, file, work, passes, faults, partition>>

None == -1    \* the empty after key

NoFloor == [lsn |-> 0, since |-> 0]

NewState ==
  [owner |-> NoOwner, until |-> 0, retVer |-> 0, safe |-> 0, pending |-> NoFloor,
   segThrough |-> 0, segAfter |-> None,
   pageThrough |-> 0, pageLevel |-> 0, pageAfter |-> None, maxLevel |-> 0,
   stagingAfter |-> None, stagingEpoch |-> 0,
   orphanSeg |-> None, orphanLevel |-> 0, orphanPage |-> None, quarantine |-> <<>>]

HasPendingFloor(st) == st.pending.lsn # 0

\* validateState.
Valid(st) ==
  /\ st.segThrough <= st.safe
  /\ st.pageThrough <= st.safe
  /\ HasPendingFloor(st) => st.pending.lsn > st.safe
  /\ st.pageLevel > st.maxLevel => st.pageThrough >= st.safe
  /\ st.orphanLevel > st.maxLevel => st.orphanPage = None
  /\ \A i, j \in DOMAIN st.quarantine : st.quarantine[i].obj = st.quarantine[j].obj => i = j

\* The locals of RunPartition or ScrubPartition and of the sweep it is in.
Idle ==
  [pc |-> "idle", op |-> "reclaim", now |-> 0, st |-> NewState, token |-> 0, attempt |-> 0,
   epoch |-> 0, entered |-> None, scanned |-> 0, deleted |-> 0, exhausted |-> FALSE,
   sweep |-> "none", cand |-> <<>>, last |-> None, stop |-> "none",
   more |-> FALSE, page |-> <<>>, keep |-> <<>>, then |-> "none"]

Become(w, k) == work' = [work EXCEPT ![w] = k]

-----------------------------------------------------------------------------
(* Object names, in the order of the store's listings.                      *)

Segment(lsn, epoch) == [kind |-> "segment", lo |-> lsn, hi |-> lsn, epoch |-> epoch]
Staging(lsn, epoch, at) == [kind |-> "staging", lo |-> lsn, epoch |-> epoch, at |-> at]

SegmentLowerBound(lsn) == lsn * (MaxEpoch + 1)
PageEndLowerBound(lsn) == lsn * (MaxLSN + 1) * (MaxGen + 1)

\* Names sort by base LSN and epoch, page names by SeqHi, SeqLo, generation.
Key(o) ==
  IF o.kind = "page" THEN PageEndLowerBound(o.hi) + o.lo * (MaxGen + 1) + o.gen
  ELSE SegmentLowerBound(o.lo) + o.epoch

-----------------------------------------------------------------------------
(* The partition's writers.                                                 *)

\* The head of a partition whose first writer committed n segments.
History[n \in 0..MaxLSN + 1] ==
  IF n = 0 THEN TakeoverTree(NewTree)
  ELSE AppendTree(History[n - 1], Segment(n - 1, 1))

\* A new head over objects objs; the pages it adds are put before it.
Commit(h, objs) ==
  /\ head.gen < MaxGen
  /\ head' = h
  /\ objects' = objs \cup (PagesOf(h) \ PagesOf(head))
  /\ log' = log \cup SegmentsOf(h)
  /\ retired' = retired \cup {[obj |-> o, at |-> clock] : o \in Reachable(head) \ Reachable(h)}
  /\ UNCHANGED <<clock, late, file, work, passes, faults>>

\* A segment writer stages what it will commit next.
Upload ==
  /\ head.next <= MaxLSN
  /\ ~\E o \in objects : o.kind = "staging" /\ o.epoch = head.epoch   \* bound: one each
  /\ objects' = objects \cup {Staging(head.next, head.epoch, clock)}
  /\ UNCHANGED <<clock, late, file, work, passes, faults, partition>>

\* The staged upload becomes the final object and is committed.
AppendSegment ==
  LET seg == Segment(head.next, head.epoch)
  IN  \E o \in objects :
        /\ o.kind = "staging" /\ o.lo = head.next /\ o.epoch = head.epoch
        /\ ~IndexFull(head)
        /\ Commit(AppendTree(head, seg), (objects \ {o}) \cup {seg})

ApplyRetention(before) ==
  /\ CanRetainTree(head, before, head.retVer + 1)
  /\ Commit(ApplyRetentionTree(head, before, head.retVer + 1), objects)

OpenWriter == head.epoch < MaxEpoch /\ Commit(TakeoverTree(head), objects)

-----------------------------------------------------------------------------
(* The lease.                                                               *)

LeaseDuration == 3 * MaxPass

Expired(k) == clock > k.now + MaxPass

\* A request of the pass fails: its context has expired, or a fault.
Fails(k) ==
  IF Expired(k) THEN UNCHANGED faults ELSE faults < MaxFaults /\ faults' = faults + 1

Works(k) == ~Expired(k) /\ UNCHANGED faults

\* A pass of either kind begins.
StartPass(w, op) ==
  /\ work[w].pc = "idle"
  /\ passes < MaxPasses
  /\ passes' = passes + 1
  /\ Become(w, [Idle EXCEPT !.pc = "load", !.op = op, !.now = clock])
  /\ UNCHANGED <<clock, objects, late, file, faults, partition>>

RunPartition(w) == StartPass(w, "reclaim")

HeldMutant(w, k) == file.st.owner \notin {NoOwner, w} /\ file.st.until > clock + MaxPass

Held(w, k) == file.st.owner \notin {NoOwner, w} /\ file.st.until > k.now

\* acquire: load the state; another worker's lease ends the pass.
LoadState(w) ==
  LET k == work[w]
  IN  /\ k.pc = "load"
      /\ \/ /\ Works(k) /\ ~Held(w, k)
            /\ Become(w, [k EXCEPT !.pc = "acquire", !.token = file.token,
                                   !.st = [file.st EXCEPT !.owner = w,
                                                          !.until = k.now + LeaseDuration]])
         \/ Works(k) /\ Held(w, k) /\ Become(w, Idle)           \* ErrLeaseHeld
         \/ Fails(k) /\ Become(w, Idle)
      /\ UNCHANGED <<clock, objects, late, file, passes, partition>>

\* The state object is replaced by st if it still has the token.
Put(token, st) ==
  file' = IF token = file.token THEN [token |-> token + 1, st |-> st] ELSE file

AcquireCas(w) ==
  LET k == work[w]
  IN  /\ k.pc = "acquire"
      /\ \/ /\ Works(k)
            /\ k.token = file.token
            /\ Put(k.token, k.st)
            /\ Become(w, [k EXCEPT !.pc = "snapshot", !.token = @ + 1])
         \/ /\ Works(k)
            /\ k.token # file.token
            /\ UNCHANGED file
            /\ Become(w, IF k.attempt + 1 < CASAttempts
                         THEN [k EXCEPT !.pc = "load", !.attempt = @ + 1]
                         ELSE Idle)
         \/ /\ Fails(k)
            /\ Put(k.token, k.st) \/ UNCHANGED file
            /\ Become(w, Idle)
      /\ UNCHANGED <<clock, objects, late, passes, partition>>

-----------------------------------------------------------------------------
(* The pass.                                                                *)

PromoteEarlyMutant(st, now) ==
  IF HasPendingFloor(st)
  THEN [st EXCEPT !.safe = st.pending.lsn, !.pending = NoFloor,
                  !.pageLevel = 0, !.pageAfter = None]
  ELSE st

\* observeHead: a pending floor that is old enough becomes the safe floor, and
\* restarts the page sweep; a head beyond the safe floor sets a pending one.
Promote(st, now) ==
  IF HasPendingFloor(st) /\ now >= st.pending.since + DeleteDelay
  THEN [st EXCEPT !.safe = st.pending.lsn, !.pending = NoFloor,
                  !.pageLevel = 0, !.pageAfter = None]
  ELSE st

ObserveHead(st, h, now) ==
  LET seen == [st EXCEPT !.retVer = IF h.retVer > @ THEN h.retVer ELSE @,
                         !.maxLevel = IF MaxPageLevel(h) > @ THEN MaxPageLevel(h) ELSE @]
      promoted == Promote(seen, now)
  IN  IF ~HasPendingFloor(promoted) /\ h.oldest > promoted.safe
      THEN [promoted EXCEPT !.pending = [lsn |-> h.oldest, since |-> now]]
      ELSE promoted

\* runBudget.available.
Available(k) == ~k.exhausted /\ k.scanned < MaxObjects /\ k.deleted < MaxDeletes

\* runBudget.listLimit.
ListLimit(k) == Min({ListPageSize, MaxObjects - k.scanned})

\* The sweeps of RunPartition that come after the named one.
Following(k, sweep) ==
  IF sweep = "none" /\ k.st.segThrough < k.st.safe /\ Available(k) THEN "segments"
  ELSE IF sweep \in {"none", "segments"} /\ k.st.pageThrough < k.st.safe /\ Available(k)
       THEN "pages"
  ELSE IF sweep # "staging" /\ Available(k) /\ k.epoch # 0 THEN "staging"
  ELSE "release"

\* Entering a sweep; two of them judge the age of objects as of then.
\* reclaimStaging starts over when the epoch has changed.
Enter(k, sweep) ==
  LET e == [k EXCEPT !.pc = sweep, !.sweep = sweep, !.then = "none"]
  IN  IF sweep \notin {"staging", "orphan segments"} THEN e
      ELSE IF sweep = "staging" /\ k.st.stagingEpoch # k.epoch
      THEN [e EXCEPT !.pc = "save", !.then = "staging",
                     !.st.stagingEpoch = k.epoch, !.st.stagingAfter = None]
      ELSE [e EXCEPT !.entered = IF @ = None THEN clock ELSE @]

\* Save st; then the next page of objects of this sweep, while there is a
\* budget for it, or the sweep that follows.
Save(k, st, same) ==
  LET saved == [k EXCEPT !.st = st]
  IN  [saved EXCEPT !.pc = "save",
                    !.then = IF same /\ Available(k) THEN k.sweep
                             ELSE Following(saved, k.sweep)]

\* saveState renews the lease; a conflict or an error ends the pass.
SaveState(w) ==
  LET k == work[w]
      st == [k.st EXCEPT !.owner = w, !.until = clock + LeaseDuration]
  IN  /\ k.pc = "save"
      /\ \/ /\ Works(k)
            /\ k.token = file.token
            /\ Put(k.token, st)
            /\ Become(w, Enter([k EXCEPT !.st = st, !.token = @ + 1], k.then))
         \/ /\ \/ Works(k) /\ k.token # file.token /\ UNCHANGED file     \* ErrLeaseLost
               \/ Fails(k) /\ (Put(k.token, st) \/ UNCHANGED file)
            /\ Become(w, [k EXCEPT !.pc = "release", !.then = "none", !.st = st])
      /\ UNCHANGED <<clock, objects, late, passes, partition>>

ReleaseMutant(w) ==
  LET k == work[w]
  IN  /\ k.pc = "release"
      /\ \/ Put(k.token, NewState) /\ UNCHANGED faults
         \/ /\ faults < MaxFaults /\ faults' = faults + 1
            /\ Put(k.token, NewState) \/ UNCHANGED file
      /\ Become(w, Idle)
      /\ UNCHANGED <<clock, objects, late, passes, partition>>

\* release, deferred to the end of every pass that acquired the lease, with
\* the state as the pass left it and a context of its own.
Release(w) ==
  LET k == work[w]
      st == [k.st EXCEPT !.owner = NoOwner, !.until = 0]
  IN  /\ k.pc = "release"
      /\ \/ Put(k.token, st) /\ UNCHANGED faults
         \/ /\ faults < MaxFaults /\ faults' = faults + 1
            /\ Put(k.token, st) \/ UNCHANGED file
      /\ Become(w, Idle)
      /\ UNCHANGED <<clock, objects, late, passes, partition>>

\* The worker's process ends; a delete it sent may still happen.
Crash(w) ==
  /\ work[w].pc # "idle"
  /\ faults < MaxFaults /\ faults' = faults + 1
  /\ Become(w, Idle)
  /\ UNCHANGED <<clock, objects, late, file, passes, partition>>

\* Load the head and take note of its floor.
Snapshot(w) ==
  LET k == work[w]
      st == ObserveHead(k.st, head, k.now)
      seen == [k EXCEPT !.epoch = head.epoch]
  IN  /\ k.pc = "snapshot" /\ k.op = "reclaim"
      /\ \/ /\ Works(k)
            /\ Become(w, IF st # k.st THEN Save(seen, st, FALSE)
                         ELSE Enter(seen, Following(seen, "none")))
         \/ Fails(k) /\ Become(w, [k EXCEPT !.pc = "release"])
      /\ UNCHANGED <<clock, objects, late, file, passes, partition>>

\* The prefix a sweep lists and the key it lists after.
Prefix(k) ==
  {o \in objects : \/ k.sweep = "segments" /\ o.kind = "segment"
                   \/ k.sweep = "pages" /\ o.kind = "page" /\ o.level = k.st.pageLevel
                   \/ k.sweep = "staging" /\ o.kind = "staging"}

Cursor(k) ==
  IF k.sweep = "segments" THEN k.st.segAfter
  ELSE IF k.sweep = "pages" THEN k.st.pageAfter
  ELSE k.st.stagingAfter

SetCursor(k, key) ==
  IF k.sweep = "segments" THEN [k.st EXCEPT !.segAfter = key]
  ELSE IF k.sweep = "pages" THEN [k.st EXCEPT !.pageAfter = key]
  ELSE [k.st EXCEPT !.stagingAfter = key]

AfterKey(k) ==
  IF Cursor(k) # None THEN Cursor(k)
  ELSE IF k.sweep = "segments" THEN SegmentLowerBound(k.st.segThrough)
  ELSE IF k.sweep = "pages" THEN PageEndLowerBound(k.st.pageThrough)
  ELSE 0

\* The first object a sweep must keep, and with it all that sort after it.
Beyond(k, o) ==
  \/ k.sweep = "segments" /\ o.lo >= k.st.safe
  \/ k.sweep = "pages" /\ o.hi >= k.st.safe

EligibleMutant(k, o) ==
  k.sweep = "staging" => o.epoch <= k.epoch /\ o.at + DeleteDelay <= k.entered

\* A staging object is skipped unless a fenced writer left it, long enough ago.
Eligible(k, o) ==
  k.sweep = "staging" => o.epoch < k.epoch /\ o.at + DeleteDelay <= k.entered

FinishPageMutant(k) ==
  LET n == [k EXCEPT !.cand = <<>>, !.last = None, !.stop = "none", !.more = FALSE]
      st == k.st
  IN  IF k.stop = "none" /\ k.more THEN Save(n, SetCursor(k, k.last), TRUE)
      ELSE IF k.sweep = "segments"
      THEN Save(n, [st EXCEPT !.segThrough = st.safe, !.segAfter = None], FALSE)
      ELSE IF k.sweep = "staging" THEN Save(n, [st EXCEPT !.stagingAfter = None], FALSE)
      ELSE IF st.pageLevel < st.maxLevel
      THEN Save(n, [st EXCEPT !.pageLevel = @ + 1, !.pageAfter = None], TRUE)
      ELSE Save(n, [st EXCEPT !.pageThrough = st.safe, !.pageLevel = 0, !.pageAfter = None],
                FALSE)

\* The sweep is through with a page of objects: advance its cursor, its level
\* or its watermark.
FinishPage(k) ==
  LET n == [k EXCEPT !.cand = <<>>, !.last = None, !.stop = "none", !.more = FALSE]
      st == k.st
  IN  IF k.stop = "budget"
      THEN IF k.last # Cursor(k) THEN Save(n, SetCursor(k, k.last), FALSE)
           ELSE Enter(n, Following(n, k.sweep))
      ELSE IF k.stop = "none" /\ k.more THEN Save(n, SetCursor(k, k.last), TRUE)
      ELSE IF k.sweep = "segments"
      THEN Save(n, [st EXCEPT !.segThrough = st.safe, !.segAfter = None], FALSE)
      ELSE IF k.sweep = "staging" THEN Save(n, [st EXCEPT !.stagingAfter = None], FALSE)
      ELSE IF st.pageLevel < st.maxLevel
      THEN Save(n, [st EXCEPT !.pageLevel = @ + 1, !.pageAfter = None], TRUE)
      ELSE Save(n, [st EXCEPT !.pageThrough = st.safe, !.pageLevel = 0, !.pageAfter = None],
                FALSE)

\* One page of a listing, and what of it is to be deleted.  The walk stops at
\* the floor or where the run has no deletes left.
Walk(k) ==
  LET all == SetToSortSeq({o \in Prefix(k) : Key(o) > AfterKey(k)},
                          LAMBDA a, b : Key(a) < Key(b))
      page == SubSeq(all, 1, Min({ListLimit(k), Len(all)}))
      \* the deletes scheduled before the i-th object
      sched(i) == Cardinality({j \in 1..i - 1 : Eligible(k, page[j])})
      spent(i) == Eligible(k, page[i]) /\ k.deleted + sched(i) >= MaxDeletes
      stops == {i \in DOMAIN page : Beyond(k, page[i]) \/ spent(i)}
      end == IF stops = {} THEN Len(page) + 1 ELSE Min(stops)
      before(i) == IF i = 1 THEN AfterKey(k) ELSE Key(page[i - 1])
      walk == [i \in 1..end - 1 |-> [obj |-> page[i], before |-> before(i)]]
  IN  [scanned |-> Len(page), more |-> Len(all) > Len(page), last |-> before(end),
       cand |-> SelectSeq(walk, LAMBDA c : Eligible(k, c.obj)),
       stop |-> IF stops = {} THEN "none"
                ELSE IF Beyond(k, page[end]) THEN "floor" ELSE "budget"]

\* A sweep lists; what it does not delete it is through with.
List(w) ==
  LET k == work[w]
      page == Walk(k)
      scanned == k.scanned + page.scanned
      seen == [k EXCEPT !.scanned = scanned,
                        !.exhausted = scanned >= MaxObjects \/ page.stop = "budget",
                        !.cand = page.cand, !.last = page.last,
                        !.stop = page.stop, !.more = page.more]
  IN  /\ k.pc \in {"segments", "pages", "staging"}
      /\ \/ /\ Works(k)
            /\ Become(w, IF seen.cand = <<>> THEN FinishPage(seen)
                         ELSE [seen EXCEPT !.pc = "delete"])
         \/ Fails(k) /\ Become(w, [k EXCEPT !.pc = "release"])
      /\ UNCHANGED <<clock, objects, late, file, passes, partition>>

\* recheckFloor, or the check of the epoch in reclaimStaging.  The head never
\* goes back, so an answer always passes.
Rechecked(k) ==
  IF k.sweep = "staging" THEN head.epoch >= k.epoch ELSE head.oldest >= k.st.safe

\* executeDeletes: the objects at `failed' are reported as failed.  The cursor
\* goes back to before the first of them.
AfterDeletes(k, failed) ==
  LET done == k.deleted + Len(k.cand) - Cardinality(failed)
      n == [k EXCEPT !.deleted = done, !.exhausted = @ \/ done >= MaxDeletes]
      key == k.cand[Min(failed)].before
      r == [n EXCEPT !.cand = <<>>, !.last = None, !.stop = "none", !.more = FALSE,
                     !.pc = "release"]
  IN  IF failed = {} THEN FinishPage(n)
      ELSE IF key = Cursor(k) THEN r
      ELSE [r EXCEPT !.pc = "save", !.then = "release", !.st = SetCursor(k, key)]

\* executeDeletes: sent in parallel, each after a check of the lease; one that
\* fails for the worker may still happen.  How the pass goes on is after[failed].
Deletes(w, after) ==
  LET k == work[w]
      all == DOMAIN k.cand
      objs(S) == {k.cand[i].obj : i \in S}
  IN  \/ /\ ~Expired(k) /\ k.st.until > clock
         /\ \E failed \in SUBSET all :
              /\ IF failed = {} THEN UNCHANGED faults ELSE Fails(k)
              /\ objects' = objects \ objs(all \ failed)
              /\ late' = (late \ objs(all)) \cup objs(failed)
              /\ Become(w, after[failed])
      \/ /\ Expired(k) \/ k.st.until <= clock            \* nothing is sent
         /\ Become(w, after[all])
         /\ UNCHANGED <<objects, late, faults>>

\* The deletes of one page of a sweep, after the recheck.
Delete(w) ==
  LET k == work[w]
  IN  /\ k.pc = "delete"
      /\ \/ Rechecked(k) /\ Deletes(w, [failed \in SUBSET DOMAIN k.cand |-> AfterDeletes(k, failed)])
         \/ /\ Fails(k)                                      \* the recheck
            /\ Become(w, [k EXCEPT !.pc = "release", !.cand = <<>>, !.last = None,
                                   !.stop = "none", !.more = FALSE])
            /\ UNCHANGED <<objects, late>>
      /\ UNCHANGED <<clock, file, passes, partition>>

\* A delete that had failed for its caller happens.
DeleteLate ==
  \E o \in late :
    /\ late' = late \ {o}
    /\ objects' = objects \ {o}
    /\ UNCHANGED <<clock, file, work, passes, faults, partition>>

Tick ==
  /\ clock < MaxTime
  /\ clock' = clock + 1
  /\ UNCHANGED <<objects, late, file, work, passes, faults, partition>>

-----------------------------------------------------------------------------
Init ==
  /\ clock = 0
  /\ head = History[Committed]
  /\ objects = Reachable(head)
  /\ late = {}
  /\ file = [token |-> 0, st |-> NewState]
  /\ work = [w \in Workers |-> Idle]
  /\ passes = 0
  /\ faults = 0
  /\ log = SegmentsOf(head)
  /\ retired = {}

Writer ==
  \/ Upload \/ AppendSegment \/ OpenWriter
  \/ \E before \in Cuts : ApplyRetention(before)

Pass(w) ==
  \/ RunPartition(w) \/ LoadState(w) \/ AcquireCas(w) \/ Snapshot(w)
  \/ List(w) \/ Delete(w) \/ SaveState(w) \/ Release(w) \/ Crash(w)

Next == Writer \/ (\E w \in Workers : Pass(w)) \/ DeleteLate \/ Tick

Spec == Init /\ [][Next]_vars

-----------------------------------------------------------------------------
\* Types, and the budgets of a pass (runBudget).
TypeOK ==
  /\ clock \in 0..MaxTime
  /\ passes \in 0..MaxPasses
  /\ head.oldest \in 0..head.next /\ head.next \in 0..MaxLSN + 1
  /\ head.gen \in 0..MaxGen /\ head.epoch \in 0..MaxEpoch
  /\ \A o \in objects \cup late : o.kind \in {"segment", "page", "staging"}
  /\ file.token \in Nat
  /\ \A w \in Workers :
       /\ work[w].pc \in {"idle", "load", "acquire", "snapshot", "save", "segments", "pages",
                          "staging", "delete", "release"}
       /\ work[w].scanned <= MaxObjects /\ work[w].deleted <= MaxDeletes

\* Every lookup through the page tree finds the segment that was committed
\* with the LSN, whatever was appended, sealed and trimmed in between.
FindIsExact ==
  \A lsn \in 0..MaxLSN :
    FindSegmentTree(head, lsn) =
      {s \in log : s.lo <= lsn /\ lsn <= s.hi /\ head.oldest <= lsn}

\* The head's segments and pages, and what its writer is uploading, are never
\* deleted: by no pass, however old its view of the head, and by no late delete.
DeletesOnlyGarbage ==
  [][\A o \in objects \ objects' :
       /\ o \notin Reachable(head')
       /\ o.kind = "staging" => o.epoch < head.epoch \/ o.lo < head'.next]_vars

\* A reader that found an object through the head has DeleteDelay, less the
\* time of one pass, to read it after retention has dropped it.  The grace is
\* not quite DeleteDelay: a floor pends from the start of the pass (now), which
\* may be up to MaxPass before the head that has it was loaded.
GraceIsKept ==
  [][\A o \in objects \ objects' :
       \A x \in retired : x.obj = o => clock - x.at >= DeleteDelay - MaxPass]_vars

\* At most one worker may delete, across expired leases, lost answers and
\* crashes.
Holding(w) ==
  work[w].pc \in {"snapshot", "save", "segments", "pages", "staging", "delete"}
    /\ work[w].st.until > clock

LeaseIsExclusive == \A v, w \in Workers : Holding(v) /\ Holding(w) => v = w

\* What a stored watermark says is reclaimed is gone: neither a failed delete,
\* a crash, a budget that ran out nor a floor that moved during a sweep leaves
\* a segment or a leaf behind.
ReclaimedIsGone ==
  \A x \in retired :
    /\ x.obj.kind = "segment" /\ x.obj.lo < file.st.segThrough => x.obj \notin objects
    /\ x.obj.kind = "page" /\ x.obj.level = 0 /\ x.obj.hi < file.st.pageThrough
         => x.obj \notin objects

\* The floors and watermarks of the stored state never go back.
WatermarksAdvance ==
  [][/\ file'.st.safe >= file.st.safe
     /\ file'.st.segThrough >= file.st.segThrough
     /\ file'.st.pageThrough >= file.st.pageThrough
     /\ file'.st.maxLevel >= file.st.maxLevel]_vars

\* No pass arrives at a state that validateState refuses to write, with which
\* it could neither go on nor release its lease.
StatesAreValid == Valid(file.st) /\ \A w \in Workers : Valid(work[w].st)

\* Passes share the state object soundly: one worker at a time, watermarks
\* that are true of the store, and never a state that cannot be written.
PassesAreSound == TypeOK /\ LeaseIsExclusive /\ ReclaimedIsGone /\ StatesAreValid
=============================================================================
