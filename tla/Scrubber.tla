------------------------------ MODULE Scrubber ------------------------------
(***************************************************************************)
(* lifecycle.Reclaimer.ScrubPartition (lifecycle/scrub.go): the slower pass *)
(* that looks for segment objects and catalog pages no head refers to.      *)
(*                                                                         *)
(* Orphans come from appends that put their segment and pages and then lose *)
(* the head, so an append is taken apart here: a writer proposes a head,    *)
(* puts the objects and swaps the head, and may be overtaken, fenced or     *)
(* gone in between.  A listing of the store and the query that tells which  *)
(* of the listed objects the catalog refers to are steps of their own.      *)
(***************************************************************************)
EXTENDS Reclaimer

CONSTANT MaxQuarantine   \* Options

ASSUME ScrubberAssumption == MaxQuarantine \in Nat \ {0}

VARIABLES
  proposals,  \* the append under way: the head it started from and the one it proposes
  born,       \* when each segment object was created
  overdue     \* history: what was an orphan when the current sweep began

scrubVars == <<vars, proposals, born, overdue>>

-----------------------------------------------------------------------------
(* Writers whose append is not one step.                                    *)

\* An append has lost if the head has moved on.
Lost(p) == head # p.from

\* A writer, with one append at a time, computes the next head and puts the
\* pages it adds.  The segment is put with them the first time; an append that
\* is tried again relies on the segment that is there.
PutObjects ==
  LET seg == Segment(head.next, head.epoch)
      next == AppendTree(head, seg)
      first == \A b \in born : b.obj # seg
  IN  /\ head.next <= MaxLSN /\ head.gen < MaxGen /\ ~IndexFull(head)
      /\ \A p \in proposals : Lost(p)
      /\ proposals' = {[from |-> head, head |-> next]}
      /\ objects' = objects \cup (PagesOf(next) \ PagesOf(head)) \cup (IF first THEN {seg} ELSE {})
      /\ born' = IF first THEN born \cup {[obj |-> seg, at |-> clock]} ELSE born
      /\ UNCHANGED <<clock, late, file, work, passes, faults, partition>>

\* The swap of the head succeeds only on the head the append started from.
Land(p) ==
  /\ ~Lost(p)
  /\ head' = p.head
  /\ log' = log \cup SegmentsOf(p.head)
  /\ retired' = retired \cup
       {[obj |-> o, at |-> clock] : o \in Reachable(head) \ Reachable(p.head)}
  /\ proposals' = proposals \ {p}
  /\ UNCHANGED <<clock, objects, late, file, work, passes, faults, born>>

-----------------------------------------------------------------------------
(* The pass.                                                                *)

ScrubPartition(w) == StartPass(w, "scrub")

SaveThen(k, st, then) ==
  [k EXCEPT !.st = st, !.pc = "save", !.then = then, !.cand = <<>>, !.page = <<>>,
            !.keep = <<>>, !.last = None, !.stop = "none", !.more = FALSE]

EndPass(k) == [SaveThen(k, k.st, "none") EXCEPT !.pc = "release"]

IfAvailable(k, sweep) == IF Available(k) THEN sweep ELSE "release"

ScrubSnapshot(w) ==
  LET k == work[w]
      level == MaxPageLevel(head)
  IN  /\ k.pc = "snapshot" /\ k.op = "scrub"
      /\ \/ /\ Works(k)
            /\ Become(w, IF level > k.st.maxLevel
                         THEN SaveThen(k, [k.st EXCEPT !.maxLevel = level], "quarantine")
                         ELSE Enter(k, "quarantine"))
         \/ Fails(k) /\ Become(w, EndPass(k))
      /\ UNCHANGED <<clock, objects, late, file, passes, partition>>

SettledMutant(o) == TRUE

\* No head to come refers to a page named after a generation that is past.
Settled(o) == o.gen < head.gen

\* The first n of a set of indices.
Lowest(S, n) == {i \in S : Cardinality({j \in S : j < i}) < n}

\* processPageQuarantine: pages that have waited long enough are looked up once
\* more and deleted if the catalog still does not refer to them.
CheckQuarantine(w) ==
  LET k == work[w]
      all == k.st.quarantine
      due == {i \in DOMAIN all : all[i].at + DeleteDelay <= clock}
      checked == Lowest(due, MaxObjects - k.scanned)
      found == {i \in checked : all[i].obj \in PagesOf(head)}
      garbage == {i \in checked \ found : Settled(all[i].obj)}
      deletes == Lowest(garbage, MaxDeletes - k.deleted)
      refused == garbage \ deletes
      reached == {i \in checked : refused = {} \/ i <= Min(refused)}
      drop == (found \cap reached) \cup deletes
      pick(S) == SelectSeq([i \in DOMAIN all |-> [q |-> all[i], in |-> i \in S]], LAMBDA x : x.in)
      values(seq) == [i \in DOMAIN seq |-> seq[i].q]
      keep == values(pick(DOMAIN all \ drop))
      scanned == k.scanned + Cardinality(reached)
      seen == [k EXCEPT !.scanned = scanned, !.keep = keep,
                        !.exhausted = scanned >= MaxObjects \/ refused # {},
                        !.cand = [i \in DOMAIN pick(deletes) |->
                                    [obj |-> pick(deletes)[i].q.obj, before |-> None]]]
  IN  /\ k.pc = "quarantine"
      /\ \/ /\ Works(k) \/ (due = {} /\ UNCHANGED faults)   \* nothing due: no request
            /\ Become(w, IF deletes # {} THEN [seen EXCEPT !.pc = "purge"]
                         ELSE IF drop # {}
                         THEN SaveThen(seen, [k.st EXCEPT !.quarantine = keep],
                                       IfAvailable(seen, "orphan segments"))
                         ELSE Enter([seen EXCEPT !.keep = <<>>],
                                    IfAvailable(seen, "orphan segments")))
         \/ due # {} /\ Fails(k) /\ Become(w, EndPass(k))
      /\ UNCHANGED <<clock, objects, late, file, passes, partition>>

-----------------------------------------------------------------------------
(* A page of a listing, and what the catalog says of it.                    *)

\* The objects after the cursor, in order.
Listing(objs, after) ==
  SetToSortSeq({o \in objs : Key(o) > after}, LAMBDA a, b : Key(a) < Key(b))

Listed(k, all) ==
  LET n == Min({ListLimit(k), Len(all)})
  IN  [k EXCEPT !.page = SubSeq(all, 1, n), !.more = Len(all) > n,
                !.scanned = @ + n, !.exhausted = @ \/ k.scanned + n >= MaxObjects]

\* The key a walk over the page has passed before its i-th object.
Passed(k, after, i) == IF i = 1 THEN after ELSE Key(k.page[i - 1])

Born(o) == (CHOOSE b \in born : b.obj = o).at

oldEnough(o, now) == Born(o) + DeleteDelay <= now

orphanSegmentEligibleMutant(o, safe) ==
  o.epoch <= head.epoch /\ (o.lo < head.next \/ o.epoch < head.epoch)

\* What retention has dropped belongs to the reclaimer until its safe floor has
\* passed; what a writer that is not fenced may yet commit is left alone.
orphanSegmentEligible(o, safe) ==
  /\ ~(o.lo < head.oldest /\ o.lo >= safe)
  /\ o.epoch <= head.epoch
  /\ o.lo < head.next \/ o.epoch < head.epoch

OrphanSegment(o, safe, now) ==
  oldEnough(o, now) /\ orphanSegmentEligible(o, safe) /\ o \notin SegmentsOf(head)

SegmentCursor(st) == IF st.orphanSeg = None THEN 0 ELSE st.orphanSeg

ListOrphanSegments(w) ==
  LET k == work[w]
      seen == Listed(k, Listing({o \in objects : o.kind = "segment"}, SegmentCursor(k.st)))
  IN  /\ k.pc = "orphan segments"
      /\ \/ /\ Works(k)
            /\ Become(w, IF seen.page # <<>> THEN [seen EXCEPT !.pc = "check segments"]
                         ELSE SaveThen(seen, [k.st EXCEPT !.orphanSeg = None],
                                       IfAvailable(seen, "orphan pages")))
         \/ Fails(k) /\ Become(w, EndPass(k))
      /\ UNCHANGED <<clock, objects, late, file, passes, partition>>

\* scrubSegmentOrphans is through with a page of objects.
FinishSegments(k) ==
  LET st == [k.st EXCEPT !.orphanSeg = k.last]
  IN  IF k.stop = "budget"
      THEN IF k.last = k.st.orphanSeg THEN EndPass(k) ELSE SaveThen(k, st, "release")
      ELSE IF k.more THEN SaveThen(k, st, IfAvailable(k, "orphan segments"))
      ELSE SaveThen(k, [k.st EXCEPT !.orphanSeg = None], IfAvailable(k, "orphan pages"))

\* referencedSegmentsForObjectPage, and the walk over the page.
CheckSegments(w) ==
  LET k == work[w]
      orphans == {i \in DOMAIN k.page : OrphanSegment(k.page[i], k.st.safe, k.entered)}
      deletes == Lowest(orphans, MaxDeletes - k.deleted)
      refused == orphans \ deletes
      end == IF refused = {} THEN Len(k.page) + 1 ELSE Min(refused)
      passed(i) == Passed(k, SegmentCursor(k.st), i)
      seen == [k EXCEPT !.last = passed(end), !.exhausted = @ \/ refused # {},
                        !.stop = IF refused = {} THEN "none" ELSE "budget",
                        !.cand = [n \in 1..Cardinality(deletes) |->
                                    LET i == CHOOSE i \in deletes :
                                               Cardinality({j \in deletes : j < i}) = n - 1
                                    IN  [obj |-> k.page[i], before |-> passed(i)]]]
  IN  /\ k.pc = "check segments"
      /\ \/ /\ Works(k)
            /\ Become(w, IF deletes = {} THEN FinishSegments(seen) ELSE [seen EXCEPT !.pc = "purge"])
         \/ Fails(k) /\ Become(w, EndPass(k))
      /\ UNCHANGED <<clock, objects, late, file, passes, partition>>

AfterPurgeMutant(k, failed) ==
  LET done == k.deleted + Len(k.cand) - Cardinality(failed)
      n == [k EXCEPT !.deleted = done, !.exhausted = @ \/ done >= MaxDeletes]
  IN  IF k.sweep = "quarantine"
      THEN SaveThen(n, [k.st EXCEPT !.quarantine = k.keep], IfAvailable(n, "orphan segments"))
      ELSE FinishSegments(n)

\* After the deletes of a scrub.  A failure ends the pass: the quarantine is
\* kept as it was, the cursor goes back to before the first failed delete.
AfterPurge(k, failed) ==
  LET done == k.deleted + Len(k.cand) - Cardinality(failed)
      n == [k EXCEPT !.deleted = done, !.exhausted = @ \/ done >= MaxDeletes]
      key == k.cand[Min(failed)].before
  IN  IF k.sweep = "quarantine"
      THEN IF failed # {} THEN EndPass(n)
           ELSE SaveThen(n, [k.st EXCEPT !.quarantine = k.keep], IfAvailable(n, "orphan segments"))
      ELSE IF failed = {} THEN FinishSegments(n)
      ELSE IF key = k.st.orphanSeg THEN EndPass(n)
      ELSE SaveThen(n, [k.st EXCEPT !.orphanSeg = key], "release")

Purge(w) ==
  /\ work[w].pc = "purge"
  /\ Deletes(w, [failed \in SUBSET DOMAIN work[w].cand |-> AfterPurge(work[w], failed)])
  /\ UNCHANGED <<clock, file, passes, partition>>

PageCursor(st) == IF st.orphanPage = None THEN 0 ELSE st.orphanPage

\* The level is done: the next one, or the end of the sweep.
NextLevel(k, st) ==
  IF st.orphanLevel < st.maxLevel
  THEN SaveThen(k, [st EXCEPT !.orphanLevel = @ + 1, !.orphanPage = None],
                IfAvailable(k, "orphan pages"))
  ELSE SaveThen(k, [st EXCEPT !.orphanLevel = 0, !.orphanPage = None], "release")

ListOrphanPages(w) ==
  LET k == work[w]
      seen == Listed(k, Listing({o \in objects : o.kind = "page" /\ o.level = k.st.orphanLevel},
                                PageCursor(k.st)))
  IN  /\ k.pc = "orphan pages"
      /\ \/ /\ Works(k)
            /\ Become(w, IF seen.page # <<>> THEN [seen EXCEPT !.pc = "check pages"]
                         ELSE NextLevel(seen, k.st))
         \/ Fails(k) /\ Become(w, EndPass(k))
      /\ UNCHANGED <<clock, objects, late, file, passes, partition>>

OrphanPage(o, st) ==
  /\ Settled(o) /\ o \notin PagesOf(head)
  /\ \A i \in DOMAIN st.quarantine : st.quarantine[i].obj # o

\* reachablePagesForObjectPage, and the walk over the page: orphans go into the
\* quarantine until it is full.
CheckPages(w) ==
  LET k == work[w]
      orphans == {i \in DOMAIN k.page : OrphanPage(k.page[i], k.st)}
      taken == Lowest(orphans, MaxQuarantine - Len(k.st.quarantine))
      refused == orphans \ taken
      end == IF refused = {} THEN Len(k.page) + 1 ELSE Min(refused)
      added == [n \in 1..Cardinality(taken) |->
                  LET i == CHOOSE i \in taken : Cardinality({j \in taken : j < i}) = n - 1
                  IN  [obj |-> k.page[i], gen |-> head.gen, at |-> clock]]
      st == [k.st EXCEPT !.quarantine = @ \o added,
                         !.orphanPage = Passed(k, PageCursor(k.st), end)]
  IN  /\ k.pc = "check pages"
      /\ \/ /\ Works(k)
            /\ Become(w, IF refused # {} THEN SaveThen(k, st, "release")
                         ELSE IF k.more THEN SaveThen(k, st, IfAvailable(k, "orphan pages"))
                         ELSE NextLevel(k, st))
         \/ Fails(k) /\ Become(w, EndPass(k))
      /\ UNCHANGED <<clock, objects, late, file, passes, partition>>

-----------------------------------------------------------------------------
Scrub(w) ==
  \/ ScrubPartition(w) \/ ScrubSnapshot(w) \/ CheckQuarantine(w) \/ Purge(w)
  \/ ListOrphanSegments(w) \/ CheckSegments(w) \/ ListOrphanPages(w) \/ CheckPages(w)

\* Orphans there are when a sweep lists its first page.
OrphansNow(w) ==
  LET k == work[w]
      first(pc, cursor) == k.pc = pc /\ cursor = None
  IN  (IF first("orphan segments", k.st.orphanSeg)
       THEN {o \in objects : o.kind = "segment" /\ OrphanSegment(o, k.st.safe, k.entered)}
       ELSE {o \in overdue : o.kind = "segment"})
      \cup
      (IF first("orphan pages", k.st.orphanPage) /\ k.st.orphanLevel = 0
       THEN {o \in objects : o.kind = "page" /\ OrphanPage(o, k.st)}
       ELSE {o \in overdue : o.kind = "page"})

ScrubInit ==
  /\ Init
  /\ proposals = {} /\ overdue = {}
  /\ born = {[obj |-> o, at |-> 0] : o \in SegmentsOf(head)}

WriterStep ==
  \/ PutObjects \/ \E p \in proposals : Land(p)
  \/ /\ OpenWriter \/ \E before \in Cuts : ApplyRetention(before)
     /\ UNCHANGED <<proposals, born>>

\* The pass: what it shares with RunPartition, and its own steps.
PassStep(w) ==
  \/ LoadState(w) \/ AcquireCas(w) \/ SaveState(w) \/ Release(w) \/ Crash(w)
  \/ Scrub(w)

ScrubNext ==
  \/ WriterStep /\ UNCHANGED overdue
  \/ (DeleteLate \/ Tick) /\ UNCHANGED <<proposals, born, overdue>>
  \/ \E w \in Workers :
       PassStep(w) /\ overdue' = OrphansNow(w) /\ UNCHANGED <<proposals, born>>

ScrubSpec == ScrubInit /\ [][ScrubNext]_scrubVars

-----------------------------------------------------------------------------
\* Whatever a head refers to is in the store: scrubbing deletes neither what is
\* reachable nor what an append under way, even a stalled one, makes reachable
\* later.
ReachableIsStored == Reachable(head) \subseteq objects

\* Orphans a sweep has passed are not lost from sight: neither a failed delete,
\* a crash, an exhausted budget nor a full quarantine moves the stored cursor
\* past a segment that is left or a page that is neither gone nor quarantined.
\* (A segment that retention passes meanwhile is left to the reclaimer.)
ScrubSkipsNothing ==
  \A o \in overdue \cap objects :
    /\ o.kind = "segment" /\ file.st.orphanSeg # None /\ Key(o) <= file.st.orphanSeg
         => o.lo < head.oldest
    /\ o.kind = "page" /\ \/ o.level < file.st.orphanLevel
                          \/ o.level = file.st.orphanLevel /\ Key(o) <= file.st.orphanPage
         => \E i \in DOMAIN file.st.quarantine : file.st.quarantine[i].obj = o
=============================================================================
