---------------------------- MODULE CatalogTree ----------------------------
(***************************************************************************)
(* The page tree of a partition (catengine/tree.go, retention.go and        *)
(* reader.go): what CatalogHead abstracts to a set of segments.             *)
(*                                                                         *)
(* A page is immutable and its name contains a hash of its body, so a page, *)
(* a reference to it and its object key are one value.  Pages of level 0    *)
(* (leaves) list segments, pages of level l list pages of level l - 1.  The *)
(* head holds the segments not yet in a leaf (active) and, per level, the   *)
(* pages not yet in a parent (sections).                                    *)
(***************************************************************************)
EXTENDS Integers, Sequences, SequencesExt

CONSTANTS
  LeafLimit,   \* segments per leaf
  IndexLimit,  \* entries per index page
  MaxLevel     \* MaxOpenIndexLevel: the number of open sections

ASSUME TreeAssumption ==
  /\ LeafLimit \in Nat \ {0}
  /\ IndexLimit \in Nat \ {0, 1}
  /\ MaxLevel \in Nat \ {0}

NoPage == [kind |-> "none"]

NewTree ==
  [gen |-> 0, epoch |-> 0, next |-> 0, oldest |-> 0, retLSN |-> 0, retVer |-> 0,
   active |-> <<>>, sections |-> [l \in 1..MaxLevel |-> <<>>]]

\* sealLeaf and sealIndex.
Seal(level, entries, gen) ==
  [kind |-> "page", level |-> level, lo |-> Head(entries).lo, hi |-> Last(entries).hi,
   gen |-> gen, entries |-> entries]

\* sort.Search on the upper bounds of ordered entries: those from the first
\* that ends at or after lsn.
From(entries, lsn) == SelectSeq(entries, LAMBDA e : e.hi >= lsn)

-----------------------------------------------------------------------------
(* Append.                                                                  *)

TakeoverTree(h) == [h EXCEPT !.epoch = @ + 1, !.gen = @ + 1]

PushMutant(h, leaf) ==
  LET carry[l \in 1..MaxLevel] ==
        IF l = 1 THEN leaf
        ELSE IF carry[l - 1] # NoPage /\ Len(h.sections[l - 1]) + 1 = IndexLimit
        THEN Seal(l - 1, h.sections[l - 1], h.gen)
        ELSE NoPage
  IN  carry

\* push: the page that arrives at each open section.  A section it fills is
\* sealed into a page for the section above.
Push(h, leaf) ==
  LET carry[l \in 1..MaxLevel] ==
        IF l = 1 THEN leaf
        ELSE IF carry[l - 1] # NoPage /\ Len(h.sections[l - 1]) + 1 = IndexLimit
        THEN Seal(l - 1, Append(h.sections[l - 1], carry[l - 1]), h.gen)
        ELSE NoPage
  IN  carry

\* Append would overflow the terminal section (ErrIndexFull).
IndexFull(h) ==
  /\ Len(h.active) + 1 = LeafLimit
  /\ \A l \in 1..MaxLevel : Len(h.sections[l]) + 1 = IndexLimit

AppendTree(h, seg) ==
  LET next == [h EXCEPT !.gen = @ + 1, !.next = seg.hi + 1, !.active = Append(@, seg)]
      carry == Push(next, Seal(0, next.active, next.gen))
  IN  IF Len(next.active) < LeafLimit THEN next
      ELSE [next EXCEPT
              !.active = <<>>,
              !.sections =
                [l \in 1..MaxLevel |->
                   IF carry[l] = NoPage THEN @[l]
                   ELSE IF Len(@[l]) + 1 = IndexLimit THEN <<>>
                   ELSE Append(@[l], carry[l])]]

-----------------------------------------------------------------------------
(* What a head reaches.                                                     *)

\* headRoots: the open sections from the top, then the active segments.
Roots(h) == FlattenSeq(Reverse(h.sections)) \o h.active

\* Reader.ListPagePaths: the reachable pages of each level.
PagesOf(h) ==
  LET below[d \in 0..MaxLevel] ==       \* pages of level MaxLevel - d
        IF d = 0 THEN {}
        ELSE UNION {ToSet(p.entries) : p \in below[d - 1]}
             \cup {p \in ToSet(Roots(h)) : p.kind = "page" /\ p.level = MaxLevel - d}
  IN  UNION {below[d] : d \in 0..MaxLevel}

\* Reader.ListSegments.
SegmentsOf(h) ==
  ToSet(h.active) \cup UNION {ToSet(p.entries) : p \in {q \in PagesOf(h) : q.level = 0}}

Reachable(h) == PagesOf(h) \cup SegmentsOf(h)

\* MaxPageLevel: the highest level among the head's own references.
MaxPageLevel(h) ==
  LET levels == {l \in 1..MaxLevel : h.sections[l] # <<>>}
  IN  IF levels = {} THEN 0 ELSE CHOOSE l \in {m - 1 : m \in levels} :
                                   \A m \in levels : m - 1 <= l

\* The entry that contains lsn, if there is one.
Containing(entries, lsn) ==
  LET from == From(entries, lsn)
  IN  IF from = <<>> \/ from[1].lo > lsn THEN NoPage ELSE from[1]

\* Reader.FindSegment and findInPage: from the roots down, as a set.
FindSegmentTree(h, lsn) ==
  LET path[d \in 0..MaxLevel] ==
        IF d = 0 THEN Containing(Roots(h), lsn)
        ELSE IF path[d - 1].kind = "page" THEN Containing(path[d - 1].entries, lsn)
        ELSE path[d - 1]
  IN  IF lsn < h.oldest \/ lsn >= h.next THEN {} ELSE {path[MaxLevel]} \ {NoPage}

-----------------------------------------------------------------------------
(* ApplyRetention.                                                          *)

\* trimPageRef: page p without the part before lsn.  The pages on its left
\* edge that straddle lsn are sealed again, from the leaf up.
Trim(p, lsn, gen) ==
  LET edge[d \in 0..p.level] ==         \* the page of level p.level - d that holds lsn
        IF d = 0 THEN p ELSE From(edge[d - 1].entries, lsn)[1]
      trimmed[l \in 0..p.level] ==
        LET q == edge[p.level - l]
            kept == From(q.entries, lsn)
        IN  IF q.lo >= lsn THEN q
            ELSE IF l = 0 THEN Seal(0, kept, gen)
            ELSE Seal(l, <<trimmed[l - 1]>> \o Tail(kept), gen)
  IN  trimmed[p.level]

\* trimHead for one section.
TrimSection(entries, lsn, gen) ==
  LET kept == From(entries, lsn)
  IN  IF kept = <<>> \/ kept[1].lo >= lsn THEN kept
      ELSE <<Trim(kept[1], lsn, gen)>> \o Tail(kept)

CanRetainTree(h, before, ver) == ver > h.retVer /\ before >= h.retLSN

ApplyRetentionTree(h, before, ver) ==
  LET target == IF before > h.next THEN h.next ELSE before
      next == [h EXCEPT !.gen = @ + 1, !.retLSN = target, !.retVer = ver]
      lsn == IF target >= h.next THEN h.next
             ELSE (CHOOSE s \in FindSegmentTree(h, target) : TRUE).lo
  IN  IF target <= h.oldest \/ lsn <= h.oldest THEN next
      ELSE [next EXCEPT !.oldest = lsn,
                        !.active = From(@, lsn),
                        !.sections = [l \in 1..MaxLevel |-> TrimSection(@[l], lsn, next.gen)]]
=============================================================================
