---------------------------- MODULE CatalogHead ----------------------------
(***************************************************************************)
(* The partition head: the one mutable object of the catalog, and the four  *)
(* pure functions that build a new head from an old one (catengine/tree.go  *)
(* and catengine/retention.go).                                             *)
(*                                                                         *)
(* The page tree below the head is abstracted to the set of segments it     *)
(* reaches: a segment is named by its first LSN, so the set is ordered.     *)
(***************************************************************************)
EXTENDS Naturals, FiniteSets

CONSTANTS
  Writers,        \* writer incarnations, one 16-byte writer ID each
  NoWriter,       \* the all-zero writer ID of a head no writer has fenced
  MaxLSN,         \* bound: the largest record LSN (MAX_RECORD_LSN)
  MaxEpoch,       \* largest writer epoch: a takeover beyond it is refused
  MaxGeneration,  \* largest head generation: a mutation beyond it is refused
  Requests        \* retention requests: records [ver, before]

ASSUME HeadAssumption ==
  /\ NoWriter \notin Writers
  /\ MaxLSN \in Nat
  /\ MaxEpoch \in Nat
  /\ MaxGeneration \in Nat
  /\ Requests \subseteq [ver : Nat \ {0}, before : Nat]

\* pmeta.SegmentRef.  Two different objects uploaded for the same base LSN
\* differ in another field of the record (here: their last LSN).
Segment ==
  {s \in [base : 0..MaxLSN, last : 0..MaxLSN, epoch : 1..MaxEpoch, tag : Writers] :
     s.base <= s.last}

NoSegment == [base |-> 0, last |-> 0, epoch |-> 0, tag |-> NoWriter]

\* catformat.Head: fence, commit counter, LSN range, applied retention, the
\* reachable segments and the inline tip.
Heads ==
  [epoch : Nat, writer : Writers \cup {NoWriter}, gen : Nat,
   next : Nat, oldest : Nat, retLSN : Nat, retVer : Nat,
   log : SUBSET Segment, last : Segment \cup {NoSegment}]

NewHead(n) ==
  [epoch |-> 0, writer |-> NoWriter, gen |-> 0, next |-> n, oldest |-> n,
   retLSN |-> 0, retVer |-> 0, log |-> {}, last |-> NoSegment]

Covers(s, lsn) == s.base <= lsn /\ lsn <= s.last

\* Reader.FindSegment: the reachable segment that holds lsn, as a set that is
\* empty when lsn is outside [OldestLSN, NextLSN).
FindSegment(h, lsn) ==
  {s \in h.log : Covers(s, lsn) /\ h.oldest <= lsn /\ lsn < h.next}

\* Definitions named ...Mutant are deliberate mistakes: each breaks a property,
\* which shows that the property watches the definition that follows.
CanTakeover(h) == h.epoch < MaxEpoch /\ h.gen < MaxGeneration

Takeover(h, w) ==
  [h EXCEPT !.epoch = @ + 1, !.gen = @ + 1, !.writer = w]

\* The checks of Append.  Timestamps are not modelled: a segment out of
\* timestamp order is one of the failures AppendBody allows at this point.
CanAppend(h, s) ==
  /\ h.gen < MaxGeneration
  /\ h.epoch # 0
  /\ s.epoch = h.epoch
  /\ s.tag = h.writer
  /\ s.base = h.next

AppendSegMutant(h, s) ==
  [h EXCEPT !.gen = @ + 1, !.next = s.last + 1, !.last = s, !.log = @ \cup {h.last}]

AppendSeg(h, s) ==
  [h EXCEPT !.gen = @ + 1, !.next = s.last + 1, !.last = s,
            !.oldest = IF h.last = NoSegment THEN s.base ELSE @,
            !.log = @ \cup {s}]

RetentionTarget(h, r) == IF r.before > h.next THEN h.next ELSE r.before

\* The checks of ApplyRetention; a request equal to the applied one is the
\* no-op the session tests for before it gets here.
CanRetain(h, r) ==
  LET target == RetentionTarget(h, r)
  IN  /\ r.ver > h.retVer
      /\ r.before >= h.retLSN
      /\ h.gen < MaxGeneration
      /\ h.oldest < target /\ target < h.next => FindSegment(h, target) # {}

\* Retention never cuts a segment in two: the floor is the base of the
\* segment that holds the target.
RetentionFloor(h, r) ==
  LET target == RetentionTarget(h, r)
  IN  IF target <= h.oldest THEN h.oldest
      ELSE IF target >= h.next THEN h.next
      ELSE (CHOOSE s \in FindSegment(h, target) : TRUE).base

ApplyRetention(h, r) ==
  LET floor == RetentionFloor(h, r)
  IN  [h EXCEPT !.gen = @ + 1, !.retLSN = RetentionTarget(h, r),
                !.retVer = r.ver, !.oldest = floor,
                !.log = {s \in h.log : s.base >= floor}]

\* retentionApplied in engine.go: the observed head is at or past mutation m.
RetentionAppliedMutant(observed, m) == observed.oldest >= m.oldest

RetentionApplied(observed, m) ==
  observed.retVer >= m.retVer /\ observed.oldest >= m.oldest

\* observeFence: the head belongs to another writer incarnation.
Fenced(h, w, epoch) == h.epoch # epoch \/ h.writer # w
=============================================================================
