---------------------------- MODULE ReaderProofs ----------------------------
(***************************************************************************)
(* Proofs about the readers of module Reader, for every set of writers,     *)
(* clients and watches and every workload.                                  *)
(*                                                                         *)
(* The in-process catalog they query implements CatalogLog                  *)
(* (MemoryImplementsLog), and the shared subscription counts the watches    *)
(* that hold it (SubscriptionsStayExact).                                   *)
(*                                                                         *)
(* Every batch is exact, every refusal is true and no cursor skips a record *)
(* (BatchesStayExact, AnswersStayTrue, CursorsSkipNothing).  These follow   *)
(* from ReadersInv, which adds to CatalogInv and CoordInv, the invariants   *)
(* of the catalog and of the refresh coordinator,                           *)
(*   ClientsInv  what a call knows in each of its phases: the head it reads *)
(*               under is one the catalog had, the records it has are those *)
(*               from its start on, the segment it is at holds the next one *)
(*               unless retention has passed its start; and that a cursor   *)
(*               and its checkpoint have seen all below their positions;    *)
(*   FlightsInv  an object is reported missing only once it was deleted, a  *)
(*               flight cancelled for want of waiters has none, and a       *)
(*               client waits for a flight of the segment it is at;         *)
(*   LeftInv     the LSNs and freshness levels a workload offers.           *)
(***************************************************************************)
EXTENDS Reader, DataTheorems

(* A value that may be absent.                                             *)
Opt(S) == {<<>>} \cup {<<x>> : x \in S}

(* What is absent has no element, what is present has one.                 *)
LEMMA OptIs ==
  ASSUME NEW S, NEW o \in Opt(S)
  PROVE  o = <<>> \/ (o # <<>> /\ o[1] \in S /\ o = <<o[1]>>)
BY DEF Opt

(* The smallest of a set of naturals.                                      *)
LEMMA MinIs ==
  ASSUME NEW S \in SUBSET Nat, S # {}
  PROVE  Min(S) \in S /\ \A y \in S : Min(S) <= y
<1>1. \E x \in S : \A y \in S : x <= y
  BY SmallestNat
<1> QED
  BY <1>1 DEF Min

(* The smaller of two numbers.                                             *)
LEMMA MinOfTwo ==
  ASSUME NEW a \in Nat, NEW b \in Nat
  PROVE  Min({a, b}) = IF a <= b THEN a ELSE b
<1>1. Min({a, b}) \in {a, b} /\ \A y \in {a, b} : Min({a, b}) <= y
  BY MinIs
<1> HIDE DEF Min
<1> QED
  BY <1>1

----------------------------------------------------------------------------
(* The retained segments of the in-process catalog.                        *)

HeadRec ==
  [next : Nat, oldest : Nat, retLSN : Nat, retVer : Nat, epoch : Nat,
   last : Opt(Segment), count : Nat, reachable : Nat]

CatalogType ==
  /\ part \in [state : HeadRec, writer : Writers \cup {NoWriter}, version : Nat,
               segments : Seq(Segment)]
  /\ request \in Opt(Requests)
  /\ session \in [Writers -> [epoch : Nat, state : HeadRec]]
  /\ committed \subseteq Segment

(* Segments in LSN order without a gap.                                    *)
Chain(g) ==
  /\ \A i, j \in 1..Len(g) : i < j => g[i].last < g[j].base
  /\ \A i \in 1..Len(g) - 1 : g[i + 1].base = g[i].last + 1

Elements(g) == {g[i] : i \in 1..Len(g)}

(* g holds exactly the LSNs from `oldest` up to `next`.                    *)
Spans(g, oldest, next) ==
  /\ Chain(g)
  /\ Len(g) = 0 => oldest = next
  /\ Len(g) > 0 => g[1].base = oldest /\ g[Len(g)].last + 1 = next

(* The retained segments are the committed ones above the floor, which cuts *)
(* none in two.                                                            *)
LogInv ==
  LET h == part.state
  IN  /\ Spans(part.segments, h.oldest, h.next)
      /\ Elements(part.segments) = {s \in committed : s.base >= h.oldest}
      /\ \A s \in committed : (s.last < h.oldest \/ s.base >= h.oldest) /\ s.last < h.next
      /\ h.last = <<>> => committed = {}
      /\ part.version = 0 => h = ZeroHead
      /\ h.retLSN <= h.next /\ h.oldest <= h.next /\ h.next <= MaxLSN + 1

CatalogInv == CatalogType /\ LogInv

(* firstSegmentAtOrAfter finds the first segment that ends at or after the *)
(* LSN.                                                                    *)
LEMMA FirstSegment ==
  ASSUME NEW g \in Seq(Segment), NEW lsn \in Nat
  PROVE  LET i == firstSegmentAtOrAfter(g, lsn)
         IN  /\ i \in 1..Len(g) + 1
             /\ i <= Len(g) => g[i].last >= lsn
             /\ \A j \in 1..i - 1 : g[j].last < lsn
<1> DEFINE S == {i \in 1..Len(g) + 1 : i = Len(g) + 1 \/ g[i].last >= lsn}
           m == Min(S)
<1>1. S \subseteq Nat /\ Len(g) + 1 \in S
  OBVIOUS
<1>2. m \in S /\ \A y \in S : m <= y
  BY <1>1, MinIs
<1>3. firstSegmentAtOrAfter(g, lsn) = m
  BY DEF firstSegmentAtOrAfter, FirstIndex
<1> HIDE DEF m
<1>4. m \in 1..Len(g) + 1 /\ (m <= Len(g) => g[m].last >= lsn)
  BY <1>2
<1>5. ASSUME NEW j \in 1..m - 1 PROVE g[j].last < lsn
  <2>1. j \in 1..Len(g) /\ j < m
    BY <1>4, <1>5
  <2>2. g[j] \in Segment
    BY <2>1
  <2>3. g[j].last \in Nat
    BY <2>2, HeadAssumption DEF Segment
  <2>4. j \notin S
    BY <1>2, <2>1
  <2> QED
    BY <2>1, <2>3, <2>4
<1> QED
  BY <1>3, <1>4, <1>5

(* A segment is not empty.                                                 *)
LEMMA SegmentIs ==
  ASSUME NEW s \in Segment
  PROVE  /\ s.base \in Nat /\ s.last \in Nat /\ s.base <= s.last /\ s.last <= MaxLSN
         /\ s.epoch \in Nat
BY HeadAssumption DEF Segment

(* Appending at the end keeps the segments contiguous.                     *)
LEMMA SpansAppend ==
  ASSUME NEW g \in Seq(Segment), NEW o \in Nat, NEW n \in Nat, NEW s \in Segment,
         Spans(g, o, n), s.base = n
  PROVE  Spans(Append(g, s), o, s.last + 1)
<1> DEFINE a == Append(g, s)
<1>1. /\ Len(a) = Len(g) + 1 /\ a[Len(g) + 1] = s
      /\ \A i \in 1..Len(g) : a[i] = g[i] /\ a[i] \in Segment
  OBVIOUS
<1> HIDE DEF a
<1>2. Len(g) \in Nat
  OBVIOUS
<1>3. \A i \in 1..Len(g) : g[i].base \in Nat /\ g[i].last \in Nat /\ g[i].base <= g[i].last
  BY <1>1, SegmentIs
<1>4. \A i \in 1..Len(g) : g[i].last < n
  <2> TAKE i \in 1..Len(g)
  <2>1. g[Len(g)].last + 1 = n /\ Len(g) \in 1..Len(g)
    BY <1>2 DEF Spans
  <2>2. CASE i = Len(g)
    BY <2>1, <2>2, <1>3
  <2>3. CASE i # Len(g)
    <3>1. g[i].last < g[Len(g)].base
      BY <2>1, <2>3, <1>2 DEF Spans, Chain
    <3> QED
      BY <3>1, <2>1, <1>3
  <2> QED
    BY <2>2, <2>3
<1>5. \A i, j \in 1..Len(a) : i < j => a[i].last < a[j].base
  <2> TAKE i, j \in 1..Len(a)
  <2> HAVE i < j
  <2>1. i \in 1..Len(g)
    BY <1>1, <1>2
  <2>2. CASE j = Len(g) + 1
    BY <1>1, <1>4, <2>1, <2>2
  <2>3. CASE j # Len(g) + 1
    <3>1. j \in 1..Len(g)
      BY <2>3, <1>1, <1>2
    <3> QED
      BY <3>1, <2>1, <1>1 DEF Spans, Chain
  <2> QED
    BY <2>2, <2>3
<1>6. \A i \in 1..Len(a) - 1 : a[i + 1].base = a[i].last + 1
  <2> TAKE i \in 1..Len(a) - 1
  <2>1. i \in 1..Len(g)
    BY <1>1, <1>2
  <2>2. CASE i = Len(g)
    BY <1>1, <2>1, <2>2 DEF Spans
  <2>3. CASE i # Len(g)
    <3>1. i \in 1..Len(g) - 1 /\ i + 1 \in 1..Len(g)
      BY <2>1, <2>3
    <3> QED
      BY <3>1, <2>1, <1>1 DEF Spans, Chain
  <2> QED
    BY <2>2, <2>3
<1>7. a[1].base = o
  <2>1. CASE Len(g) = 0
    BY <2>1, <1>1 DEF Spans
  <2>2. CASE Len(g) # 0
    BY <2>2, <1>1, <1>2 DEF Spans
  <2> QED
    BY <2>1, <2>2
<1>8. a[Len(a)].last + 1 = s.last + 1
  BY <1>1
<1>9. Spans(a, o, s.last + 1)
  BY <1>1, <1>2, <1>5, <1>6, <1>7, <1>8 DEF Spans, Chain
<1> QED
  BY <1>9 DEF a

(* What a suffix of the segments spans.                                    *)
LEMMA SpansSuffix ==
  ASSUME NEW g \in Seq(Segment), NEW o \in Nat, NEW n \in Nat, NEW k \in 1..Len(g) + 1,
         Spans(g, o, n)
  PROVE  LET t == SubSeq(g, k, Len(g))
         IN  /\ t \in Seq(Segment)
             /\ Len(t) = Len(g) - k + 1 /\ \A i \in 1..Len(t) : t[i] = g[k + i - 1]
             /\ Spans(t, IF k <= Len(g) THEN g[k].base ELSE n, n)
<1> DEFINE t == SubSeq(g, k, Len(g))
<1>0. Len(g) \in Nat
  OBVIOUS
<1>1. t \in Seq(Segment) /\ Len(t) = Len(g) - k + 1 /\ \A i \in 1..Len(t) : t[i] = g[k + i - 1]
  BY <1>0
<1> HIDE DEF t
<1>2. \A i \in 1..Len(t) : k + i - 1 \in 1..Len(g)
  BY <1>0, <1>1
<1>3. \A i, j \in 1..Len(t) : i < j => t[i].last < t[j].base
  <2> TAKE i, j \in 1..Len(t)
  <2> HAVE i < j
  <2>1. k + i - 1 < k + j - 1 /\ k + i - 1 \in 1..Len(g) /\ k + j - 1 \in 1..Len(g)
    BY <1>0, <1>1, <1>2
  <2>2. g[k + i - 1].last < g[k + j - 1].base
    BY <2>1 DEF Spans, Chain
  <2> QED
    BY <1>1, <2>2
<1>4. \A i \in 1..Len(t) - 1 : t[i + 1].base = t[i].last + 1
  <2> TAKE i \in 1..Len(t) - 1
  <2>1. /\ k + i - 1 \in 1..Len(g) - 1 /\ i \in 1..Len(t) /\ i + 1 \in 1..Len(t)
        /\ (k + i - 1) + 1 = k + (i + 1) - 1
    BY <1>0, <1>1
  <2>2. g[(k + i - 1) + 1].base = g[k + i - 1].last + 1
    BY <2>1 DEF Spans, Chain
  <2>3. t[i] = g[k + i - 1] /\ t[i + 1] = g[k + (i + 1) - 1]
    BY <2>1, <1>1
  <2> QED
    BY <2>1, <2>2, <2>3
<1>5. CASE k <= Len(g)
  <2>1. Len(t) > 0 /\ 1 \in 1..Len(t) /\ Len(t) \in 1..Len(t) /\ k + 1 - 1 = k /\ k + Len(t) - 1 = Len(g)
    BY <1>0, <1>1, <1>5
  <2>2. t[1] = g[k] /\ t[Len(t)] = g[Len(g)]
    BY <2>1, <1>1
  <2>3. g[Len(g)].last + 1 = n
    BY <1>0, <1>5 DEF Spans
  <2>4. Spans(t, g[k].base, n)
    BY <1>3, <1>4, <2>1, <2>2, <2>3 DEF Spans, Chain
  <2> QED
    BY <1>1, <1>5, <2>4 DEF t
<1>6. CASE ~(k <= Len(g))
  <2>1. Len(t) = 0
    BY <1>0, <1>1, <1>6
  <2> QED
    BY <1>1, <1>3, <1>4, <1>6, <2>1 DEF Spans, Chain, t
<1> QED
  BY <1>5, <1>6

(* The segments hold every LSN of their span, and the first that ends at or *)
(* after one of these holds it.                                            *)
LEMMA SpansCovers ==
  ASSUME NEW g \in Seq(Segment), NEW o \in Nat, NEW n \in Nat, NEW lsn \in Nat,
         Spans(g, o, n), lsn < n
  PROVE  LET i == firstSegmentAtOrAfter(g, lsn)
         IN  \/ Len(g) = 0
             \/ i \in 1..Len(g) /\ lsn <= g[i].last /\ (lsn >= o => g[i].base <= lsn)
                  /\ (lsn < o => i = 1)
<1> DEFINE i == firstSegmentAtOrAfter(g, lsn)
<1>1. /\ i \in 1..Len(g) + 1
      /\ i <= Len(g) => g[i].last >= lsn
      /\ \A j \in 1..i - 1 : g[j].last < lsn
  BY FirstSegment
<1> HIDE DEF i
<1>2. \A j \in 1..Len(g) : g[j].base \in Nat /\ g[j].last \in Nat /\ g[j].base <= g[j].last
  BY SegmentIs
<1>3. Len(g) \in Nat
  OBVIOUS
<1> SUFFICES ASSUME Len(g) # 0
             PROVE  i \in 1..Len(g) /\ lsn <= g[i].last /\ (lsn >= o => g[i].base <= lsn)
                      /\ (lsn < o => i = 1)
  BY DEF i
<1>4. g[Len(g)].last + 1 = n /\ g[1].base = o /\ Len(g) \in 1..Len(g) /\ 1 \in 1..Len(g)
  BY <1>3 DEF Spans
<1>5. i \in 1..Len(g)
  BY <1>1, <1>2, <1>3, <1>4
<1>6. lsn <= g[i].last
  BY <1>1, <1>2, <1>5
<1>7. CASE i = 1
  BY <1>4, <1>5, <1>6, <1>7
<1>8. CASE i # 1
  <2>1. i - 1 \in 1..Len(g) - 1 /\ i - 1 \in 1..i - 1 /\ (i - 1) + 1 = i /\ i - 1 \in 1..Len(g)
    BY <1>5, <1>8
  <2>2. g[i].base = g[i - 1].last + 1 /\ g[i - 1].last < lsn
    BY <1>1, <2>1 DEF Spans, Chain
  <2>3. g[i].base <= lsn
    BY <1>2, <2>1, <2>2
  <2>4. o <= g[i - 1].last
    <3>1. CASE i - 1 = 1
      BY <3>1, <1>2, <1>4
    <3>2. CASE i - 1 # 1
      <4>1. g[1].last < g[i - 1].base
        BY <3>2, <1>4, <2>1 DEF Spans, Chain
      <4> QED
        BY <4>1, <1>2, <1>4, <2>1, SMTT(30)
    <3> QED
      BY <3>1, <3>2
  <2> QED
    BY <1>2, <1>5, <1>6, <2>1, <2>2, <2>3, <2>4
<1> QED
  BY <1>7, <1>8

----------------------------------------------------------------------------
(* The steps of the in-process catalog.                                    *)

PartType ==
  [state : HeadRec, writer : Writers \cup {NoWriter}, version : Nat, segments : Seq(Segment)]

(* Replacing fields of the partition.                                      *)
LEMMA PartUpdate ==
  ASSUME NEW H, NEW W, NEW S, NEW p \in [state : H, writer : W, version : Nat, segments : S],
         NEW h \in H, NEW w \in W, NEW g \in S, NEW v \in Nat, NEW q,
         \/ q = [p EXCEPT !.state = h, !.segments = g, !.version = v] /\ w = p.writer
         \/ q = [p EXCEPT !.state = h, !.writer = w, !.version = v] /\ g = p.segments
         \/ q = [p EXCEPT !.state = h, !.version = v, !.segments = g] /\ w = p.writer
         \/ q = [p EXCEPT !.state = h, !.version = v] /\ w = p.writer /\ g = p.segments
  PROVE  /\ q \in [state : H, writer : W, version : Nat, segments : S]
         /\ q.state = h /\ q.segments = g /\ q.version = v /\ q.writer = w
OBVIOUS

(* A segment the floor has not passed is one of the retained.              *)
LEMMA RetainedOne ==
  ASSUME CatalogInv, NEW s \in committed, s.base >= part.state.oldest
  PROVE  \E i \in 1..Len(part.segments) : part.segments[i] = s
BY DEF CatalogInv, LogInv, Elements

(* applyPendingRetention moves the floor to a segment boundary, below no    *)
(* segment that ends before the target and above none that does not.       *)
LEMMA RetainedIs ==
  ASSUME CatalogInv, NEW r \in Requests, r.before >= part.state.retLSN
  PROVE  LET p == Retained(part, r)
             target == Min({r.before, part.state.next})
             floor == p.state.oldest
         IN  /\ p \in PartType /\ p.writer = part.writer /\ p.version = part.version + 1
             /\ p.state.next = part.state.next /\ p.state.last = part.state.last
             /\ p.state.epoch = part.state.epoch
             /\ p.state.retLSN = target /\ p.state.retVer = r.ver
             /\ target \in Nat /\ target <= part.state.next /\ target >= part.state.retLSN
             /\ part.state.oldest <= floor /\ floor <= part.state.next
             /\ Spans(p.segments, floor, part.state.next)
             /\ Elements(p.segments) = {s \in committed : s.base >= floor}
             /\ \A s \in committed :
                  /\ s.last < floor \/ s.base >= floor
                  /\ s.base >= part.state.oldest => (s.base >= floor <=> s.last >= target)
<1> DEFINE g == part.segments
           h == part.state
           o == h.oldest
           n == h.next
           target == Min({r.before, n})
           start == firstSegmentAtOrAfter(g, target)
           trims == target > o /\ g # <<>>
           kept == IF trims THEN SubSeq(g, start, Len(g)) ELSE g
           floor == IF ~trims THEN o ELSE IF kept = <<>> THEN n ELSE kept[1].base
           p == Retained(part, r)
<1>1. /\ part \in PartType /\ h \in HeadRec /\ g \in Seq(Segment) /\ o \in Nat /\ n \in Nat
      /\ Len(g) \in Nat /\ h.retLSN \in Nat
  <2>1. part \in PartType
    BY DEF CatalogInv, CatalogType, PartType
  <2>2. h \in HeadRec /\ g \in Seq(Segment)
    BY <2>1 DEF PartType
  <2>3. o \in Nat /\ n \in Nat /\ h.retLSN \in Nat
    BY <2>2 DEF HeadRec
  <2>4. Len(g) \in Nat
    BY <2>2
  <2> QED
    BY <2>1, <2>2, <2>3, <2>4
<1>2. r.before \in Nat /\ r.ver \in Nat
  BY HeadAssumption
<1>3. target \in Nat /\ target <= n /\ target >= h.retLSN
  <2>1. target = IF r.before <= n THEN r.before ELSE n
    BY <1>1, <1>2, MinOfTwo
  <2> HIDE DEF target
  <2> QED
    BY <1>1, <1>2, <2>1 DEF CatalogInv, LogInv
<1>4. p = [part EXCEPT !.state = [h EXCEPT !.oldest = floor, !.retLSN = target, !.retVer = r.ver,
                                          !.reachable = Len(kept)],
                       !.segments = kept, !.version = part.version + 1]
  <2> HIDE DEF h
  <2> QED
    BY <1>1, ZenonT(40) DEF Retained, PartType, HeadRec, h
<1> HIDE DEF target, p
<1>5. Spans(g, o, n) /\ o <= n /\ Elements(g) = {s \in committed : s.base >= o}
  BY DEF CatalogInv, LogInv
<1>6. /\ \A s \in committed : s \in Segment /\ (s.last < o \/ s.base >= o) /\ s.last < n
      /\ \A s \in committed : s.base \in Nat /\ s.last \in Nat /\ s.base <= s.last
  BY SegmentIs DEF CatalogInv, CatalogType, LogInv
<1>7. \A i \in 1..Len(g) : g[i] \in committed /\ g[i].base >= o
  BY <1>5 DEF Elements
<1>8. \A s \in committed : s.base >= o => \E i \in 1..Len(g) : g[i] = s
  BY RetainedOne
<1> HIDE DEF g, h, o, n, start
<1>9. /\ kept \in Seq(Segment) /\ floor \in Nat /\ o <= floor /\ floor <= n
      /\ Spans(kept, floor, n)
      /\ Elements(kept) = {s \in committed : s.base >= floor}
      /\ \A s \in committed :
           /\ s.last < floor \/ s.base >= floor
           /\ s.base >= o => (s.base >= floor <=> s.last >= target)
  <2>1. CASE ~trims
    <3>1. kept = g /\ floor = o
      BY <2>1
    <3>2. target <= o \/ Len(g) = 0
      BY <2>1, <1>1, <1>3
    <3>3. ASSUME NEW s \in committed, s.base >= o PROVE s.last >= target
      <4>1. Len(g) # 0
        BY <1>8, <3>3
      <4> QED
        BY <4>1, <3>2, <3>3, <1>1, <1>3, <1>6
    <3> HIDE DEF kept, floor
    <3>4. /\ kept \in Seq(Segment) /\ floor \in Nat /\ o <= floor /\ floor <= n
          /\ Spans(kept, floor, n) /\ Elements(kept) = {s \in committed : s.base >= floor}
      BY <3>1, <1>1, <1>5
    <3>5. \A s \in committed :
            /\ s.last < floor \/ s.base >= floor
            /\ s.base >= o => (s.base >= floor <=> s.last >= target)
      BY <3>1, <3>3, <1>6
    <3> QED
      BY <3>4, <3>5
  <2>2. CASE trims
    <3>1. /\ start \in 1..Len(g) + 1
          /\ start <= Len(g) => g[start].last >= target
          /\ \A j \in 1..start - 1 : g[j].last < target
      BY <1>1, <1>3, FirstSegment DEF start
    <3>2. /\ kept \in Seq(Segment)
          /\ Len(kept) = Len(g) - start + 1 /\ \A i \in 1..Len(kept) : kept[i] = g[start + i - 1]
          /\ Spans(kept, IF start <= Len(g) THEN g[start].base ELSE n, n)
      BY <2>2, <3>1, <1>1, <1>5, SpansSuffix
    <3>3. floor = IF start <= Len(g) THEN g[start].base ELSE n
      <4>1. CASE start <= Len(g)
        <5>1. Len(kept) > 0 /\ 1 \in 1..Len(kept) /\ start + 1 - 1 = start
          BY <4>1, <3>1, <3>2, <1>1
        <5>2. kept # <<>> /\ kept[1] = g[start]
          BY <5>1, <3>2
        <5> QED
          BY <4>1, <5>2, <2>2
      <4>2. CASE ~(start <= Len(g))
        <5>1. Len(kept) = 0
          BY <4>2, <3>1, <3>2, <1>1
        <5>2. kept = <<>>
          BY <5>1, <3>2, EmptySeq
        <5> QED
          BY <4>2, <5>2, <2>2
      <4> QED
        BY <4>1, <4>2
    <3> HIDE DEF kept, floor, trims
    <3>4. floor \in Nat /\ o <= floor /\ floor <= n
      <4>1. CASE start <= Len(g)
        BY <4>1, <3>1, <3>3, <1>1, <1>6, <1>7
      <4>2. CASE ~(start <= Len(g))
        BY <4>2, <3>3, <1>1, <1>5
      <4> QED
        BY <4>1, <4>2
    <3>5. ASSUME NEW i \in 1..Len(g)
          PROVE  /\ i < start => g[i].last < target /\ g[i].last < floor /\ ~(g[i].base >= floor)
                 /\ i >= start => g[i].last >= target /\ g[i].base >= floor
      <4>0. g[i].base \in Nat /\ g[i].last \in Nat /\ g[i].base <= g[i].last /\ g[i].last < n
        BY <1>6, <1>7
      <4>1. CASE i < start
        <5>1. i \in 1..start - 1
          BY <4>1, <3>1
        <5>2. g[i].last < target
          BY <5>1, <3>1
        <5>3. g[i].last < floor
          <6>1. CASE start <= Len(g)
            <7>1. start \in 1..Len(g)
              BY <6>1, <3>1
            <7>2. g[i].last < g[start].base
              BY <7>1, <4>1, <1>5 DEF Spans, Chain
            <7> QED
              BY <7>2, <6>1, <3>3
          <6>2. CASE ~(start <= Len(g))
            BY <6>2, <3>3, <4>0
          <6> QED
            BY <6>1, <6>2
        <5> QED
          BY <4>0, <4>1, <5>2, <5>3, <3>4, <3>1
      <4>2. CASE i >= start
        <5>1. start \in 1..Len(g)
          BY <4>2, <3>1, <1>1
        <5>2. floor = g[start].base /\ g[start].last >= target
          BY <5>1, <3>1, <3>3
        <5>3. g[start].base \in Nat /\ g[start].last \in Nat /\ g[start].base <= g[start].last
          BY <5>1, <1>6, <1>7
        <5>4. CASE i = start
          BY <5>2, <5>3, <5>4, <4>2
        <5>5. CASE i # start
          <6>1. g[start].last < g[i].base
            BY <5>1, <5>5, <4>2, <1>5 DEF Spans, Chain
          <6> QED
            BY <6>1, <5>2, <5>3, <4>0, <4>2, <5>1, <1>3
        <5> QED
          BY <5>4, <5>5
      <4> QED
        BY <4>1, <4>2, <3>1
    <3>6. ASSUME NEW s \in committed
          PROVE  /\ s.last < floor \/ s.base >= floor
                 /\ s.base >= o => (s.base >= floor <=> s.last >= target)
                 /\ s.base >= floor => \E i \in 1..Len(g) : g[i] = s /\ i >= start
      <4>1. CASE s.base >= o
        <5>1. PICK i \in 1..Len(g) : g[i] = s
          BY <4>1, <1>8
        <5>2. i < start \/ i >= start
          BY <3>1
        <5> QED
          BY <5>1, <5>2, <3>5, <3>4, <1>3, <1>6
      <4>2. CASE ~(s.base >= o)
        BY <4>2, <1>1, <1>6, <3>4
      <4> QED
        BY <4>1, <4>2
    <3>7. Elements(kept) = {s \in committed : s.base >= floor}
      <4>1. ASSUME NEW i \in 1..Len(kept) PROVE kept[i] \in committed /\ kept[i].base >= floor
        <5>1. start + i - 1 \in 1..Len(g) /\ start + i - 1 >= start
          BY <3>1, <3>2, <1>1, SMTT(30)
        <5> QED
          BY <5>1, <3>2, <3>5, <1>7
      <4>2. ASSUME NEW s \in committed, s.base >= floor PROVE \E i \in 1..Len(kept) : kept[i] = s
        <5>1. PICK i \in 1..Len(g) : g[i] = s /\ i >= start
          BY <4>2, <3>6
        <5>2. i - start + 1 \in 1..Len(kept) /\ start + (i - start + 1) - 1 = i
          BY <5>1, <3>1, <3>2, <1>1
        <5>3. kept[i - start + 1] = s
          BY <5>1, <5>2, <3>2
        <5> QED
          BY <5>2, <5>3
      <4> QED
        BY <4>1, <4>2 DEF Elements
    <3> QED
      BY <3>2, <3>3, <3>4, <3>6, <3>7
  <2> QED
    BY <2>1, <2>2
<1> HIDE DEF kept, floor
<1>10. /\ p \in PartType /\ p.writer = part.writer /\ p.version = part.version + 1
       /\ p.state.next = n /\ p.state.last = h.last /\ p.state.epoch = h.epoch
       /\ p.state.retLSN = target /\ p.state.retVer = r.ver /\ p.state.oldest = floor
       /\ p.segments = kept
  <2>1. Len(kept) \in Nat
    BY <1>9
  <2> DEFINE st == [h EXCEPT !.oldest = floor, !.retLSN = target, !.retVer = r.ver,
                             !.reachable = Len(kept)]
  <2>2. /\ st \in HeadRec /\ st.next = h.next /\ st.last = h.last /\ st.epoch = h.epoch
        /\ st.retLSN = target /\ st.retVer = r.ver /\ st.oldest = floor
    BY <1>1, <1>2, <1>3, <1>9, <2>1 DEF HeadRec
  <2> HIDE DEF st
  <2>3. p = [part EXCEPT !.state = st, !.segments = kept, !.version = part.version + 1]
    BY <1>4 DEF st
  <2>4. /\ p.writer = part.writer /\ p.version = part.version + 1 /\ p.state = st
        /\ p.segments = kept /\ p \in PartType
    <3>1. part \in PartType /\ kept \in Seq(Segment) /\ st \in HeadRec
      BY <1>1, <1>9, <2>2
    <3>2. part.writer \in Writers \cup {NoWriter} /\ part.version + 1 \in Nat
      BY <3>1 DEF PartType
    <3> QED
      BY <3>1, <3>2, <2>3, PartUpdate DEF PartType
  <2> QED
    BY <2>2, <2>4 DEF n
<1> QED
  BY <1>3, <1>9, <1>10 DEF p, target, n, h, o, g

(* What readers may rely on while the catalog changes.                     *)
Grows ==
  /\ part'.state.oldest >= part.state.oldest /\ part'.state.next >= part.state.next
  /\ committed \subseteq committed'

(* The parts of the catalog's type, field by field.                        *)
LEMMA CatalogTyped ==
  ASSUME CatalogInv
  PROVE  /\ part \in PartType /\ part.state \in HeadRec /\ part.segments \in Seq(Segment)
         /\ part.writer \in Writers \cup {NoWriter} /\ part.version \in Nat
         /\ part.state.next \in Nat /\ part.state.oldest \in Nat /\ part.state.retLSN \in Nat
         /\ part.state.retVer \in Nat /\ part.state.epoch \in Nat /\ part.state.count \in Nat
         /\ part.state.reachable \in Nat /\ part.state.last \in Opt(Segment)
         /\ Len(part.segments) \in Nat
<1>1. part \in PartType
  BY DEF CatalogInv, CatalogType, PartType
<1>2. /\ part.state \in HeadRec /\ part.segments \in Seq(Segment) /\ part.version \in Nat
      /\ part.writer \in Writers \cup {NoWriter}
  BY <1>1 DEF PartType
<1>3. /\ part.state.next \in Nat /\ part.state.oldest \in Nat /\ part.state.retLSN \in Nat
      /\ part.state.retVer \in Nat /\ part.state.epoch \in Nat /\ part.state.count \in Nat
      /\ part.state.reachable \in Nat /\ part.state.last \in Opt(Segment)
  BY <1>2 DEF HeadRec
<1>4. Len(part.segments) \in Nat
  BY <1>2
<1> QED
  BY <1>1, <1>2, <1>3, <1>4

(* A session that takes over a head stays one.                             *)
LEMMA SessionTyped ==
  ASSUME CatalogInv, NEW w \in Writers, NEW h \in HeadRec, NEW e \in Nat,
         \/ session' = [session EXCEPT ![w] = [epoch |-> e, state |-> h]]
         \/ session' = [session EXCEPT ![w].state = h]
         \/ session' = session
  PROVE  session' \in [Writers -> [epoch : Nat, state : HeadRec]]
<1>1. session \in [Writers -> [epoch : Nat, state : HeadRec]]
  BY DEF CatalogInv, CatalogType
<1> QED
  BY <1>1

(* InitializePartition.                                                    *)
LEMMA CatalogCreated ==
  ASSUME CatalogInv, NEW n \in 0..MaxLSN, InitializePartition(n)
  PROVE  CatalogInv' /\ Grows /\ Log!Create(n)
<1>1. part.state = ZeroHead /\ part.version = 0
  BY DEF InitializePartition, CatalogInv, LogInv
<1>2. /\ part.state.next = 0 /\ part.state.oldest = 0 /\ part.state.epoch = 0
      /\ part.state.retLSN = 0 /\ part.state.retVer = 0 /\ part.state.last = <<>>
  BY <1>1 DEF ZeroHead
<1>3. committed = {}
  BY <1>2 DEF CatalogInv, LogInv
<1>4. Len(part.segments) = 0
  <2>1. \A i \in 1..Len(part.segments) : part.segments[i] \in committed
    BY DEF CatalogInv, LogInv, Elements
  <2> QED
    BY <2>1, <1>3, CatalogTyped
<1> DEFINE h == [part.state EXCEPT !.next = n, !.oldest = n]
<1>5. /\ h \in HeadRec /\ h.next = n /\ h.oldest = n /\ h.epoch = 0 /\ h.retLSN = 0
      /\ h.retVer = 0 /\ h.last = <<>>
  <2>1. n \in Nat
    BY HeadAssumption
  <2> QED
    BY <2>1, <1>2, CatalogTyped DEF HeadRec
<1>6. part' = [part EXCEPT !.state = h, !.version = 1]
  BY CatalogTyped DEF InitializePartition, PartType, HeadRec
<1> HIDE DEF h
<1>7. /\ part' \in PartType /\ part'.state = h /\ part'.segments = part.segments
      /\ part'.version = 1 /\ part'.writer = part.writer
  <2>1. 1 \in Nat
    OBVIOUS
  <2> QED
    BY <1>5, <1>6, <2>1, CatalogTyped, PartUpdate DEF PartType
<1>8. UNCHANGED <<request, session, committed, acked, ackedVers>>
  BY DEF InitializePartition
<1>9. CatalogType'
  BY <1>7, <1>8 DEF CatalogInv, CatalogType, PartType
<1>10. LogInv'
  <2>1. Spans(part.segments, n, n)
    BY <1>4 DEF CatalogInv, LogInv, Spans
  <2>2. Elements(part.segments) = {}
    BY <1>4 DEF Elements
  <2>3. n \in Nat /\ n <= MaxLSN + 1 /\ 0 <= n
    BY HeadAssumption
  <2> QED
    BY <1>3, <1>5, <1>7, <1>8, <2>1, <2>2, <2>3 DEF LogInv
<1>11. Grows
  <2>1. n >= 0
    OBVIOUS
  <2> QED
    BY <2>1, <1>2, <1>5, <1>7, <1>8 DEF Grows
<1>12. Log!Create(n)
  BY <1>2, <1>3, <1>5, <1>7, <1>8 DEF Log!Create
<1> QED
  BY <1>9, <1>10, <1>11, <1>12 DEF CatalogInv

(* OpenWriter.                                                             *)
LEMMA CatalogOpened ==
  ASSUME CatalogInv, NEW w \in Writers, OpenWriter(w)
  PROVE  CatalogInv' /\ Grows /\ Log!Fence(w)
<1> DEFINE h == [part.state EXCEPT !.epoch = part.state.epoch + 1]
           e == part.state.epoch + 1
<1>1. e \in Nat
  BY CatalogTyped
<1>2. h = [part.state EXCEPT !.epoch = e]
  OBVIOUS
<1>3. part' = [part EXCEPT !.state = h, !.writer = w, !.version = part.version + 1]
  BY CatalogTyped DEF OpenWriter, Acquired, PartType, HeadRec
<1>4. session' = [session EXCEPT ![w] = [epoch |-> part'.state.epoch, state |-> part'.state]]
  BY DEF OpenWriter
<1>5. UNCHANGED <<request, committed, acked, ackedVers>>
  BY DEF OpenWriter
<1> HIDE DEF h, e
<1>6. /\ h \in HeadRec /\ h.epoch = e /\ h.next = part.state.next /\ h.oldest = part.state.oldest
      /\ h.retLSN = part.state.retLSN /\ h.retVer = part.state.retVer /\ h.last = part.state.last
  BY <1>1, <1>2, CatalogTyped DEF HeadRec
<1>7. /\ part' \in PartType /\ part'.state = h /\ part'.segments = part.segments
      /\ part'.version = part.version + 1 /\ part'.writer = w
  <2>1. part.version + 1 \in Nat
    BY CatalogTyped
  <2> QED
    BY <1>3, <1>6, <2>1, CatalogTyped, PartUpdate DEF PartType
<1>8. session' \in [Writers -> [epoch : Nat, state : HeadRec]]
  BY <1>1, <1>4, <1>6, <1>7, SessionTyped
<1>9. CatalogType'
  BY <1>5, <1>7, <1>8 DEF CatalogInv, CatalogType, PartType
<1>10. LogInv'
  <2>1. part.version + 1 # 0
    BY CatalogTyped
  <2> QED
    BY <2>1, <1>5, <1>6, <1>7 DEF CatalogInv, LogInv
<1>11. Grows
  BY <1>5, <1>6, <1>7, CatalogTyped DEF Grows
<1>12. Log!Fence(w)
  BY <1>5, <1>6, <1>7 DEF Log!Fence, e
<1> QED
  BY <1>9, <1>10, <1>11, <1>12 DEF CatalogInv

(* A retried append finds its segment.                                     *)
LEMMA CatalogRetries ==
  ASSUME CatalogInv, NEW w \in Writers, NEW s \in Segment, AppendRetry(w, s)
  PROVE  CatalogInv' /\ Grows /\ s \in committed /\ Log!Acknowledge(s)
<1>1. UNCHANGED <<part, request, committed, ackedVers>> /\ acked' = acked \cup {s}
  BY DEF AppendRetry
<1>2. s \in committed
  <2> DEFINE i == firstSegmentAtOrAfter(part.segments, s.base)
  <2>1. i <= Len(part.segments) /\ part.segments[i] = s
    BY DEF AppendRetry, idempotentRetry
  <2>2. i \in 1..Len(part.segments) + 1
    BY CatalogTyped, SegmentIs, FirstSegment
  <2> HIDE DEF i
  <2>3. i \in 1..Len(part.segments)
    BY <2>1, <2>2, CatalogTyped
  <2> QED
    BY <2>1, <2>3 DEF CatalogInv, LogInv, Elements
<1>3. session' \in [Writers -> [epoch : Nat, state : HeadRec]]
  <2> DEFINE h == IF knownRetry(w, s) THEN session[w].state ELSE part.state
  <2>1. session[w].state \in HeadRec
    BY DEF CatalogInv, CatalogType
  <2>2. h \in HeadRec
    BY <2>1, CatalogTyped
  <2>3. session' = [session EXCEPT ![w].state = h]
    BY DEF AppendRetry
  <2> HIDE DEF h
  <2> QED
    BY <2>2, <2>3, SessionTyped
<1>4. CatalogType'
  BY <1>1, <1>3 DEF CatalogInv, CatalogType
<1>5. LogInv' /\ Grows
  BY <1>1, CatalogTyped DEF CatalogInv, LogInv, Grows
<1> QED
  BY <1>1, <1>2, <1>4, <1>5 DEF CatalogInv, Log!Acknowledge

(* RequestRetention.                                                       *)
LEMMA CatalogRequested ==
  ASSUME CatalogInv, NEW r \in Requests, RequestRetention(r)
  PROVE  CatalogInv' /\ Grows /\ UNCHANGED Log!logVars
<1>1. UNCHANGED <<part, session, committed, acked, ackedVers>> /\ request' = <<r>>
  BY DEF RequestRetention
<1>2. request' \in Opt(Requests)
  BY <1>1 DEF Opt
<1> QED
  BY <1>1, <1>2, CatalogTyped DEF CatalogInv, CatalogType, LogInv, Grows, Log!logVars

(* AppendSegment.                                                          *)
LEMMA CatalogAppends ==
  ASSUME CatalogInv, NEW w \in Writers, NEW s \in Segment, AppendSegment(w, s)
  PROVE  CatalogInv' /\ Grows /\ Log!Commit(s)
<1> DEFINE h == Appended(part.state, s)
           g == Append(part.segments, s)
           o == IF part.state.last = <<>> THEN s.base ELSE part.state.oldest
<1>0. s.base \in Nat /\ s.last \in Nat /\ s.base <= s.last /\ s.last <= MaxLSN
  BY SegmentIs
<1>1. s.base = part.state.next /\ s.epoch = part.state.epoch /\ s.tag = part.writer
  BY DEF AppendSegment, ValidAppend, AppendCommits
<1>2. o = part.state.oldest
  <2>1. CASE part.state.last = <<>>
    <3>1. committed = {}
      BY <2>1 DEF CatalogInv, LogInv
    <3>2. Len(part.segments) = 0
      <4>1. \A i \in 1..Len(part.segments) : part.segments[i] \in committed
        BY DEF CatalogInv, LogInv, Elements
      <4> QED
        BY <4>1, <3>1, CatalogTyped
    <3> QED
      BY <2>1, <3>2, <1>1 DEF CatalogInv, LogInv, Spans
  <2>2. CASE part.state.last # <<>>
    BY <2>2
  <2> QED
    BY <2>1, <2>2
<1>3. /\ h \in HeadRec /\ h.next = s.last + 1 /\ h.oldest = part.state.oldest
      /\ h.epoch = part.state.epoch /\ h.retLSN = part.state.retLSN
      /\ h.retVer = part.state.retVer /\ h.last = <<s>>
  <2> DEFINE n == s.last + 1
             k == part.state.count + 1
             r == part.state.reachable + 1
             l == <<s>>
  <2>1. n \in Nat /\ k \in Nat /\ r \in Nat /\ o \in Nat /\ l \in Opt(Segment)
    <3>1. n \in Nat /\ k \in Nat /\ r \in Nat
      BY <1>0, CatalogTyped, SMTT(30)
    <3>2. o \in Nat
      BY <1>2, CatalogTyped
    <3>3. l \in Opt(Segment)
      BY DEF Opt
    <3> QED
      BY <3>1, <3>2, <3>3
  <2>2. h = [part.state EXCEPT !.next = n, !.oldest = o, !.last = l, !.count = k, !.reachable = r]
    BY DEF Appended
  <2> HIDE DEF n, k, r, l, o
  <2>3. /\ h \in HeadRec /\ h.next = n /\ h.oldest = o
        /\ h.epoch = part.state.epoch /\ h.retLSN = part.state.retLSN
        /\ h.retVer = part.state.retVer /\ h.last = l
    BY <2>1, <2>2, CatalogTyped DEF HeadRec
  <2> QED
    BY <2>3, <1>2 DEF n, l
<1>4. part' = [part EXCEPT !.state = h, !.version = part.version + 1, !.segments = g]
  BY DEF AppendSegment
<1>5. /\ session' = [session EXCEPT ![w].state = part'.state]
      /\ committed' = committed \cup {s} /\ acked' = acked \cup {s}
      /\ UNCHANGED <<request, ackedVers>>
  BY DEF AppendSegment
<1>6. g \in Seq(Segment) /\ Len(g) = Len(part.segments) + 1
      /\ g[Len(part.segments) + 1] = s
      /\ \A i \in 1..Len(part.segments) : g[i] = part.segments[i]
  BY CatalogTyped
<1>7. Spans(g, part.state.oldest, s.last + 1)
  BY <1>1, CatalogTyped, SpansAppend DEF CatalogInv, LogInv
<1> HIDE DEF h, g, o
<1>8. /\ part' \in PartType /\ part'.state = h /\ part'.segments = g
      /\ part'.version = part.version + 1 /\ part'.writer = part.writer
  <2>1. part.version + 1 \in Nat
    BY CatalogTyped
  <2> QED
    BY <1>3, <1>4, <1>6, <2>1, CatalogTyped, PartUpdate DEF PartType
<1>9. CatalogType'
  <2>1. session' \in [Writers -> [epoch : Nat, state : HeadRec]]
    BY <1>3, <1>5, <1>8, SessionTyped
  <2> QED
    BY <2>1, <1>5, <1>8 DEF CatalogInv, CatalogType, PartType
<1>10. LogInv'
  <2>1. Elements(g) = Elements(part.segments) \cup {s}
    <3>1. ASSUME NEW i \in 1..Len(g) PROVE g[i] \in Elements(part.segments) \cup {s}
      <4>1. i \in 1..Len(part.segments) \/ i = Len(part.segments) + 1
        BY <1>6, CatalogTyped
      <4> QED
        BY <4>1, <1>6 DEF Elements
    <3>2. ASSUME NEW x \in Elements(part.segments) \cup {s} PROVE \E i \in 1..Len(g) : g[i] = x
      <4>1. CASE x = s
        <5>1. Len(part.segments) + 1 \in 1..Len(g)
          BY <1>6, CatalogTyped
        <5> QED
          BY <5>1, <4>1, <1>6
      <4>2. CASE x # s
        <5>1. PICK i \in 1..Len(part.segments) : part.segments[i] = x
          BY <4>2, <3>2 DEF Elements
        <5>2. i \in 1..Len(g)
          BY <1>6, CatalogTyped
        <5> QED
          BY <5>1, <5>2, <1>6
      <4> QED
        BY <4>1, <4>2
    <3> QED
      BY <3>1, <3>2 DEF Elements
  <2>2. s.base >= part.state.oldest
    BY <1>1, CatalogTyped DEF CatalogInv, LogInv
  <2>3. Elements(g) = {x \in committed' : x.base >= part.state.oldest}
    BY <2>1, <2>2, <1>5 DEF CatalogInv, LogInv
  <2>4. \A x \in committed' : (x.last < part.state.oldest \/ x.base >= part.state.oldest) /\ x.last < s.last + 1
    <3> TAKE x \in committed'
    <3>1. CASE x = s
      BY <3>1, <2>2, <1>0
    <3>2. CASE x # s
      <4>1. x \in committed /\ x \in Segment
        BY <3>2, <1>5 DEF CatalogInv, CatalogType
      <4>2. x.last < part.state.next /\ (x.last < part.state.oldest \/ x.base >= part.state.oldest)
        BY <4>1 DEF CatalogInv, LogInv
      <4> QED
        BY <4>1, <4>2, <1>0, <1>1, SegmentIs
    <3> QED
      BY <3>1, <3>2
  <2>5. part.version + 1 # 0
    BY CatalogTyped
  <2>6. /\ part.state.retLSN <= s.last + 1 /\ part.state.oldest <= s.last + 1
        /\ s.last + 1 <= MaxLSN + 1
    <3>1. part.state.retLSN <= part.state.next /\ part.state.oldest <= part.state.next
      BY DEF CatalogInv, LogInv
    <3> QED
      BY <3>1, <1>0, <1>1, CatalogTyped, HeadAssumption, SMTT(30)
  <2> QED
    BY <1>3, <1>7, <1>8, <2>3, <2>4, <2>5, <2>6 DEF LogInv
<1>11. Grows
  BY <1>0, <1>1, <1>3, <1>5, <1>8, CatalogTyped, SMTT(30) DEF Grows
<1>12. Log!Commit(s)
  BY <1>1, <1>3, <1>5, <1>8 DEF Log!Commit
<1> QED
  BY <1>9, <1>10, <1>11, <1>12 DEF CatalogInv

(* A request the head has not applied is one of the requests.              *)
LEMMA RequestIs ==
  ASSUME CatalogInv, request # <<>>
  PROVE  request[1] \in Requests /\ {r.ver : r \in {request[i] : i \in DOMAIN request}} = {request[1].ver}
<1>1. PICK r \in Requests : request = <<r>>
  BY DEF CatalogInv, CatalogType, Opt
<1> QED
  BY <1>1

(* ApplyPendingRetention.                                                  *)
LEMMA CatalogRetains ==
  ASSUME CatalogInv, NEW w \in Writers, ApplyPendingRetention(w)
  PROVE  CatalogInv' /\ Grows /\ [Log!LogNext]_(Log!logVars)
<1>1. /\ session' = [session EXCEPT ![w].state = part'.state]
      /\ ackedVers' = ackedVers \cup {r.ver : r \in {request[i] : i \in DOMAIN request}}
      /\ UNCHANGED <<request, committed, acked>>
  BY DEF ApplyPendingRetention
<1>2. CASE ~RetentionIsPending
  <2>1. part' = part
    BY <1>2 DEF ApplyPendingRetention
  <2>2. CatalogType'
    <3>1. session' \in [Writers -> [epoch : Nat, state : HeadRec]]
      BY <1>1, <2>1, CatalogTyped, SessionTyped
    <3> QED
      BY <1>1, <2>1, <3>1 DEF CatalogInv, CatalogType
  <2>3. LogInv' /\ Grows
    BY <1>1, <2>1, CatalogTyped DEF CatalogInv, LogInv, Grows
  <2>4. CASE request = <<>>
    <3>1. {r.ver : r \in {request[i] : i \in DOMAIN request}} = {}
      BY <2>4
    <3> QED
      BY <1>1, <2>1, <2>2, <2>3, <3>1 DEF Log!logVars, CatalogInv
  <2>5. CASE request # <<>>
    <3>1. request[1] \in Requests /\ ackedVers' = ackedVers \cup {request[1].ver}
      BY <2>5, <1>1, RequestIs
    <3>2. request[1].ver <= part.state.retVer
      BY <1>2, <2>5, <3>1, CatalogTyped, HeadAssumption DEF RetentionIsPending
    <3>3. Log!AcknowledgeRetention(request[1].ver)
      BY <3>1, <3>2, <1>1, <2>1 DEF Log!AcknowledgeRetention
    <3> QED
      BY <3>1, <3>3, <2>2, <2>3 DEF CatalogInv, Log!LogNext
  <2> QED
    BY <2>4, <2>5
<1>3. CASE RetentionIsPending
  <2> DEFINE r == request[1]
             p == Retained(part, r)
             target == Min({r.before, part.state.next})
             floor == p.state.oldest
  <2>1. /\ r \in Requests /\ ackedVers' = ackedVers \cup {r.ver} /\ r.ver > part.state.retVer
        /\ r.before >= part.state.retLSN /\ part' = p
    <3>1. request # <<>>
      BY <1>3 DEF RetentionIsPending
    <3> QED
      BY <3>1, <1>1, <1>3, RequestIs DEF RetentionIsPending, ApplyPendingRetention
  <2>2. /\ p \in PartType /\ p.writer = part.writer /\ p.version = part.version + 1
        /\ p.state.next = part.state.next /\ p.state.last = part.state.last
        /\ p.state.epoch = part.state.epoch
        /\ p.state.retLSN = target /\ p.state.retVer = r.ver
        /\ target \in Nat /\ target <= part.state.next /\ target >= part.state.retLSN
        /\ part.state.oldest <= floor /\ floor <= part.state.next
        /\ Spans(p.segments, floor, part.state.next)
        /\ Elements(p.segments) = {s \in committed : s.base >= floor}
        /\ \A s \in committed :
             /\ s.last < floor \/ s.base >= floor
             /\ s.base >= part.state.oldest => (s.base >= floor <=> s.last >= target)
    BY <2>1, RetainedIs
  <2> HIDE DEF r, p, target
  <2>3. p.state \in HeadRec /\ floor \in Nat
    <3>1. p.state \in HeadRec
      BY <2>2 DEF PartType
    <3> QED
      BY <3>1 DEF HeadRec
  <2>4. CatalogType'
    <3>1. session' \in [Writers -> [epoch : Nat, state : HeadRec]]
      BY <1>1, <2>1, <2>3, CatalogTyped, SessionTyped
    <3> QED
      BY <1>1, <2>1, <2>2, <3>1 DEF CatalogInv, CatalogType, PartType
  <2>5. part.state.next <= MaxLSN + 1 /\ \A s \in committed : s.last < part.state.next
    BY DEF CatalogInv, LogInv
  <2>6. LogInv'
    <3>1. part.version + 1 # 0
      BY CatalogTyped
    <3>2. part.state.last = <<>> => committed = {}
      BY DEF CatalogInv, LogInv
    <3> QED
      BY <1>1, <2>1, <2>2, <2>5, <3>1, <3>2 DEF LogInv
  <2>7. Grows
    BY <1>1, <2>1, <2>2, <2>3, CatalogTyped DEF Grows
  <2>8. Log!Retain(r.ver, target, floor)
    BY <1>1, <2>1, <2>2 DEF Log!Retain
  <2>9. target \in 0..MaxLSN + 1 /\ floor \in 0..MaxLSN + 1
    BY <2>2, <2>3, <2>5, CatalogTyped, HeadAssumption
  <2>10. Log!LogNext
    BY <2>1, <2>8, <2>9 DEF Log!LogNext
  <2> QED
    BY <2>4, <2>6, <2>7, <2>10 DEF CatalogInv
<1> QED
  BY <1>2, <1>3

(* Every step of the catalog is one of the abstract log or leaves it alone. *)
LEMMA CatalogSteps ==
  ASSUME CatalogInv, CatalogNext
  PROVE  CatalogInv' /\ Grows /\ [Log!LogNext]_(Log!logVars)
<1>1. CASE \E n \in 0..MaxLSN : InitializePartition(n)
  BY <1>1, CatalogCreated DEF Log!LogNext
<1>2. CASE \E w \in Writers : OpenWriter(w)
  BY <1>2, CatalogOpened DEF Log!LogNext
<1>3. CASE \E w \in Writers : ApplyPendingRetention(w)
  BY <1>3, CatalogRetains
<1>4. CASE \E w \in Writers, s \in Segment : AppendRetry(w, s)
  BY <1>4, CatalogRetries DEF Log!LogNext
<1>5. CASE \E w \in Writers, s \in Segment : AppendSegment(w, s)
  <2>1. PICK w \in Writers, s \in Segment : AppendSegment(w, s)
    BY <1>5
  <2>2. CatalogInv' /\ Grows /\ Log!Commit(s)
    BY <2>1, CatalogAppends
  <2>3. \E x \in Segment : Log!Commit(x)
    BY <2>2
  <2>4. Log!LogNext
    BY <2>3 DEF Log!LogNext, Log!Segment, Segment
  <2> QED
    BY <2>2, <2>4
<1>6. CASE \E r \in Requests : RequestRetention(r)
  BY <1>6, CatalogRequested
<1> QED
  BY <1>1, <1>2, <1>3, <1>4, <1>5, <1>6 DEF CatalogNext

(* Only the environment changes the catalog.                               *)
LEMMA StartKeeps ==
  ASSUME NEW c \in Clients, StartCall(c)
  PROVE  UNCHANGED <<catalogVars, coordinatorVars, gone, membership, watch, rd, cacheVars>>
BY DEF StartCall, PartitionHead, Fetch, Consume, Read, ConsumeFromTimestamp, CursorNext,
       Checkpoint, ResumeCursor, Seek, TailNext, TailerClose, OpenTail, Start

(* The steps of a call leave the catalog and the watches alone.            *)
LEMMA ClientKeeps ==
  ASSUME NEW c \in Clients, ClientSteps(c)
  PROVE  UNCHANGED <<catalogVars, left, gone, watch, rd>>
<1> USE DEF LocalStep, ClientStep, CacheStep, OthersStay
<1>1. CASE headForRead(c)
  BY <1>1 DEF headForRead
<1>2. CASE RefreshJoin(c)
  BY <1>2 DEF RefreshJoin
<1>3. CASE Refreshed(c)
  BY <1>3 DEF Refreshed
<1>4. CASE FetchHead(c)
  BY <1>4 DEF FetchHead
<1>5. CASE FetchFind(c)
  BY <1>5 DEF FetchFind
<1>6. CASE TimestampLookup(c)
  BY <1>6 DEF TimestampLookup
<1>7. CASE TimestampStart(c)
  BY <1>7 DEF TimestampStart
<1>8. CASE ListPage(c)
  BY <1>8 DEF ListPage
<1>9. CASE ReadSegment(c)
  BY <1>9 DEF ReadSegment
<1>10. CASE OpenWhole(c)
  BY <1>10 DEF OpenWhole
<1>11. CASE WholeLoaded(c)
  BY <1>11 DEF WholeLoaded, Collect
<1>12. CASE LeaseReader(c)
  BY <1>12 DEF LeaseReader
<1>13. CASE LeaseRead(c)
  BY <1>13 DEF LeaseRead
<1>14. CASE OpenSegment(c)
  BY <1>14 DEF OpenSegment
<1>15. CASE SegmentOpened(c)
  BY <1>15 DEF SegmentOpened, Collect
<1>16. CASE BlockGet(c)
  BY <1>16 DEF BlockGet
<1>17. CASE BlockBegin(c)
  BY <1>17 DEF BlockBegin
<1>18. CASE BlockRead(c)
  BY <1>18 DEF BlockRead, Collect
<1>19. CASE CallCancelled(c)
  BY <1>19 DEF CallCancelled
<1>20. CASE TailSnapshot(c)
  BY <1>20 DEF TailSnapshot
<1>21. CASE TailMembership(c)
  BY <1>21 DEF TailMembership
<1>22. CASE TailChannel(c)
  BY <1>22 DEF TailChannel
<1>23. CASE TailWoken(c)
  BY <1>23 DEF TailWoken
<1>24. CASE TailRecheck(c)
  BY <1>24 DEF TailRecheck
<1> QED
  BY <1>1, <1>2, <1>3, <1>4, <1>5, <1>6, <1>7, <1>8, <1>9, <1>10, <1>11, <1>12, <1>13,
      <1>14, <1>15, <1>16, <1>17, <1>18, <1>19, <1>20, <1>21, <1>22, <1>23, <1>24
  DEF ClientSteps, CacheSteps

(* A step of the readers leaves the catalog alone.                         *)
LEMMA CatalogAlone ==
  ASSUME [Next]_vars
  PROVE  CatalogNext \/ UNCHANGED catalogVars
<1>1. CASE Environment
  BY <1>1 DEF Environment
<1>2. CASE ReclaimObjects
  BY <1>2 DEF ReclaimObjects
<1>3. CASE LoadBegin /\ Alone
  BY <1>3 DEF LoadBegin, Alone
<1>4. CASE LoadQuery /\ Alone
  BY <1>4 DEF LoadQuery, Alone
<1>5. CASE LoadDone /\ Alone
  BY <1>5 DEF LoadDone, Alone
<1>6. ASSUME NEW o \in group.orphans, OrphanDone(o) /\ Alone PROVE CatalogNext \/ UNCHANGED catalogVars
  BY <1>6 DEF OrphanDone, Alone
<1>7. ASSUME NEW o \in group.orphans, OrphanQuery(o) /\ Alone PROVE CatalogNext \/ UNCHANGED catalogVars
  BY <1>7 DEF OrphanQuery, Alone
<1>8. CASE Poll /\ Alone
  BY <1>8 DEF Poll, Alone
<1>9. ASSUME NEW x \in Watches \cup {TheReader}, StoppedPollLeaves(x) /\ Alone PROVE CatalogNext \/ UNCHANGED catalogVars
  BY <1>9 DEF StoppedPollLeaves, Alone
<1>10. CASE LoadFails /\ Alone
  BY <1>10 DEF LoadFails, Alone
<1>11. CASE PollTimeout /\ Alone
  BY <1>11 DEF PollTimeout, Alone
<1>12. CASE EvictCachedHead /\ Alone
  BY <1>12 DEF EvictCachedHead, Alone
<1>13. CASE FlightSteps
  BY <1>13 DEF FlightSteps, FlightsAlone
<1>14. CASE FlightFault
  BY <1>14 DEF FlightFault, FlightsAlone
<1>15. CASE CloseReader
  BY <1>15 DEF CloseReader, WatchStep
<1>16. ASSUME NEW w \in Watches, CloseNextWatch(w) PROVE CatalogNext \/ UNCHANGED catalogVars
  BY <1>16 DEF CloseNextWatch, WatchStep
<1>17. CASE CloseWatchDone
  BY <1>17 DEF CloseWatchDone, WatchStep
<1>18. CASE CloseRefresh
  BY <1>18 DEF CloseRefresh, WatchStep
<1>19. CASE CloseGroup
  BY <1>19 DEF CloseGroup, WatchStep
<1>20. CASE CloseWhole
  BY <1>20 DEF CloseWhole, CloseStep
<1>21. CASE CloseCancels
  BY <1>21 DEF CloseCancels, CloseStep
<1>22. CASE CloseDone
  BY <1>22 DEF CloseDone, CloseStep
<1>23. ASSUME NEW c \in Clients, StartCall(c) PROVE CatalogNext \/ UNCHANGED catalogVars
  BY <1>23, StartKeeps
<1>24. ASSUME NEW c \in Clients, CancelCall(c) PROVE CatalogNext \/ UNCHANGED catalogVars
  BY <1>24 DEF CancelCall
<1>25. ASSUME NEW c \in Clients, ClientSteps(c) PROVE CatalogNext \/ UNCHANGED catalogVars
  BY <1>25, ClientKeeps
<1>26. ASSUME NEW c \in Clients, QueryFails(c) PROVE CatalogNext \/ UNCHANGED catalogVars
  BY <1>26 DEF QueryFails
<1>27. ASSUME NEW w \in Watches, OpenWatch(w) PROVE CatalogNext \/ UNCHANGED catalogVars
  BY <1>27 DEF OpenWatch, WatchStep
<1>28. ASSUME NEW w \in Watches, AddPartition(w) PROVE CatalogNext \/ UNCHANGED catalogVars
  BY <1>28 DEF AddPartition, WatchStep
<1>29. ASSUME NEW w \in Watches, RemovePartition(w) PROVE CatalogNext \/ UNCHANGED catalogVars
  BY <1>29 DEF RemovePartition, WatchStep
<1>30. ASSUME NEW w \in Watches, CloseWatch(w) PROVE CatalogNext \/ UNCHANGED catalogVars
  BY <1>30 DEF CloseWatch, WatchStep
<1>31. ASSUME NEW w \in Watches, RemoveReturns(w) PROVE CatalogNext \/ UNCHANGED catalogVars
  BY <1>31 DEF RemoveReturns, WatchStep
<1>32. ASSUME NEW w \in Watches, CloseUnwatches(w) PROVE CatalogNext \/ UNCHANGED catalogVars
  BY <1>32 DEF CloseUnwatches, WatchStep
<1>33. ASSUME NEW w \in Watches, CloseReturns(w) PROVE CatalogNext \/ UNCHANGED catalogVars
  BY <1>33 DEF CloseReturns, WatchStep
<1>34. CASE UNCHANGED vars
  BY <1>34 DEF vars
<1> QED
  BY <1>1, <1>2, <1>3, <1>4, <1>5, <1>6, <1>7, <1>8, <1>9, <1>10, <1>11, <1>12, <1>13,
      <1>14, <1>15, <1>16, <1>17, <1>18, <1>19, <1>20, <1>21, <1>22, <1>23, <1>24,
      <1>25, <1>26, <1>27, <1>28, <1>29, <1>30, <1>31, <1>32, <1>33, <1>34
  DEF Next, Background, LoadSteps, OrphanEnds, OrphanAnswered, PollSteps, Disturbances,
      CloseSteps, WatchSteps


(* The catalog's invariant holds in every behaviour of the readers.        *)
LEMMA CatalogStep ==
  ASSUME CatalogInv, [Next]_vars
  PROVE  CatalogInv' /\ Grows /\ [Log!LogNext]_(Log!logVars)
<1>1. CASE CatalogNext
  BY <1>1, CatalogSteps
<1>2. CASE UNCHANGED catalogVars
  BY <1>2, CatalogTyped
  DEF catalogVars, CatalogInv, CatalogType, LogInv, Grows, Log!logVars
<1> QED
  BY <1>1, <1>2, CatalogAlone

(* The catalog before anything happens.                                    *)
LEMMA CatalogStarts == ASSUME ReaderInit PROVE CatalogInv /\ Log!LogInit
<1>1. /\ part = [state |-> ZeroHead, writer |-> NoWriter, version |-> 0, segments |-> <<>>]
      /\ request = <<>>
      /\ session = [w \in Writers |-> [epoch |-> 0, state |-> ZeroHead]]
      /\ committed = {} /\ acked = {} /\ ackedVers = {}
  BY DEF ReaderInit, CatalogInit
<1>2. /\ ZeroHead.next = 0 /\ ZeroHead.oldest = 0 /\ ZeroHead.last = <<>> /\ ZeroHead.epoch = 0
      /\ ZeroHead.retLSN = 0 /\ ZeroHead.retVer = 0
  BY DEF ZeroHead
<1>3. ZeroHead \in HeadRec
  BY DEF ZeroHead, HeadRec, Opt
<1>4. /\ part.state = ZeroHead /\ part.writer = NoWriter /\ part.version = 0
      /\ part.segments = <<>> /\ <<>> \in Seq(Segment) /\ Len(<<>>) = 0
  BY <1>1
<1>5. CatalogType
  BY <1>1, <1>3, <1>4 DEF CatalogType, Opt
<1>6. LogInv
  BY <1>1, <1>2, <1>4, HeadAssumption DEF LogInv, Spans, Chain, Elements
<1> QED
  BY <1>1, <1>2, <1>4, <1>5, <1>6 DEF CatalogInv, Log!LogInit

(* The in-process catalog implements CatalogLog: readers do not disturb it, *)
(* and every call of a writer or an operator is one step of a fenced,       *)
(* append-only log whose answers are true.                                 *)
THEOREM MemoryImplementsLog == Spec => ImplementsLog
<1>1. ReaderInit => CatalogInv /\ Log!LogInit
  BY CatalogStarts
<1>2. CatalogInv /\ [Next]_vars => CatalogInv' /\ [Log!LogNext]_(Log!logVars)
  BY CatalogStep
<1> QED
  BY <1>1, <1>2, PTL DEF Spec, ImplementsLog, Log!LogSpec

----------------------------------------------------------------------------
(* The heads the readers know.                                             *)

Snap == [version : Nat, head : HeadRec]
Watched == [refs : Nat, snap : Opt(Snap), gen : Nat]
RefRec ==
  [cached : Opt(Snap), watched : Opt(Watched), generation : Nat, loop : BOOLEAN,
   closed : BOOLEAN]
Waiters == Clients \cup Watches \cup {Loop, TheReader}
Got == [snapshot : Snap, changed : BOOLEAN]
CallRec ==
  [waiters : SUBSET Waiters, stage : {"begin", "query", "answered"}, prev : Opt(Snap),
   got : Opt(Got), cancelled : {FALSE}]
GroupRec == [call : Opt(CallRec), orphans : SUBSET CallRec, closed : BOOLEAN]
AnswerRec == [ok : {TRUE}, head : HeadRec] \cup [ok : {FALSE}, err : {"closed", "fault"}]

(* A head that the catalog once had: the current one is no older.          *)
Known(h) ==
  /\ h \in HeadRec
  /\ h.oldest <= part.state.oldest /\ h.next <= part.state.next
  /\ h.oldest <= h.next /\ (h.last = <<>> => h.oldest = h.next)

KnownSnap(s) == s \in Snap /\ Known(s.head)
KnownOpt(o) == o # <<>> => KnownSnap(o[1])
KnownCall(o) ==
  /\ o \in CallRec /\ KnownOpt(o.prev)
  /\ o.got # <<>> => KnownSnap(o.got[1].snapshot)

RefOK(r) ==
  /\ r \in RefRec /\ KnownOpt(r.cached)
  /\ r.watched # <<>> => KnownOpt(r.watched[1].snap)
GroupOK(g) ==
  /\ g \in GroupRec
  /\ g.call # <<>> => KnownCall(g.call[1])
  /\ \A o \in g.orphans : KnownCall(o)
AnswersOK(a) ==
  /\ a \in [Clients -> Opt(AnswerRec)]
  /\ \A c \in Clients : a[c] # <<>> /\ a[c][1].ok => Known(a[c][1].head)

CoordInv ==
  /\ RefOK(ref) /\ GroupOK(group) /\ AnswersOK(answer)
  /\ gone \in Nat /\ gone <= part.state.oldest

(* What is known stays known while the catalog grows.                      *)
LEMMA KnownStays ==
  ASSUME CatalogInv, CatalogInv', Grows, NEW h, Known(h)
  PROVE  Known(h)'
<1>1. /\ part.state.oldest \in Nat /\ part.state.next \in Nat
      /\ part'.state.oldest \in Nat /\ part'.state.next \in Nat
  <2>1. /\ part \in PartType /\ part' \in PartType
    BY DEF CatalogInv, CatalogType, PartType
  <2>2. part.state \in HeadRec /\ part'.state \in HeadRec
    BY <2>1 DEF PartType
  <2> QED
    BY <2>2 DEF HeadRec
<1>2. h \in HeadRec /\ h.oldest \in Nat /\ h.next \in Nat
  BY DEF Known, HeadRec
<1>3. h.oldest <= part'.state.oldest /\ h.next <= part'.state.next
  BY <1>1, <1>2 DEF Known, Grows
<1> QED
  BY <1>2, <1>3 DEF Known

(* A snapshot that is known, or none, stays so.                            *)
LEMMA KnownOptStays ==
  ASSUME CatalogInv, CatalogInv', Grows, NEW o, KnownOpt(o)
  PROVE  KnownOpt(o)'
BY KnownStays DEF KnownOpt, KnownSnap

(* So do the heads a load has seen.                                        *)
LEMMA KnownCallStays ==
  ASSUME CatalogInv, CatalogInv', Grows, NEW o, KnownCall(o)
  PROVE  KnownCall(o)'
<1>1. KnownOpt(o.prev)'
  BY KnownOptStays DEF KnownCall
<1>2. o.got # <<>> => KnownSnap(o.got[1].snapshot)'
  BY KnownStays DEF KnownCall, KnownSnap
<1> QED
  BY <1>1, <1>2 DEF KnownCall

(* Those the subscription keeps.                                           *)
LEMMA RefStays ==
  ASSUME CatalogInv, CatalogInv', Grows, NEW r, RefOK(r)
  PROVE  RefOK(r)'
BY KnownOptStays DEF RefOK

(* Those of the load group.                                                *)
LEMMA GroupStays ==
  ASSUME CatalogInv, CatalogInv', Grows, NEW g, GroupOK(g)
  PROVE  GroupOK(g)'
BY KnownCallStays DEF GroupOK

(* Those that wait for their callers.                                      *)
LEMMA AnswersStay ==
  ASSUME CatalogInv, CatalogInv', Grows, NEW a, AnswersOK(a)
  PROVE  AnswersOK(a)'
BY KnownStays DEF AnswersOK

(* The head the catalog answers with is a known one.                       *)
LEMMA LoadedKnown ==
  ASSUME CatalogInv
  PROVE  Known(part.state) /\ KnownSnap(LoadPartitionSnapshot)
<1>1. part.state.last = <<>> => part.state.oldest = part.state.next
  <2> HAVE part.state.last = <<>>
  <2>1. committed = {}
    BY DEF CatalogInv, LogInv
  <2>2. \A i \in 1..Len(part.segments) : part.segments[i] \in committed
    BY DEF CatalogInv, LogInv, Elements
  <2>3. ~(1 \in 1..Len(part.segments)) /\ Len(part.segments) \in Nat
    BY <2>1, <2>2, CatalogTyped
  <2>4. Len(part.segments) = 0
    BY <2>3
  <2> QED
    BY <2>4 DEF CatalogInv, LogInv, Spans
<1>2. Known(part.state)
  BY <1>1, CatalogTyped DEF Known, CatalogInv, LogInv
<1>3. LoadPartitionSnapshot \in Snap /\ LoadPartitionSnapshot.head = part.state
  BY CatalogTyped DEF LoadPartitionSnapshot, Snap
<1> QED
  BY <1>2, <1>3 DEF KnownSnap

(* Replacing the element of a value that is present.                       *)
LEMMA OptUpdate ==
  ASSUME NEW S, NEW o \in Opt(S), o # <<>>, NEW v \in S
  PROVE  /\ [o EXCEPT ![1] = v] = <<v>> /\ <<v>> \in Opt(S) /\ <<v>> # <<>>
         /\ <<v>>[1] = v
<1>1. PICK x \in S : o = <<x>>
  BY DEF Opt
<1> QED
  BY <1>1 DEF Opt

(* One of a set is an option of it.                                        *)
LEMMA OptOne ==
  ASSUME NEW S, NEW v \in S
  PROVE  <<v>> \in Opt(S) /\ <<v>> # <<>> /\ <<v>>[1] = v /\ <<>> \in Opt(S)
BY DEF Opt

(* updateHead.                                                             *)
LEMMA UpdateHeadIs ==
  ASSUME RefOK(ref), NEW snap, KnownSnap(snap), NEW r, r = updateHead(snap)
  PROVE  /\ RefOK(r) /\ r.closed = ref.closed /\ r.loop = ref.loop
         /\ r.watched # <<>> <=> ref.watched # <<>>
         /\ ref.watched # <<>> => r.watched[1].refs = ref.watched[1].refs
         /\ ref.closed => r = ref
<1>1. ref \in RefRec /\ ref.watched \in Opt(Watched) /\ ref.cached \in Opt(Snap) /\ snap \in Snap
      /\ ref.generation \in Nat
  BY DEF RefOK, RefRec, KnownSnap
<1>2. KnownOpt(<<snap>>) /\ <<snap>> \in Opt(Snap)
  BY <1>1, OptOne DEF KnownOpt
<1>3. CASE ref.closed
  BY <1>3 DEF updateHead
<1>4. CASE ~ref.closed /\ ref.watched = <<>>
  <2>1. r = [ref EXCEPT !.cached = <<snap>>]
    BY <1>4 DEF updateHead
  <2>2. /\ r \in RefRec /\ r.closed = ref.closed /\ r.loop = ref.loop
        /\ r.watched = ref.watched /\ r.cached = <<snap>>
    BY <1>1, <1>2, <2>1 DEF RefRec
  <2> QED
    BY <1>2, <1>4, <2>2 DEF RefOK
<1>5. CASE ~ref.closed /\ ref.watched # <<>>
  <2> DEFINE x == ref.watched[1]
             y == [x EXCEPT !.snap = <<snap>>]
             g == ref.generation + 1
             z == [x EXCEPT !.snap = <<snap>>, !.gen = g]
  <2>1. x \in Watched /\ g \in Nat
    BY <1>1, <1>5, OptIs
  <2>2. y \in Watched /\ y.refs = x.refs /\ y.snap = <<snap>>
    BY <1>2, <2>1 DEF Watched
  <2>3. z \in Watched /\ z.refs = x.refs /\ z.snap = <<snap>>
    BY <1>2, <2>1 DEF Watched
  <2>4. [ref.watched EXCEPT ![1] = y] = <<y>> /\ [ref.watched EXCEPT ![1] = z] = <<z>>
        /\ <<y>> \in Opt(Watched) /\ <<z>> \in Opt(Watched)
    BY <1>1, <1>5, <2>2, <2>3, OptUpdate
  <2>5. r = [ref EXCEPT !.watched = <<y>>] \/ r = [ref EXCEPT !.watched = <<z>>, !.generation = g]
    <3>1. CASE ref.watched[1].snap # <<>> /\ ref.watched[1].snap[1].head = snap.head
      <4>1. r = [ref EXCEPT !.watched[1].snap = <<snap>>]
        BY <1>5, <3>1 DEF updateHead
      <4>2. r = [ref EXCEPT !.watched = [ref.watched EXCEPT ![1] = y]]
        BY <4>1
      <4> QED
        BY <4>2, <2>4
    <3>2. CASE ~(ref.watched[1].snap # <<>> /\ ref.watched[1].snap[1].head = snap.head)
      <4>1. r = [ref EXCEPT !.watched[1].snap = <<snap>>, !.generation = @ + 1,
                        !.watched[1].gen = ref.generation + 1]
        BY <1>5, <3>2 DEF updateHead
      <4>2. r = [ref EXCEPT !.watched = <<y>>, !.generation = g, !.watched[1].gen = g]
        BY <4>1, <2>4, <1>1 DEF RefRec
      <4> DEFINE q == [ref EXCEPT !.watched = <<y>>, !.generation = g]
      <4>3. q.watched = <<y>>
        BY <1>1 DEF RefRec
      <4>4. r = [q EXCEPT !.watched = [<<y>> EXCEPT ![1] = [y EXCEPT !.gen = g]]]
        BY <4>2, <4>3
      <4>5. [y EXCEPT !.gen = g] = z /\ [<<y>> EXCEPT ![1] = z] = <<z>>
        BY <2>1, <2>2, <2>3, <2>4 DEF Watched
      <4> QED
        BY <4>4, <4>5, <1>1 DEF RefRec
    <3> QED
      BY <3>1, <3>2
  <2> HIDE DEF y, z, g
  <2>6. /\ r \in RefRec /\ r.closed = ref.closed /\ r.loop = ref.loop /\ r.cached = ref.cached
        /\ r.watched = <<y>> \/ r.watched = <<z>>
    BY <1>1, <2>1, <2>4, <2>5 DEF RefRec
  <2>7. r.watched # <<>> /\ r.watched[1].refs = x.refs /\ r.watched[1].snap = <<snap>>
    BY <2>2, <2>3, <2>6
  <2> QED
    BY <1>2, <1>5, <2>6, <2>7 DEF RefOK
<1> QED
  BY <1>3, <1>4, <1>5

(* watchPartition.                                                         *)
LEMMA WatchPartitionIs ==
  ASSUME RefOK(ref), NEW r, r = watchPartition
  PROVE  /\ RefOK(r) /\ r.closed = ref.closed
         /\ ~ref.closed => /\ r.loop /\ r.watched # <<>>
                           /\ r.watched[1].refs =
                                IF ref.watched = <<>> THEN 1 ELSE ref.watched[1].refs + 1
         /\ ref.closed => r = ref
<1>1. ref \in RefRec /\ ref.watched \in Opt(Watched) /\ ref.cached \in Opt(Snap)
      /\ ref.generation \in Nat /\ KnownOpt(ref.cached)
  BY DEF RefOK, RefRec
<1>2. CASE ref.closed
  BY <1>2 DEF watchPartition
<1>3. CASE ~ref.closed /\ ref.watched # <<>>
  <2> DEFINE x == ref.watched[1]
             n == x.refs + 1
             y == [x EXCEPT !.refs = n]
  <2>1. x \in Watched
    BY <1>1, <1>3, OptIs
  <2>2. n \in Nat
    BY <2>1 DEF Watched
  <2>3. y \in Watched /\ y.refs = n /\ y.snap = x.snap
    BY <2>1, <2>2 DEF Watched
  <2>4. [ref.watched EXCEPT ![1] = y] = <<y>> /\ <<y>> \in Opt(Watched) /\ <<y>> # <<>> /\ <<y>>[1] = y
    BY <1>1, <1>3, <2>3, OptUpdate
  <2>5. r = [ref EXCEPT !.watched = <<y>>, !.loop = TRUE]
    <3>1. r = [ref EXCEPT !.watched[1].refs = @ + 1, !.loop = TRUE]
      BY <1>3 DEF watchPartition
    <3>2. r = [ref EXCEPT !.watched = [ref.watched EXCEPT ![1] = y], !.loop = TRUE]
      BY <3>1
    <3> QED
      BY <3>2, <2>4
  <2> HIDE DEF y
  <2>6. /\ r \in RefRec /\ r.closed = ref.closed /\ r.loop /\ r.cached = ref.cached /\ r.watched = <<y>>
    BY <1>1, <2>4, <2>5 DEF RefRec
  <2> QED
    BY <1>1, <1>3, <2>3, <2>4, <2>6 DEF RefOK
<1>4. CASE ~ref.closed /\ ref.watched = <<>>
  <2> DEFINE gen == IF ref.cached = <<>> THEN 0 ELSE ref.generation + 1
             g == IF ref.cached = <<>> THEN ref.generation ELSE gen
             y == [refs |-> 1, snap |-> ref.cached, gen |-> gen]
             none == <<>>
  <2>1. gen \in Nat /\ g \in Nat
    BY <1>1
  <2>2. y \in Watched /\ y.refs = 1 /\ y.snap = ref.cached
    BY <1>1, <2>1 DEF Watched
  <2>3. <<y>> \in Opt(Watched) /\ <<y>> # <<>> /\ <<y>>[1] = y /\ none \in Opt(Snap)
    BY <2>2 DEF Opt
  <2>4. r = [ref EXCEPT !.loop = TRUE, !.watched = <<y>>, !.generation = g, !.cached = none]
    BY <1>4 DEF watchPartition
  <2> HIDE DEF y, g, none
  <2>5. /\ r \in RefRec /\ r.closed = ref.closed /\ r.loop /\ r.cached = none /\ r.watched = <<y>>
    BY <1>1, <2>1, <2>3, <2>4 DEF RefRec
  <2>6. KnownOpt(none)
    BY DEF KnownOpt, none
  <2> QED
    BY <1>1, <1>4, <2>2, <2>3, <2>5, <2>6 DEF RefOK
<1> QED
  BY <1>2, <1>3, <1>4

(* What stopping the loop leaves in the load group.                        *)
LEMMA WaitersReplaced ==
  ASSUME GroupOK(group), group.call # <<>>, NEW ws \in SUBSET Waiters
  PROVE  LET call == [group.call[1] EXCEPT !.waiters = ws]
         IN  /\ KnownCall(call) /\ call.waiters = ws
             /\ [group EXCEPT !.call[1].waiters = ws] = [group EXCEPT !.call = <<call>>]
             /\ GroupOK([group EXCEPT !.call = <<call>>])
<1> DEFINE x == group.call[1]
           call == [x EXCEPT !.waiters = ws]
<1>1. group \in GroupRec /\ group.call \in Opt(CallRec) /\ x \in CallRec /\ KnownCall(x)
  BY OptIs DEF GroupOK, GroupRec
<1>2. call \in CallRec /\ call.prev = x.prev /\ call.got = x.got /\ call.waiters = ws
  BY <1>1 DEF CallRec
<1>3. KnownCall(call)
  BY <1>1, <1>2 DEF KnownCall
<1>4. [group.call EXCEPT ![1] = call] = <<call>> /\ <<call>> \in Opt(CallRec) /\ <<call>>[1] = call
  BY <1>1, <1>2, OptUpdate
<1>5. [group EXCEPT !.call[1].waiters = ws] = [group EXCEPT !.call = <<call>>]
  BY <1>4
<1> HIDE DEF call
<1> DEFINE g == [group EXCEPT !.call = <<call>>]
<1>6. g \in GroupRec /\ g.call = <<call>> /\ g.orphans = group.orphans
  BY <1>1, <1>4 DEF GroupRec
<1>7. GroupOK(g)
  BY <1>3, <1>4, <1>6 DEF GroupOK
<1> QED
  BY <1>2, <1>3, <1>5, <1>7 DEF call

(* The poll loop stops.                                                    *)
LEMMA StopLoopIs ==
  ASSUME GroupOK(group), NEW x \in Waiters, NEW g,
         g = IF ref.loop /\ Waits(Loop)
             THEN [group EXCEPT !.call[1].waiters = (@ \ {Loop}) \cup {x}] ELSE group
  PROVE  GroupOK(g)
<1>1. CASE ref.loop /\ Waits(Loop)
  <2> DEFINE ws == (group.call[1].waiters \ {Loop}) \cup {x}
  <2>1. group.call # <<>>
    BY <1>1 DEF Waits
  <2>2. ws \in SUBSET Waiters
    <3>1. group.call[1] \in CallRec
      BY <2>1, OptIs DEF GroupOK, GroupRec
    <3> QED
      BY <3>1 DEF CallRec
  <2>3. g = [group EXCEPT !.call[1].waiters = ws]
    BY <1>1
  <2> HIDE DEF ws
  <2> DEFINE call == [group.call[1] EXCEPT !.waiters = ws]
             new == [group EXCEPT !.call = <<call>>]
  <2>4. [group EXCEPT !.call[1].waiters = ws] = new /\ GroupOK(new)
    BY <2>1, <2>2, WaitersReplaced
  <2> HIDE DEF new
  <2>5. g = new
    BY <2>3, <2>4
  <2> QED
    BY <2>4, <2>5
<1>2. CASE ~(ref.loop /\ Waits(Loop))
  BY <1>2
<1> QED
  BY <1>1, <1>2

(* unwatchPartition.                                                       *)
LEMMA UnwatchPartitionIs ==
  ASSUME RefOK(ref), GroupOK(group), NEW x \in Waiters, unwatchPartition(x),
         NEW r, r = ref', NEW g, g = group'
  PROVE  /\ RefOK(r) /\ GroupOK(g) /\ r.closed = ref.closed
         /\ IF ref.watched # <<>> /\ ref.watched[1].refs > 1
            THEN /\ r.watched # <<>> /\ r.watched[1].refs = ref.watched[1].refs - 1
                 /\ r.loop = ref.loop
            ELSE r.watched = <<>> /\ ~r.loop
<1>1. ref \in RefRec /\ ref.watched \in Opt(Watched) /\ ref.cached \in Opt(Snap)
      /\ KnownOpt(ref.cached) /\ (ref.watched # <<>> => ref.watched[1] \in Watched)
  BY OptIs DEF RefOK, RefRec
<1>2. CASE ref.watched # <<>> /\ ref.watched[1].refs > 1
  <2> DEFINE w == ref.watched[1]
             n == w.refs - 1
             y == [w EXCEPT !.refs = n]
  <2>1. n \in Nat
    BY <1>1, <1>2 DEF Watched
  <2>2. y \in Watched /\ y.refs = n /\ y.snap = w.snap
    BY <1>1, <1>2, <2>1 DEF Watched
  <2>3. [ref.watched EXCEPT ![1] = y] = <<y>> /\ <<y>> \in Opt(Watched) /\ <<y>> # <<>> /\ <<y>>[1] = y
    BY <1>1, <1>2, <2>2, OptUpdate
  <2>4. r = [ref EXCEPT !.watched = <<y>>] /\ g = group
    <3>1. r = [ref EXCEPT !.watched[1].refs = @ - 1] /\ g = group
      BY <1>2 DEF unwatchPartition
    <3>2. r = [ref EXCEPT !.watched = [ref.watched EXCEPT ![1] = y]]
      BY <3>1
    <3> QED
      BY <3>1, <3>2, <2>3
  <2> HIDE DEF y
  <2>5. /\ r \in RefRec /\ r.closed = ref.closed /\ r.loop = ref.loop /\ r.cached = ref.cached
        /\ r.watched = <<y>>
    BY <1>1, <2>3, <2>4 DEF RefRec
  <2> QED
    BY <1>1, <1>2, <2>2, <2>3, <2>4, <2>5 DEF RefOK
<1>3. CASE ~(ref.watched # <<>> /\ ref.watched[1].refs > 1)
  <2> DEFINE k == IF ref.watched # <<>> /\ ref.watched[1].snap # <<>>
                  THEN ref.watched[1].snap ELSE ref.cached
             none == <<>>
  <2>1. k \in Opt(Snap) /\ KnownOpt(k) /\ none \in Opt(Watched)
    <3>1. ref.watched # <<>> => ref.watched[1].snap \in Opt(Snap) /\ KnownOpt(ref.watched[1].snap)
      BY <1>1 DEF Watched, RefOK
    <3>2. none \in Opt(Watched)
      BY DEF Opt
    <3> QED
      BY <1>1, <3>1, <3>2
  <2>2. r = [ref EXCEPT !.watched = none, !.loop = FALSE, !.cached = k]
    BY <1>3 DEF unwatchPartition
  <2>3. g = IF ref.loop /\ Waits(Loop)
            THEN [group EXCEPT !.call[1].waiters = (@ \ {Loop}) \cup {x}] ELSE group
    BY <1>3 DEF unwatchPartition, StopLoop
  <2>4. GroupOK(g)
    BY <2>3, StopLoopIs
  <2> HIDE DEF k, none
  <2>5. r \in RefRec /\ r.closed = ref.closed /\ r.watched = none /\ ~r.loop /\ r.cached = k
    BY <1>1, <2>1, <2>2 DEF RefRec
  <2> QED
    BY <1>3, <2>1, <2>4, <2>5 DEF RefOK, none
<1> QED
  BY <1>2, <1>3

(* refreshCoordinator.close.                                               *)
LEMMA CloseCoordinatorIs ==
  ASSUME RefOK(ref), GroupOK(group), closeCoordinator, NEW r, r = ref', NEW g, g = group'
  PROVE  RefOK(r) /\ GroupOK(g) /\ r.closed /\ ~r.loop /\ r.watched = <<>> /\ r.cached = <<>>
<1> DEFINE none == <<>>
<1>1. none \in Opt(Watched) /\ none \in Opt(Snap) /\ KnownOpt(none)
  BY DEF Opt, KnownOpt
<1>2. r = [ref EXCEPT !.closed = TRUE, !.loop = FALSE, !.watched = none, !.cached = none]
  BY DEF closeCoordinator
<1>3. TheReader \in Waiters
  BY DEF Waiters
<1>4. GroupOK(g)
  BY <1>3, StopLoopIs DEF closeCoordinator, StopLoop
<1> HIDE DEF none
<1>5. r \in RefRec /\ r.closed /\ r.watched = none /\ ~r.loop /\ r.cached = none
  BY <1>1, <1>2 DEF RefOK, RefRec
<1> QED
  BY <1>1, <1>4, <1>5 DEF RefOK, none

(* loadGroup.Do.                                                           *)
LEMMA DoIs ==
  ASSUME GroupOK(group), NEW x \in Waiters, Do(x), NEW g, g = group'
  PROVE  GroupOK(g)
<1>1. group \in GroupRec /\ group.call \in Opt(CallRec)
  BY DEF GroupOK, GroupRec
<1>2. CASE group.call = <<>>
  <2> DEFINE call == NewCall(x)
             none == <<>>
  <2>1. call \in CallRec /\ call.prev = none /\ call.got = none
    <3>1. none \in Opt(Snap) /\ none \in Opt(Got) /\ {x} \in SUBSET Waiters
      BY DEF Opt
    <3> QED
      BY <3>1 DEF NewCall, CallRec
  <2>2. KnownCall(call)
    BY <2>1 DEF KnownCall, KnownOpt
  <2>3. g = [group EXCEPT !.call = <<call>>]
    BY <1>2 DEF Do
  <2> HIDE DEF call
  <2>4. <<call>> \in Opt(CallRec) /\ <<call>>[1] = call
    BY <2>1, OptOne
  <2>5. g \in GroupRec /\ g.call = <<call>> /\ g.orphans = group.orphans
    BY <1>1, <2>3, <2>4 DEF GroupRec
  <2> QED
    BY <2>2, <2>4, <2>5 DEF GroupOK
<1>3. CASE group.call # <<>>
  <2> DEFINE ws == group.call[1].waiters \cup {x}
             call == [group.call[1] EXCEPT !.waiters = ws]
             new == [group EXCEPT !.call = <<call>>]
  <2>1. g = new
    BY <1>3 DEF Do, Joined
  <2>2. ws \in SUBSET Waiters
    <3>1. group.call[1] \in CallRec
      BY <1>1, <1>3, OptIs
    <3> QED
      BY <3>1 DEF CallRec
  <2> HIDE DEF ws
  <2>3. GroupOK(new)
    BY <1>3, <2>2, WaitersReplaced
  <2> HIDE DEF new
  <2> QED
    BY <2>1, <2>3
<1> QED
  BY <1>2, <1>3

(* releaseWaiter.                                                          *)
LEMMA ReleaseWaiterIs ==
  ASSUME GroupOK(group), group.call # <<>>, NEW x, NEW g, g = releaseWaiter(x)
  PROVE  GroupOK(g) /\ g.closed = group.closed
<1> DEFINE ws == group.call[1].waiters \ {x}
           call == [group.call[1] EXCEPT !.waiters = ws]
           new == [group EXCEPT !.call = <<call>>]
           none == <<>>
           os == group.orphans \cup {call}
<1>1. group \in GroupRec /\ group.call[1] \in CallRec
  BY OptIs DEF GroupOK, GroupRec
<1>2. ws \in SUBSET Waiters
  BY <1>1 DEF CallRec
<1>3. g = IF call.waiters = {} THEN [group EXCEPT !.call = none, !.orphans = os] ELSE new
  BY DEF releaseWaiter
<1>4. GroupOK(new) /\ KnownCall(call)
  <2> HIDE DEF ws
  <2> QED
    BY <1>2, WaitersReplaced
<1>5. new.closed = group.closed
  BY <1>1 DEF GroupRec
<1> HIDE DEF call, new
<1>6. CASE call.waiters # {}
  BY <1>3, <1>4, <1>5, <1>6
<1>7. CASE call.waiters = {}
  <2>1. g = [group EXCEPT !.call = none, !.orphans = os]
    BY <1>3, <1>7
  <2>2. call \in CallRec
    BY <1>4 DEF KnownCall
  <2>3. none \in Opt(CallRec) /\ os \in SUBSET CallRec
    BY <1>1, <2>2 DEF Opt, GroupRec
  <2>4. \A o \in os : KnownCall(o)
    BY <1>4 DEF GroupOK
  <2> HIDE DEF none, os
  <2>5. g \in GroupRec /\ g.call = none /\ g.orphans = os /\ g.closed = group.closed
    BY <1>1, <2>1, <2>3 DEF GroupRec
  <2> QED
    BY <2>4, <2>5 DEF GroupOK, none
<1> QED
  BY <1>6, <1>7

(* The catalog's answer to a load.                                         *)
LEMMA QueriedIs ==
  ASSUME CatalogInv, NEW call, KnownCall(call)
  PROVE  KnownCall(Queried(call))
<1> DEFINE load == [snapshot |-> LoadPartitionSnapshot, changed |-> TRUE]
           a == IF call.prev = <<>> THEN load ELSE RefreshPartitionSnapshot(call.prev[1])
           none == <<>>
           q == [call EXCEPT !.stage = "answered", !.prev = none, !.got = <<a>>]
<1>1. load \in Got /\ KnownSnap(load.snapshot)
  BY LoadedKnown DEF Got, KnownSnap
<1>2. a \in Got /\ KnownSnap(a.snapshot)
  <2>1. CASE call.prev = <<>>
    BY <1>1, <2>1
  <2>2. CASE call.prev # <<>>
    <3> DEFINE p == call.prev[1]
    <3>1. KnownSnap(p)
      BY <2>2 DEF KnownCall, KnownOpt
    <3>2. a = IF part.version = p.version THEN [snapshot |-> p, changed |-> FALSE] ELSE load
      BY <2>2 DEF RefreshPartitionSnapshot
    <3>3. CASE part.version = p.version
      <4> DEFINE b == [snapshot |-> p, changed |-> FALSE]
      <4>1. a = b
        BY <3>2, <3>3
      <4>2. b \in Got /\ b.snapshot = p
        BY <3>1 DEF Got, KnownSnap
      <4> HIDE DEF a, b
      <4> QED
        BY <4>1, <4>2, <3>1
    <3>4. CASE part.version # p.version
      BY <3>2, <3>4, <1>1
    <3> QED
      BY <3>3, <3>4
  <2> QED
    BY <2>1, <2>2
<1>3. Queried(call) = q
  BY DEF Queried
<1> HIDE DEF a
<1>4. <<a>> \in Opt(Got) /\ <<a>>[1] = a /\ none \in Opt(Snap)
  BY <1>2 DEF Opt
<1>5. call \in CallRec
  BY DEF KnownCall
<1>6. q \in CallRec /\ q.prev = none /\ q.got = <<a>>
  BY <1>4, <1>5 DEF CallRec
<1> QED
  BY <1>2, <1>3, <1>4, <1>6 DEF KnownCall, KnownOpt

(* Replacing the load under way by one that is as good.                    *)
LEMMA CallReplaced ==
  ASSUME GroupOK(group), NEW call, KnownCall(call), NEW g, g = [group EXCEPT !.call = <<call>>]
  PROVE  GroupOK(g)
<1>1. group \in GroupRec /\ call \in CallRec
  BY DEF GroupOK, KnownCall
<1>2. <<call>> \in Opt(CallRec) /\ <<call>>[1] = call
  BY <1>1, OptOne
<1>3. g \in GroupRec /\ g.call = <<call>> /\ g.orphans = group.orphans
  BY <1>1, <1>2 DEF GroupRec
<1> QED
  BY <1>2, <1>3 DEF GroupOK

(* What partitionSnapshot returns is a known head.                         *)
LEMMA SnapshotIs ==
  ASSUME RefOK(ref)
  PROVE  /\ partitionSnapshot = <<>> \/ partitionSnapshot = <<partitionSnapshot[1]>>
         /\ partitionSnapshot # <<>> => KnownSnap(partitionSnapshot[1].snap) /\ partitionSnapshot[1].gen \in Nat
<1>1. ref \in RefRec /\ ref.watched \in Opt(Watched) /\ (ref.watched # <<>> => ref.watched[1] \in Watched)
  BY OptIs DEF RefOK, RefRec
<1>2. CASE ref.closed
  BY <1>2 DEF partitionSnapshot
<1>3. CASE ~ref.closed /\ ref.watched # <<>> /\ ref.watched[1].snap # <<>>
  <2>1. partitionSnapshot = <<[snap |-> ref.watched[1].snap[1], gen |-> ref.watched[1].gen]>>
    BY <1>3 DEF partitionSnapshot
  <2>2. KnownSnap(ref.watched[1].snap[1]) /\ ref.watched[1].gen \in Nat
    BY <1>1, <1>3 DEF RefOK, KnownOpt, Watched
  <2> QED
    BY <2>1, <2>2
<1>4. CASE ~ref.closed /\ ~(ref.watched # <<>> /\ ref.watched[1].snap # <<>>)
  <2>1. partitionSnapshot = IF ref.cached # <<>> THEN <<[snap |-> ref.cached[1], gen |-> 0]>> ELSE <<>>
    BY <1>4 DEF partitionSnapshot
  <2>2. ref.cached # <<>> => KnownSnap(ref.cached[1])
    BY DEF RefOK, KnownOpt
  <2> QED
    BY <2>1, <2>2
<1> QED
  BY <1>2, <1>3, <1>4

(* A step that leaves the coordinator alone leaves known what was known.   *)
LEMMA CoordFrom ==
  ASSUME CatalogInv, CatalogInv', Grows, CoordInv, gone' = gone,
         NEW r, r = ref', NEW g, g = group', NEW a, a = answer',
         RefOK(r), GroupOK(g), AnswersOK(a)
  PROVE  CoordInv'
<1>1. RefOK(r)' /\ GroupOK(g)' /\ AnswersOK(a)'
  BY RefStays, GroupStays, AnswersStay
<1>2. gone \in Nat /\ gone <= part'.state.oldest
  <2>1. part.state.oldest \in Nat /\ part'.state.oldest \in Nat
    <3>1. /\ part \in PartType /\ part' \in PartType
      BY DEF CatalogInv, CatalogType, PartType
    <3>2. part.state \in HeadRec /\ part'.state \in HeadRec
      BY <3>1 DEF PartType
    <3> QED
      BY <3>2 DEF HeadRec
  <2> QED
    BY <2>1 DEF CoordInv, Grows
<1> QED
  BY <1>1, <1>2 DEF CoordInv

(* The coordinator as it was.                                              *)
LEMMA CoordSame ==
  ASSUME CatalogInv, CatalogInv', Grows, CoordInv, UNCHANGED <<ref, group, answer, gone>>
  PROVE  CoordInv'
<1>1. RefOK(ref) /\ GroupOK(group) /\ AnswersOK(answer)
  BY DEF CoordInv
<1>2. PICK r : r = ref
  OBVIOUS
<1>3. PICK g : g = group
  OBVIOUS
<1>4. PICK a : a = answer
  OBVIOUS
<1> QED
  BY <1>1, <1>2, <1>3, <1>4, CoordFrom

(* A load that ends publishes a known head.                                *)
LEMMA PublishIs ==
  ASSUME CoordInv, NEW call, KnownCall(call), Publish(call), NEW r, r = ref'
  PROVE  /\ RefOK(r) /\ r.closed = ref.closed /\ r.loop = ref.loop
         /\ r.watched # <<>> <=> ref.watched # <<>>
         /\ ref.watched # <<>> => r.watched[1].refs = ref.watched[1].refs
         /\ ref.closed => r = ref
<1>1. RefOK(ref)
  BY DEF CoordInv
<1>2. CASE call.got # <<>> /\ call.got[1].changed
  <2>1. KnownSnap(call.got[1].snapshot)
    BY <1>2 DEF KnownCall
  <2>2. r = updateHead(call.got[1].snapshot)
    BY <1>2 DEF Publish
  <2> QED
    BY <1>1, <2>1, <2>2, UpdateHeadIs
<1>3. CASE ~(call.got # <<>> /\ call.got[1].changed)
  BY <1>1, <1>3 DEF Publish
<1> QED
  BY <1>2, <1>3

(* What the waiters of a load are told.                                    *)
LEMMA ResultIs ==
  ASSUME NEW call, KnownCall(call)
  PROVE  /\ Result(call) \in AnswerRec
         /\ Result(call).ok => Known(Result(call).head)
<1>1. call \in CallRec /\ ~call.cancelled
  BY DEF KnownCall, CallRec
<1> DEFINE no(e) == [ok |-> FALSE, err |-> e]
<1>2. \A e \in {"closed", "fault"} : no(e) \in AnswerRec /\ ~no(e).ok
  BY DEF AnswerRec
<1>3. CASE group.closed
  BY <1>2, <1>3 DEF Result
<1>4. CASE ~group.closed /\ call.got = <<>>
  BY <1>1, <1>2, <1>4 DEF Result
<1>5. CASE ~group.closed /\ call.got # <<>>
  <2> DEFINE h == call.got[1].snapshot.head
  <2>1. Known(h) /\ h \in HeadRec
    BY <1>5 DEF KnownCall, KnownSnap, Known
  <2>2. Result(call) = [ok |-> TRUE, head |-> h]
    BY <1>1, <1>5 DEF Result
  <2> HIDE DEF h
  <2>3. [ok |-> TRUE, head |-> h] \in AnswerRec /\ [ok |-> TRUE, head |-> h].head = h
    BY <2>1 DEF AnswerRec
  <2> QED
    BY <2>1, <2>2, <2>3
<1> QED
  BY <1>3, <1>4, <1>5

(* Every head the readers know is one the catalog once had.                *)
LEMMA CoordStep ==
  ASSUME CatalogInv, CatalogInv', Grows, CoordInv, [Next]_vars
  PROVE  CoordInv'
<1>1. CASE Environment
  BY <1>1, CoordSame DEF Environment, coordinatorVars
<1>2. CASE ReclaimObjects
  <2>1. UNCHANGED <<part, ref, group, answer>> /\ gone' = part.state.oldest
    BY <1>2 DEF ReclaimObjects, catalogVars, coordinatorVars
  <2>2. gone' \in Nat /\ gone' <= part'.state.oldest
    BY <2>1, CatalogTyped
  <2>3. PICK r : r = ref
    OBVIOUS
  <2>4. PICK g : g = group
    OBVIOUS
  <2>5. PICK a : a = answer
    OBVIOUS
  <2>6. RefOK(r) /\ GroupOK(g) /\ AnswersOK(a)
    BY <2>3, <2>4, <2>5 DEF CoordInv
  <2>7. RefOK(r)' /\ GroupOK(g)' /\ AnswersOK(a)'
    BY <2>6, RefStays, GroupStays, AnswersStay
  <2> QED
    BY <2>1, <2>2, <2>3, <2>4, <2>5, <2>7 DEF CoordInv
<1>3. CASE LoadBegin /\ Alone
  <2>1. UNCHANGED <<ref, answer, gone>>
    BY <1>3 DEF LoadBegin, Alone, coordinatorVars
  <2>2. PICK r : r = ref'
    OBVIOUS
  <2>3. PICK g : g = group'
    OBVIOUS
  <2>4. PICK a : a = answer'
    OBVIOUS
  <2>5. RefOK(r)
    BY <2>1, <2>2 DEF CoordInv
  <2>6. GroupOK(g)
    <3> DEFINE s == partitionSnapshot
               prev == [i \in DOMAIN s |-> s[i].snap]
               x == group.call[1]
               y == [x EXCEPT !.stage = "query", !.prev = prev]
    <3>1. group.call # <<>>
      BY <1>3 DEF LoadBegin
    <3>2. prev \in Opt(Snap) /\ KnownOpt(prev)
      <4>1. CASE s = <<>>
        BY <4>1 DEF Opt, KnownOpt
      <4>2. CASE s # <<>>
        <5>1. s = <<s[1]>> /\ KnownSnap(s[1].snap)
          BY <4>2, SnapshotIs DEF CoordInv
        <5> HIDE DEF s
        <5>2. PICK v : v = s[1] /\ s = <<v>>
          BY <5>1
        <5>3. prev = <<v.snap>> /\ v.snap \in Snap /\ prev[1] = v.snap
          BY <5>1, <5>2 DEF KnownSnap
        <5> HIDE DEF prev
        <5> QED
          BY <5>1, <5>2, <5>3, OptOne DEF KnownOpt
      <4> QED
        BY <4>1, <4>2
    <3>3. KnownCall(x) /\ x \in CallRec /\ group.call \in Opt(CallRec)
      BY <3>1 DEF CoordInv, GroupOK, KnownCall, GroupRec
    <3>4. group' = [group EXCEPT !.call = <<y>>]
      <4> DEFINE m == [x EXCEPT !.stage = "query"]
                 q == [group EXCEPT !.call = <<m>>]
      <4>1. group' = [group EXCEPT !.call[1].stage = "query", !.call[1].prev = prev]
        BY <1>3 DEF LoadBegin
      <4>2. [group.call EXCEPT ![1] = m] = <<m>>
        <5>1. m \in CallRec
          BY <3>3 DEF CallRec
        <5>2. group.call \in Opt(CallRec) /\ group.call # <<>>
          BY <3>1, <3>3
        <5> HIDE DEF m
        <5>3. PICK v : group.call = <<v>>
          BY <5>2 DEF Opt
        <5> QED
          BY <5>3
      <4> HIDE DEF prev
      <4>3. group' = [q EXCEPT !.call[1].prev = prev]
        BY <4>1, <4>2
      <4>4. q.call = <<m>> /\ group \in GroupRec
        BY DEF CoordInv, GroupOK, GroupRec
      <4>5. group' = [q EXCEPT !.call = [<<m>> EXCEPT ![1] = [m EXCEPT !.prev = prev]]]
        BY <4>3, <4>4
      <4>6. [<<m>> EXCEPT ![1] = [m EXCEPT !.prev = prev]] = <<y>>
        OBVIOUS
      <4> HIDE DEF y
      <4> QED
        BY <4>4, <4>5, <4>6 DEF GroupRec
    <3> HIDE DEF prev
    <3>5. y \in CallRec /\ y.prev = prev /\ y.got = x.got
      BY <3>2, <3>3 DEF CallRec
    <3>6. KnownCall(y)
      BY <3>2, <3>3, <3>5 DEF KnownCall
    <3> HIDE DEF y
    <3> QED
      BY <2>3, <3>4, <3>6, CallReplaced DEF CoordInv
  <2>7. AnswersOK(a)
    BY <2>1, <2>4 DEF CoordInv
  <2> QED
    BY <2>1, <2>2, <2>3, <2>4, <2>5, <2>6, <2>7, CoordFrom
<1>4. CASE LoadQuery /\ Alone
  <2>1. UNCHANGED <<ref, answer, gone>>
    BY <1>4 DEF LoadQuery, Alone, coordinatorVars
  <2>2. PICK r : r = ref'
    OBVIOUS
  <2>3. PICK g : g = group'
    OBVIOUS
  <2>4. PICK a : a = answer'
    OBVIOUS
  <2>5. RefOK(r)
    BY <2>1, <2>2 DEF CoordInv
  <2>6. GroupOK(g)
    <3>1. group.call # <<>> /\ group' = [group EXCEPT !.call = <<Queried(group.call[1])>>]
      BY <1>4 DEF LoadQuery
    <3>2. KnownCall(group.call[1])
      BY <3>1 DEF CoordInv, GroupOK
    <3>3. KnownCall(Queried(group.call[1]))
      BY <3>2, QueriedIs
    <3> QED
      BY <2>3, <3>1, <3>3, CallReplaced DEF CoordInv
  <2>7. AnswersOK(a)
    BY <2>1, <2>4 DEF CoordInv
  <2> QED
    BY <2>1, <2>2, <2>3, <2>4, <2>5, <2>6, <2>7, CoordFrom
<1>5. CASE LoadDone /\ Alone
  <2>1. UNCHANGED <<gone>>
    BY <1>5 DEF LoadDone, Alone, coordinatorVars
  <2>2. PICK r : r = ref'
    OBVIOUS
  <2>3. PICK g : g = group'
    OBVIOUS
  <2>4. PICK a : a = answer'
    OBVIOUS
  <2>8. KnownCall(group.call[1])
    BY <1>5 DEF LoadDone, CoordInv, GroupOK
  <2>5. RefOK(r)
    BY <1>5, <2>2, <2>8, PublishIs DEF LoadDone
  <2>6. GroupOK(g)
    <3> DEFINE none == <<>>
    <3>1. group' = [group EXCEPT !.call = none] /\ none \in Opt(CallRec)
      BY <1>5 DEF LoadDone, Opt
    <3> HIDE DEF none
    <3>2. group' \in GroupRec /\ group'.call = none /\ group'.orphans = group.orphans
      BY <3>1 DEF CoordInv, GroupOK, GroupRec
    <3> QED
      BY <2>3, <3>2 DEF CoordInv, GroupOK, none
  <2>7. AnswersOK(a)
    <3> DEFINE x == Result(group.call[1])
    <3>1. a = [c \in Clients |-> IF c \in group.call[1].waiters THEN <<x>> ELSE answer[c]]
      BY <1>5, <2>4 DEF LoadDone
    <3>2. x \in AnswerRec /\ (x.ok => Known(x.head))
      BY <2>8, ResultIs
    <3> HIDE DEF x
    <3>3. <<x>> \in Opt(AnswerRec) /\ <<x>>[1] = x
      BY <3>2, OptOne
    <3> QED
      BY <3>1, <3>2, <3>3 DEF CoordInv, AnswersOK
  <2> QED
    BY <2>1, <2>2, <2>3, <2>4, <2>5, <2>6, <2>7, CoordFrom
<1>6. ASSUME NEW o \in group.orphans, OrphanDone(o) /\ Alone PROVE CoordInv'
  <2>1. UNCHANGED <<answer, gone>>
    BY <1>6 DEF OrphanDone, Alone, coordinatorVars
  <2>2. PICK r : r = ref'
    OBVIOUS
  <2>3. PICK g : g = group'
    OBVIOUS
  <2>4. PICK a : a = answer'
    OBVIOUS
  <2>8. KnownCall(o)
    BY <1>6 DEF CoordInv, GroupOK
  <2>5. RefOK(r)
    BY <1>6, <2>2, <2>8, PublishIs DEF OrphanDone
  <2>6. GroupOK(g)
    <3> DEFINE os == group.orphans \ {o}
    <3>1. group' = [group EXCEPT !.orphans = os] /\ group \in GroupRec /\ os \in SUBSET CallRec
      BY <1>6 DEF OrphanDone, CoordInv, GroupOK, GroupRec
    <3>2. \A q \in os : KnownCall(q)
      BY DEF CoordInv, GroupOK
    <3> HIDE DEF os
    <3>3. group' \in GroupRec /\ group'.call = group.call /\ group'.orphans = os
      BY <3>1 DEF GroupRec
    <3> QED
      BY <2>3, <3>2, <3>3 DEF CoordInv, GroupOK
  <2>7. AnswersOK(a)
    BY <2>1, <2>4 DEF CoordInv
  <2> QED
    BY <2>1, <2>2, <2>3, <2>4, <2>5, <2>6, <2>7, CoordFrom
<1>7. ASSUME NEW o \in group.orphans, OrphanQuery(o) /\ Alone PROVE CoordInv'
  <2>1. UNCHANGED <<ref, answer, gone>>
    BY <1>7 DEF OrphanQuery, Alone, coordinatorVars
  <2>2. PICK r : r = ref'
    OBVIOUS
  <2>3. PICK g : g = group'
    OBVIOUS
  <2>4. PICK a : a = answer'
    OBVIOUS
  <2>5. RefOK(r)
    BY <2>1, <2>2 DEF CoordInv
  <2>6. GroupOK(g)
    <3> DEFINE os == (group.orphans \ {o}) \cup {Queried(o)}
    <3>1. KnownCall(Queried(o))
      BY <1>7, QueriedIs DEF CoordInv, GroupOK
    <3>2. group' = [group EXCEPT !.orphans = os] /\ group \in GroupRec /\ os \in SUBSET CallRec
      BY <1>7, <3>1 DEF OrphanQuery, CoordInv, GroupOK, GroupRec, KnownCall
    <3>3. \A q \in os : KnownCall(q)
      BY <3>1 DEF CoordInv, GroupOK
    <3> HIDE DEF os
    <3>4. group' \in GroupRec /\ group'.call = group.call /\ group'.orphans = os
      BY <3>2 DEF GroupRec
    <3> QED
      BY <2>3, <3>3, <3>4 DEF CoordInv, GroupOK
  <2>7. AnswersOK(a)
    BY <2>1, <2>4 DEF CoordInv
  <2> QED
    BY <2>1, <2>2, <2>3, <2>4, <2>5, <2>6, <2>7, CoordFrom
<1>8. CASE Poll /\ Alone
  <2>1. UNCHANGED <<ref, answer, gone>>
    BY <1>8 DEF Poll, Alone, coordinatorVars
  <2>2. PICK r : r = ref'
    OBVIOUS
  <2>3. PICK g : g = group'
    OBVIOUS
  <2>4. PICK a : a = answer'
    OBVIOUS
  <2>5. RefOK(r)
    BY <2>1, <2>2 DEF CoordInv
  <2>6. GroupOK(g)
    <3>1. Loop \in Waiters
      BY DEF Waiters
    <3> QED
      BY <1>8, <3>1, <2>3, DoIs DEF Poll, CoordInv
  <2>7. AnswersOK(a)
    BY <2>1, <2>4 DEF CoordInv
  <2> QED
    BY <2>1, <2>2, <2>3, <2>4, <2>5, <2>6, <2>7, CoordFrom
<1>9. ASSUME NEW x \in Watches \cup {TheReader}, StoppedPollLeaves(x) /\ Alone PROVE CoordInv'
  <2>1. UNCHANGED <<ref, answer, gone>>
    BY <1>9 DEF StoppedPollLeaves, Alone, coordinatorVars
  <2>2. PICK r : r = ref'
    OBVIOUS
  <2>3. PICK g : g = group'
    OBVIOUS
  <2>4. PICK a : a = answer'
    OBVIOUS
  <2>5. RefOK(r)
    BY <2>1, <2>2 DEF CoordInv
  <2>6. GroupOK(g)
    BY <1>9, <2>3, ReleaseWaiterIs DEF StoppedPollLeaves, Waits, CoordInv
  <2>7. AnswersOK(a)
    BY <2>1, <2>4 DEF CoordInv
  <2> QED
    BY <2>1, <2>2, <2>3, <2>4, <2>5, <2>6, <2>7, CoordFrom
<1>10. CASE LoadFails /\ Alone
  <2>1. UNCHANGED <<ref, answer, gone>>
    BY <1>10 DEF LoadFails, Alone, coordinatorVars
  <2>2. PICK r : r = ref'
    OBVIOUS
  <2>3. PICK g : g = group'
    OBVIOUS
  <2>4. PICK a : a = answer'
    OBVIOUS
  <2>5. RefOK(r)
    BY <2>1, <2>2 DEF CoordInv
  <2>6. GroupOK(g)
    <3> DEFINE x == group.call[1]
               none == <<>>
               y == [x EXCEPT !.stage = "answered", !.prev = none]
    <3>1. group.call # <<>>
      BY <1>10 DEF LoadFails
    <3>2. KnownCall(x) /\ x \in CallRec /\ group.call \in Opt(CallRec)
      BY <3>1 DEF CoordInv, GroupOK, KnownCall, GroupRec
    <3>3. y \in CallRec /\ y.prev = none /\ y.got = x.got
      <4>1. none \in Opt(Snap)
        BY DEF Opt
      <4> HIDE DEF none
      <4> QED
        BY <3>2, <4>1 DEF CallRec
    <3>4. KnownCall(y)
      BY <3>2, <3>3 DEF KnownCall, KnownOpt
    <3>5. group' = [group EXCEPT !.call = <<y>>]
      <4> DEFINE m == [x EXCEPT !.stage = "answered"]
                 q == [group EXCEPT !.call = <<m>>]
      <4>1. group' = [group EXCEPT !.call[1].stage = "answered", !.call[1].prev = none]
        BY <1>10 DEF LoadFails
      <4>2. [group.call EXCEPT ![1] = m] = <<m>>
        <5>1. m \in CallRec
          BY <3>2 DEF CallRec
        <5>2. group.call \in Opt(CallRec) /\ group.call # <<>>
          BY <3>1, <3>2
        <5> HIDE DEF m
        <5>3. PICK v : group.call = <<v>>
          BY <5>2 DEF Opt
        <5> QED
          BY <5>3
      <4> HIDE DEF none
      <4>3. group' = [q EXCEPT !.call[1].prev = none]
        BY <4>1, <4>2
      <4>4. q.call = <<m>> /\ group \in GroupRec
        BY DEF CoordInv, GroupOK, GroupRec
      <4>5. group' = [q EXCEPT !.call = [<<m>> EXCEPT ![1] = [m EXCEPT !.prev = none]]]
        BY <4>3, <4>4
      <4>6. [<<m>> EXCEPT ![1] = [m EXCEPT !.prev = none]] = <<y>>
        OBVIOUS
      <4> HIDE DEF y
      <4> QED
        BY <4>4, <4>5, <4>6 DEF GroupRec
    <3> HIDE DEF y
    <3> QED
      BY <2>3, <3>4, <3>5, CallReplaced DEF CoordInv
  <2>7. AnswersOK(a)
    BY <2>1, <2>4 DEF CoordInv
  <2> QED
    BY <2>1, <2>2, <2>3, <2>4, <2>5, <2>6, <2>7, CoordFrom
<1>11. CASE PollTimeout /\ Alone
  <2>1. UNCHANGED <<ref, answer, gone>>
    BY <1>11 DEF PollTimeout, Alone, coordinatorVars
  <2>2. PICK r : r = ref'
    OBVIOUS
  <2>3. PICK g : g = group'
    OBVIOUS
  <2>4. PICK a : a = answer'
    OBVIOUS
  <2>5. RefOK(r)
    BY <2>1, <2>2 DEF CoordInv
  <2>6. GroupOK(g)
    BY <1>11, <2>3, ReleaseWaiterIs DEF PollTimeout, Waits, CoordInv
  <2>7. AnswersOK(a)
    BY <2>1, <2>4 DEF CoordInv
  <2> QED
    BY <2>1, <2>2, <2>3, <2>4, <2>5, <2>6, <2>7, CoordFrom
<1>12. CASE EvictCachedHead /\ Alone
  <2>1. UNCHANGED <<group, answer, gone>>
    BY <1>12 DEF EvictCachedHead, Alone, coordinatorVars
  <2>2. PICK r : r = ref'
    OBVIOUS
  <2>3. PICK g : g = group'
    OBVIOUS
  <2>4. PICK a : a = answer'
    OBVIOUS
  <2>5. RefOK(r)
    <3> DEFINE none == <<>>
    <3>1. r = [ref EXCEPT !.cached = none] /\ ref \in RefRec /\ none \in Opt(Snap) /\ KnownOpt(none)
      BY <1>12, <2>2 DEF EvictCachedHead, CoordInv, RefOK, Opt, KnownOpt
    <3> HIDE DEF none
    <3>2. r \in RefRec /\ r.cached = none /\ r.watched = ref.watched
      BY <3>1 DEF RefRec
    <3> QED
      BY <3>1, <3>2 DEF CoordInv, RefOK
  <2>6. GroupOK(g)
    BY <2>1, <2>3 DEF CoordInv
  <2>7. AnswersOK(a)
    BY <2>1, <2>4 DEF CoordInv
  <2> QED
    BY <2>1, <2>2, <2>3, <2>4, <2>5, <2>6, <2>7, CoordFrom
<1>13. CASE FlightSteps
  BY <1>13, CoordSame DEF FlightSteps, FlightsAlone, coordinatorVars, clientVars
<1>14. CASE FlightFault
  BY <1>14, CoordSame DEF FlightFault, FlightsAlone, coordinatorVars, clientVars
<1>15. CASE CloseReader
  BY <1>15, CoordSame DEF CloseReader, WatchStep, coordinatorVars, clientVars
<1>16. ASSUME NEW w \in Watches, CloseNextWatch(w) PROVE CoordInv'
  BY <1>16, CoordSame DEF CloseNextWatch, WatchStep, coordinatorVars, clientVars
<1>17. CASE CloseWatchDone
  BY <1>17, CoordSame DEF CloseWatchDone, WatchStep, coordinatorVars, clientVars
<1>18. CASE CloseRefresh
  <2>1. UNCHANGED <<answer, gone>>
    BY <1>18 DEF CloseRefresh, WatchStep, coordinatorVars
  <2>2. PICK r : r = ref'
    OBVIOUS
  <2>3. PICK g : g = group'
    OBVIOUS
  <2>4. PICK a : a = answer'
    OBVIOUS
  <2>5. RefOK(r)
    BY <1>18, <2>2, <2>3, CloseCoordinatorIs DEF CloseRefresh, CoordInv
  <2>6. GroupOK(g)
    BY <1>18, <2>2, <2>3, CloseCoordinatorIs DEF CloseRefresh, CoordInv
  <2>7. AnswersOK(a)
    BY <2>1, <2>4 DEF CoordInv
  <2> QED
    BY <2>1, <2>2, <2>3, <2>4, <2>5, <2>6, <2>7, CoordFrom
<1>19. CASE CloseGroup
  <2>1. UNCHANGED <<ref, answer, gone>>
    BY <1>19 DEF CloseGroup, WatchStep, coordinatorVars
  <2>2. PICK r : r = ref'
    OBVIOUS
  <2>3. PICK g : g = group'
    OBVIOUS
  <2>4. PICK a : a = answer'
    OBVIOUS
  <2>5. RefOK(r)
    BY <2>1, <2>2 DEF CoordInv
  <2>6. GroupOK(g)
    <3>1. group' = [group EXCEPT !.closed = TRUE] /\ group \in GroupRec
      BY <1>19 DEF CloseGroup, CoordInv, GroupOK
    <3>2. group' \in GroupRec /\ group'.call = group.call /\ group'.orphans = group.orphans
      BY <3>1 DEF GroupRec
    <3> QED
      BY <2>3, <3>2 DEF CoordInv, GroupOK
  <2>7. AnswersOK(a)
    BY <2>1, <2>4 DEF CoordInv
  <2> QED
    BY <2>1, <2>2, <2>3, <2>4, <2>5, <2>6, <2>7, CoordFrom
<1>20. CASE CloseWhole
  BY <1>20, CoordSame DEF CloseWhole, CloseStep, coordinatorVars, clientVars
<1>21. CASE CloseCancels
  BY <1>21, CoordSame DEF CloseCancels, CloseStep, coordinatorVars, clientVars
<1>22. CASE CloseDone
  BY <1>22, CoordSame DEF CloseDone, CloseStep, coordinatorVars, clientVars
<1>23. ASSUME NEW c \in Clients, StartCall(c) PROVE CoordInv'
  BY <1>23, StartKeeps, CoordSame DEF coordinatorVars
<1>24. ASSUME NEW c \in Clients, CancelCall(c) PROVE CoordInv'
  BY <1>24, CoordSame DEF CancelCall, coordinatorVars, clientVars
<1>25. ASSUME NEW c \in Clients, ClientSteps(c) PROVE CoordInv'
  <2>0. UNCHANGED gone
    BY <1>25, ClientKeeps
  <2>1. CASE headForRead(c)
    BY <2>1, <2>0, CoordSame DEF headForRead, LocalStep, ClientStep, CacheStep, coordinatorVars
  <2>2. CASE RefreshJoin(c)
    <3>1. CASE ref.closed \/ group.closed
      BY <2>2, <3>1, <2>0, CoordSame DEF RefreshJoin, coordinatorVars
    <3>2. CASE ~(ref.closed \/ group.closed)
      <4>1. Do(c) /\ UNCHANGED <<ref, answer>> /\ c \in Waiters
        BY <2>2, <3>2 DEF RefreshJoin, Waiters
      <4>2. PICK r : r = ref'
        OBVIOUS
      <4>3. PICK g : g = group'
        OBVIOUS
      <4>4. PICK a : a = answer'
        OBVIOUS
      <4>5. RefOK(r) /\ AnswersOK(a)
        BY <4>1, <4>2, <4>4 DEF CoordInv
      <4>6. GroupOK(g)
        BY <4>1, <4>3, DoIs DEF CoordInv
      <4> QED
        BY <2>0, <4>2, <4>3, <4>4, <4>5, <4>6, CoordFrom
    <3> QED
      BY <3>1, <3>2
  <2>3. CASE Refreshed(c)
    <3>1. UNCHANGED ref /\ answer' = [answer EXCEPT ![c] = <<>>]
      BY <2>3 DEF Refreshed
    <3>2. PICK r : r = ref'
      OBVIOUS
    <3>3. PICK g : g = group'
      OBVIOUS
    <3>4. PICK a : a = answer'
      OBVIOUS
    <3>5. RefOK(r)
      BY <3>1, <3>2 DEF CoordInv
    <3>6. GroupOK(g)
      BY <2>3, <3>3 DEF Refreshed, CoordInv
    <3>7. AnswersOK(a)
      BY <3>1, <3>4 DEF CoordInv, AnswersOK, Opt
    <3> QED
      BY <2>0, <3>2, <3>3, <3>4, <3>5, <3>6, <3>7, CoordFrom
  <2>4. CASE FetchHead(c)
    BY <2>4, <2>0, CoordSame DEF FetchHead, LocalStep, ClientStep, CacheStep, coordinatorVars
  <2>5. CASE FetchFind(c)
    BY <2>5, <2>0, CoordSame DEF FetchFind, LocalStep, ClientStep, CacheStep, coordinatorVars
  <2>6. CASE TimestampLookup(c)
    BY <2>6, <2>0, CoordSame DEF TimestampLookup, LocalStep, ClientStep, CacheStep, coordinatorVars
  <2>7. CASE TimestampStart(c)
    BY <2>7, <2>0, CoordSame DEF TimestampStart, LocalStep, ClientStep, CacheStep, coordinatorVars
  <2>8. CASE ListPage(c)
    BY <2>8, <2>0, CoordSame DEF ListPage, LocalStep, ClientStep, CacheStep, coordinatorVars
  <2>9. CASE ReadSegment(c)
    BY <2>9, <2>0, CoordSame DEF ReadSegment, LocalStep, ClientStep, CacheStep, coordinatorVars
  <2>10. CASE OpenWhole(c)
    BY <2>10, <2>0, CoordSame DEF OpenWhole, LocalStep, ClientStep, CacheStep, coordinatorVars
  <2>11. CASE WholeLoaded(c)
    BY <2>11, <2>0, CoordSame DEF WholeLoaded, LocalStep, ClientStep, CacheStep, coordinatorVars, Collect
  <2>12. CASE LeaseReader(c)
    BY <2>12, <2>0, CoordSame DEF LeaseReader, LocalStep, ClientStep, CacheStep, coordinatorVars
  <2>13. CASE LeaseRead(c)
    BY <2>13, <2>0, CoordSame DEF LeaseRead, LocalStep, ClientStep, CacheStep, coordinatorVars
  <2>14. CASE OpenSegment(c)
    BY <2>14, <2>0, CoordSame DEF OpenSegment, LocalStep, ClientStep, CacheStep, coordinatorVars
  <2>15. CASE SegmentOpened(c)
    BY <2>15, <2>0, CoordSame DEF SegmentOpened, LocalStep, ClientStep, CacheStep, coordinatorVars, Collect
  <2>16. CASE BlockGet(c)
    BY <2>16, <2>0, CoordSame DEF BlockGet, LocalStep, ClientStep, CacheStep, coordinatorVars
  <2>17. CASE BlockBegin(c)
    BY <2>17, <2>0, CoordSame DEF BlockBegin, LocalStep, ClientStep, CacheStep, coordinatorVars
  <2>18. CASE BlockRead(c)
    BY <2>18, <2>0, CoordSame DEF BlockRead, LocalStep, ClientStep, CacheStep, coordinatorVars, Collect
  <2>19. CASE CallCancelled(c)
    <3>1. UNCHANGED ref /\ answer' = [answer EXCEPT ![c] = <<>>]
      BY <2>19 DEF CallCancelled
    <3>2. PICK r : r = ref'
      OBVIOUS
    <3>3. PICK g : g = group'
      OBVIOUS
    <3>4. PICK a : a = answer'
      OBVIOUS
    <3>5. RefOK(r)
      BY <3>1, <3>2 DEF CoordInv
    <3>6. GroupOK(g)
      <4>1. group' = IF Waits(c) THEN releaseWaiter(c) ELSE group
        BY <2>19 DEF CallCancelled
      <4>2. CASE Waits(c)
        BY <4>1, <4>2, <3>3, ReleaseWaiterIs DEF Waits, CoordInv
      <4>3. CASE ~Waits(c)
        BY <4>1, <4>3, <3>3 DEF CoordInv
      <4> QED
        BY <4>2, <4>3
    <3>7. AnswersOK(a)
      BY <3>1, <3>4 DEF CoordInv, AnswersOK, Opt
    <3> QED
      BY <2>0, <3>2, <3>3, <3>4, <3>5, <3>6, <3>7, CoordFrom
  <2>20. CASE TailSnapshot(c)
    BY <2>20, <2>0, CoordSame DEF TailSnapshot, LocalStep, ClientStep, CacheStep, coordinatorVars
  <2>21. CASE TailMembership(c)
    BY <2>21, <2>0, CoordSame DEF TailMembership, LocalStep, ClientStep, CacheStep, coordinatorVars
  <2>22. CASE TailChannel(c)
    BY <2>22, <2>0, CoordSame DEF TailChannel, LocalStep, ClientStep, CacheStep, coordinatorVars
  <2>23. CASE TailWoken(c)
    BY <2>23, <2>0, CoordSame DEF TailWoken, LocalStep, ClientStep, CacheStep, coordinatorVars
  <2>24. CASE TailRecheck(c)
    BY <2>24, <2>0, CoordSame DEF TailRecheck, LocalStep, ClientStep, CacheStep, coordinatorVars
  <2> QED
    BY <1>25, <2>1, <2>2, <2>3, <2>4, <2>5, <2>6, <2>7, <2>8, <2>9, <2>10, <2>11, <2>12,
        <2>13, <2>14, <2>15, <2>16, <2>17, <2>18, <2>19, <2>20, <2>21, <2>22, <2>23,
        <2>24 DEF ClientSteps, CacheSteps
<1>26. ASSUME NEW c \in Clients, QueryFails(c) PROVE CoordInv'
  BY <1>26, CoordSame DEF QueryFails, coordinatorVars, clientVars
<1>27. ASSUME NEW w \in Watches, OpenWatch(w) PROVE CoordInv'
  <2>1. UNCHANGED <<group, answer, gone>>
    BY <1>27 DEF OpenWatch, WatchStep, coordinatorVars
  <2>2. PICK r : r = ref'
    OBVIOUS
  <2>3. PICK g : g = group'
    OBVIOUS
  <2>4. PICK a : a = answer'
    OBVIOUS
  <2>5. RefOK(r)
    BY <1>27, <2>2, WatchPartitionIs DEF OpenWatch, CoordInv
  <2>6. GroupOK(g)
    BY <2>1, <2>3 DEF CoordInv
  <2>7. AnswersOK(a)
    BY <2>1, <2>4 DEF CoordInv
  <2> QED
    BY <2>1, <2>2, <2>3, <2>4, <2>5, <2>6, <2>7, CoordFrom
<1>28. ASSUME NEW w \in Watches, AddPartition(w) PROVE CoordInv'
  <2>1. UNCHANGED <<group, answer, gone>>
    BY <1>28 DEF AddPartition, WatchStep, coordinatorVars
  <2>2. PICK r : r = ref'
    OBVIOUS
  <2>3. PICK g : g = group'
    OBVIOUS
  <2>4. PICK a : a = answer'
    OBVIOUS
  <2>5. RefOK(r)
    BY <1>28, <2>2, WatchPartitionIs DEF AddPartition, CoordInv
  <2>6. GroupOK(g)
    BY <2>1, <2>3 DEF CoordInv
  <2>7. AnswersOK(a)
    BY <2>1, <2>4 DEF CoordInv
  <2> QED
    BY <2>1, <2>2, <2>3, <2>4, <2>5, <2>6, <2>7, CoordFrom
<1>29. ASSUME NEW w \in Watches, RemovePartition(w) PROVE CoordInv'
  <2>1. UNCHANGED <<answer, gone>>
    BY <1>29 DEF RemovePartition, WatchStep, coordinatorVars
  <2>2. PICK r : r = ref'
    OBVIOUS
  <2>3. PICK g : g = group'
    OBVIOUS
  <2>4. PICK a : a = answer'
    OBVIOUS
  <2>8. w \in Waiters
    BY <1>29 DEF Waiters
  <2>5. RefOK(r)
    BY <1>29, <2>2, <2>3, <2>8, UnwatchPartitionIs DEF RemovePartition, CoordInv
  <2>6. GroupOK(g)
    BY <1>29, <2>2, <2>3, <2>8, UnwatchPartitionIs DEF RemovePartition, CoordInv
  <2>7. AnswersOK(a)
    BY <2>1, <2>4 DEF CoordInv
  <2> QED
    BY <2>1, <2>2, <2>3, <2>4, <2>5, <2>6, <2>7, CoordFrom
<1>30. ASSUME NEW w \in Watches, CloseWatch(w) PROVE CoordInv'
  BY <1>30, CoordSame DEF CloseWatch, WatchStep, coordinatorVars, clientVars
<1>31. ASSUME NEW w \in Watches, RemoveReturns(w) PROVE CoordInv'
  BY <1>31, CoordSame DEF RemoveReturns, WatchStep, coordinatorVars, clientVars
<1>32. ASSUME NEW w \in Watches, CloseUnwatches(w) PROVE CoordInv'
  <2>1. CASE watch[w].member
    <3>1. UNCHANGED <<answer, gone>>
      BY <1>32 DEF CloseUnwatches, WatchStep, coordinatorVars
    <3>2. PICK r : r = ref'
      OBVIOUS
    <3>3. PICK g : g = group'
      OBVIOUS
    <3>4. PICK a : a = answer'
      OBVIOUS
    <3>8. w \in Waiters
      BY <1>32 DEF Waiters
    <3>5. RefOK(r)
      BY <1>32, <2>1, <3>2, <3>3, <3>8, UnwatchPartitionIs DEF CloseUnwatches, CoordInv
    <3>6. GroupOK(g)
      BY <1>32, <2>1, <3>2, <3>3, <3>8, UnwatchPartitionIs DEF CloseUnwatches, CoordInv
    <3>7. AnswersOK(a)
      BY <3>1, <3>4 DEF CoordInv
    <3> QED
      BY <3>1, <3>2, <3>3, <3>4, <3>5, <3>6, <3>7, CoordFrom
  <2>2. CASE ~watch[w].member
    BY <1>32, <2>2, CoordSame DEF CloseUnwatches, WatchStep
  <2> QED
    BY <2>1, <2>2
<1>33. ASSUME NEW w \in Watches, CloseReturns(w) PROVE CoordInv'
  BY <1>33, CoordSame DEF CloseReturns, WatchStep, coordinatorVars, clientVars
<1>34. CASE UNCHANGED vars
  BY <1>34, CoordSame DEF vars, coordinatorVars
<1> QED
  BY <1>1, <1>2, <1>3, <1>4, <1>5, <1>6, <1>7, <1>8, <1>9, <1>10, <1>11, <1>12, <1>13,
      <1>14, <1>15, <1>16, <1>17, <1>18, <1>19, <1>20, <1>21, <1>22, <1>23, <1>24,
      <1>25, <1>26, <1>27, <1>28, <1>29, <1>30, <1>31, <1>32, <1>33, <1>34
  DEF Next, Background, LoadSteps, OrphanEnds, OrphanAnswered, PollSteps, Disturbances,
      CloseSteps, WatchSteps


(* The coordinator before anything happens.                                *)
LEMMA CoordStarts == ASSUME ReaderInit PROVE CoordInv
<1> DEFINE none == <<>>
<1>1. /\ ref = [cached |-> none, watched |-> none, generation |-> 0, loop |-> FALSE, closed |-> FALSE]
      /\ group = [call |-> none, orphans |-> {}, closed |-> FALSE]
      /\ answer = [c \in Clients |-> none] /\ gone = 0
  BY DEF ReaderInit, CoordinatorInit
<1>2. none \in Opt(Snap) /\ none \in Opt(Watched) /\ none \in Opt(CallRec) /\ none \in Opt(AnswerRec)
      /\ KnownOpt(none)
  BY DEF Opt, KnownOpt
<1>3. none = <<>>
  OBVIOUS
<1>4. part.state.oldest \in Nat
  BY CatalogStarts, CatalogTyped
<1> HIDE DEF none
<1>5. RefOK(ref)
  BY <1>1, <1>2, <1>3 DEF RefOK, RefRec
<1>6. GroupOK(group)
  BY <1>1, <1>2, <1>3 DEF GroupOK, GroupRec
<1>7. AnswersOK(answer)
  BY <1>1, <1>2, <1>3 DEF AnswersOK
<1> QED
  BY <1>1, <1>4, <1>5, <1>6, <1>7 DEF CoordInv

----------------------------------------------------------------------------
(* Watches and the shared subscription.                                    *)

WatchStates == {"none", "open", "removing", "closing", "draining", "closed"}
WatchRec == [pc : WatchStates, member : BOOLEAN, stopped : BOOLEAN]
Holders == {w \in Watches : watch[w].member}

(* The subscription r counts the watches of H.                             *)
Counts(r, H) ==
  ~r.closed => /\ r.loop <=> H # {}
               /\ r.watched # <<>> <=> H # {}
               /\ r.watched # <<>> => r.watched[1].refs = Cardinality(H)

(* One watch replaced.                                                     *)
LEMMA WatchReplaced ==
  ASSUME NEW f \in [Watches -> WatchRec], NEW w \in Watches, NEW y \in WatchRec,
         NEW g, g = [f EXCEPT ![w] = y]
  PROVE  g \in [Watches -> WatchRec] /\ g[w] = y /\ \A v \in Watches : v # w => g[v] = f[v]
OBVIOUS

(* A watch with another state.                                             *)
LEMMA PcReplaced ==
  ASSUME NEW y \in WatchRec, NEW p \in WatchStates, NEW x, x = [y EXCEPT !.pc = p]
  PROVE  x \in WatchRec /\ x.pc = p /\ (x.member <=> y.member)
BY DEF WatchRec

(* A watch moves on without a change of its subscription.                  *)
LEMMA WatchMoves ==
  ASSUME NEW f \in [Watches -> WatchRec], NEW w \in Watches, NEW p \in WatchStates, p # "none",
         NEW g, g = [f EXCEPT ![w].pc = p]
  PROVE  /\ g \in [Watches -> WatchRec]
         /\ \A v \in Watches : g[v].member <=> f[v].member
         /\ \A v \in Watches : g[v].pc = "none" => f[v].pc = "none"
<1>1. PICK y : y = [f[w] EXCEPT !.pc = p]
  OBVIOUS
<1>2. f[w] \in WatchRec
  OBVIOUS
<1>3. y \in WatchRec /\ y.pc = p /\ (y.member <=> f[w].member)
  BY <1>1, <1>2, PcReplaced
<1>4. g = [f EXCEPT ![w] = y]
  BY <1>1
<1>5. g \in [Watches -> WatchRec] /\ g[w] = y /\ \A v \in Watches : v # w => g[v] = f[v]
  BY <1>3, <1>4, WatchReplaced
<1> QED
  BY <1>3, <1>5

(* A watch with or without the subscription.                               *)
LEMMA MemberReplaced ==
  ASSUME NEW y \in WatchRec, NEW m \in BOOLEAN, NEW x, x = [y EXCEPT !.member = m]
  PROVE  x \in WatchRec /\ x.pc = y.pc /\ (x.member <=> m)
BY DEF WatchRec

(* A watch that has stopped.                                               *)
LEMMA StoppedReplaced ==
  ASSUME NEW y \in WatchRec, NEW m \in BOOLEAN, NEW x, x = [y EXCEPT !.stopped = m]
  PROVE  x \in WatchRec /\ x.pc = y.pc
BY DEF WatchRec

Opened(f, g, w, p) == g = [f EXCEPT ![w].pc = p, ![w].member = TRUE]

(* A watch opens with the subscription.                                    *)
LEMMA WatchOpens ==
  ASSUME NEW f \in [Watches -> WatchRec], NEW w \in Watches, NEW p \in WatchStates,
         NEW g, Opened(f, g, w, p)
  PROVE  /\ g \in [Watches -> WatchRec] /\ g[w].pc = p /\ g[w].member
         /\ \A v \in Watches : v # w => g[v] = f[v]
<1>2. PICK x : x = [f[w] EXCEPT !.pc = p]
  OBVIOUS
<1>3. x \in WatchRec /\ x.pc = p
  BY <1>2, PcReplaced
<1>4. PICK y : y = [x EXCEPT !.member = TRUE]
  OBVIOUS
<1>5. y \in WatchRec /\ y.pc = p /\ y.member
  BY <1>3, <1>4, MemberReplaced
<1>6. g = [f EXCEPT ![w] = y]
  BY <1>2, <1>4 DEF Opened
<1>7. g \in [Watches -> WatchRec] /\ g[w] = y /\ \A v \in Watches : v # w => g[v] = f[v]
  BY <1>5, <1>6, WatchReplaced
<1>8. g[w].member
  BY <1>5, <1>7
<1> QED
  BY <1>5, <1>7, <1>8

(* A watch that is open takes the subscription.                            *)
LEMMA WatchTakes ==
  ASSUME NEW f \in [Watches -> WatchRec], NEW w \in Watches
  PROVE  LET g == [f EXCEPT ![w].member = TRUE]
         IN  /\ g \in [Watches -> WatchRec] /\ g[w].pc = f[w].pc /\ g[w].member
             /\ \A v \in Watches : v # w => g[v] = f[v]
<1>1. PICK g : g = [f EXCEPT ![w].member = TRUE]
  OBVIOUS
<1>4. PICK y : y = [f[w] EXCEPT !.member = TRUE]
  OBVIOUS
<1>5. y \in WatchRec /\ y.pc = f[w].pc /\ y.member
  BY <1>4, MemberReplaced
<1>6. g = [f EXCEPT ![w] = y]
  BY <1>1, <1>4
<1>7. g \in [Watches -> WatchRec] /\ g[w] = y /\ \A v \in Watches : v # w => g[v] = f[v]
  BY <1>5, <1>6, WatchReplaced
<1>8. g[w].member
  BY <1>5, <1>7
<1> QED
  BY <1>1, <1>5, <1>7, <1>8

(* A watch that closes stops and gives it up.                              *)
LEMMA WatchDrains ==
  ASSUME NEW f \in [Watches -> WatchRec], NEW w \in Watches
  PROVE  LET g == [f EXCEPT ![w].pc = "draining", ![w].stopped = TRUE, ![w].member = FALSE]
         IN  /\ g \in [Watches -> WatchRec] /\ g[w].pc = "draining" /\ ~g[w].member
             /\ \A v \in Watches : v # w => g[v] = f[v]
<1>1. PICK g : g = [f EXCEPT ![w].pc = "draining", ![w].stopped = TRUE, ![w].member = FALSE]
  OBVIOUS
<1>2. PICK x : x = [f[w] EXCEPT !.pc = "draining"]
  OBVIOUS
<1>0. "draining" \in WatchStates
  BY DEF WatchStates
<1>3. x \in WatchRec /\ x.pc = "draining"
  BY <1>0, <1>2, PcReplaced, Zenon
<1>4. PICK z : z = [x EXCEPT !.stopped = TRUE]
  OBVIOUS
<1>5. z \in WatchRec /\ z.pc = "draining"
  BY <1>3, <1>4, StoppedReplaced
<1>6. PICK y : y = [z EXCEPT !.member = FALSE]
  OBVIOUS
<1>7. y \in WatchRec /\ y.pc = "draining" /\ ~y.member
  BY <1>5, <1>6, MemberReplaced
<1>8. g = [f EXCEPT ![w] = y]
  BY <1>1, <1>2, <1>4, <1>6
<1>9. g \in [Watches -> WatchRec] /\ g[w] = y /\ \A v \in Watches : v # w => g[v] = f[v]
  BY <1>7, <1>8, WatchReplaced
<1>10. ~g[w].member
  BY <1>7, <1>9
<1> QED
  BY <1>1, <1>7, <1>9, <1>10
WatchInv ==
  /\ watch \in [Watches -> WatchRec]
  /\ IsFiniteSet(Holders)
  /\ \A w \in Watches : watch[w].pc = "none" => ~watch[w].member
  /\ Counts(ref, Holders)

(* The watches as they were.                                               *)
LEMMA WatchSame ==
  ASSUME WatchInv, UNCHANGED <<ref, watch>> PROVE WatchInv'
BY DEF WatchInv, Holders, Counts

(* What a load or an eviction leaves of the subscription.                  *)
LEMMA CountsSame ==
  ASSUME WatchInv, UNCHANGED watch, ref'.closed = ref.closed, ref'.loop = ref.loop,
         ref'.watched # <<>> <=> ref.watched # <<>>,
         ref.watched # <<>> => ref'.watched[1].refs = ref.watched[1].refs
  PROVE  WatchInv'
<1>1. Holders' = Holders
  BY DEF Holders
<1>2. PICK H : H = Holders
  OBVIOUS
<1>3. Counts(ref, H)' <=> Counts(ref, H)
  BY DEF Counts
<1> QED
  BY <1>1, <1>2, <1>3 DEF WatchInv

(* A watch that gives up no subscription and takes none.                   *)
LEMMA MembersSame ==
  ASSUME WatchInv, UNCHANGED ref, watch' \in [Watches -> WatchRec],
         \A w \in Watches : watch'[w].member <=> watch[w].member,
         \A w \in Watches : watch'[w].pc = "none" => watch[w].pc = "none"
  PROVE  WatchInv'
<1>1. Holders' = Holders
  BY DEF Holders
<1>2. PICK H : H = Holders
  OBVIOUS
<1>3. Counts(ref, H)' <=> Counts(ref, H)
  BY DEF Counts
<1> QED
  BY <1>1, <1>2, <1>3 DEF WatchInv

(* A watch subscribes.                                                     *)
LEMMA MemberJoins ==
  ASSUME WatchInv, RefOK(ref), NEW w \in Watches, ~watch[w].member, ref' = watchPartition,
         watch' = [watch EXCEPT ![w].pc = "open", ![w].member = TRUE] \/
           (watch[w].pc = "open" /\ watch' = [watch EXCEPT ![w].member = TRUE])
  PROVE  WatchInv'
<1>1. PICK r : r = ref'
  OBVIOUS
<1>2. /\ r.closed = ref.closed
      /\ ~ref.closed => /\ r.loop /\ r.watched # <<>>
                        /\ r.watched[1].refs =
                             IF ref.watched = <<>> THEN 1 ELSE ref.watched[1].refs + 1
  BY <1>1, WatchPartitionIs
<1>3. watch \in [Watches -> WatchRec] /\ IsFiniteSet(Holders) /\ Counts(ref, Holders)
  BY DEF WatchInv
<1>4. /\ watch' \in [Watches -> WatchRec] /\ watch'[w].pc = "open" /\ watch'[w].member
      /\ \A v \in Watches : v # w => watch'[v] = watch[v]
  <2>1. CASE watch' = [watch EXCEPT ![w].pc = "open", ![w].member = TRUE]
    <3>1. PICK p \in WatchStates : p = "open"
      BY DEF WatchStates
    <3>3. watch' = [watch EXCEPT ![w].pc = p, ![w].member = TRUE]
      BY <2>1, <3>1
    <3>4. PICK g : g = watch'
      OBVIOUS
    <3>5. /\ g \in [Watches -> WatchRec] /\ g[w].pc = p /\ g[w].member
          /\ \A v \in Watches : v # w => g[v] = watch[v]
      BY <1>3, <3>3, <3>4, WatchOpens DEF Opened
    <3> QED
      BY <3>1, <3>4, <3>5, Zenon
  <2>2. CASE watch[w].pc = "open" /\ watch' = [watch EXCEPT ![w].member = TRUE]
    BY <1>3, <2>2, WatchTakes
  <2> QED
    BY <2>1, <2>2
<1>5. Holders' = Holders \cup {w} /\ w \notin Holders
  BY <1>4 DEF Holders
<1>6. PICK H : H = Holders
  OBVIOUS
<1>7. IsFiniteSet(H \cup {w}) /\ Cardinality(H \cup {w}) = Cardinality(H) + 1 /\ Cardinality(H) \in Nat
  BY <1>3, <1>5, <1>6, FS_AddElement, FS_CardinalityType
<1>8. Counts(r, H \cup {w})
  <2> SUFFICES ASSUME ~r.closed PROVE r.watched[1].refs = Cardinality(H) + 1
    BY <1>2, <1>7 DEF Counts
  <2>1. CASE ref.watched = <<>>
    <3>1. H = {}
      BY <2>1, <1>2, <1>3, <1>6 DEF Counts
    <3>2. Cardinality(H) = 0
      BY <3>1, FS_EmptySet
    <3> QED
      BY <2>1, <3>2, <1>2
  <2>2. CASE ref.watched # <<>>
    BY <2>2, <1>2, <1>3, <1>6 DEF Counts
  <2> QED
    BY <2>1, <2>2
<1>9. Counts(ref, H \cup {w})'
  BY <1>1, <1>8 DEF Counts
<1>10. \A v \in Watches : watch'[v].pc = "none" => ~watch'[v].member
  BY <1>4 DEF WatchInv
<1> QED
  BY <1>4, <1>5, <1>6, <1>7, <1>9, <1>10 DEF WatchInv

(* A watch gives its subscription up.                                      *)
LEMMA MemberLeaves ==
  ASSUME WatchInv, RefOK(ref), GroupOK(group), NEW w \in Watches, watch[w].member,
         unwatchPartition(w), watch' \in [Watches -> WatchRec], ~watch'[w].member,
         \A v \in Watches : v # w => watch'[v] = watch[v]
  PROVE  WatchInv'
<1>1. PICK r : r = ref'
  OBVIOUS
<1>2. PICK g : g = group'
  OBVIOUS
<1>3. w \in Waiters
  BY DEF Waiters
<1>4. /\ r.closed = ref.closed
      /\ IF ref.watched # <<>> /\ ref.watched[1].refs > 1
         THEN /\ r.watched # <<>> /\ r.watched[1].refs = ref.watched[1].refs - 1
              /\ r.loop = ref.loop
         ELSE r.watched = <<>> /\ ~r.loop
  BY <1>1, <1>2, <1>3, UnwatchPartitionIs
<1>5. IsFiniteSet(Holders) /\ Counts(ref, Holders)
  BY DEF WatchInv
<1>6. Holders' = Holders \ {w} /\ w \in Holders
  BY DEF Holders
<1>7. PICK H : H = Holders
  OBVIOUS
<1>8. /\ IsFiniteSet(H \ {w}) /\ Cardinality(H \ {w}) = Cardinality(H) - 1
      /\ Cardinality(H) \in Nat
  BY <1>5, <1>6, <1>7, FS_RemoveElement, FS_CardinalityType
<1>9. Cardinality(H \ {w}) = 0 <=> H \ {w} = {}
  BY <1>8, FS_EmptySet
<1>10. Cardinality(H \ {w}) \in Nat
  BY <1>8, FS_CardinalityType
<1>11. Counts(r, H \ {w})
  <2> SUFFICES ASSUME ~r.closed
               PROVE  /\ r.loop <=> H \ {w} # {}
                      /\ r.watched # <<>> <=> H \ {w} # {}
                      /\ r.watched # <<>> => r.watched[1].refs = Cardinality(H \ {w})
    BY DEF Counts
  <2>1. ref.watched # <<>> /\ ref.loop /\ ref.watched[1].refs = Cardinality(H)
    BY <1>4, <1>5, <1>6, <1>7 DEF Counts
  <2>2. CASE ref.watched[1].refs > 1
    <3>1. r.watched # <<>> /\ r.watched[1].refs = Cardinality(H) - 1
      BY <2>1, <2>2, <1>4
    <3>2. r.loop
      BY <2>1, <2>2, <1>4
    <3>3. Cardinality(H \ {w}) # 0
      BY <2>1, <2>2, <1>8
    <3> QED
      BY <1>8, <1>9, <3>1, <3>2, <3>3
  <2>3. CASE ~(ref.watched[1].refs > 1)
    BY <2>1, <2>3, <1>4, <1>8, <1>9, <1>10
  <2> QED
    BY <2>2, <2>3
<1>12. Counts(ref, H \ {w})'
  BY <1>1, <1>11 DEF Counts
<1>13. \A v \in Watches : watch'[v].pc = "none" => ~watch'[v].member
  BY DEF WatchInv
<1> QED
  BY <1>6, <1>7, <1>8, <1>12, <1>13 DEF WatchInv

(* The steps of a call leave the subscription alone.                       *)
LEMMA ClientRef ==
  ASSUME NEW c \in Clients, ClientSteps(c)
  PROVE  UNCHANGED ref
<1> USE DEF LocalStep, ClientStep, CacheStep, coordinatorVars
<1>1. CASE headForRead(c)
  BY <1>1 DEF headForRead
<1>2. CASE RefreshJoin(c)
  BY <1>2 DEF RefreshJoin
<1>3. CASE Refreshed(c)
  BY <1>3 DEF Refreshed
<1>4. CASE FetchHead(c)
  BY <1>4 DEF FetchHead
<1>5. CASE FetchFind(c)
  BY <1>5 DEF FetchFind
<1>6. CASE TimestampLookup(c)
  BY <1>6 DEF TimestampLookup
<1>7. CASE TimestampStart(c)
  BY <1>7 DEF TimestampStart
<1>8. CASE ListPage(c)
  BY <1>8 DEF ListPage
<1>9. CASE ReadSegment(c)
  BY <1>9 DEF ReadSegment
<1>10. CASE OpenWhole(c)
  BY <1>10 DEF OpenWhole
<1>11. CASE WholeLoaded(c)
  BY <1>11 DEF WholeLoaded, Collect
<1>12. CASE LeaseReader(c)
  BY <1>12 DEF LeaseReader
<1>13. CASE LeaseRead(c)
  BY <1>13 DEF LeaseRead
<1>14. CASE OpenSegment(c)
  BY <1>14 DEF OpenSegment
<1>15. CASE SegmentOpened(c)
  BY <1>15 DEF SegmentOpened, Collect
<1>16. CASE BlockGet(c)
  BY <1>16 DEF BlockGet
<1>17. CASE BlockBegin(c)
  BY <1>17 DEF BlockBegin
<1>18. CASE BlockRead(c)
  BY <1>18 DEF BlockRead, Collect
<1>19. CASE CallCancelled(c)
  BY <1>19 DEF CallCancelled
<1>20. CASE TailSnapshot(c)
  BY <1>20 DEF TailSnapshot
<1>21. CASE TailMembership(c)
  BY <1>21 DEF TailMembership
<1>22. CASE TailChannel(c)
  BY <1>22 DEF TailChannel
<1>23. CASE TailWoken(c)
  BY <1>23 DEF TailWoken
<1>24. CASE TailRecheck(c)
  BY <1>24 DEF TailRecheck
<1> QED
  BY <1>1, <1>2, <1>3, <1>4, <1>5, <1>6, <1>7, <1>8, <1>9, <1>10, <1>11, <1>12, <1>13,
      <1>14, <1>15, <1>16, <1>17, <1>18, <1>19, <1>20, <1>21, <1>22, <1>23, <1>24
  DEF ClientSteps, CacheSteps

(* Every step keeps the count.                                             *)
LEMMA WatchStepKeeps ==
  ASSUME CoordInv, WatchInv, [Next]_vars
  PROVE  WatchInv'
<1>1. CASE Environment
  BY <1>1, WatchSame DEF Environment, coordinatorVars
<1>2. CASE ReclaimObjects
  BY <1>2, WatchSame DEF ReclaimObjects, coordinatorVars
<1>3. CASE LoadBegin /\ Alone
  BY <1>3, WatchSame DEF LoadBegin, Alone, coordinatorVars
<1>4. CASE LoadQuery /\ Alone
  BY <1>4, WatchSame DEF LoadQuery, Alone, coordinatorVars
<1>5. CASE LoadDone /\ Alone
  <2>1. UNCHANGED watch /\ Publish(group.call[1]) /\ KnownCall(group.call[1])
    BY <1>5 DEF LoadDone, Alone, CoordInv, GroupOK
  <2>2. PICK r : r = ref'
    OBVIOUS
  <2> QED
    BY <2>1, <2>2, PublishIs, CountsSame
<1>6. ASSUME NEW o \in group.orphans, OrphanDone(o) /\ Alone PROVE WatchInv'
  <2>1. UNCHANGED watch /\ Publish(o) /\ KnownCall(o)
    BY <1>6 DEF OrphanDone, Alone, CoordInv, GroupOK
  <2>2. PICK r : r = ref'
    OBVIOUS
  <2> QED
    BY <2>1, <2>2, PublishIs, CountsSame
<1>7. ASSUME NEW o \in group.orphans, OrphanQuery(o) /\ Alone PROVE WatchInv'
  BY <1>7, WatchSame DEF OrphanQuery, Alone, coordinatorVars
<1>8. CASE Poll /\ Alone
  BY <1>8, WatchSame DEF Poll, Alone, coordinatorVars
<1>9. ASSUME NEW x \in Watches \cup {TheReader}, StoppedPollLeaves(x) /\ Alone PROVE WatchInv'
  BY <1>9, WatchSame DEF StoppedPollLeaves, Alone, coordinatorVars
<1>10. CASE LoadFails /\ Alone
  BY <1>10, WatchSame DEF LoadFails, Alone, coordinatorVars
<1>11. CASE PollTimeout /\ Alone
  BY <1>11, WatchSame DEF PollTimeout, Alone, coordinatorVars
<1>12. CASE EvictCachedHead /\ Alone
  <2>1. ref' = [ref EXCEPT !.cached = <<>>] /\ UNCHANGED watch
    BY <1>12 DEF EvictCachedHead, Alone
  <2>2. ref \in RefRec
    BY DEF CoordInv, RefOK
  <2>3. ref'.closed = ref.closed /\ ref'.loop = ref.loop /\ ref'.watched = ref.watched
    BY <2>1, <2>2 DEF RefRec
  <2> QED
    BY <2>1, <2>3, CountsSame
<1>13. CASE FlightSteps
  BY <1>13, WatchSame DEF FlightSteps, FlightsAlone, coordinatorVars
<1>14. CASE FlightFault
  BY <1>14, WatchSame DEF FlightFault, FlightsAlone, coordinatorVars
<1>15. CASE CloseReader
  BY <1>15, WatchSame DEF CloseReader, WatchStep, coordinatorVars
<1>16. ASSUME NEW w \in Watches, CloseNextWatch(w) PROVE WatchInv'
  <2>1. CASE MarkClosed(w)
    <3>1. watch' = [watch EXCEPT ![w].pc = "closing"] /\ UNCHANGED ref
      BY <1>16, <2>1 DEF CloseNextWatch, WatchStep, MarkClosed, coordinatorVars
    <3>2. /\ watch' \in [Watches -> WatchRec]
          /\ \A v \in Watches : (watch'[v].member <=> watch[v].member)
          /\ \A v \in Watches : watch'[v].pc = "none" => watch[v].pc = "none"
      <4>1. PICK p \in WatchStates : p = "closing"
        BY DEF WatchStates
      <4>2. watch' = [watch EXCEPT ![w].pc = p] /\ p # "none"
        BY <3>1, <4>1
      <4>3. watch \in [Watches -> WatchRec]
        BY DEF WatchInv
      <4>4. PICK g : g = watch'
        OBVIOUS
      <4>5. /\ g \in [Watches -> WatchRec]
            /\ \A v \in Watches : g[v].member <=> watch[v].member
            /\ \A v \in Watches : g[v].pc = "none" => watch[v].pc = "none"
        BY <1>16, <4>2, <4>3, <4>4, WatchMoves
      <4> QED
        BY <4>4, <4>5, Zenon
    <3> QED
      BY <3>1, <3>2, MembersSame
  <2>2. CASE ~MarkClosed(w)
    BY <1>16, <2>2, WatchSame DEF CloseNextWatch, coordinatorVars
  <2> QED
    BY <2>1, <2>2
<1>17. CASE CloseWatchDone
  BY <1>17, WatchSame DEF CloseWatchDone, WatchStep, coordinatorVars
<1>18. CASE CloseRefresh
  <2>1. UNCHANGED watch /\ closeCoordinator /\ RefOK(ref) /\ GroupOK(group)
    BY <1>18 DEF CloseRefresh, CoordInv
  <2>2. PICK r : r = ref'
    OBVIOUS
  <2>3. PICK g : g = group'
    OBVIOUS
  <2>4. ref'.closed
    BY <2>1, <2>2, <2>3, CloseCoordinatorIs
  <2> QED
    BY <2>1, <2>4 DEF WatchInv, Holders, Counts
<1>19. CASE CloseGroup
  BY <1>19, WatchSame DEF CloseGroup, WatchStep, coordinatorVars
<1>20. CASE CloseWhole
  BY <1>20, WatchSame DEF CloseWhole, CloseStep, coordinatorVars
<1>21. CASE CloseCancels
  BY <1>21, WatchSame DEF CloseCancels, CloseStep, coordinatorVars
<1>22. CASE CloseDone
  BY <1>22, WatchSame DEF CloseDone, CloseStep, coordinatorVars
<1>23. ASSUME NEW c \in Clients, StartCall(c) PROVE WatchInv'
  BY <1>23, StartKeeps, WatchSame DEF coordinatorVars
<1>24. ASSUME NEW c \in Clients, CancelCall(c) PROVE WatchInv'
  BY <1>24, WatchSame DEF CancelCall, coordinatorVars
<1>25. ASSUME NEW c \in Clients, ClientSteps(c) PROVE WatchInv'
  <2>1. UNCHANGED watch
    BY <1>25, ClientKeeps
  <2>2. UNCHANGED ref
    BY <1>25, ClientRef
  <2> QED
    BY <2>1, <2>2, WatchSame
<1>26. ASSUME NEW c \in Clients, QueryFails(c) PROVE WatchInv'
  BY <1>26, WatchSame DEF QueryFails, coordinatorVars
<1>27. ASSUME NEW w \in Watches, OpenWatch(w) PROVE WatchInv'
  <2>1. ~watch[w].member
    BY <1>27 DEF OpenWatch, WatchInv
  <2> QED
    BY <1>27, <2>1, MemberJoins DEF OpenWatch, CoordInv
<1>28. ASSUME NEW w \in Watches, AddPartition(w) PROVE WatchInv'
  BY <1>28, MemberJoins DEF AddPartition, CoordInv
<1>29. ASSUME NEW w \in Watches, RemovePartition(w) PROVE WatchInv'
  <2>1. watch' = [watch EXCEPT ![w].pc = "removing", ![w].member = FALSE] /\ watch[w].member
    BY <1>29 DEF RemovePartition
  <2>2. /\ watch' \in [Watches -> WatchRec] /\ ~watch'[w].member
        /\ \A v \in Watches : v # w => watch'[v] = watch[v]
    BY <1>29, <2>1 DEF WatchInv, WatchRec, WatchStates
  <2> QED
    BY <1>29, <2>1, <2>2, MemberLeaves DEF RemovePartition, CoordInv
<1>30. ASSUME NEW w \in Watches, CloseWatch(w) PROVE WatchInv'
  <2>1. watch' = [watch EXCEPT ![w].pc = "closing"] /\ UNCHANGED ref
    BY <1>30 DEF CloseWatch, WatchStep, MarkClosed, coordinatorVars
  <2>2. /\ watch' \in [Watches -> WatchRec]
        /\ \A v \in Watches : (watch'[v].member <=> watch[v].member)
        /\ \A v \in Watches : watch'[v].pc = "none" => watch[v].pc = "none"
    <3>1. PICK p \in WatchStates : p = "closing"
      BY DEF WatchStates
    <3>2. watch' = [watch EXCEPT ![w].pc = p] /\ p # "none"
      BY <2>1, <3>1
    <3>3. watch \in [Watches -> WatchRec]
      BY DEF WatchInv
    <3>4. PICK g : g = watch'
      OBVIOUS
    <3>5. /\ g \in [Watches -> WatchRec]
          /\ \A v \in Watches : g[v].member <=> watch[v].member
          /\ \A v \in Watches : g[v].pc = "none" => watch[v].pc = "none"
      BY <1>30, <3>2, <3>3, <3>4, WatchMoves
    <3> QED
      BY <3>4, <3>5, Zenon
  <2> QED
    BY <2>1, <2>2, MembersSame
<1>31. ASSUME NEW w \in Watches, RemoveReturns(w) PROVE WatchInv'
  <2>1. watch' = [watch EXCEPT ![w].pc = "open"] /\ UNCHANGED ref
    BY <1>31 DEF RemoveReturns, WatchStep, coordinatorVars
  <2>2. /\ watch' \in [Watches -> WatchRec]
        /\ \A v \in Watches : (watch'[v].member <=> watch[v].member)
        /\ \A v \in Watches : watch'[v].pc = "none" => watch[v].pc = "none"
    <3>1. PICK p \in WatchStates : p = "open"
      BY DEF WatchStates
    <3>2. watch' = [watch EXCEPT ![w].pc = p] /\ p # "none"
      BY <2>1, <3>1
    <3>3. watch \in [Watches -> WatchRec]
      BY DEF WatchInv
    <3>4. PICK g : g = watch'
      OBVIOUS
    <3>5. /\ g \in [Watches -> WatchRec]
          /\ \A v \in Watches : g[v].member <=> watch[v].member
          /\ \A v \in Watches : g[v].pc = "none" => watch[v].pc = "none"
      BY <1>31, <3>2, <3>3, <3>4, WatchMoves
    <3> QED
      BY <3>4, <3>5, Zenon
  <2> QED
    BY <2>1, <2>2, MembersSame
<1>32. ASSUME NEW w \in Watches, CloseUnwatches(w) PROVE WatchInv'
  <2>1. watch' = [watch EXCEPT ![w].pc = "draining", ![w].stopped = TRUE, ![w].member = FALSE]
    BY <1>32 DEF CloseUnwatches
  <2>2. /\ watch' \in [Watches -> WatchRec] /\ ~watch'[w].member /\ watch'[w].pc = "draining"
        /\ \A v \in Watches : v # w => watch'[v] = watch[v]
    BY <1>32, <2>1, WatchDrains, ZenonT(40) DEF WatchInv
  <2>3. CASE watch[w].member
    BY <1>32, <2>2, <2>3, MemberLeaves DEF CloseUnwatches, CoordInv
  <2>4. CASE ~watch[w].member
    <3>1. UNCHANGED ref
      BY <1>32, <2>4 DEF CloseUnwatches
    <3> QED
      BY <3>1, <2>2, <2>4, MembersSame
  <2> QED
    BY <2>3, <2>4
<1>33. ASSUME NEW w \in Watches, CloseReturns(w) PROVE WatchInv'
  <2>1. watch' = [watch EXCEPT ![w].pc = "closed"] /\ UNCHANGED ref
    BY <1>33 DEF CloseReturns, WatchStep, coordinatorVars
  <2>2. /\ watch' \in [Watches -> WatchRec]
        /\ \A v \in Watches : (watch'[v].member <=> watch[v].member)
        /\ \A v \in Watches : watch'[v].pc = "none" => watch[v].pc = "none"
    <3>1. PICK p \in WatchStates : p = "closed"
      BY DEF WatchStates
    <3>2. watch' = [watch EXCEPT ![w].pc = p] /\ p # "none"
      BY <2>1, <3>1
    <3>3. watch \in [Watches -> WatchRec]
      BY DEF WatchInv
    <3>4. PICK g : g = watch'
      OBVIOUS
    <3>5. /\ g \in [Watches -> WatchRec]
          /\ \A v \in Watches : g[v].member <=> watch[v].member
          /\ \A v \in Watches : g[v].pc = "none" => watch[v].pc = "none"
      BY <1>33, <3>2, <3>3, <3>4, WatchMoves
    <3> QED
      BY <3>4, <3>5, Zenon
  <2> QED
    BY <2>1, <2>2, MembersSame
<1>34. CASE UNCHANGED vars
  BY <1>34, WatchSame DEF vars, coordinatorVars
<1> QED
  BY <1>1, <1>2, <1>3, <1>4, <1>5, <1>6, <1>7, <1>8, <1>9, <1>10, <1>11, <1>12, <1>13,
      <1>14, <1>15, <1>16, <1>17, <1>18, <1>19, <1>20, <1>21, <1>22, <1>23, <1>24,
      <1>25, <1>26, <1>27, <1>28, <1>29, <1>30, <1>31, <1>32, <1>33, <1>34
  DEF Next, Background, LoadSteps, OrphanEnds, OrphanAnswered, PollSteps, Disturbances,
      CloseSteps, WatchSteps


(* The watches before anything happens.                                    *)
LEMMA WatchStarts == ASSUME ReaderInit PROVE WatchInv
<1>1. /\ watch = [w \in Watches |-> [pc |-> "none", member |-> FALSE, stopped |-> FALSE]]
      /\ ~ref.loop /\ ref.watched = <<>>
  BY DEF ReaderInit, CoordinatorInit
<1>2. Holders = {}
  BY <1>1 DEF Holders
<1>3. IsFiniteSet(Holders)
  BY <1>2, FS_EmptySet
<1>4. watch \in [Watches -> WatchRec]
  BY <1>1 DEF WatchRec, WatchStates
<1>5. \A w \in Watches : ~watch[w].member
  BY <1>1
<1>6. Counts(ref, Holders)
  BY <1>1, <1>2 DEF Counts
<1> QED
  BY <1>3, <1>4, <1>5, <1>6 DEF WatchInv

(* However watches subscribe, unsubscribe and close, the shared subscription *)
(* counts exactly those that hold it, and the poll loop runs while there is *)
(* one.                                                                    *)
THEOREM SubscriptionsStayExact == Spec => []SubscriptionsExact
<1> DEFINE Inv == CatalogInv /\ CoordInv /\ WatchInv
<1>1. ReaderInit => Inv
  BY CatalogStarts, CoordStarts, WatchStarts
<1>2. Inv /\ [Next]_vars => Inv'
  BY CatalogStep, CoordStep, WatchStepKeeps
<1>3. Inv => SubscriptionsExact
  BY DEF WatchInv, Counts, Holders, SubscriptionsExact
<1> QED
  BY <1>1, <1>2, <1>3, PTL DEF Spec

----------------------------------------------------------------------------
(* The calls of clients.                                                   *)

Ops ==
  {"none", "head", "read", "consume", "fetch", "stamp", "next", "tail", "checkpoint", "resume"}
Pcs ==
  {"idle", "head", "join", "load", "fetch", "find", "lookup", "stamp", "list", "segment",
   "whole", "leased", "reading", "ranges", "open", "block", "begin", "range",
   "tailed", "member", "channel", "wait", "recheck"}
Outs ==
  {"", "ok", "records", "empty", "expired", "ahead", "corrupt", "missing", "closed", "fault",
   "cancelled", "no waiters", "unavailable", "watch closed", "not watched"}
Rec == [lsn : Nat, seg : Segment]

CallType ==
  [op : Ops, pc : Pcs, start : Nat, fresh : STRING \cup {"tail", "cached"}, head : Opt(HeadRec),
   recs : SUBSET Rec, segs : Seq(Segment), hint : Opt(Segment), cause : Outs, ts : Nat,
   search : BOOLEAN, gen : Nat, stop : BOOLEAN, res : Outs]

TailPcs == {"tailed", "member", "channel", "wait", "recheck"}
SearchPcs == {"stamp", "open", "block", "begin", "range"}
ReadPcs ==
  {"list", "segment", "whole", "leased", "reading", "ranges", "open", "block", "begin", "range"}

Reading(k) == k.pc \in ReadPcs /\ ~k.search
Searching(k) == k.pc \in SearchPcs /\ k.search

(* The records read so far are those from the start on, without a gap, of  *)
(* committed segments.                                                     *)
Exact(k) ==
  /\ IsFiniteSet(k.recs)
  /\ LSNs(k.recs) = k.start..NextLSN(k) - 1
  /\ \A r \in k.recs : r.seg \in committed /\ Covers(r.seg, r.lsn)

(* The head the call reads under.                                          *)
Under(k) == k.head # <<>> /\ Known(k.head[1])

(* The next segment of the page holds the next record, unless retention has *)
(* passed the start of the call.                                           *)
Serves(k) ==
  /\ k.segs # <<>> /\ Chain(k.segs)
  /\ k.segs[1].last >= NextLSN(k)
  /\ k.segs[1].base > NextLSN(k) => k.start < part.state.oldest
  /\ k.pc # "segment" => k.segs[1].base <= NextLSN(k)

(* The start is the first record under the head with the timestamp or later. *)
First(k) ==
  LET h == k.head[1]
  IN  /\ k.start >= h.oldest /\ Timestamp(k.start) >= k.ts
      /\ \A l \in h.oldest..k.start - 1 : Timestamp(l) < k.ts

(* The segment under the head that holds that record.                      *)
Found(k) ==
  LET h == k.head[1]
      s == k.segs[1]
  IN  /\ k.segs # <<>> /\ k.start = s.base
      /\ s.base >= h.oldest /\ s.last < h.next /\ Timestamp(s.last) >= k.ts
      /\ \A l \in h.oldest..s.base - 1 : Timestamp(l) < k.ts

Batch(k) ==
  /\ Under(k)
  /\ NextLSN(k) < k.head[1].next /\ Cardinality(k.recs) < Limit(k)
  /\ k.pc # "list" => Serves(k)
  /\ k.op = "stamp" => First(k)

(* Which calls are where.                                                  *)
Phase(k) ==
  /\ k.res = ""
  /\ k.pc \in {"head", "fetch", "find"} \cup TailPcs => k.op # "stamp"
  /\ k.pc \in {"lookup", "stamp"} => k.op = "stamp"
  /\ k.search => k.op = "stamp" /\ k.pc \in {"join", "load", "lookup"} \cup SearchPcs
  /\ k.pc = "stamp" => k.search
  /\ ~Reading(k) => k.recs = {}
  /\ k.pc = "find" => Under(k) /\ k.head[1].oldest <= k.start /\ k.start < k.head[1].next
  /\ Searching(k) => Under(k) /\ Found(k)
  /\ Reading(k) => Batch(k)

(* A batch is within its limit and its head and empty only at the end.     *)
Delivered(k) ==
  LET h == k.head[1]
  IN  /\ Cardinality(k.recs) <= BatchLimit
      /\ k.recs # {} => NextLSN(k) <= h.next
      /\ k.op = "stamp" =>
           LET later == {l \in h.oldest..h.next - 1 : Timestamp(l) >= k.ts}
           IN  IF later = {} THEN k.recs = {} ELSE k.start = Min(later)
      /\ k.op # "stamp" /\ k.recs = {} => k.start >= h.next

(* What a call that has returned has told its caller.                      *)
Told(k) ==
  /\ k.res \in {"records", "empty"} => Delivered(k)
  /\ k.res \in {"expired", "corrupt", "missing"} => k.start < part.state.oldest
  /\ k.res # "no waiters"

CallOK(k) ==
  /\ k \in CallType /\ Exact(k)
  /\ Elements(k.segs) \subseteq committed
  /\ k.hint # <<>> => k.hint[1] \in committed
  /\ k.pc = "idle" => Told(k)
  /\ k.pc # "idle" => Phase(k)

CkptType == [pos : Nat, from : Nat, seen : SUBSET Nat]
CursorType ==
  [pos : Nat, hint : Opt(Segment), ckpt : Opt(CkptType), watch : Opt(Watches),
   closed : BOOLEAN, from : Nat, seen : SUBSET Nat]

Complete(p) == p.from..p.pos - 1 \subseteq p.seen

(* A cursor or tailer and the call that moves it.                          *)
CursorOK(c, k, q) ==
  /\ q \in CursorType /\ Complete(q)
  /\ q.hint # <<>> => q.hint[1] \in committed
  /\ q.ckpt # <<>> => Complete(q.ckpt[1])
  /\ c \in Tailers => k.op \notin {"next", "checkpoint", "resume"}
  /\ c \notin Tailers => k.op # "tail"
  /\ k.pc # "idle" /\ k.op = "tail" => q.watch # <<>>
  /\ k.pc # "idle" /\ k.op \in {"next", "tail", "checkpoint"} => k.start = q.pos
  /\ k.pc # "idle" /\ k.op = "resume" => q.ckpt # <<>> /\ k.start = q.ckpt[1].pos

ClientOK(c, k, q) == CallOK(k) /\ CursorOK(c, k, q)

ClientsInv ==
  /\ cl = [c \in Clients |-> cl[c]] /\ cursor = [c \in Clients |-> cursor[c]]
  /\ \A c \in Clients : ClientOK(c, cl[c], cursor[c])

----------------------------------------------------------------------------
(* The calls after the assignments of each step.                           *)

(* A call that fails.                                                      *)
Failing(k, e) ==
  [k EXCEPT !.recs = {}, !.res = e]

(* Its fields.                                                            *)
LEMMA FailRec ==
  ASSUME NEW k \in CallType, NEW e \in Outs, NEW x, x = Failing(k, e)
  PROVE  /\ x \in CallType /\ x.op = k.op /\ x.pc = k.pc /\ x.start = k.start
         /\ x.head = k.head /\ x.recs = {} /\ x.segs = k.segs /\ x.hint = k.hint
         /\ x.cause = k.cause /\ x.ts = k.ts /\ x.res = e
         /\ (x.search <=> k.search)
<1>1. {} \in SUBSET Rec
  OBVIOUS
<1> QED
  BY <1>1 DEF CallType, Failing

(* A call that starts over.                                                *)
StartingOver(k, e) ==
  [k EXCEPT !.pc = "join", !.cause = e, !.hint = <<>>, !.recs = {}, !.segs = <<>>]

(* Its fields.                                                            *)
LEMMA AnomalyRec ==
  ASSUME NEW k \in CallType, NEW e \in Outs, NEW x, x = StartingOver(k, e)
  PROVE  /\ x \in CallType /\ x.op = k.op /\ x.pc = "join" /\ x.start = k.start
         /\ x.head = k.head /\ x.recs = {} /\ x.segs = <<>> /\ x.hint = <<>>
         /\ x.cause = e /\ x.ts = k.ts /\ x.res = k.res /\ (x.search <=> k.search)
<1>1. "join" \in Pcs /\ <<>> \in Opt(Segment) /\ <<>> \in Seq(Segment) /\ {} \in SUBSET Rec
  BY DEF Pcs, Opt
<1> QED
  BY <1>1 DEF CallType, StartingOver

(* A call that returns.                                                    *)
Idling(k) ==
  [k EXCEPT !.pc = "idle", !.stop = FALSE, !.segs = <<>>, !.hint = <<>>, !.search =
    FALSE, !.gen = 0, !.cause = ""]

(* Its fields.                                                            *)
LEMMA IdleRec ==
  ASSUME NEW k \in CallType, NEW x, x = Idling(k)
  PROVE  /\ x \in CallType /\ x.op = k.op /\ x.pc = "idle" /\ x.start = k.start
         /\ x.head = k.head /\ x.recs = k.recs /\ x.segs = <<>> /\ x.hint = <<>>
         /\ x.cause = "" /\ x.ts = k.ts /\ x.res = k.res /\ ~x.search
<1>1. "idle" \in Pcs /\ "" \in Outs /\ <<>> \in Opt(Segment) /\ <<>> \in Seq(Segment)
  BY DEF Pcs, Outs, Opt
<1> QED
  BY <1>1 DEF CallType, Idling

(* A call that got a head.                                                 *)
Headed(k, h) ==
  [k EXCEPT !.head = <<h>>, !.recs = {}]

(* Its fields.                                                            *)
LEMMA HeadedRec ==
  ASSUME NEW k \in CallType, NEW h \in HeadRec, NEW x, x = Headed(k, h)
  PROVE  /\ x \in CallType /\ x.op = k.op /\ x.pc = k.pc /\ x.start = k.start
         /\ x.head = <<h>> /\ x.recs = {} /\ x.segs = k.segs /\ x.hint = k.hint
         /\ x.cause = k.cause /\ x.ts = k.ts /\ x.res = k.res
         /\ (x.search <=> k.search)
<1>1. <<h>> \in Opt(HeadRec) /\ {} \in SUBSET Rec
  BY DEF Opt
<1> QED
  BY <1>1 DEF CallType, Headed

(* An empty batch.                                                         *)
Emptied(k, h) ==
  [k EXCEPT !.head = <<h>>, !.recs = {}, !.hint = <<>>, !.res = "empty"]

(* Its fields.                                                            *)
LEMMA EmptyRec ==
  ASSUME NEW k \in CallType, NEW h \in HeadRec, NEW x, x = Emptied(k, h)
  PROVE  /\ x \in CallType /\ x.op = k.op /\ x.pc = k.pc /\ x.start = k.start
         /\ x.head = <<h>> /\ x.recs = {} /\ x.segs = k.segs /\ x.hint = <<>>
         /\ x.cause = k.cause /\ x.ts = k.ts /\ x.res = "empty"
         /\ (x.search <=> k.search)
<1>1. "empty" \in Outs /\ <<h>> \in Opt(HeadRec) /\ <<>> \in Opt(Segment) /\ <<>> \in Seq(Segment) /\ {} \in SUBSET Rec
  BY DEF Outs, Opt
<1> QED
  BY <1>1 DEF CallType, Emptied

(* A tailer at the tail.                                                   *)
AtTheTail(k) ==
  [k EXCEPT !.pc = "tailed", !.cause = "", !.head = <<>>, !.res = ""]

(* Its fields.                                                            *)
LEMMA TailedRec ==
  ASSUME NEW k \in CallType, NEW x, x = AtTheTail(k)
  PROVE  /\ x \in CallType /\ x.op = k.op /\ x.pc = "tailed" /\ x.start = k.start
         /\ x.head = <<>> /\ x.recs = k.recs /\ x.segs = k.segs /\ x.hint = k.hint
         /\ x.cause = "" /\ x.ts = k.ts /\ x.res = "" /\ (x.search <=> k.search)
<1>1. "tailed" \in Pcs /\ "" \in Outs /\ <<>> \in Opt(HeadRec)
  BY DEF Pcs, Outs, Opt
<1> QED
  BY <1>1 DEF CallType, AtTheTail

(* A call with a result.                                                   *)
WithResult(k, e) ==
  [k EXCEPT !.res = e]

(* Its fields.                                                            *)
LEMMA ResultRec ==
  ASSUME NEW k \in CallType, NEW e \in Outs, NEW x, x = WithResult(k, e)
  PROVE  /\ x \in CallType /\ x.op = k.op /\ x.pc = k.pc /\ x.start = k.start
         /\ x.head = k.head /\ x.recs = k.recs /\ x.segs = k.segs
         /\ x.hint = k.hint /\ x.cause = k.cause /\ x.ts = k.ts /\ x.res = e
         /\ (x.search <=> k.search)
BY DEF CallType, WithResult

(* A call that moves on.                                                   *)
WithPc(k, p) ==
  [k EXCEPT !.pc = p]

(* Its fields.                                                            *)
LEMMA PcRec ==
  ASSUME NEW k \in CallType, NEW p \in Pcs, NEW x, x = WithPc(k, p)
  PROVE  /\ x \in CallType /\ x.op = k.op /\ x.pc = p /\ x.start = k.start
         /\ x.head = k.head /\ x.recs = k.recs /\ x.segs = k.segs
         /\ x.hint = k.hint /\ x.cause = k.cause /\ x.ts = k.ts /\ x.res = k.res
         /\ (x.search <=> k.search)
BY DEF CallType, WithPc

(* A call with segments to read.                                           *)
WithSegs(k, p, g) ==
  [k EXCEPT !.pc = p, !.segs = g]

(* Its fields.                                                            *)
LEMMA SegsRec ==
  ASSUME NEW k \in CallType, NEW p \in Pcs, NEW g \in Seq(Segment), NEW x, x =
         WithSegs(k, p, g)
  PROVE  /\ x \in CallType /\ x.op = k.op /\ x.pc = p /\ x.start = k.start
         /\ x.head = k.head /\ x.recs = k.recs /\ x.segs = g /\ x.hint = k.hint
         /\ x.cause = k.cause /\ x.ts = k.ts /\ x.res = k.res
         /\ (x.search <=> k.search)
BY DEF CallType, WithSegs

(* A timestamp read with its segment.                                      *)
LookedUp(k, h, g) ==
  [k EXCEPT !.head = <<h>>, !.segs = g]

(* Its fields.                                                            *)
LEMMA LookupRec ==
  ASSUME NEW k \in CallType, NEW h \in HeadRec, NEW g \in Seq(Segment), NEW x, x =
         LookedUp(k, h, g)
  PROVE  /\ x \in CallType /\ x.op = k.op /\ x.pc = k.pc /\ x.start = k.start
         /\ x.head = <<h>> /\ x.recs = k.recs /\ x.segs = g /\ x.hint = k.hint
         /\ x.cause = k.cause /\ x.ts = k.ts /\ x.res = k.res
         /\ (x.search <=> k.search)
<1>1. <<h>> \in Opt(HeadRec)
  BY DEF Opt
<1> QED
  BY <1>1 DEF CallType, LookedUp

(* A timestamp read that searches.                                         *)
SearchFrom(k, l) ==
  [k EXCEPT !.pc = "stamp", !.search = TRUE, !.start = l]

(* Its fields.                                                            *)
LEMMA SearchRec ==
  ASSUME NEW k \in CallType, NEW l \in Nat, NEW x, x = SearchFrom(k, l)
  PROVE  /\ x \in CallType /\ x.op = k.op /\ x.pc = "stamp" /\ x.start = l
         /\ x.head = k.head /\ x.recs = k.recs /\ x.segs = k.segs
         /\ x.hint = k.hint /\ x.cause = k.cause /\ x.ts = k.ts /\ x.res = k.res
         /\ x.search
<1>1. "stamp" \in Pcs
  BY DEF Pcs
<1> QED
  BY <1>1 DEF CallType, SearchFrom

(* A timestamp read that has found its start.                              *)
StampedAt(k, l) ==
  [k EXCEPT !.pc = "list", !.search = FALSE, !.segs = <<>>, !.start = l]

(* Its fields.                                                            *)
LEMMA StampRec ==
  ASSUME NEW k \in CallType, NEW l \in Nat, NEW x, x = StampedAt(k, l)
  PROVE  /\ x \in CallType /\ x.op = k.op /\ x.pc = "list" /\ x.start = l
         /\ x.head = k.head /\ x.recs = k.recs /\ x.segs = <<>> /\ x.hint = k.hint
         /\ x.cause = k.cause /\ x.ts = k.ts /\ x.res = k.res /\ ~x.search
<1>1. "list" \in Pcs /\ <<>> \in Opt(Segment) /\ <<>> \in Seq(Segment)
  BY DEF Pcs, Opt
<1> QED
  BY <1>1 DEF CallType, StampedAt

(* A call with the records of a segment.                                   *)
WithRecs(k, r, g) ==
  [k EXCEPT !.recs = r, !.segs = g]

(* Its fields.                                                            *)
LEMMA RecsRec ==
  ASSUME NEW k \in CallType, NEW r \in SUBSET Rec, NEW g \in Seq(Segment), NEW x, x =
         WithRecs(k, r, g)
  PROVE  /\ x \in CallType /\ x.op = k.op /\ x.pc = k.pc /\ x.start = k.start
         /\ x.head = k.head /\ x.recs = r /\ x.segs = g /\ x.hint = k.hint
         /\ x.cause = k.cause /\ x.ts = k.ts /\ x.res = k.res
         /\ (x.search <=> k.search)
BY DEF CallType, WithRecs

(* A tailer that has looked at the head.                                   *)
WithGen(k, p, n) ==
  [k EXCEPT !.pc = p, !.gen = n]

(* Its fields.                                                            *)
LEMMA GenRec ==
  ASSUME NEW k \in CallType, NEW p \in Pcs, NEW n \in Nat, NEW x, x = WithGen(k, p, n)
  PROVE  /\ x \in CallType /\ x.op = k.op /\ x.pc = p /\ x.start = k.start
         /\ x.head = k.head /\ x.recs = k.recs /\ x.segs = k.segs
         /\ x.hint = k.hint /\ x.cause = k.cause /\ x.ts = k.ts /\ x.res = k.res
         /\ (x.search <=> k.search)
BY DEF CallType, WithGen

(* A call whose position was checked.                                      *)
Placed(k, e) ==
  [k EXCEPT !.pc = "idle", !.res = e, !.stop = FALSE]

(* Its fields.                                                            *)
LEMMA PlacedRec ==
  ASSUME NEW k \in CallType, NEW e \in Outs, NEW x, x = Placed(k, e)
  PROVE  /\ x \in CallType /\ x.op = k.op /\ x.pc = "idle" /\ x.start = k.start
         /\ x.head = k.head /\ x.recs = k.recs /\ x.segs = k.segs
         /\ x.hint = k.hint /\ x.cause = k.cause /\ x.ts = k.ts /\ x.res = e
         /\ (x.search <=> k.search)
<1>1. "idle" \in Pcs
  BY DEF Pcs
<1> QED
  BY <1>1 DEF CallType, Placed

(* A call whose context ended.                                             *)
Stopping(k) ==
  [k EXCEPT !.stop = TRUE]

(* Its fields.                                                            *)
LEMMA StopRec ==
  ASSUME NEW k \in CallType, NEW x, x = Stopping(k)
  PROVE  /\ x \in CallType /\ x.op = k.op /\ x.pc = k.pc /\ x.start = k.start
         /\ x.head = k.head /\ x.recs = k.recs /\ x.segs = k.segs
         /\ x.hint = k.hint /\ x.cause = k.cause /\ x.ts = k.ts /\ x.res = k.res
         /\ (x.search <=> k.search)
BY DEF CallType, Stopping

(* The largest of a set of naturals up to a bound.                         *)
LEMMA MaxOfInterval ==
  ASSUME NEW a \in Nat, NEW b \in Nat, a <= b
  PROVE  Max(a..b) = b
<1>1. b \in a..b /\ \A y \in a..b : b >= y
  OBVIOUS
<1>2. Max(a..b) \in a..b /\ \A y \in a..b : Max(a..b) >= y
  BY <1>1 DEF Max
<1> HIDE DEF Max
<1> QED
  BY <1>1, <1>2

(* No records are exact.                                                   *)
LEMMA ExactEmpty ==
  ASSUME NEW k, k.start \in Nat, k.recs = {}
  PROVE  Exact(k) /\ NextLSN(k) = k.start /\ Cardinality(k.recs) = 0
<1>1. IsFiniteSet(k.recs) /\ Cardinality(k.recs) = 0
  BY FS_EmptySet
<1>2. NextLSN(k) = k.start
  BY <1>1 DEF NextLSN
<1>3. LSNs(k.recs) = {}
  BY DEF LSNs
<1>4. k.start..NextLSN(k) - 1 = {}
  BY <1>2
<1> QED
  BY <1>1, <1>2, <1>3, <1>4 DEF Exact

(* What a call may rely on stays true while the catalog grows.             *)
LEMMA CallGrows ==
  ASSUME CatalogInv, CatalogInv', Grows, NEW k, CallOK(k)
  PROVE  CallOK(k)'
<1>1. /\ part.state.oldest \in Nat /\ part'.state.oldest \in Nat
      /\ part'.state.oldest >= part.state.oldest /\ committed \subseteq committed'
  <2>1. /\ part \in PartType /\ part' \in PartType
    BY DEF CatalogInv, CatalogType, PartType
  <2>2. part.state \in HeadRec /\ part'.state \in HeadRec
    BY <2>1 DEF PartType
  <2> QED
    BY <2>2 DEF HeadRec, Grows
<1>2. k \in CallType /\ k.start \in Nat
  BY DEF CallOK, CallType
<1>3. Exact(k)'
  BY <1>1 DEF CallOK, Exact
<1>4. Under(k) => Under(k)'
  BY KnownStays DEF Under
<1>5. Serves(k) => Serves(k)'
  BY <1>1, <1>2 DEF Serves
<1>6. Batch(k) => Batch(k)'
  BY <1>4, <1>5 DEF Batch
<1>7. Phase(k) => Phase(k)'
  BY <1>4, <1>6 DEF Phase
<1>8. Told(k) => Told(k)'
  <2>1. k.start < part.state.oldest => k.start < part'.state.oldest
    BY <1>1, <1>2
  <2> QED
    BY <2>1 DEF Told
<1> QED
  BY <1>1, <1>2, <1>3, <1>7, <1>8 DEF CallOK

(* And while it does not change.                                           *)
LEMMA CallSame ==
  ASSUME UNCHANGED <<part, committed>>, NEW k, CallOK(k)
  PROVE  CallOK(k)'
<1>1. Exact(k)' <=> Exact(k)
  BY DEF Exact
<1>2. Under(k)' <=> Under(k)
  BY DEF Under, Known
<1>3. Serves(k)' <=> Serves(k)
  BY DEF Serves
<1>4. Batch(k)' <=> Batch(k)
  BY <1>2, <1>3 DEF Batch
<1>5. Phase(k)' <=> Phase(k)
  BY <1>2, <1>4 DEF Phase
<1>6. Told(k)' <=> Told(k)
  BY DEF Told
<1> QED
  BY <1>1, <1>5, <1>6 DEF CallOK

(* The cursor's part likewise.                                             *)
LEMMA CursorGrows ==
  ASSUME committed \subseteq committed', NEW c, NEW k, NEW q, CursorOK(c, k, q)
  PROVE  CursorOK(c, k, q)'
BY DEF CursorOK

(* The other clients are where they were.                                  *)
LEMMA ClientsFrom ==
  ASSUME ClientsInv, NEW c \in Clients, NEW k, NEW q, UNCHANGED <<part, committed>>,
         ClientOK(c, k, q), cl' = [cl EXCEPT ![c] = k], cursor' = [cursor EXCEPT ![c] = q]
  PROVE  ClientsInv'
<1>1. /\ cl = [x \in Clients |-> cl[x]] /\ cursor = [x \in Clients |-> cursor[x]]
      /\ \A x \in Clients : ClientOK(x, cl[x], cursor[x])
  BY DEF ClientsInv
<1>2. /\ cl' = [x \in Clients |-> IF x = c THEN k ELSE cl[x]]
      /\ cursor' = [x \in Clients |-> IF x = c THEN q ELSE cursor[x]]
  BY <1>1
<1>3. /\ cl' = [x \in Clients |-> cl'[x]] /\ cursor' = [x \in Clients |-> cursor'[x]]
      /\ \A x \in Clients : cl'[x] = IF x = c THEN k ELSE cl[x]
      /\ \A x \in Clients : cursor'[x] = IF x = c THEN q ELSE cursor[x]
  BY <1>2
<1>4. ASSUME NEW x \in Clients PROVE ClientOK(x, cl[x], cursor[x])'
  <2>1. PICK j : j = cl'[x]
    OBVIOUS
  <2>2. PICK p : p = cursor'[x]
    OBVIOUS
  <2>3. ClientOK(x, j, p)
    BY <1>1, <1>3, <2>1, <2>2
  <2>4. CallOK(j)' /\ CursorOK(x, j, p)'
    BY <2>3, CallSame, CursorGrows DEF ClientOK
  <2> QED
    BY <2>1, <2>2, <2>4 DEF ClientOK
<1> QED
  BY <1>3, <1>4 DEF ClientsInv

(* The cursor after one field of it changed, or none.                      *)
LEMMA CursorKept ==
  ASSUME ClientsInv, NEW c \in Clients
  PROVE  cursor = [cursor EXCEPT ![c] = cursor[c]] /\ cl = [cl EXCEPT ![c] = cl[c]]
BY DEF ClientsInv

(* A step of a call that goes on.                                          *)
LEMMA StaysOK ==
  ASSUME ClientsInv, NEW c \in Clients, NEW k, CallOK(k), Stays(c, k), cl[c].pc # "idle",
         k.op = cl[c].op,
         k.start = cl[c].start \/ k.op = "stamp",
         UNCHANGED <<part, committed>>
  PROVE  ClientsInv'
<1>1. PICK q : q = cursor[c]
  OBVIOUS
<1>2. CursorOK(c, cl[c], q)
  BY <1>1 DEF ClientsInv, ClientOK
<1>3. CursorOK(c, k, q)
  BY <1>2 DEF CursorOK
<1>4. cl' = [cl EXCEPT ![c] = k] /\ cursor' = [cursor EXCEPT ![c] = q]
  BY <1>1, CursorKept DEF Stays
<1> QED
  BY <1>3, <1>4, ClientsFrom DEF ClientOK

(* A cursor that took a batch.                                             *)
Taking(q, h, p, S) == [q EXCEPT !.hint = h, !.pos = p, !.seen = @ \cup S]

(* Its fields.                                                             *)
LEMMA CursorTakes ==
  ASSUME NEW q \in CursorType, NEW h \in Opt(Segment), NEW p \in Nat, NEW S \in SUBSET Nat,
         NEW y, y = Taking(q, h, p, S)
  PROVE  /\ y \in CursorType /\ y.pos = p /\ y.hint = h /\ y.ckpt = q.ckpt
         /\ y.watch = q.watch /\ y.from = q.from /\ y.seen = q.seen \cup S
<1>1. PICK T : T = q.seen \cup S
  OBVIOUS
<1>2. T \in SUBSET Nat
  BY <1>1 DEF CursorType
<1>3. y = [q EXCEPT !.hint = h, !.pos = p, !.seen = T]
  BY <1>1 DEF CursorType, Taking
<1> QED
  BY <1>1, <1>2, <1>3 DEF CursorType

(* The LSNs of exact records and the position after them.                  *)
LEMMA ExactLSNs ==
  ASSUME NEW k \in CallType, Exact(k)
  PROVE  /\ NextLSN(k) \in Nat /\ NextLSN(k) >= k.start /\ Cardinality(k.recs) \in Nat
         /\ LSNs(k.recs) \in SUBSET Nat
         /\ k.recs = {} => NextLSN(k) = k.start
         /\ k.recs # {} => NextLSN(k) > k.start /\ Max(LSNs(k.recs)) + 1 = NextLSN(k)
<1>1. k.start \in Nat /\ IsFiniteSet(k.recs) /\ Cardinality(k.recs) \in Nat
  BY FS_CardinalityType DEF CallType, Exact
<1>2. NextLSN(k) = k.start + Cardinality(k.recs)
  BY DEF NextLSN
<1>3. LSNs(k.recs) = k.start..NextLSN(k) - 1
  BY DEF Exact
<1>4. Cardinality(k.recs) = 0 <=> k.recs = {}
  BY <1>1, FS_EmptySet
<1>5. PICK n \in Nat : n = NextLSN(k)
  BY <1>1, <1>2
<1>6. ASSUME k.recs # {} PROVE Max(LSNs(k.recs)) + 1 = n
  <2>1. n - 1 \in Nat /\ k.start <= n - 1
    BY <1>1, <1>2, <1>4, <1>5, <1>6
  <2>2. Max(k.start..n - 1) = n - 1
    BY <1>1, <2>1, MaxOfInterval
  <2> QED
    BY <1>3, <1>5, <2>1, <2>2
<1> QED
  BY <1>1, <1>2, <1>3, <1>4, <1>5, <1>6

(* A call is told what its fields say.                                     *)
LEMMA ToldSame ==
  ASSUME NEW k, NEW x, Told(k), x.op = k.op, x.start = k.start, x.head = k.head,
         x.recs = k.recs, x.ts = k.ts, x.res = k.res
  PROVE  Told(x)
BY DEF Told, Delivered, NextLSN

(* The records of a call that differs elsewhere.                           *)
LEMMA ExactSame ==
  ASSUME NEW k, NEW x, Exact(k), x.start = k.start, x.recs = k.recs
  PROVE  Exact(x) /\ NextLSN(x) = NextLSN(k)
BY DEF Exact, NextLSN

(* No segments.                                                            *)
LEMMA NoElements == Elements(<<>>) = {}
BY DEF Elements

(* A call returns.                                                         *)
LEMMA ReturnsOK ==
  ASSUME ClientsInv, NEW c \in Clients, NEW k \in CallType, Exact(k), Told(k),
         cl[c].pc # "idle", k.op = cl[c].op, k.start = cl[c].start,
         NEW hint \in Opt(Segment), hint # <<>> => hint[1] \in committed,
         Returns(c, k, hint), UNCHANGED <<part, committed>>
  PROVE  ClientsInv'
<1> DEFINE dropped == cl[c].op = "tail" /\ cursor[c].closed
<1>1. PICK o : o = IF dropped THEN Failing(k, "cancelled") ELSE k
  OBVIOUS
<1>2. PICK x : x = Idling(o)
  OBVIOUS
<1>3. o \in CallType /\ Exact(o) /\ Told(o) /\ o.op = k.op /\ o.start = k.start
  <2>1. CASE dropped
    <3>1. "cancelled" \in Outs
      BY DEF Outs
    <3>2. /\ o \in CallType /\ o.op = k.op /\ o.start = k.start /\ o.recs = {}
          /\ o.res = "cancelled" /\ o.start \in Nat
      BY <1>1, <2>1, <3>1, FailRec DEF CallType
    <3> QED
      BY <3>2, ExactEmpty DEF Told
  <2>2. CASE ~dropped
    BY <1>1, <2>2
  <2> QED
    BY <2>1, <2>2
<1>4. /\ x \in CallType /\ x.op = o.op /\ x.pc = "idle" /\ x.start = o.start
      /\ x.head = o.head /\ x.recs = o.recs /\ x.segs = <<>> /\ x.hint = <<>>
      /\ x.ts = o.ts /\ x.res = o.res
  BY <1>2, <1>3, IdleRec
<1>5. CallOK(x)
  <2>1. Exact(x)
    BY <1>3, <1>4, ExactSame
  <2>2. Told(x)
    BY <1>3, <1>4, ToldSame
  <2>3. Elements(x.segs) = {}
    BY <1>4, NoElements
  <2> QED
    BY <1>4, <2>1, <2>2, <2>3 DEF CallOK
<1>6. PICK q : q = cursor[c]
  OBVIOUS
<1>7. CursorOK(c, cl[c], q)
  BY <1>6 DEF ClientsInv, ClientOK
<1>8. cl' = [cl EXCEPT ![c] = x]
  BY <1>1, <1>2 DEF Returns, Idling, Failing
<1>9. CASE ~Follows(c) \/ dropped
  <2>1. cursor' = [cursor EXCEPT ![c] = q]
    BY <1>6, <1>9, CursorKept DEF Returns
  <2>2. CursorOK(c, x, q)
    BY <1>3, <1>4, <1>7 DEF CursorOK
  <2> QED
    BY <1>5, <1>8, <2>1, <2>2, ClientsFrom DEF ClientOK
<1>10. CASE Follows(c) /\ ~dropped
  <2>1. PICK p : p = IF o.recs = {} THEN q.pos ELSE Max(LSNs(o.recs)) + 1
    OBVIOUS
  <2>2. PICK S : S = LSNs(o.recs)
    OBVIOUS
  <2>3. PICK y : y = Taking(q, hint, p, S)
    OBVIOUS
  <2>4. cursor' = [cursor EXCEPT ![c] = y]
    BY <1>1, <1>6, <1>10, <2>1, <2>2, <2>3 DEF Returns, Taking, Failing
  <2>5. /\ q \in CursorType /\ q.pos \in Nat /\ q.from \in Nat /\ Complete(q)
        /\ o.start = q.pos
    BY <1>3, <1>7, <1>10 DEF CursorOK, CursorType, Follows
  <2>6. S = q.pos..p - 1 /\ p \in Nat /\ S \in SUBSET Nat /\ p >= q.pos
    BY <1>3, <2>1, <2>2, <2>5, ExactLSNs DEF Exact
  <2>7. /\ y \in CursorType /\ y.pos = p /\ y.hint = hint /\ y.ckpt = q.ckpt
        /\ y.watch = q.watch /\ y.from = q.from /\ y.seen = q.seen \cup S
    BY <2>3, <2>5, <2>6, CursorTakes
  <2>8. Complete(y)
    BY <2>5, <2>6, <2>7 DEF Complete
  <2>9. CursorOK(c, x, y)
    BY <1>3, <1>4, <1>7, <2>7, <2>8 DEF CursorOK
  <2> QED
    BY <1>5, <1>8, <2>4, <2>9, ClientsFrom DEF ClientOK
<1> QED
  BY <1>9, <1>10

(* An error a call may end with.                                           *)
Fault(e, lsn) ==
  /\ e \in Outs /\ e \notin {"records", "empty", "no waiters"}
  /\ e \in {"expired", "corrupt", "missing"} => lsn < part.state.oldest

(* A call fails.                                                           *)
LEMMA FailsOK ==
  ASSUME ClientsInv, NEW c \in Clients, cl[c].pc # "idle",
         NEW e, Fault(e, cl[c].start),
         NEW hint \in Opt(Segment), hint # <<>> => hint[1] \in committed,
         Fails(c, e, hint), UNCHANGED <<part, committed>>
  PROVE  ClientsInv'
<1>1. PICK k : k = Failing(cl[c], e)
  OBVIOUS
<1>2. cl[c] \in CallType
  BY DEF ClientsInv, ClientOK, CallOK
<1>7. PICK j \in CallType : j = cl[c]
  BY <1>2
<1>8. e \in Outs
  BY DEF Fault
<1>3. /\ k \in CallType /\ k.op = cl[c].op /\ k.start = cl[c].start /\ k.recs = {}
      /\ k.res = e
  BY <1>1, <1>7, <1>8, FailRec
<1>4. Exact(k)
  BY <1>3, ExactEmpty DEF CallType
<1>5. Told(k)
  BY <1>3 DEF Told, Fault
<1>6. Returns(c, k, hint)
  BY <1>1 DEF Fails, Failing
<1> QED
  BY <1>3, <1>4, <1>5, <1>6, ReturnsOK

(* The hint of a call and that of its cursor.                              *)
LEMMA Hints ==
  ASSUME ClientsInv, NEW c \in Clients
  PROVE  /\ cl[c] \in CallType /\ cl[c].hint \in Opt(Segment)
         /\ cl[c].hint # <<>> => cl[c].hint[1] \in committed
         /\ cursor[c] \in CursorType /\ cursor[c].hint \in Opt(Segment)
         /\ cursor[c].hint # <<>> => cursor[c].hint[1] \in committed
         /\ <<>> \in Opt(Segment)
<1>1. CallOK(cl[c]) /\ CursorOK(c, cl[c], cursor[c])
  BY DEF ClientsInv, ClientOK
<1>2. cl[c] \in CallType /\ (cl[c].hint # <<>> => cl[c].hint[1] \in committed)
  BY <1>1 DEF CallOK
<1>3. cursor[c] \in CursorType /\ (cursor[c].hint # <<>> => cursor[c].hint[1] \in committed)
  BY <1>1 DEF CursorOK
<1> QED
  BY <1>2, <1>3 DEF CallType, CursorType, Opt

(* A call without records that waits for a head.                           *)
LEMMA WaitingOK ==
  ASSUME NEW k \in CallType, k.recs = {}, k.res = "", Elements(k.segs) \subseteq committed,
         k.hint # <<>> => k.hint[1] \in committed,
         k.pc \in {"head", "join", "load", "fetch", "lookup"} \cup TailPcs,
         k.pc \in {"head", "fetch"} \cup TailPcs => k.op # "stamp",
         k.pc = "lookup" => k.op = "stamp",
         k.search => k.op = "stamp" /\ k.pc \in {"join", "load", "lookup"}
  PROVE  CallOK(k)
<1>1. Exact(k)
  BY ExactEmpty DEF CallType
<1>2. k.pc \notin {"idle", "find", "stamp"} /\ ~Reading(k) /\ ~Searching(k)
  BY DEF Reading, Searching, ReadPcs, SearchPcs, TailPcs
<1>3. Phase(k)
  BY <1>2 DEF Phase
<1> QED
  BY <1>1, <1>2, <1>3 DEF CallOK

(* A call starts over or fails.                                            *)
LEMMA AnomalyOK ==
  ASSUME ClientsInv, NEW c \in Clients, cl[c].pc # "idle",
         NEW e, Fault(e, cl[c].start),
         Anomaly(c, e), UNCHANGED <<part, committed>>
  PROVE  ClientsInv'
<1>1. CASE cl[c].cause # ""
  <2>1. Fails(c, e, <<>>)
    BY <1>1 DEF Anomaly
  <2> QED
    BY <2>1, FailsOK, Hints
<1>2. CASE cl[c].cause = ""
  <2>1. PICK k : k = StartingOver(cl[c], e)
    OBVIOUS
  <2>2. Stays(c, k)
    BY <1>2, <2>1 DEF Anomaly, StartingOver
  <2>3. CallOK(cl[c])
    BY DEF ClientsInv, ClientOK
  <2>8. PICK j \in CallType : j = cl[c]
    BY <2>3 DEF CallOK
  <2>9. e \in Outs
    BY DEF Fault
  <2>4. /\ k \in CallType /\ k.op = cl[c].op /\ k.pc = "join" /\ k.start = cl[c].start
        /\ k.recs = {} /\ k.segs = <<>> /\ k.hint = <<>> /\ k.res = cl[c].res
        /\ (k.search <=> cl[c].search)
    BY <2>1, <2>8, <2>9, AnomalyRec
  <2>5. k.res = "" /\ (k.search => k.op = "stamp")
    BY <2>3, <2>4 DEF CallOK, Phase
  <2>6. Elements(k.segs) = {}
    BY <2>4, NoElements
  <2>7. CallOK(k)
    BY <2>4, <2>5, <2>6, WaitingOK DEF TailPcs
  <2> QED
    BY <2>2, <2>4, <2>7, StaysOK
<1> QED
  BY <1>1, <1>2

(* The fields of a typed call.                                             *)
LEMMA CallFields ==
  ASSUME NEW k \in CallType
  PROVE  /\ k.op \in Ops /\ k.pc \in Pcs /\ k.start \in Nat /\ k.head \in Opt(HeadRec)
         /\ k.recs \in SUBSET Rec /\ k.segs \in Seq(Segment) /\ k.hint \in Opt(Segment)
         /\ k.ts \in Nat /\ k.search \in BOOLEAN
BY DEF CallType

(* A call that reads.                                                      *)
LEMMA ReadingOK ==
  ASSUME NEW k \in CallType, Exact(k), Elements(k.segs) \subseteq committed,
         k.hint # <<>> => k.hint[1] \in committed,
         Reading(k), k.res = "", Batch(k)
  PROVE  CallOK(k)
<1>1. /\ k.pc \notin {"idle", "head", "fetch", "find", "lookup", "stamp"} \cup TailPcs
      /\ ~k.search /\ ~Searching(k)
  BY DEF Reading, Searching, ReadPcs, TailPcs
<1>2. Phase(k)
  BY <1>1 DEF Phase
<1> QED
  BY <1>1, <1>2 DEF CallOK

(* A call that searches a timestamp.                                       *)
LEMMA SearchingOK ==
  ASSUME NEW k \in CallType, k.recs = {}, Elements(k.segs) \subseteq committed,
         k.hint # <<>> => k.hint[1] \in committed,
         Searching(k), k.res = "", k.op = "stamp", Under(k), Found(k)
  PROVE  CallOK(k)
<1>1. /\ k.pc \notin {"idle", "head", "fetch", "find", "lookup"} \cup TailPcs
      /\ k.search /\ ~Reading(k) /\ k.pc \in SearchPcs
  BY DEF Reading, Searching, SearchPcs, TailPcs
<1>2. Exact(k)
  BY ExactEmpty, CallFields
<1>3. Phase(k)
  BY <1>1 DEF Phase
<1> QED
  BY <1>1, <1>2, <1>3 DEF CallOK

(* There is nothing to read under the head.                                *)
Nothing(k, h) ==
  IF k.op = "stamp" THEN {l \in h.oldest..h.next - 1 : Timestamp(l) >= k.ts} = {}
  ELSE k.start >= h.next

(* An empty batch.                                                         *)
LEMMA EmptyOK ==
  ASSUME ClientsInv, NEW c \in Clients, cl[c].pc # "idle", NEW h \in HeadRec,
         Nothing(cl[c], h), Empty(c, h), UNCHANGED <<part, committed>>
  PROVE  ClientsInv'
<1>1. PICK j \in CallType : j = cl[c]
  BY Hints
<1>2. CallOK(j) /\ Phase(j)
  BY <1>1 DEF ClientsInv, ClientOK, CallOK
<1>3. PICK k : k = Emptied(j, h)
  OBVIOUS
<1>4. /\ k \in CallType /\ k.op = j.op /\ k.start = j.start /\ k.head = <<h>> /\ k.recs = {}
      /\ k.segs = j.segs /\ k.hint = <<>> /\ k.ts = j.ts /\ k.res = "empty"
      /\ (k.search <=> j.search)
  BY <1>3, EmptyRec
<1>5. CASE cl[c].op = "tail"
  <2>1. PICK x : x = AtTheTail(k)
    OBVIOUS
  <2>2. Stays(c, x)
    BY <1>1, <1>3, <1>5, <2>1 DEF Empty, Emptied, AtTheTail
  <2>3. /\ x \in CallType /\ x.op = k.op /\ x.pc = "tailed" /\ x.start = k.start
        /\ x.recs = k.recs /\ x.segs = k.segs /\ x.hint = k.hint /\ x.res = ""
        /\ (x.search <=> k.search)
    BY <1>4, <2>1, TailedRec, ZenonT(40)
  <2>4. Elements(x.segs) \subseteq committed /\ ~x.search
    BY <1>1, <1>2, <1>4, <1>5, <2>3 DEF CallOK, Phase
  <2>5. CallOK(x)
    BY <1>1, <1>4, <1>5, <2>3, <2>4, WaitingOK DEF TailPcs
  <2> QED
    BY <1>1, <1>4, <2>2, <2>3, <2>5, StaysOK
<1>6. CASE cl[c].op # "tail"
  <2>1. Returns(c, k, <<>>)
    BY <1>1, <1>3, <1>6 DEF Empty, Emptied
  <2>2. Exact(k) /\ Cardinality(k.recs) = 0
    BY <1>4, ExactEmpty, CallFields
  <2>3. Delivered(k)
    BY <1>1, <1>4, <2>2, ReaderAssumption DEF Delivered, Nothing
  <2>4. Told(k)
    BY <1>4, <2>3 DEF Told
  <2> QED
    BY <1>1, <1>4, <2>1, <2>2, <2>4, ReturnsOK, Hints
<1> QED
  BY <1>5, <1>6

(* One segment is a chain.                                                 *)
LEMMA ChainOne ==
  ASSUME NEW s
  PROVE  Chain(<<s>>) /\ Elements(<<s>>) = {s} /\ <<s>> # <<>> /\ <<s>>[1] = s
<1>1. Len(<<s>>) = 1 /\ <<s>>[1] = s
  OBVIOUS
<1>2. \A i \in 1..1 : i = 1
  OBVIOUS
<1>3. 1..(1 - 1) = {}
  OBVIOUS
<1> QED
  BY <1>1, <1>2, <1>3 DEF Chain, Elements

(* A call may read at least one record.                                    *)
LEMMA LimitIs ==
  ASSUME NEW k
  PROVE  Limit(k) \in Nat /\ 0 < Limit(k) /\ Limit(k) <= BatchLimit
BY ReaderAssumption DEF Limit

(* A call that is not a timestamp read goes on with a known head.          *)
LEMMA UseHeadOK ==
  ASSUME ClientsInv, CatalogInv, NEW c \in Clients, cl[c].pc # "idle", cl[c].op # "stamp",
         NEW h, Known(h), UseHead(c, h), UNCHANGED <<part, committed>>
  PROVE  ClientsInv'
<1>1. PICK j \in CallType : j = cl[c]
  BY Hints
<1>2. CallOK(j) /\ Phase(j) /\ ~j.search /\ j.res = ""
  BY <1>1 DEF ClientsInv, ClientOK, CallOK, Phase
<1>3. /\ h \in HeadRec /\ h.oldest \in Nat /\ h.next \in Nat /\ h.oldest <= part.state.oldest
      /\ part.state.oldest \in Nat
  BY CatalogTyped DEF Known, HeadRec
<1>4. PICK k : k = Headed(j, h)
  OBVIOUS
<1>5. /\ k \in CallType /\ k.op = j.op /\ k.pc = j.pc /\ k.start = j.start /\ k.head = <<h>>
      /\ k.recs = {} /\ k.segs = j.segs /\ k.hint = j.hint /\ k.res = j.res /\ ~k.search
  <2>1. h \in HeadRec
    BY <1>3
  <2>2. /\ k \in CallType /\ k.op = j.op /\ k.pc = j.pc /\ k.start = j.start
        /\ k.head = <<h>> /\ k.recs = {} /\ k.segs = j.segs /\ k.hint = j.hint
        /\ k.res = j.res /\ (k.search <=> j.search)
    BY <1>4, <2>1, HeadedRec
  <2> QED
    BY <1>2, <2>2
<1>6. k.start \in Nat /\ Exact(k) /\ NextLSN(k) = k.start /\ Cardinality(k.recs) = 0
  BY <1>5, CallFields, ExactEmpty
<1>7. CASE k.op = "head"
  <2>1. PICK x : x = WithResult(k, "ok")
    OBVIOUS
  <2>2. Returns(c, x, <<>>)
    BY <1>1, <1>4, <1>7, <2>1 DEF UseHead, Headed, WithResult
  <2>3. "ok" \in Outs
    BY DEF Outs
  <2>4. /\ x \in CallType /\ x.op = k.op /\ x.start = k.start /\ x.recs = k.recs /\ x.res = "ok"
    BY <1>5, <2>1, <2>3, ResultRec
  <2>5. Exact(x)
    BY <1>6, <2>4, ExactSame
  <2>6. Told(x)
    BY <2>4 DEF Told
  <2> QED
    BY <1>1, <1>5, <2>2, <2>4, <2>5, <2>6, ReturnsOK, Hints
<1>8. CASE k.op # "head" /\ k.start < h.oldest
  <2>1. Fails(c, "expired", <<>>)
    BY <1>1, <1>4, <1>8 DEF UseHead, Headed
  <2>2. Fault("expired", cl[c].start)
    BY <1>1, <1>3, <1>5, <1>6, <1>8 DEF Fault, Outs
  <2> QED
    BY <2>1, <2>2, FailsOK, Hints
<1>9. CASE k.op # "head" /\ ~(k.start < h.oldest) /\ k.start >= h.next
  <2>1. Empty(c, h)
    BY <1>1, <1>4, <1>9 DEF UseHead, Headed
  <2>2. Nothing(cl[c], h)
    BY <1>1, <1>5, <1>9 DEF Nothing
  <2> QED
    BY <1>3, <2>1, <2>2, EmptyOK
<1>10. CASE k.op # "head" /\ ~(k.start < h.oldest) /\ ~(k.start >= h.next)
  <2>1. h.last # <<>> /\ h.oldest <= k.start /\ k.start < h.next
    BY <1>3, <1>6, <1>10 DEF Known
  <2>2. Under(k)
    BY <1>5 DEF Under
  <2>3. Elements(k.segs) \subseteq committed /\ (k.hint # <<>> => k.hint[1] \in committed)
    BY <1>2, <1>5 DEF CallOK
  <2>4. k.head[1] = h
    BY <1>5
  <2>5. CASE k.op = "fetch"
    <3>1. PICK x : x = WithPc(k, "find")
      OBVIOUS
    <3>2. Stays(c, x)
      BY <1>1, <1>4, <1>5, <1>10, <2>1, <2>5, <3>1 DEF UseHead, Headed, WithPc
    <3>3. "find" \in Pcs
      BY DEF Pcs
    <3>4. /\ x \in CallType /\ x.op = k.op /\ x.pc = "find" /\ x.start = k.start
          /\ x.head = k.head /\ x.recs = k.recs /\ x.segs = k.segs /\ x.hint = k.hint
          /\ x.res = k.res /\ (x.search <=> k.search)
      BY <1>5, <3>1, <3>3, PcRec
    <3>5. Exact(x)
      BY <1>6, <3>4, ExactSame
    <3>6. ~Reading(x) /\ ~Searching(x) /\ ~x.search
      BY <1>5, <3>4 DEF Reading, Searching, ReadPcs, SearchPcs
    <3>7. Under(x)
      BY <2>2, <3>4 DEF Under
    <3>8. Phase(x)
      BY <1>2, <1>5, <2>1, <2>4, <2>5, <3>4, <3>6, <3>7 DEF Phase, TailPcs
    <3>9. CallOK(x)
      BY <2>3, <3>4, <3>5, <3>8 DEF CallOK
    <3> QED
      BY <1>1, <1>5, <3>2, <3>4, <3>9, StaysOK
  <2>6. CASE k.op # "fetch" /\ segmentHintContains(k.hint, k.start)
    <3>1. PICK s \in Segment : k.hint = <<s>> /\ Covers(s, k.start)
      BY <1>5, <2>6, CallFields DEF segmentHintContains, Opt
    <3>2. PICK x : x = WithSegs(k, "segment", k.hint)
      OBVIOUS
    <3>3. Stays(c, x)
      BY <1>1, <1>4, <1>5, <1>10, <2>1, <2>6, <3>2 DEF UseHead, Headed, WithSegs
    <3>4. "segment" \in Pcs /\ k.hint \in Seq(Segment)
      BY <3>1 DEF Pcs
    <3>5. /\ x \in CallType /\ x.op = k.op /\ x.pc = "segment" /\ x.start = k.start
          /\ x.head = k.head /\ x.recs = k.recs /\ x.segs = k.hint /\ x.hint = k.hint
          /\ x.res = k.res /\ (x.search <=> k.search)
      BY <1>5, <3>2, <3>4, SegsRec
    <3>6. Exact(x) /\ NextLSN(x) = k.start
      BY <1>6, <3>5, ExactSame
    <3>7. /\ Chain(x.segs) /\ Elements(x.segs) = {s} /\ x.segs # <<>> /\ x.segs[1] = s
          /\ s \in committed
      BY <2>3, <3>1, <3>5, ChainOne
    <3>8. s.base \in Nat /\ s.last \in Nat /\ s.base <= k.start /\ k.start <= s.last
      BY <3>1, SegmentIs DEF Covers
    <3>9. Serves(x)
      BY <1>6, <3>6, <3>7, <3>8, <3>5 DEF Serves
    <3>10. Batch(x)
      <4>1. Under(x) /\ x.head[1] = h
        BY <2>2, <2>4, <3>5 DEF Under
      <4>2. Cardinality(x.recs) < Limit(x)
        BY <1>6, <3>5, LimitIs
      <4> QED
        BY <1>1, <1>5, <2>1, <3>5, <3>6, <3>9, <4>1, <4>2 DEF Batch
    <3>11. Reading(x)
      BY <1>5, <3>5 DEF Reading, ReadPcs
    <3>12. CallOK(x)
      BY <1>2, <1>5, <2>3, <3>5, <3>6, <3>7, <3>10, <3>11, ReadingOK
    <3> QED
      BY <1>1, <1>5, <3>3, <3>5, <3>12, StaysOK
  <2>7. CASE k.op # "fetch" /\ ~segmentHintContains(k.hint, k.start)
    <3>2. PICK x : x = WithPc(k, "list")
      OBVIOUS
    <3>3. Stays(c, x)
      BY <1>1, <1>4, <1>5, <1>10, <2>1, <2>7, <3>2 DEF UseHead, Headed, WithPc
    <3>4. "list" \in Pcs
      BY DEF Pcs
    <3>5. /\ x \in CallType /\ x.op = k.op /\ x.pc = "list" /\ x.start = k.start
          /\ x.head = k.head /\ x.recs = k.recs /\ x.segs = k.segs /\ x.hint = k.hint
          /\ x.res = k.res /\ (x.search <=> k.search)
      BY <1>5, <3>2, <3>4, PcRec
    <3>6. Exact(x) /\ NextLSN(x) = k.start
      BY <1>6, <3>5, ExactSame
    <3>10. Batch(x)
      <4>1. Under(x) /\ x.head[1] = h
        BY <2>2, <2>4, <3>5 DEF Under
      <4>2. Cardinality(x.recs) < Limit(x)
        BY <1>6, <3>5, LimitIs
      <4> QED
        BY <1>1, <1>5, <2>1, <3>5, <3>6, <4>1, <4>2 DEF Batch
    <3>11. Reading(x)
      BY <1>5, <3>5 DEF Reading, ReadPcs
    <3>12. CallOK(x)
      BY <1>2, <1>5, <2>3, <3>5, <3>6, <3>10, <3>11, ReadingOK
    <3> QED
      BY <1>1, <1>5, <3>3, <3>5, <3>12, StaysOK
  <2> QED
    BY <2>5, <2>6, <2>7
<1> QED
  BY <1>7, <1>8, <1>9, <1>10

(* Timestamps do not decrease.                                             *)
LEMMA TimestampGrows ==
  ASSUME NEW a \in Nat, NEW b \in Nat, a <= b
  PROVE  Timestamp(a) \in Nat /\ Timestamp(b) \in Nat /\ Timestamp(a) <= Timestamp(b)
BY DEF Timestamp

(* The records of a part of a segment.                                     *)
Part(s, n, m) == {[lsn |-> l, seg |-> s] : l \in n..m}

(* They are as many as their LSNs.                                         *)
Counted(P, s, n, m) ==
  /\ IsFiniteSet(P) /\ Cardinality(P) = m - n + 1
  /\ P \subseteq Rec
  /\ \A r \in P : r.seg = s /\ r.lsn \in n..m
  /\ \A l \in n..m : \E r \in P : r.lsn = l

(* A part of a segment holds one record for each of its LSNs.              *)
LEMMA PartIs ==
  ASSUME NEW s \in Segment, NEW n \in Nat, NEW m \in Nat, n <= m
  PROVE  Counted(Part(s, n, m), s, n, m)
<1> DEFINE T == Part(s, n, m)
           f == [l \in n..m |-> [lsn |-> l, seg |-> s]]
<1>1. IsFiniteSet(n..m) /\ Cardinality(n..m) = m - n + 1
  BY FS_Interval
<1>2. f \in Surjection(n..m, T)
  BY DEF Surjection, Part
<1>3. f \in Injection(n..m, T)
  <2>1. f \in [n..m -> T]
    BY DEF Part
  <2>2. \A a, b \in n..m : f[a] = f[b] => a = b
    <3> SUFFICES ASSUME NEW a \in n..m, NEW b \in n..m, f[a] = f[b] PROVE a = b
      OBVIOUS
    <3>1. f[a].lsn = a /\ f[b].lsn = b
      OBVIOUS
    <3> QED
      BY <3>1
  <2> HIDE DEF f, T
  <2> QED
    BY <2>1, <2>2 DEF Injection, IsInjective
<1>4. IsFiniteSet(T) /\ Cardinality(T) = m - n + 1
  <2> HIDE DEF T, f
  <2> QED
    BY <1>1, <1>2, <1>3, FS_Surjection
<1>5. n..m \subseteq Nat
  OBVIOUS
<1>6. T \subseteq Rec /\ \A r \in T : r.seg = s /\ r.lsn \in n..m
  BY <1>5 DEF Part, Rec
<1>7. \A l \in n..m : \E r \in T : r.lsn = l
  <2> TAKE l \in n..m
  <2>1. [lsn |-> l, seg |-> s] \in T
    BY DEF Part
  <2> QED
    BY <2>1
<1> QED
  BY <1>4, <1>6, <1>7 DEF Counted

(* The records from `a` to `m`, each of a committed segment that holds it.  *)
Covered(R, a, m) ==
  /\ IsFiniteSet(R) /\ R \in SUBSET Rec
  /\ a + Cardinality(R) = m + 1
  /\ LSNs(R) = a..m
  /\ \A r \in R : r.seg \in committed /\ Covers(r.seg, r.lsn)

(* The records of a call after those of a part of a segment.               *)
LEMMA RecsGrow ==
  ASSUME NEW j \in CallType, Exact(j), NEW s \in Segment, s \in committed, NEW m \in Nat,
         NEW n, n = NextLSN(j), s.base <= n, n <= m, m <= s.last,
         NEW R, R = j.recs \cup Part(s, n, m)
  PROVE  Covered(R, j.start, m)
<1>1. n = NextLSN(j)
  OBVIOUS
<1>2. /\ n \in Nat /\ n >= j.start /\ j.start \in Nat /\ Cardinality(j.recs) \in Nat
      /\ n = j.start + Cardinality(j.recs)
      /\ IsFiniteSet(j.recs) /\ j.recs \subseteq Rec
  BY <1>1, ExactLSNs, CallFields DEF Exact, NextLSN
<1>3. PICK P : P = Part(s, n, m)
  OBVIOUS
<1>4. /\ IsFiniteSet(P) /\ Cardinality(P) = m - n + 1 /\ P \subseteq Rec
      /\ \A r \in P : r.seg = s /\ r.lsn \in n..m
      /\ \A l \in n..m : \E r \in P : r.lsn = l
  <2>1. n <= m
    BY <1>1
  <2>2. Counted(P, s, n, m)
    BY <1>2, <1>3, <2>1, PartIs
  <2> QED
    BY <2>2 DEF Counted
<1>5. LSNs(j.recs) = j.start..n - 1
  BY <1>1 DEF Exact
<1>6. j.recs \cap P = {}
  <2> SUFFICES ASSUME NEW r \in j.recs, r \in P PROVE FALSE
    OBVIOUS
  <2>1. r.lsn \in j.start..n - 1
    BY <1>5 DEF LSNs
  <2>2. r.lsn \in n..m
    BY <1>4
  <2> QED
    BY <2>1, <2>2, <1>2
<1>7. R = j.recs \cup P
  BY <1>1, <1>3
<1>8. IsFiniteSet(R) /\ Cardinality(R) = Cardinality(j.recs) + Cardinality(P)
  <2>1. Cardinality(j.recs \cap P) = 0
    BY <1>6, FS_EmptySet
  <2>2. /\ IsFiniteSet(j.recs \cup P)
        /\ Cardinality(j.recs \cup P) = Cardinality(j.recs) + Cardinality(P) - Cardinality(j.recs \cap P)
    BY <1>2, <1>4, FS_Union
  <2>3. PICK a \in Nat : a = Cardinality(j.recs)
    BY <1>2
  <2>4. PICK b \in Int : b = Cardinality(P)
    BY <1>2, <1>4
  <2>5. Cardinality(j.recs \cup P) = a + b - 0
    BY <2>1, <2>2, <2>3, <2>4
  <2>6. a + b - 0 = a + b
    OBVIOUS
  <2> QED
    BY <1>7, <2>2, <2>3, <2>4, <2>5, <2>6
<1>9. j.start + Cardinality(R) = m + 1
  BY <1>2, <1>4, <1>8
<1>10. LSNs(R) = j.start..m
  <2>1. ASSUME NEW l \in LSNs(R) PROVE l \in j.start..m
    <3>1. PICK r \in R : r.lsn = l
      BY <2>1 DEF LSNs
    <3>2. CASE r \in j.recs
      <4>1. l \in j.start..n - 1
        BY <1>5, <3>1, <3>2 DEF LSNs
      <4> QED
        BY <4>1, <1>1, <1>2
    <3>3. CASE r \in P
      BY <1>1, <1>2, <1>4, <3>1, <3>3
    <3> QED
      BY <1>7, <3>2, <3>3
  <2>2. ASSUME NEW l \in j.start..m PROVE l \in LSNs(R)
    <3>1. CASE l < n
      <4>1. l \in LSNs(j.recs)
        BY <1>2, <1>5, <2>2, <3>1
      <4> QED
        BY <1>7, <4>1 DEF LSNs
    <3>2. CASE l >= n
      <4>1. PICK r \in P : r.lsn = l
        BY <1>2, <1>4, <2>2, <3>2
      <4> QED
        BY <1>7, <4>1 DEF LSNs
    <3> QED
      BY <1>2, <2>2, <3>1, <3>2
  <2> QED
    BY <2>1, <2>2
<1>11. ASSUME NEW r \in R PROVE r.seg \in committed /\ Covers(r.seg, r.lsn)
  <2>1. CASE r \in j.recs
    BY <2>1 DEF Exact
  <2>2. CASE r \in P
    <3>1. s.base \in Nat /\ s.last \in Nat
      BY SegmentIs
    <3> QED
      BY <1>1, <1>2, <1>4, <2>2, <3>1 DEF Covers
  <2> QED
    BY <1>7, <2>1, <2>2
<1> QED
  BY <1>2, <1>4, <1>7, <1>8, <1>9, <1>10, <1>11 DEF Covered

(* The rest of a page.                                                     *)
LEMMA ChainTail ==
  ASSUME NEW g \in Seq(Segment), g # <<>>, Chain(g)
  PROVE  /\ Tail(g) \in Seq(Segment) /\ Chain(Tail(g)) /\ Elements(Tail(g)) \subseteq Elements(g)
         /\ g[1] \in Segment /\ g[1] \in Elements(g) /\ Head(g) = g[1]
         /\ Tail(g) # <<>> => /\ Tail(g)[1] \in Segment
                              /\ Tail(g)[1].base = g[1].last + 1
<1>1. PICK t : t = Tail(g)
  OBVIOUS
<1>2. /\ t \in Seq(Segment) /\ Len(t) = Len(g) - 1 /\ Len(g) \in Nat /\ Len(g) > 0
      /\ \A i \in 1..Len(t) : t[i] = g[i + 1]
  BY <1>1
<1>3. Chain(t)
  <2>1. ASSUME NEW i \in 1..Len(t), NEW k \in 1..Len(t), i < k PROVE t[i].last < t[k].base
    <3>1. i + 1 \in 1..Len(g) /\ k + 1 \in 1..Len(g) /\ i + 1 < k + 1
      BY <1>2, <2>1
    <3> QED
      BY <1>2, <3>1 DEF Chain
  <2>2. ASSUME NEW i \in 1..Len(t) - 1 PROVE t[i + 1].base = t[i].last + 1
    <3>1. i + 1 \in 1..Len(g) - 1 /\ i \in 1..Len(t) /\ i + 1 \in 1..Len(t)
      BY <1>2, <2>2
    <3> QED
      BY <1>2, <3>1 DEF Chain
  <2> QED
    BY <2>1, <2>2 DEF Chain
<1>4. Elements(t) \subseteq Elements(g)
  <2> SUFFICES ASSUME NEW i \in 1..Len(t) PROVE t[i] \in Elements(g)
    BY DEF Elements
  <2>1. i + 1 \in 1..Len(g)
    BY <1>2
  <2> QED
    BY <1>2, <2>1 DEF Elements
<1>5. 1 \in 1..Len(g)
  BY <1>2
<1>6. g[1] \in Segment /\ g[1] \in Elements(g) /\ Head(g) = g[1]
  BY <1>5 DEF Elements
<1>7. ASSUME t # <<>> PROVE t[1] \in Segment /\ t[1].base = g[1].last + 1
  <2>1. Len(t) > 0
    BY <1>2, <1>7
  <2>2. 1 \in 1..Len(t) /\ 1 \in 1..Len(g) - 1
    BY <1>2, <2>1
  <2> QED
    BY <1>2, <2>2 DEF Chain
<1> QED
  BY <1>1, <1>2, <1>3, <1>4, <1>6, <1>7

(* The call under way of a client.                                         *)
LEMMA BusyCall ==
  ASSUME ClientsInv, NEW c \in Clients, cl[c].pc # "idle"
  PROVE  /\ cl[c] \in CallType /\ CallOK(cl[c]) /\ Phase(cl[c]) /\ cl[c].res = ""
         /\ Exact(cl[c]) /\ Elements(cl[c].segs) \subseteq committed
         /\ cl[c].hint # <<>> => cl[c].hint[1] \in committed
BY DEF ClientsInv, ClientOK, CallOK, Phase

(* The last LSN of one read of a segment.                                  *)
EndsAt(m, last, n, room, next) ==
  /\ m = Min({last, n + room - 1, next - 1})
  /\ n <= m /\ m <= last /\ m <= n + room - 1 /\ m <= next - 1
  /\ m = last \/ m = n + room - 1 \/ m = next - 1

(* It is the least of three limits.                                        *)
LEMMA ReadEnd ==
  ASSUME NEW last \in Nat, NEW n \in Nat, NEW room \in Nat, NEW next \in Nat,
         n <= last, 0 < room, n < next
  PROVE  \E m \in Nat : EndsAt(m, last, n, room, next)
<1> DEFINE S == {last, n + room - 1, next - 1}
<1>1. n + room - 1 \in Nat /\ next - 1 \in Nat /\ n <= n + room - 1 /\ n <= next - 1
  OBVIOUS
<1>2. S \in SUBSET Nat /\ S # {}
  BY <1>1
<1>3. PICK m : m = Min(S)
  OBVIOUS
<1>4. m \in S /\ \A y \in S : m <= y
  BY <1>2, <1>3, MinIs
<1>5. m = last \/ m = n + room - 1 \/ m = next - 1
  BY <1>4
<1>6. m <= last /\ m <= n + room - 1 /\ m <= next - 1
  BY <1>4
<1>7. m \in Nat /\ n <= m
  BY <1>1, <1>5
<1> QED
  BY <1>3, <1>5, <1>6, <1>7 DEF EndsAt

(* The first record with the timestamp is the least such under the head.   *)
LEMMA FirstIsMin ==
  ASSUME NEW h \in HeadRec, NEW l \in Nat, NEW ts \in Nat, h.oldest <= l, l < h.next,
         Timestamp(l) >= ts, \A x \in h.oldest..l - 1 : Timestamp(x) < ts,
         NEW S, S = {x \in h.oldest..h.next - 1 : Timestamp(x) >= ts}
  PROVE  S # {} /\ l = Min(S)
<1>1. h.oldest \in Nat /\ h.next \in Nat
  BY DEF HeadRec
<1>2. l \in S /\ S \in SUBSET Nat
  BY <1>1
<1>3. PICK m : m = Min(S)
  OBVIOUS
<1>4. m \in S /\ \A y \in S : m <= y
  BY <1>2, <1>3, MinIs
<1>5. m \in Nat /\ m <= l /\ m >= h.oldest /\ Timestamp(m) >= ts
  BY <1>1, <1>2, <1>4
<1>6. ~(m < l)
  <2> SUFFICES ASSUME m < l PROVE FALSE
    OBVIOUS
  <2>1. m \in h.oldest..l - 1
    BY <1>1, <1>5
  <2>2. Timestamp(m) < ts /\ Timestamp(m) \in Nat
    BY <1>5, <2>1, TimestampGrows
  <2> QED
    BY <1>5, <2>2
<1> QED
  BY <1>2, <1>3, <1>5, <1>6

(* The next segment of a page is read.                                     *)
LEMMA UseSegmentOK ==
  ASSUME ClientsInv, NEW c \in Clients, Reading(cl[c]), cl[c].pc # "list",
         cl[c].segs[1].base <= NextLSN(cl[c]), UseSegment(c), UNCHANGED <<part, committed>>
  PROVE  ClientsInv'
<1>1. PICK j : j = cl[c]
  OBVIOUS
<1>2. cl[c].pc # "idle"
  BY DEF Reading, ReadPcs
<1>3. /\ j \in CallType /\ Phase(j) /\ Exact(j) /\ Elements(j.segs) \subseteq committed
      /\ j.hint # <<>> => j.hint[1] \in committed
      /\ j.res = ""
  BY <1>1, <1>2, BusyCall
<1>4. Reading(j) /\ Batch(j) /\ Serves(j) /\ ~j.search
  BY <1>1, <1>3 DEF Phase, Batch, Reading
<1>5. PICK h : h = j.head[1]
  OBVIOUS
<1>6. h \in HeadRec /\ h.next \in Nat /\ h.oldest \in Nat
  BY <1>4, <1>5 DEF Batch, Under, Known, HeadRec
<1>7. PICK n \in Nat : /\ n = NextLSN(j) /\ n = j.start + Cardinality(j.recs)
                       /\ j.start \in Nat /\ Cardinality(j.recs) \in Nat
  BY <1>3, ExactLSNs, CallFields DEF NextLSN
<1>8. PICK L \in Nat : L = Limit(j) /\ L <= BatchLimit
  BY LimitIs
<1>9. n < h.next /\ Cardinality(j.recs) < L
  BY <1>4, <1>5, <1>7, <1>8 DEF Batch
<1>10. /\ j.segs \in Seq(Segment) /\ j.segs # <<>> /\ Chain(j.segs)
  BY <1>3, <1>4, CallFields DEF Serves
<1>11. PICK t : t = Tail(j.segs)
  OBVIOUS
<1>12. PICK s \in Segment :
         /\ s = j.segs[1] /\ s = Head(j.segs) /\ s \in committed
         /\ t \in Seq(Segment) /\ Chain(t) /\ Elements(t) \subseteq committed
         /\ t # <<>> => t[1] \in Segment /\ t[1].base = s.last + 1
  BY <1>3, <1>10, <1>11, ChainTail
<1>13. s.base \in Nat /\ s.last \in Nat /\ s.base <= n /\ n <= s.last
  BY <1>1, <1>4, <1>7, <1>12, SegmentIs DEF Serves
<1>14. PICK room \in Nat : room = L - Cardinality(j.recs) /\ 0 < room
  BY <1>7, <1>8, <1>9
<1>25. PICK m \in Nat : EndsAt(m, s.last, n, room, h.next)
  <2>1. PICK last \in Nat : last = s.last /\ n <= last
    BY <1>13
  <2>2. PICK next \in Nat : next = h.next /\ n < next
    BY <1>6, <1>9
  <2>3. 0 < room
    BY <1>14
  <2>4. \E m \in Nat : EndsAt(m, last, n, room, next)
    BY <2>1, <2>2, <2>3, ReadEnd
  <2> QED
    BY <2>1, <2>2, <2>4
<1>15. /\ m = Min({s.last, n + room - 1, h.next - 1})
       /\ n <= m /\ m <= s.last /\ m <= n + room - 1 /\ m <= h.next - 1
       /\ m = s.last \/ m = n + room - 1 \/ m = h.next - 1
  BY <1>25 DEF EndsAt
<1>16. PICK R : R = j.recs \cup Part(s, n, m)
  OBVIOUS
<1>17. R = j.recs \cup readSegment(s, NextLSN(j), Limit(j) - Cardinality(j.recs), j.head[1].next)
  BY <1>5, <1>7, <1>8, <1>14, <1>15, <1>16 DEF readSegment, Part
<1>18. /\ IsFiniteSet(R) /\ R \in SUBSET Rec
       /\ j.start + Cardinality(R) = m + 1
       /\ LSNs(R) = j.start..m
       /\ \A r \in R : r.seg \in committed /\ Covers(r.seg, r.lsn)
  <2>1. j \in CallType /\ Exact(j) /\ s \in committed /\ n = NextLSN(j)
    BY <1>3, <1>7, <1>12
  <2>2. s.base <= n /\ n <= m /\ m <= s.last
    BY <1>13, <1>15
  <2>3. Covered(R, j.start, m)
    BY <1>16, <2>1, <2>2, RecsGrow
  <2> QED
    BY <2>3 DEF Covered
<1>19. PICK x : x = WithRecs(j, R, t)
  OBVIOUS
<1>20. /\ x \in CallType /\ x.op = j.op /\ x.pc = j.pc /\ x.start = j.start
       /\ x.head = j.head /\ x.recs = R /\ x.segs = t /\ x.hint = j.hint
       /\ x.ts = j.ts /\ x.res = j.res /\ (x.search <=> j.search)
  <2>1. j \in CallType
    BY <1>3
  <2>2. R \in SUBSET Rec
    BY <1>18
  <2>3. t \in Seq(Segment)
    BY <1>12
  <2> QED
    BY <1>19, <2>1, <2>2, <2>3, RecsRec
<1>21. NextLSN(x) = m + 1 /\ Exact(x)
  <2>1. NextLSN(x) = m + 1
    BY <1>18, <1>20 DEF NextLSN
  <2>2. j.start..(m + 1) - 1 = j.start..m
    OBVIOUS
  <2> QED
    BY <1>18, <1>20, <2>1, <2>2 DEF Exact
<1>22. PICK k \in Nat : k = Cardinality(R) /\ k <= L /\ R # {}
  <2>1. Cardinality(R) \in Nat
    BY <1>18, FS_CardinalityType
  <2>2. PICK k \in Nat : k = Cardinality(R)
    BY <2>1
  <2>3. PICK a \in Nat : a = Cardinality(j.recs)
    BY <1>7
  <2>4. PICK b \in Nat : b = j.start
    BY <1>7
  <2>5. b + k = m + 1 /\ n = b + a /\ room = L - a /\ n <= m /\ m <= n + room - 1
    BY <1>7, <1>14, <1>15, <1>18, <2>2, <2>3, <2>4
  <2>6. k <= L /\ k # 0
    BY <2>5
  <2>7. R # {}
    BY <2>2, <2>6, FS_EmptySet
  <2> QED
    BY <2>2, <2>6, <2>7
<1>23. CASE k >= L \/ m + 1 >= h.next
  <2>1. PICK y : y = WithResult(x, "records")
    OBVIOUS
  <2>2. PICK hint : hint = IF m + 1 <= s.last THEN <<s>> ELSE <<>>
    OBVIOUS
  <2>3. Returns(c, y, hint)
    <3>1. x = [cl[c] EXCEPT !.recs = R, !.segs = Tail(@)]
      BY <1>1, <1>3, <1>11, <1>19 DEF WithRecs, CallType
    <3>2. Cardinality(R) >= Limit(cl[c]) \/ NextLSN(x) >= x.head[1].next
      BY <1>1, <1>5, <1>8, <1>20, <1>21, <1>22, <1>23
    <3> QED
      BY <1>1, <1>12, <1>17, <1>21, <2>1, <2>2, <3>1, <3>2 DEF UseSegment, WithResult
  <2>4. "records" \in Outs
    BY DEF Outs
  <2>5. /\ y \in CallType /\ y.op = x.op /\ y.start = x.start /\ y.head = x.head
        /\ y.recs = x.recs /\ y.ts = x.ts /\ y.res = "records"
    BY <1>20, <2>1, <2>4, ResultRec
  <2>6. Exact(y) /\ NextLSN(y) = m + 1
    BY <1>21, <2>5, ExactSame
  <2>7. Delivered(y)
    <3>1. y.head[1] = h /\ y.recs = R /\ y.start = j.start /\ y.ts = j.ts /\ y.op = j.op
      BY <1>5, <1>20, <2>5
    <3>2. Cardinality(y.recs) <= BatchLimit
      BY <1>8, <1>22, <3>1, ReaderAssumption
    <3>3. NextLSN(y) <= h.next
      BY <1>6, <1>15, <2>6
    <3>4. ASSUME y.op = "stamp", NEW S, S = {l \in h.oldest..h.next - 1 : Timestamp(l) >= y.ts}
          PROVE  S # {} /\ y.start = Min(S)
      <4>1. First(j)
        BY <1>4, <3>1, <3>4 DEF Batch
      <4>2. /\ j.start >= h.oldest /\ Timestamp(j.start) >= j.ts
            /\ \A l \in h.oldest..j.start - 1 : Timestamp(l) < j.ts
        BY <1>5, <4>1 DEF First
      <4>3. j \in CallType
        BY <1>3
      <4>4. j.ts \in Nat /\ j.start \in Nat
        BY <4>3, CallFields
      <4>5. PICK a \in Nat : a = Cardinality(j.recs)
        BY <1>7
      <4>6. n = j.start + a /\ n < h.next /\ h.next \in Nat
        BY <1>6, <1>7, <1>9, <4>5
      <4>7. j.start < h.next
        BY <4>4, <4>6
      <4> QED
        BY <1>6, <3>1, <3>4, <4>2, <4>4, <4>7, FirstIsMin
    <3> QED
      BY <1>22, <3>1, <3>2, <3>3, <3>4 DEF Delivered
  <2>8. Told(y)
    BY <2>5, <2>7 DEF Told
  <2>9. hint \in Opt(Segment) /\ (hint # <<>> => hint[1] \in committed)
    BY <1>12, <2>2 DEF Opt
  <2> QED
    BY <1>1, <1>2, <1>20, <2>3, <2>5, <2>6, <2>8, <2>9, ReturnsOK
<1>24. CASE ~(k >= L \/ m + 1 >= h.next)
  <2>1. m = s.last /\ m + 1 < h.next /\ k < L
    <3>1. m + 1 < h.next /\ k < L
      BY <1>6, <1>8, <1>22, <1>24
    <3>2. m # h.next - 1
      BY <1>6, <3>1
    <3>3. m # n + room - 1
      BY <1>7, <1>14, <1>18, <1>22, <3>1, SMTT(30)
    <3> QED
      BY <1>15, <3>1, <3>2, <3>3
  <2>2. PICK p \in Pcs : p = (IF t = <<>> THEN "list" ELSE "segment")
    BY DEF Pcs
  <2>3. PICK y : y = WithPc(x, p)
    OBVIOUS
  <2>4. Stays(c, y)
    <3>1. x = [cl[c] EXCEPT !.recs = R, !.segs = Tail(@)]
      BY <1>1, <1>3, <1>11, <1>19 DEF WithRecs, CallType
    <3>2. ~(Cardinality(R) >= Limit(cl[c]) \/ NextLSN(x) >= x.head[1].next)
      BY <1>1, <1>5, <1>8, <1>20, <1>21, <1>22, <1>24
    <3> QED
      BY <1>1, <1>12, <1>17, <1>20, <2>2, <2>3, <3>1, <3>2, ZenonT(40) DEF UseSegment, WithPc
  <2>5. /\ y \in CallType /\ y.op = x.op /\ y.pc = p /\ y.start = x.start /\ y.head = x.head
        /\ y.recs = x.recs /\ y.segs = x.segs /\ y.hint = x.hint /\ y.ts = x.ts
        /\ y.res = x.res /\ (y.search <=> x.search)
    BY <1>20, <2>3, PcRec
  <2>6. Exact(y) /\ NextLSN(y) = m + 1
    BY <1>21, <2>5, ExactSame
  <2>7. y.head[1] = h /\ y.recs = R /\ y.start = j.start /\ y.ts = j.ts /\ y.op = j.op
    BY <1>5, <1>20, <2>5
  <2>8. p # "list" => Serves(y)
    <3> SUFFICES ASSUME p # "list" PROVE Serves(y)
      OBVIOUS
    <3>1. y.segs = t /\ t # <<>> /\ y.pc = "segment"
      BY <1>20, <2>2, <2>5
    <3>2. t[1] \in Segment /\ t[1].base = m + 1
      BY <1>12, <2>1, <3>1
    <3>3. t[1].last \in Nat /\ t[1].last >= m + 1
      BY <3>2, SegmentIs
    <3> QED
      BY <1>12, <2>6, <3>1, <3>2, <3>3 DEF Serves
  <2>9. Batch(y)
    <3>1. Under(y)
      BY <1>4, <1>20, <2>5 DEF Batch, Under
    <3>2. Cardinality(y.recs) < Limit(y)
      BY <1>8, <1>22, <2>1, <2>7 DEF Limit
    <3>3. y.op = "stamp" => First(y)
      BY <1>4, <1>5, <2>7 DEF Batch, First
    <3> QED
      BY <2>1, <2>5, <2>6, <2>7, <2>8, <3>1, <3>2, <3>3 DEF Batch
  <2>10. Reading(y)
    BY <1>4, <1>20, <2>2, <2>5 DEF Reading, ReadPcs
  <2>11. CallOK(y)
    BY <1>3, <1>12, <1>20, <2>5, <2>6, <2>9, <2>10, ReadingOK
  <2> QED
    BY <1>1, <1>2, <2>4, <2>7, <2>11, StaysOK
<1> QED
  BY <1>23, <1>24

(* The search of a timestamp ends.                                         *)
LEMMA UseTimestampOK ==
  ASSUME ClientsInv, NEW c \in Clients, Searching(cl[c]), UseTimestamp(c),
         UNCHANGED <<part, committed>>
  PROVE  ClientsInv'
<1>1. PICK j : j = cl[c]
  OBVIOUS
<1>2. cl[c].pc # "idle"
  BY DEF Searching, SearchPcs
<1>3. /\ j \in CallType /\ Phase(j) /\ Exact(j) /\ Elements(j.segs) \subseteq committed
      /\ j.hint # <<>> => j.hint[1] \in committed
      /\ j.res = ""
  BY <1>1, <1>2, BusyCall
<1>4. Under(j) /\ Found(j) /\ j.op = "stamp" /\ j.recs = {}
  BY <1>1, <1>3 DEF Phase, Searching, Reading
<1>5. PICK h : h = j.head[1]
  OBVIOUS
<1>6. h \in HeadRec /\ h.next \in Nat /\ h.oldest \in Nat
  BY <1>4, <1>5 DEF Under, Known, HeadRec
<1>7. PICK s : s = j.segs[1]
  OBVIOUS
<1>8. /\ j.segs # <<>> /\ s.base >= h.oldest /\ s.last < h.next /\ Timestamp(s.last) >= j.ts
      /\ \A l \in h.oldest..s.base - 1 : Timestamp(l) < j.ts
  BY <1>4, <1>5, <1>7 DEF Found
<1>9. s \in Segment /\ s.base \in Nat /\ s.last \in Nat /\ s.base <= s.last
  <2>1. j.segs \in Seq(Segment)
    BY <1>3, CallFields
  <2>2. 1 \in 1..Len(j.segs)
    BY <1>8, <2>1
  <2>3. s \in Segment
    BY <1>7, <2>1, <2>2
  <2> QED
    BY <2>3, SegmentIs
<1>10. PICK S : S = {lsn \in s.base..s.last : Timestamp(lsn) >= j.ts}
  OBVIOUS
<1>11. PICK l : l = Min(S)
  OBVIOUS
<1>12. l \in S /\ \A y \in S : l <= y
  <2>1. S \in SUBSET Nat /\ s.last \in S
    BY <1>8, <1>9, <1>10
  <2> QED
    BY <1>11, <2>1, MinIs
<1>13. l \in Nat /\ s.base <= l /\ l <= s.last /\ Timestamp(l) >= j.ts
  BY <1>9, <1>10, <1>12
<1>14. PICK x : x = StampedAt(j, l)
  OBVIOUS
<1>15. Stays(c, x)
  BY <1>1, <1>7, <1>10, <1>11, <1>14 DEF UseTimestamp, findTimestampStart, StampedAt
<1>16. /\ x \in CallType /\ x.op = j.op /\ x.pc = "list" /\ x.start = l /\ x.head = j.head
       /\ x.recs = {} /\ x.segs = <<>> /\ x.hint = j.hint /\ x.ts = j.ts /\ x.res = j.res
       /\ ~x.search
  <2>1. j \in CallType /\ j.recs = {} /\ l \in Nat
    BY <1>3, <1>4, <1>13
  <2> QED
    BY <1>14, <2>1, StampRec
<1>17. Exact(x) /\ NextLSN(x) = l /\ Cardinality(x.recs) = 0
  BY <1>13, <1>16, ExactEmpty
<1>18. ASSUME NEW y \in h.oldest..l - 1 PROVE Timestamp(y) < j.ts
  <2>1. CASE y < s.base
    BY <1>6, <1>8, <1>9, <1>13, <2>1
  <2>2. CASE y >= s.base
    <3>1. y \in s.base..s.last /\ y \notin S /\ y \in Nat
      BY <1>6, <1>9, <1>12, <1>13, <2>2
    <3>2. Timestamp(y) \in Nat
      BY <3>1, TimestampGrows
    <3>3. j \in CallType
      BY <1>3
    <3>4. j.ts \in Nat
      BY <3>3, CallFields
    <3> QED
      BY <1>10, <3>1, <3>2, <3>4
  <2> QED
    BY <1>6, <1>9, <1>18, <2>1, <2>2
<1>19. First(x)
  BY <1>5, <1>6, <1>8, <1>9, <1>13, <1>16, <1>18 DEF First
<1>20. Batch(x)
  <2>1. Under(x) /\ x.head[1] = h
    BY <1>4, <1>5, <1>16 DEF Under
  <2>2. Cardinality(x.recs) < Limit(x)
    BY <1>17, LimitIs
  <2>3. NextLSN(x) < h.next
    BY <1>6, <1>8, <1>9, <1>13, <1>17
  <2> QED
    BY <1>16, <1>19, <2>1, <2>2, <2>3 DEF Batch
<1>21. Reading(x)
  BY <1>16 DEF Reading, ReadPcs
<1>22. Elements(x.segs) = {}
  BY <1>16, NoElements
<1>23. CallOK(x)
  BY <1>3, <1>16, <1>17, <1>20, <1>21, <1>22, ReadingOK
<1> QED
  BY <1>1, <1>2, <1>4, <1>15, <1>16, <1>23, StaysOK

(* The retained segments as the queries see them.                          *)
LEMMA RetainedAre ==
  ASSUME CatalogInv, NEW g, g = part.segments, NEW o, o = part.state.oldest,
         NEW n, n = part.state.next
  PROVE  /\ g \in Seq(Segment) /\ Len(g) \in Nat /\ o \in Nat /\ n \in Nat /\ Spans(g, o, n)
         /\ Elements(g) \subseteq committed /\ \A s \in Elements(g) : s.base >= o /\ s.last < n
<1>1. g \in Seq(Segment) /\ Len(g) \in Nat /\ o \in Nat /\ n \in Nat
  BY CatalogTyped
<1>2. /\ Spans(g, o, n) /\ Elements(g) = {s \in committed : s.base >= o}
      /\ \A s \in committed : s.last < n
  BY DEF CatalogInv, LogInv
<1> QED
  BY <1>1, <1>2

(* What FindSegmentAt answers.                                             *)
Finds(f, lsn) ==
  /\ f = <<>> => lsn < part.state.oldest
  /\ f # <<>> => \E s \in Segment : f = <<s>> /\ s \in committed /\ s.base <= lsn /\ lsn <= s.last

(* It finds the segment of a retained LSN.                                 *)
LEMMA FindIs ==
  ASSUME CatalogInv, NEW lsn \in Nat, lsn < part.state.next, NEW f, f = FindSegmentAt(lsn)
  PROVE  Finds(f, lsn)
<1>1. PICK g : g = part.segments
  OBVIOUS
<1>2. PICK o : o = part.state.oldest
  OBVIOUS
<1>3. PICK n : n = part.state.next
  OBVIOUS
<1>4. /\ g \in Seq(Segment) /\ Len(g) \in Nat /\ o \in Nat /\ n \in Nat /\ Spans(g, o, n)
      /\ Elements(g) \subseteq committed
  BY <1>1, <1>2, <1>3, RetainedAre
<1>5. PICK i : i = firstSegmentAtOrAfter(g, lsn)
  OBVIOUS
<1>6. f = IF i <= Len(g) /\ Covers(g[i], lsn) THEN <<g[i]>> ELSE <<>>
  BY <1>1, <1>5 DEF FindSegmentAt
<1>7. \/ Len(g) = 0
      \/ i \in 1..Len(g) /\ lsn <= g[i].last /\ (lsn >= o => g[i].base <= lsn)
  BY <1>3, <1>4, <1>5, SpansCovers
<1>8. CASE Len(g) = 0
  <2>1. o = n
    BY <1>4, <1>8 DEF Spans
  <2>2. /\ i \in 1..Len(g) + 1
    BY <1>4, <1>5, FirstSegment
  <2>3. f = <<>>
    BY <1>6, <1>8, <2>2
  <2> QED
    BY <1>2, <1>3, <2>1, <2>3 DEF Finds
<1>9. CASE Len(g) # 0
  <2>1. i \in 1..Len(g) /\ lsn <= g[i].last /\ (lsn >= o => g[i].base <= lsn)
    BY <1>7, <1>9
  <2>2. g[i] \in Segment /\ g[i] \in committed
    BY <1>4, <2>1 DEF Elements
  <2>3. PICK s \in Segment : s = g[i]
    BY <2>2
  <2>4. CASE Covers(s, lsn)
    BY <1>6, <2>1, <2>2, <2>3, <2>4 DEF Finds, Covers
  <2>5. CASE ~Covers(s, lsn)
    <3>1. f = <<>>
      BY <1>6, <2>3, <2>5
    <3>2. lsn < o
      BY <1>4, <2>1, <2>3, <2>5 DEF Covers
    <3> QED
      BY <1>2, <3>1, <3>2 DEF Finds
  <2> QED
    BY <2>4, <2>5
<1> QED
  BY <1>8, <1>9

(* What ListSegments answers.                                              *)
Lists(p, n) ==
  /\ p \in Seq(Segment) /\ Chain(p) /\ Elements(p) \subseteq committed
  /\ p = <<>> => n < part.state.oldest
  /\ p # <<>> => p[1].last >= n /\ (p[1].base > n => n < part.state.oldest)

(* It lists a page of retained segments from the LSN on.                   *)
LEMMA PageIs ==
  ASSUME CatalogInv, NEW lsn \in Nat, lsn < part.state.next, NEW p, p = ListSegments(lsn)
  PROVE  Lists(p, lsn)
<1>1. PICK g : g = part.segments
  OBVIOUS
<1>2. PICK o : o = part.state.oldest
  OBVIOUS
<1>3. PICK n : n = part.state.next
  OBVIOUS
<1>4. /\ g \in Seq(Segment) /\ Len(g) \in Nat /\ o \in Nat /\ n \in Nat /\ Spans(g, o, n)
      /\ Elements(g) \subseteq committed
  BY <1>1, <1>2, <1>3, RetainedAre
<1>5. PICK i : i = firstSegmentAtOrAfter(g, lsn)
  OBVIOUS
<1>6. PICK e : e = Min({i + PageLimit - 1, Len(g)})
  OBVIOUS
<1>7. p = SubSeq(g, i, e)
  BY <1>1, <1>5, <1>6 DEF ListSegments
<1>8. i \in 1..Len(g) + 1
  BY <1>4, <1>5, FirstSegment
<1>9. e \in Nat /\ e <= Len(g) /\ (i <= Len(g) => i <= e)
  <2>1. PICK a \in Nat : a = i + PageLimit - 1 /\ i <= a
    BY <1>8, PageLimitAssumption
  <2>2. e = IF a <= Len(g) THEN a ELSE Len(g)
    BY <1>4, <1>6, <2>1, MinOfTwo
  <2> QED
    BY <1>4, <2>1, <2>2
<1>10. /\ p \in Seq(Segment) /\ Len(p) = (IF i <= e THEN e - i + 1 ELSE 0)
       /\ \A x \in 1..Len(p) : p[x] = g[i + x - 1]
  BY <1>4, <1>7, <1>8, <1>9
<1>11. \A x \in 1..Len(p) : i + x - 1 \in 1..Len(g)
  BY <1>4, <1>8, <1>9, <1>10
<1>12. Chain(p)
  <2>1. ASSUME NEW x \in 1..Len(p), NEW y \in 1..Len(p), x < y PROVE p[x].last < p[y].base
    <3>1. i + x - 1 < i + y - 1 /\ i + x - 1 \in 1..Len(g) /\ i + y - 1 \in 1..Len(g)
      BY <1>8, <1>11, <2>1
    <3>2. g[i + x - 1].last < g[i + y - 1].base
      BY <1>4, <3>1 DEF Spans, Chain
    <3> QED
      BY <1>10, <3>2
  <2>2. ASSUME NEW x \in 1..Len(p) - 1 PROVE p[x + 1].base = p[x].last + 1
    <3>1. x \in 1..Len(p) /\ x + 1 \in 1..Len(p)
      BY <1>9, <1>10
    <3>2. i + x - 1 \in 1..Len(g) /\ i + (x + 1) - 1 \in 1..Len(g)
      BY <1>11, <3>1
    <3>3. i + x - 1 \in 1..Len(g) - 1 /\ (i + x - 1) + 1 = i + (x + 1) - 1
      BY <1>4, <1>8, <3>2
    <3>4. g[(i + x - 1) + 1].base = g[i + x - 1].last + 1
      BY <1>4, <3>3 DEF Spans, Chain
    <3>5. p[x] = g[i + x - 1] /\ p[x + 1] = g[i + (x + 1) - 1]
      BY <1>10, <3>1
    <3> QED
      BY <3>3, <3>4, <3>5
  <2> QED
    BY <2>1, <2>2 DEF Chain
<1>13. Elements(p) \subseteq committed
  BY <1>4, <1>10, <1>11 DEF Elements
<1>14. CASE Len(g) = 0
  <2>1. o = n
    BY <1>4, <1>14 DEF Spans
  <2>2. Len(p) = 0
    BY <1>8, <1>9, <1>10, <1>14
  <2>3. p = <<>>
    BY <1>10, <2>2
  <2> QED
    BY <1>2, <1>3, <1>10, <1>12, <1>13, <2>1, <2>3 DEF Lists
<1>15. CASE Len(g) # 0
  <2>1. i \in 1..Len(g) /\ lsn <= g[i].last /\ (lsn >= o => g[i].base <= lsn)
    BY <1>3, <1>4, <1>5, <1>15, SpansCovers
  <2>2. Len(p) > 0 /\ 1 \in 1..Len(p) /\ i + 1 - 1 = i
    BY <1>4, <1>9, <1>10, <2>1
  <2>3. p[1] = g[i] /\ p # <<>>
    BY <1>10, <2>2
  <2>4. PICK s \in Segment : s = g[i]
    BY <1>4, <2>1
  <2>5. s.base \in Nat /\ s.last \in Nat
    BY SegmentIs
  <2>6. s.last >= lsn /\ (s.base > lsn => lsn < o)
    BY <1>4, <2>1, <2>4, <2>5
  <2> QED
    BY <1>2, <1>10, <1>12, <1>13, <2>3, <2>4, <2>6 DEF Lists
<1> QED
  BY <1>14, <1>15

(* firstSegmentAtOrAfterTimestamp finds the first segment that ends at or  *)
(* after the timestamp.                                                    *)
LEMMA FirstStamped ==
  ASSUME NEW g \in Seq(Segment), NEW ts \in Nat,
         NEW i, i = firstSegmentAtOrAfterTimestamp(g, ts)
  PROVE  /\ i \in 1..Len(g) + 1
         /\ i <= Len(g) => Timestamp(g[i].last) >= ts
         /\ \A j \in 1..i - 1 : Timestamp(g[j].last) < ts
<1> DEFINE S == {x \in 1..Len(g) + 1 : x = Len(g) + 1 \/ Timestamp(g[x].last) >= ts}
<1>1. S \subseteq Nat /\ Len(g) + 1 \in S
  OBVIOUS
<1>3. i = Min(S)
  BY DEF firstSegmentAtOrAfterTimestamp, FirstIndex
<1>2. i \in S /\ \A y \in S : i <= y
  BY <1>1, <1>3, MinIs
<1>4. i \in 1..Len(g) + 1 /\ (i <= Len(g) => Timestamp(g[i].last) >= ts)
  BY <1>2
<1>5. ASSUME NEW j \in 1..i - 1 PROVE Timestamp(g[j].last) < ts
  <2>1. j \in 1..Len(g) /\ j < i
    BY <1>4, <1>5
  <2>2. g[j] \in Segment
    BY <2>1
  <2>3. g[j].last \in Nat
    BY <2>2, SegmentIs
  <2>6. PICK l \in Nat : l = g[j].last /\ l <= l
    BY <2>3
  <2>4. Timestamp(g[j].last) \in Nat
    BY <2>6, TimestampGrows
  <2>5. j \notin S
    BY <1>2, <2>1
  <2> QED
    BY <2>1, <2>4, <2>5
<1> QED
  BY <1>4, <1>5

(* What LookupTimestamp answers.                                           *)
Stamps(f, ts) ==
  LET h == part.state
  IN  /\ f = <<>> => {l \in h.oldest..h.next - 1 : Timestamp(l) >= ts} = {}
      /\ f # <<>> => \E s \in Segment :
           /\ f = <<s>> /\ s \in committed
           /\ s.base >= h.oldest /\ s.last < h.next /\ Timestamp(s.last) >= ts
           /\ \A l \in h.oldest..s.base - 1 : Timestamp(l) < ts

(* It finds the segment of the first record that is not older.             *)
LEMMA LookupIs ==
  ASSUME CatalogInv, NEW ts \in Nat, NEW f, f = LookupTimestamp(ts).found
  PROVE  Stamps(f, ts)
<1>1. PICK g : g = part.segments
  OBVIOUS
<1>2. PICK o : o = part.state.oldest
  OBVIOUS
<1>3. PICK n : n = part.state.next
  OBVIOUS
<1>4. /\ g \in Seq(Segment) /\ Len(g) \in Nat /\ o \in Nat /\ n \in Nat /\ Spans(g, o, n)
      /\ Elements(g) \subseteq committed /\ \A s \in Elements(g) : s.base >= o /\ s.last < n
  BY <1>1, <1>2, <1>3, RetainedAre
<1>5. PICK i : i = firstSegmentAtOrAfterTimestamp(g, ts)
  OBVIOUS
<1>6. f = IF i <= Len(g) THEN <<g[i]>> ELSE <<>>
  BY <1>1, <1>5 DEF LookupTimestamp
<1>7. /\ i \in 1..Len(g) + 1
      /\ i <= Len(g) => Timestamp(g[i].last) >= ts
      /\ \A j \in 1..i - 1 : Timestamp(g[j].last) < ts
  BY <1>4, <1>5, FirstStamped
<1>8. ASSUME NEW x \in 1..Len(g), x < i, NEW l \in Nat, l <= g[x].last
      PROVE  Timestamp(l) < ts
  <2>1. x \in 1..i - 1
    BY <1>7, <1>8
  <2>2. Timestamp(g[x].last) < ts
    BY <1>7, <2>1
  <2>3. g[x] \in Segment
    BY <1>4, <1>8
  <2>4. g[x].last \in Nat
    BY <2>3, SegmentIs
  <2>5. Timestamp(l) \in Nat /\ Timestamp(g[x].last) \in Nat /\ Timestamp(l) <= Timestamp(g[x].last)
    BY <1>8, <2>4, TimestampGrows
  <2> QED
    BY <2>2, <2>5
<1>9. CASE i <= Len(g)
  <2>1. i \in 1..Len(g)
    BY <1>4, <1>7, <1>9
  <2>2. PICK s \in Segment : s = g[i] /\ s \in Elements(g)
    BY <1>4, <2>1 DEF Elements
  <2>3. s.base \in Nat /\ s.last \in Nat
    BY SegmentIs
  <2>4. ASSUME NEW l \in o..s.base - 1 PROVE Timestamp(l) < ts
    <3>1. CASE i = 1
      <4>1. s.base = o
        BY <1>4, <2>1, <2>2, <3>1 DEF Spans
      <4> QED
        BY <1>4, <2>4, <4>1
    <3>2. CASE i # 1
      <4>1. i - 1 \in 1..Len(g) - 1 /\ (i - 1) + 1 = i /\ i - 1 \in 1..Len(g) /\ i - 1 < i
        BY <1>4, <2>1, <3>2
      <4>2. s.base = g[i - 1].last + 1
        BY <1>4, <2>2, <4>1 DEF Spans, Chain
      <4>3. g[i - 1] \in Segment
        BY <1>4, <4>1
      <4>4. g[i - 1].last \in Nat
        BY <4>3, SegmentIs
      <4>5. l \in Nat /\ l <= g[i - 1].last
        BY <1>4, <2>3, <2>4, <4>2, <4>4
      <4> QED
        BY <1>8, <4>1, <4>5
    <3> QED
      BY <3>1, <3>2
  <2>5. f = <<s>> /\ s \in committed /\ s.base >= o /\ s.last < n /\ Timestamp(s.last) >= ts
    BY <1>4, <1>6, <1>7, <1>9, <2>2
  <2>6. f # <<>>
    BY <2>5
  <2> QED
    BY <1>2, <1>3, <2>4, <2>5, <2>6 DEF Stamps
<1>10. CASE ~(i <= Len(g))
  <2>1. f = <<>> /\ i = Len(g) + 1
    BY <1>4, <1>6, <1>7, <1>10
  <2>2. ASSUME NEW l \in o..n - 1, Timestamp(l) >= ts PROVE FALSE
    <3>1. Len(g) # 0
      BY <1>4, <2>2 DEF Spans
    <3>2. Len(g) \in 1..Len(g) /\ Len(g) < i
      BY <1>4, <2>1, <3>1
    <3>3. g[Len(g)].last + 1 = n
      BY <1>4, <3>2 DEF Spans
    <3>4. g[Len(g)] \in Segment
      BY <1>4, <3>2
    <3>5. g[Len(g)].last \in Nat
      BY <3>4, SegmentIs
    <3>6. l \in Nat /\ l <= g[Len(g)].last
      BY <1>4, <2>2, <3>3, <3>5
    <3>7. Timestamp(l) < ts
      BY <1>8, <3>2, <3>6
    <3>8. Timestamp(l) \in Nat
      BY <3>6, TimestampGrows
    <3> QED
      BY <2>2, <3>7, <3>8
  <2> QED
    BY <1>2, <1>3, <2>1, <2>2 DEF Stamps
<1> QED
  BY <1>9, <1>10

(* A fetch finds its segment.                                              *)
LEMMA FetchFindOK ==
  ASSUME ClientsInv, CatalogInv, NEW c \in Clients, FetchFind(c), UNCHANGED <<part, committed>>
  PROVE  ClientsInv'
<1>1. PICK j : j = cl[c]
  OBVIOUS
<1>2. j.pc = "find" /\ cl[c].pc # "idle"
  BY <1>1 DEF FetchFind
<1>3. j \in CallType /\ Phase(j) /\ j.res = "" /\ (j.hint # <<>> => j.hint[1] \in committed)
  BY <1>1, <1>2, BusyCall
<1>4. /\ Under(j) /\ j.recs = {} /\ ~j.search /\ j.op # "stamp"
      /\ j.head[1].oldest <= j.start /\ j.start < j.head[1].next
  BY <1>2, <1>3 DEF Phase, Reading, ReadPcs, SearchPcs
<1>5. PICK h : h = j.head[1]
  OBVIOUS
<1>6. h \in HeadRec /\ h.next \in Nat /\ h.next <= part.state.next /\ part.state.next \in Nat
  BY <1>4, <1>5, CatalogTyped DEF Under, Known, HeadRec
<1>7. PICK l \in Nat : l = j.start
  BY <1>3, CallFields
<1>8. l < h.next /\ l < part.state.next
  BY <1>4, <1>5, <1>6, <1>7
<1>9. PICK f : f = FindSegmentAt(l)
  OBVIOUS
<1>10. Finds(f, l)
  BY <1>8, <1>9, FindIs
<1>11. CASE f = <<>>
  <2>1. Anomaly(c, "corrupt")
    BY <1>1, <1>7, <1>9, <1>11 DEF FetchFind
  <2>2. Fault("corrupt", cl[c].start)
    BY <1>1, <1>7, <1>10, <1>11 DEF Fault, Outs, Finds
  <2> QED
    BY <1>2, <2>1, <2>2, AnomalyOK
<1>12. CASE f # <<>>
  <2>1. PICK s \in Segment : f = <<s>> /\ s \in committed /\ s.base <= l /\ l <= s.last
    BY <1>10, <1>12 DEF Finds
  <2>2. PICK x : x = WithSegs(j, "segment", f)
    OBVIOUS
  <2>3. Stays(c, x)
    BY <1>1, <1>7, <1>9, <1>12, <2>2 DEF FetchFind, WithSegs
  <2>13. "segment" \in Pcs
    BY DEF Pcs
  <2>14. f \in Seq(Segment)
    BY <2>1
  <2>4. "segment" \in Pcs /\ f \in Seq(Segment) /\ j \in CallType
    BY <1>3, <2>13, <2>14
  <2>5. /\ x \in CallType /\ x.op = j.op /\ x.pc = "segment" /\ x.start = j.start
        /\ x.head = j.head /\ x.recs = j.recs /\ x.segs = f /\ x.hint = j.hint
        /\ x.res = j.res /\ (x.search <=> j.search)
    BY <2>2, <2>4, SegsRec
  <2>6. Exact(x) /\ NextLSN(x) = l /\ Cardinality(x.recs) = 0
    BY <1>4, <1>7, <2>5, ExactEmpty
  <2>7. Chain(x.segs) /\ Elements(x.segs) = {s} /\ x.segs # <<>> /\ x.segs[1] = s
    BY <2>1, <2>5, ChainOne
  <2>8. s.base \in Nat /\ s.last \in Nat
    BY SegmentIs
  <2>9. Serves(x)
    BY <2>1, <2>5, <2>6, <2>7, <2>8 DEF Serves
  <2>10. Batch(x)
    <3>1. Under(x) /\ x.head[1] = h
      BY <1>4, <1>5, <2>5 DEF Under
    <3>2. Cardinality(x.recs) < Limit(x)
      BY <2>6, LimitIs
    <3> QED
      BY <1>4, <1>8, <2>5, <2>6, <2>9, <3>1, <3>2 DEF Batch
  <2>11. Reading(x)
    BY <1>4, <2>5 DEF Reading, ReadPcs
  <2>12. CallOK(x)
    BY <1>3, <2>1, <2>5, <2>6, <2>7, <2>10, <2>11, ReadingOK
  <2> QED
    BY <1>1, <1>2, <2>3, <2>5, <2>12, StaysOK
<1> QED
  BY <1>11, <1>12

(* A read lists the next page of segments.                                 *)
LEMMA ListPageOK ==
  ASSUME ClientsInv, CatalogInv, NEW c \in Clients, ListPage(c), UNCHANGED <<part, committed>>
  PROVE  ClientsInv'
<1>1. PICK j : j = cl[c]
  OBVIOUS
<1>2. j.pc = "list" /\ cl[c].pc # "idle"
  BY <1>1 DEF ListPage
<1>3. /\ j \in CallType /\ Phase(j) /\ Exact(j) /\ j.res = ""
      /\ (j.hint # <<>> => j.hint[1] \in committed)
  BY <1>1, <1>2, BusyCall
<1>4. Reading(j) /\ Batch(j) /\ ~j.search
  BY <1>2, <1>3 DEF Phase, Reading, ReadPcs, SearchPcs
<1>5. PICK h : h = j.head[1]
  OBVIOUS
<1>6. h \in HeadRec /\ h.next \in Nat /\ h.next <= part.state.next /\ part.state.next \in Nat
  BY <1>4, <1>5, CatalogTyped DEF Batch, Under, Known, HeadRec
<1>7. PICK n \in Nat : n = NextLSN(j) /\ j.start <= n /\ j.start \in Nat
  BY <1>3, ExactLSNs, CallFields
<1>8. n < h.next /\ n < part.state.next
  BY <1>4, <1>5, <1>6, <1>7 DEF Batch
<1>9. PICK p : p = ListSegments(n)
  OBVIOUS
<1>10. Lists(p, n)
  BY <1>8, <1>9, PageIs
<1>13. part.state.oldest \in Nat
  BY CatalogTyped
<1>14. n < part.state.oldest => j.start < part.state.oldest
  BY <1>7, <1>13
<1>11. CASE p = <<>>
  <2>1. Anomaly(c, "corrupt")
    BY <1>1, <1>7, <1>9, <1>11 DEF ListPage
  <2>2. j.start < part.state.oldest
    BY <1>10, <1>11, <1>14 DEF Lists
  <2>3. Fault("corrupt", cl[c].start)
    BY <1>1, <2>2 DEF Fault, Outs
  <2> QED
    BY <1>2, <2>1, <2>3, AnomalyOK
<1>12. CASE p # <<>>
  <2>1. /\ p \in Seq(Segment) /\ Chain(p) /\ Elements(p) \subseteq committed /\ p[1].last >= n
        /\ (p[1].base > n => j.start < part.state.oldest)
    BY <1>10, <1>12, <1>14 DEF Lists
  <2>2. PICK x : x = WithSegs(j, "segment", p)
    OBVIOUS
  <2>3. Stays(c, x)
    BY <1>1, <1>7, <1>9, <1>12, <2>2 DEF ListPage, WithSegs
  <2>4. "segment" \in Pcs /\ p \in Seq(Segment) /\ j \in CallType
    BY <1>3, <2>1 DEF Pcs
  <2>5. /\ x \in CallType /\ x.op = j.op /\ x.pc = "segment" /\ x.start = j.start
        /\ x.head = j.head /\ x.recs = j.recs /\ x.segs = p /\ x.hint = j.hint
        /\ x.ts = j.ts /\ x.res = j.res /\ (x.search <=> j.search)
    BY <2>2, <2>4, SegsRec
  <2>6. Exact(x) /\ NextLSN(x) = n
    BY <1>3, <1>7, <2>5, ExactSame
  <2>9. Serves(x)
    BY <1>12, <2>1, <2>5, <2>6 DEF Serves
  <2>10. Batch(x)
    <3>1. Under(x) /\ x.head[1] = h
      BY <1>4, <1>5, <2>5 DEF Batch, Under
    <3>2. Cardinality(x.recs) < Limit(x)
      BY <1>4, <2>5 DEF Batch, Limit
    <3>3. x.op = "stamp" => First(x)
      BY <1>4, <2>5 DEF Batch, First
    <3> QED
      BY <1>8, <2>5, <2>6, <2>9, <3>1, <3>2, <3>3 DEF Batch
  <2>11. Reading(x)
    BY <1>4, <2>5 DEF Reading, ReadPcs
  <2>12. CallOK(x)
    BY <1>3, <2>1, <2>5, <2>6, <2>10, <2>11, ReadingOK
  <2> QED
    BY <1>1, <1>2, <2>3, <2>5, <2>12, StaysOK
<1> QED
  BY <1>11, <1>12

(* A timestamp read looks its segment up.                                  *)
LEMMA TimestampLookupOK ==
  ASSUME ClientsInv, CatalogInv, NEW c \in Clients, TimestampLookup(c),
         UNCHANGED <<part, committed>>
  PROVE  ClientsInv'
<1>1. PICK j : j = cl[c]
  OBVIOUS
<1>2. j.pc = "lookup" /\ cl[c].pc # "idle"
  BY <1>1 DEF TimestampLookup
<1>3. j \in CallType /\ Phase(j) /\ j.res = "" /\ (j.hint # <<>> => j.hint[1] \in committed)
  BY <1>1, <1>2, BusyCall
<1>4. j.op = "stamp" /\ j.recs = {}
  BY <1>2, <1>3 DEF Phase, Reading, ReadPcs
<1>5. PICK h : h = part.state
  OBVIOUS
<1>6. h \in HeadRec /\ h.next \in Nat /\ h.oldest \in Nat /\ Known(h)
  BY <1>5, CatalogTyped, LoadedKnown
<1>7. PICK t \in Nat : t = j.ts
  BY <1>3, CallFields
<1>8. PICK f : f = LookupTimestamp(t).found
  OBVIOUS
<1>9. Stamps(f, t) /\ LookupTimestamp(t).head = h
  BY <1>5, <1>8, LookupIs DEF LookupTimestamp
<1>10. CASE f = <<>>
  <2>1. Empty(c, h)
    BY <1>1, <1>7, <1>8, <1>9, <1>10 DEF TimestampLookup
  <2>2. Nothing(cl[c], h)
    BY <1>1, <1>4, <1>5, <1>7, <1>9, <1>10 DEF Nothing, Stamps
  <2> QED
    BY <1>2, <1>6, <2>1, <2>2, EmptyOK
<1>11. CASE f # <<>>
  <2>1. PICK s \in Segment :
           /\ f = <<s>> /\ s \in committed
           /\ s.base >= h.oldest /\ s.last < h.next /\ Timestamp(s.last) >= t
           /\ \A l \in h.oldest..s.base - 1 : Timestamp(l) < t
    BY <1>5, <1>9, <1>11 DEF Stamps
  <2>2. s.base \in Nat /\ s.last \in Nat /\ f \in Seq(Segment) /\ f[1] = s
    BY <2>1, SegmentIs
  <2>3. PICK y : y = LookedUp(j, h, f)
    OBVIOUS
  <2>4. PICK x : x = SearchFrom(y, s.base)
    OBVIOUS
  <2>5. ~(s.base < h.oldest \/ s.last >= h.next)
    BY <1>6, <2>1, <2>2
  <2>6. Stays(c, x)
    BY <1>1, <1>7, <1>8, <1>9, <1>11, <2>2, <2>3, <2>4, <2>5
    DEF TimestampLookup, LookedUp, SearchFrom
  <2>7. j \in CallType /\ h \in HeadRec /\ f \in Seq(Segment)
    BY <1>3, <1>6, <2>2
  <2>8. /\ y \in CallType /\ y.op = j.op /\ y.head = <<h>> /\ y.recs = j.recs /\ y.segs = f
        /\ y.hint = j.hint /\ y.ts = j.ts /\ y.res = j.res
    BY <2>3, <2>7, LookupRec
  <2>9. y \in CallType /\ s.base \in Nat
    BY <2>2, <2>8
  <2>10. /\ x \in CallType /\ x.op = y.op /\ x.pc = "stamp" /\ x.start = s.base
         /\ x.head = y.head /\ x.recs = y.recs /\ x.segs = y.segs /\ x.hint = y.hint
         /\ x.ts = y.ts /\ x.res = y.res /\ x.search
    BY <2>4, <2>9, SearchRec
  <2>11. Elements(x.segs) = {s} /\ x.segs # <<>> /\ x.segs[1] = s
    BY <2>1, <2>8, <2>10, ChainOne
  <2>12. x.head[1] = h /\ Under(x)
    BY <1>6, <2>8, <2>10 DEF Under
  <2>13. Found(x)
    BY <1>7, <2>1, <2>8, <2>10, <2>11, <2>12 DEF Found
  <2>14. Searching(x)
    BY <2>10 DEF Searching, SearchPcs
  <2>15. x.op = "stamp" /\ x.recs = {} /\ x.res = "" /\ (x.hint # <<>> => x.hint[1] \in committed)
    BY <1>3, <1>4, <2>8, <2>10
  <2>16. CallOK(x)
    BY <2>1, <2>10, <2>11, <2>12, <2>13, <2>14, <2>15, SearchingOK
  <2> QED
    BY <1>1, <1>2, <1>4, <2>6, <2>15, <2>16, StaysOK
<1> QED
  BY <1>10, <1>11

(* Errors that say nothing about the log.                                  *)
Plain == {"closed", "fault", "cancelled", "watch closed", "not watched", "unavailable", ""}

(* A call may end with one of them.                                        *)
LEMMA PlainFault == ASSUME NEW e \in Plain, NEW l PROVE Fault(e, l)
BY DEF Plain, Fault, Outs

(* A call that differs from another at most in its place and generation.   *)
Like(x, k) ==
  /\ x \in CallType /\ x.op = k.op /\ x.start = k.start /\ x.head = k.head /\ x.recs = k.recs
  /\ x.segs = k.segs /\ x.hint = k.hint /\ x.ts = k.ts /\ x.res = k.res
  /\ (x.search <=> k.search)

(* A place where a call waits for a head.                                  *)
Waiting(k, p) ==
  /\ p \in {"head", "join", "load", "lookup"} \cup TailPcs
  /\ p \in {"head"} \cup TailPcs => k.op # "stamp"
  /\ p = "lookup" => k.op = "stamp"
  /\ k.search => p \in {"join", "load", "lookup"}

(* A call goes on to one.                                                  *)
LEMMA MovesOn ==
  ASSUME ClientsInv, NEW c \in Clients, cl[c].pc # "idle", ~Reading(cl[c]),
         NEW x, Like(x, cl[c]), Waiting(cl[c], x.pc), Stays(c, x), UNCHANGED <<part, committed>>
  PROVE  ClientsInv'
<1>1. PICK j : j = cl[c]
  OBVIOUS
<1>2. /\ Phase(j) /\ j.res = "" /\ Elements(j.segs) \subseteq committed
      /\ j.hint # <<>> => j.hint[1] \in committed
  BY <1>1, BusyCall
<1>3. j.recs = {} /\ (j.search => j.op = "stamp")
  BY <1>1, <1>2 DEF Phase
<1>4. /\ x \in CallType /\ x.op = j.op /\ x.start = j.start /\ x.recs = {} /\ x.res = ""
      /\ x.segs = j.segs /\ x.hint = j.hint /\ (x.search <=> j.search)
  BY <1>1, <1>2, <1>3 DEF Like
<1>5. CallOK(x)
  BY <1>1, <1>2, <1>3, <1>4, WaitingOK DEF Waiting
<1> QED
  BY <1>1, <1>4, <1>5, StaysOK

(* A call with another place, and with a generation.                       *)
LEMMA PcLike ==
  ASSUME NEW k \in CallType, NEW p \in Pcs, NEW x, x = WithPc(k, p)
  PROVE  Like(x, k) /\ x.pc = p
BY PcRec DEF Like

(* With a generation too.                                                  *)
LEMMA GenLike ==
  ASSUME NEW k \in CallType, NEW p \in Pcs, NEW n \in Nat, NEW x, x = WithGen(k, p, n)
  PROVE  Like(x, k) /\ x.pc = p
BY GenRec DEF Like

(* The call goes to a place without another change.                        *)
LEMMA GoesTo ==
  ASSUME ClientsInv, NEW c \in Clients, cl[c].pc # "idle", ~Reading(cl[c]),
         NEW p \in Pcs, Waiting(cl[c], p), Stays(c, [cl[c] EXCEPT !.pc = p]),
         UNCHANGED <<part, committed>>
  PROVE  ClientsInv'
<1>1. PICK j \in CallType : j = cl[c]
  BY Hints
<1>2. PICK x : x = WithPc(j, p)
  OBVIOUS
<1>3. Like(x, j) /\ x.pc = p
  BY <1>2, PcLike
<1>4. Stays(c, x)
  BY <1>1, <1>2 DEF WithPc
<1> QED
  BY <1>1, <1>3, <1>4, MovesOn

(* A call fails with an error that says nothing about the log.             *)
LEMMA FailsPlain ==
  ASSUME ClientsInv, NEW c \in Clients, cl[c].pc # "idle", NEW e \in Plain,
         \/ Fails(c, e, cl[c].hint) \/ Fails(c, e, cursor[c].hint) \/ Fails(c, e, <<>>),
         UNCHANGED <<part, committed>>
  PROVE  ClientsInv'
<1>1. PICK hint \in Opt(Segment) : (hint # <<>> => hint[1] \in committed) /\ Fails(c, e, hint)
  BY Hints
<1>2. Fault(e, cl[c].start)
  BY PlainFault
<1> QED
  BY <1>1, <1>2, FailsOK

(* headForRead.                                                            *)
LEMMA HeadForReadOK ==
  ASSUME ClientsInv, CatalogInv, CoordInv, NEW c \in Clients, headForRead(c),
         UNCHANGED <<part, committed>>
  PROVE  ClientsInv'
<1>1. cl[c].pc = "head" /\ cl[c].pc # "idle" /\ ~Reading(cl[c])
  BY DEF headForRead, Reading, ReadPcs
<1>2. cl[c].op # "stamp" /\ ~cl[c].search
  <2>1. Phase(cl[c])
    BY <1>1, BusyCall
  <2> QED
    BY <1>1, <2>1 DEF Phase, SearchPcs
<1>3. CASE rd.pc # "open"
  <2>1. Fails(c, "closed", cl[c].hint)
    BY <1>3 DEF headForRead
  <2>2. "closed" \in Plain
    BY DEF Plain
  <2> QED
    BY <1>1, <2>1, <2>2, FailsPlain
<1>4. CASE rd.pc = "open" /\ partitionSnapshot # <<>> /\ FreshEnough(c, partitionSnapshot[1].snap.head)
  <2>1. PICK h : h = partitionSnapshot[1].snap.head
    OBVIOUS
  <2>2. Known(h)
    <3>1. RefOK(ref)
      BY DEF CoordInv
    <3>2. KnownSnap(partitionSnapshot[1].snap)
      BY <1>4, <3>1, SnapshotIs
    <3> QED
      BY <2>1, <3>2 DEF KnownSnap
  <2>3. UseHead(c, h)
    BY <1>4, <2>1 DEF headForRead
  <2> QED
    BY <1>1, <1>2, <2>2, <2>3, UseHeadOK
<1>5. CASE rd.pc = "open" /\ ~(partitionSnapshot # <<>> /\ FreshEnough(c, partitionSnapshot[1].snap.head))
  <2>1. Stays(c, [cl[c] EXCEPT !.pc = "join"])
    BY <1>5 DEF headForRead
  <2>2. "join" \in Pcs /\ Waiting(cl[c], "join")
    BY <1>2 DEF Pcs, Waiting, TailPcs
  <2> QED
    BY <1>1, <2>1, <2>2, GoesTo
<1> QED
  BY <1>3, <1>4, <1>5

(* RefreshJoin.                                                            *)
LEMMA RefreshJoinOK ==
  ASSUME ClientsInv, NEW c \in Clients, RefreshJoin(c), UNCHANGED <<part, committed>>
  PROVE  ClientsInv'
<1>1. cl[c].pc = "join" /\ cl[c].pc # "idle" /\ ~Reading(cl[c])
  BY DEF RefreshJoin, Reading, ReadPcs
<1>2. CASE ref.closed \/ group.closed
  <2>1. Fails(c, "closed", cl[c].hint)
    BY <1>2 DEF RefreshJoin
  <2>2. "closed" \in Plain
    BY DEF Plain
  <2> QED
    BY <1>1, <2>1, <2>2, FailsPlain
<1>3. CASE ~(ref.closed \/ group.closed)
  <2>1. Stays(c, [cl[c] EXCEPT !.pc = "load"])
    BY <1>3 DEF RefreshJoin
  <2>2. "load" \in Pcs /\ Waiting(cl[c], "load")
    BY DEF Pcs, Waiting, TailPcs
  <2> QED
    BY <1>1, <2>1, <2>2, GoesTo
<1> QED
  BY <1>2, <1>3

(* FetchHead.                                                              *)
LEMMA FetchHeadOK ==
  ASSUME ClientsInv, CatalogInv, NEW c \in Clients, FetchHead(c), UNCHANGED <<part, committed>>
  PROVE  ClientsInv'
<1>1. cl[c].pc = "fetch" /\ cl[c].pc # "idle" /\ UseHead(c, part.state)
  BY DEF FetchHead, LoadPartition
<1>2. Phase(cl[c])
  BY <1>1, BusyCall
<1>3. cl[c].op # "stamp"
  BY <1>1, <1>2 DEF Phase
<1>4. PICK h : h = part.state
  OBVIOUS
<1>5. Known(h) /\ UseHead(c, h)
  BY <1>1, <1>4, LoadedKnown
<1> QED
  BY <1>1, <1>3, <1>5, UseHeadOK

(* A cursor with a checkpoint, without a hint, and resumed.                *)
Marked(q, p) == [q EXCEPT !.ckpt = <<[pos |-> p, from |-> q.from, seen |-> q.seen]>>]
Unhinted(q) == [q EXCEPT !.hint = <<>>]
Resumed(q, p, a, S) == [q EXCEPT !.pos = p, !.hint = <<>>, !.from = a, !.seen = S]

(* Their fields.                                                           *)
LEMMA MarkedIs ==
  ASSUME NEW q \in CursorType, NEW p \in Nat, NEW y, y = Marked(q, p)
  PROVE  /\ y \in CursorType /\ y.pos = q.pos /\ y.hint = q.hint /\ y.watch = q.watch
         /\ y.from = q.from /\ y.seen = q.seen /\ y.ckpt # <<>>
         /\ y.ckpt[1] = [pos |-> p, from |-> q.from, seen |-> q.seen]
<1>1. PICK k : k = [pos |-> p, from |-> q.from, seen |-> q.seen]
  OBVIOUS
<1>2. k \in CkptType
  BY <1>1 DEF CkptType, CursorType
<1>3. <<k>> \in Opt(CkptType)
  BY <1>2 DEF Opt
<1>4. y = [q EXCEPT !.ckpt = <<k>>]
  BY <1>1 DEF Marked
<1>5. y \in CursorType /\ y.pos = q.pos /\ y.hint = q.hint /\ y.watch = q.watch
         /\ y.from = q.from /\ y.seen = q.seen /\ y.ckpt = <<k>>
  BY <1>3, <1>4 DEF CursorType
<1> QED
  BY <1>1, <1>5

(* Without a hint.                                                         *)
LEMMA UnhintedIs ==
  ASSUME NEW q \in CursorType, NEW y, y = Unhinted(q)
  PROVE  /\ y \in CursorType /\ y.pos = q.pos /\ y.hint = <<>> /\ y.watch = q.watch
         /\ y.from = q.from /\ y.seen = q.seen /\ y.ckpt = q.ckpt
<1>1. <<>> \in Opt(Segment)
  BY DEF Opt
<1> QED
  BY <1>1 DEF CursorType, Unhinted

(* Resumed.                                                                *)
LEMMA ResumedIs ==
  ASSUME NEW q \in CursorType, NEW p \in Nat, NEW a \in Nat, NEW S \in SUBSET Nat,
         NEW y, y = Resumed(q, p, a, S)
  PROVE  /\ y \in CursorType /\ y.pos = p /\ y.hint = <<>> /\ y.watch = q.watch
         /\ y.from = a /\ y.seen = S /\ y.ckpt = q.ckpt
<1>1. <<>> \in Opt(Segment)
  BY DEF Opt
<1> QED
  BY <1>1 DEF CursorType, Resumed

(* A checkpoint or a resumption ends.                                      *)
LEMMA UsePositionOK ==
  ASSUME ClientsInv, CatalogInv, NEW c \in Clients, cl[c].pc # "idle", ~Reading(cl[c]),
         cl[c].op \in {"checkpoint", "resume"},
         NEW h, Known(h), UsePosition(c, h), UNCHANGED <<part, committed>>
  PROVE  ClientsInv'
<1>1. PICK j : j = cl[c]
  OBVIOUS
<1>2. PICK q : q = cursor[c]
  OBVIOUS
<1>3. /\ j \in CallType /\ Phase(j) /\ Exact(j) /\ Elements(j.segs) \subseteq committed
      /\ j.hint # <<>> => j.hint[1] \in committed
  BY <1>1, BusyCall
<1>4. CursorOK(c, j, q)
  BY <1>1, <1>2 DEF ClientsInv, ClientOK
<1>5. PICK r : r = IF j.start < h.oldest THEN "expired"
                   ELSE IF j.start > h.next THEN "ahead" ELSE "ok"
  OBVIOUS
<1>6. r \in Outs /\ r \notin {"records", "empty", "no waiters", "corrupt", "missing"}
  BY <1>5 DEF Outs
<1>7. j.start \in Nat
  BY <1>3, CallFields
<1>8. r = "expired" => j.start < part.state.oldest
  <2>1. h.oldest \in Nat /\ h.oldest <= part.state.oldest /\ part.state.oldest \in Nat
    BY CatalogTyped DEF Known, HeadRec
  <2>2. r = "expired" => j.start < h.oldest
    BY <1>5
  <2> QED
    BY <1>7, <2>1, <2>2
<1>9. PICK x : x = Placed(j, r)
  OBVIOUS
<1>10. cl' = [cl EXCEPT ![c] = x]
  BY <1>1, <1>5, <1>9 DEF UsePosition, Placed
<1>11. /\ x \in CallType /\ x.op = j.op /\ x.pc = "idle" /\ x.start = j.start
       /\ x.recs = j.recs /\ x.segs = j.segs /\ x.hint = j.hint /\ x.res = r
  <2>1. j \in CallType /\ r \in Outs
    BY <1>3, <1>6
  <2> QED
    BY <1>9, <2>1, PlacedRec
<1>12. CallOK(x)
  <2>1. Exact(x)
    BY <1>3, <1>11, ExactSame
  <2>2. Told(x)
    BY <1>6, <1>8, <1>11 DEF Told
  <2> QED
    BY <1>3, <1>11, <2>1, <2>2 DEF CallOK
<1>13. q \in CursorType /\ Complete(q) /\ q.from \in Nat /\ q.seen \in SUBSET Nat
  BY <1>4 DEF CursorOK, CursorType
<1>14. CASE j.op = "checkpoint" /\ r = "ok"
  <2>1. PICK y : y = Marked(q, j.start)
    OBVIOUS
  <2>2. cursor' = [cursor EXCEPT ![c] = y]
    BY <1>1, <1>2, <1>5, <1>14, <2>1 DEF UsePosition, Marked
  <2>3. /\ y \in CursorType /\ y.pos = q.pos /\ y.hint = q.hint /\ y.watch = q.watch
        /\ y.from = q.from /\ y.seen = q.seen /\ y.ckpt # <<>>
        /\ y.ckpt[1] = [pos |-> j.start, from |-> q.from, seen |-> q.seen]
    BY <1>7, <1>13, <2>1, MarkedIs
  <2>4. j.start = q.pos
    BY <1>1, <1>4, <1>14 DEF CursorOK
  <2>5. Complete(y) /\ Complete(y.ckpt[1])
    BY <1>13, <2>3, <2>4 DEF Complete
  <2>6. CursorOK(c, x, y)
    BY <1>4, <1>11, <2>3, <2>5 DEF CursorOK
  <2> QED
    BY <1>10, <1>12, <2>2, <2>6, ClientsFrom DEF ClientOK
<1>15. CASE j.op = "checkpoint" /\ r # "ok"
  <2>1. PICK y : y = Unhinted(q)
    OBVIOUS
  <2>2. cursor' = [cursor EXCEPT ![c] = y]
    BY <1>1, <1>2, <1>5, <1>15, <2>1 DEF UsePosition, Unhinted
  <2>3. /\ y \in CursorType /\ y.pos = q.pos /\ y.hint = <<>> /\ y.watch = q.watch
        /\ y.from = q.from /\ y.seen = q.seen /\ y.ckpt = q.ckpt
    BY <1>13, <2>1, UnhintedIs
  <2>5. Complete(y)
    BY <1>13, <2>3 DEF Complete
  <2>6. CursorOK(c, x, y)
    BY <1>4, <1>11, <2>3, <2>5 DEF CursorOK
  <2> QED
    BY <1>10, <1>12, <2>2, <2>6, ClientsFrom DEF ClientOK
<1>16. CASE j.op = "resume" /\ r = "ok"
  <2>1. q.ckpt # <<>> /\ j.start = q.ckpt[1].pos /\ Complete(q.ckpt[1])
    BY <1>1, <1>4, <1>16 DEF CursorOK
  <2>2. PICK k : k = q.ckpt[1]
    OBVIOUS
  <2>3. k.from \in Nat /\ k.seen \in SUBSET Nat
    <3>1. q.ckpt \in Opt(CkptType)
      BY <1>13 DEF CursorType
    <3>2. k \in CkptType
      BY <2>1, <2>2, <3>1, OptIs
    <3> QED
      BY <3>2 DEF CkptType
  <2>4. PICK y : y = Resumed(q, j.start, k.from, k.seen)
    OBVIOUS
  <2>5. cursor' = [cursor EXCEPT ![c] = y]
    BY <1>1, <1>2, <1>5, <1>16, <2>2, <2>4 DEF UsePosition, Resumed
  <2>6. /\ y \in CursorType /\ y.pos = j.start /\ y.hint = <<>> /\ y.watch = q.watch
        /\ y.from = k.from /\ y.seen = k.seen /\ y.ckpt = q.ckpt
    BY <1>7, <1>13, <2>3, <2>4, ResumedIs
  <2>7. Complete(y)
    BY <2>1, <2>2, <2>6 DEF Complete
  <2>8. CursorOK(c, x, y)
    BY <1>4, <1>11, <2>6, <2>7 DEF CursorOK
  <2> QED
    BY <1>10, <1>12, <2>5, <2>8, ClientsFrom DEF ClientOK
<1>17. CASE j.op = "resume" /\ r # "ok"
  <2>1. cursor' = cursor
    BY <1>1, <1>5, <1>17 DEF UsePosition
  <2>2. cursor' = [cursor EXCEPT ![c] = q]
    BY <1>2, <2>1, CursorKept
  <2>3. CursorOK(c, x, q)
    BY <1>4, <1>11 DEF CursorOK
  <2> QED
    BY <1>10, <1>12, <2>2, <2>3, ClientsFrom DEF ClientOK
<1> QED
  BY <1>1, <1>14, <1>15, <1>16, <1>17

(* The refresh returned.                                                   *)
LEMMA RefreshedOK ==
  ASSUME ClientsInv, CatalogInv, CoordInv, NEW c \in Clients, Refreshed(c),
         UNCHANGED <<part, committed>>
  PROVE  ClientsInv'
<1>1. cl[c].pc = "load" /\ cl[c].pc # "idle" /\ ~Reading(cl[c]) /\ answer[c] # <<>>
  BY DEF Refreshed, Reading, ReadPcs
<1>2. PICK a : a = answer[c][1]
  OBVIOUS
<1>3. /\ a.ok => Known(a.head)
      /\ ~a.ok => a.err \in Plain
  <2>1. AnswersOK(answer)
    BY DEF CoordInv
  <2>2. answer[c] \in Opt(AnswerRec) /\ (a.ok => Known(a.head))
    BY <1>1, <1>2, <2>1 DEF AnswersOK
  <2>3. a \in AnswerRec
    BY <1>1, <1>2, <2>2, OptIs
  <2>4. ASSUME ~a.ok PROVE a.err \in Plain
    <3>1. a \notin [ok : {TRUE}, head : HeadRec]
      BY <2>4
    <3>2. a \in [ok : {FALSE}, err : {"closed", "fault"}]
      BY <2>3, <3>1 DEF AnswerRec
    <3>3. a.err \in {"closed", "fault"}
      BY <3>2
    <3> QED
      BY <3>3 DEF Plain
  <2> QED
    BY <2>2, <2>4
<1>4. CASE ~a.ok
  <2>1. Fails(c, a.err, cl[c].hint)
    BY <1>2, <1>4 DEF Refreshed
  <2>2. PICK e \in Plain : e = a.err
    BY <1>3, <1>4
  <2> QED
    BY <1>1, <2>1, <2>2, FailsPlain
<1>5. CASE a.ok /\ cl[c].op = "stamp"
  <2>1. Stays(c, [cl[c] EXCEPT !.pc = "lookup"])
    BY <1>2, <1>5 DEF Refreshed
  <2>2. "lookup" \in Pcs /\ Waiting(cl[c], "lookup")
    BY <1>5 DEF Pcs, Waiting, TailPcs
  <2> QED
    BY <1>1, <2>1, <2>2, GoesTo
<1>6. CASE a.ok /\ cl[c].op \in {"checkpoint", "resume"}
  <2>1. PICK h : h = a.head
    OBVIOUS
  <2>2. UsePosition(c, h) /\ Known(h)
    BY <1>2, <1>3, <1>6, <2>1 DEF Refreshed
  <2> QED
    BY <1>1, <1>6, <2>2, UsePositionOK
<1>7. CASE a.ok /\ cl[c].op # "stamp" /\ cl[c].op \notin {"checkpoint", "resume"}
  <2>1. PICK h : h = a.head
    OBVIOUS
  <2>2. UseHead(c, h) /\ Known(h)
    BY <1>2, <1>3, <1>7, <2>1 DEF Refreshed
  <2> QED
    BY <1>1, <1>7, <2>2, UseHeadOK
<1> QED
  BY <1>4, <1>5, <1>6, <1>7

(* A call at a segment that it may read or search.                         *)
At(k) ==
  \/ Reading(k) /\ k.pc # "list" /\ k.segs[1].base <= NextLSN(k)
  \/ Searching(k)

(* It is, once the gap before the segment has been looked for.             *)
LEMMA AtIs ==
  ASSUME NEW k, Phase(k), k.pc \in {"stamp"} \cup (ReadPcs \ {"list"}),
         k.pc = "segment" => k.segs[1].base <= NextLSN(k)
  PROVE  At(k)
<1>1. CASE k.search
  <2>1. k.pc \in SearchPcs
    BY <1>1 DEF Phase, ReadPcs
  <2> QED
    BY <1>1, <2>1 DEF At, Searching
<1>2. CASE ~k.search
  <2>1. Reading(k) /\ k.pc # "list"
    BY <1>2 DEF Phase, Reading
  <2>2. Serves(k)
    BY <2>1 DEF Phase, Batch
  <2>3. k.segs[1].base <= NextLSN(k)
    BY <2>2 DEF Serves
  <2> QED
    BY <2>1, <2>3 DEF At
<1> QED
  BY <1>1, <1>2

(* The segment of such a call.                                             *)
LEMMA AtSegment ==
  ASSUME NEW j \in CallType, Phase(j), Exact(j), Elements(j.segs) \subseteq committed, At(j)
  PROVE  /\ j.segs # <<>> /\ j.segs[1] \in Segment /\ j.segs[1] \in committed
         /\ Head(j.segs) = j.segs[1] /\ j.start <= j.segs[1].last
<1>1. j.segs \in Seq(Segment) /\ j.start \in Nat
  BY CallFields
<1>2. j.segs # <<>>
  BY DEF At, Phase, Batch, Serves, Found
<1>3. PICK s \in Segment : s = j.segs[1] /\ s \in Elements(j.segs) /\ Head(j.segs) = s
  <2>1. 1 \in 1..Len(j.segs)
    BY <1>1, <1>2
  <2> QED
    BY <1>1, <2>1 DEF Elements
<1>4. s.base \in Nat /\ s.last \in Nat /\ s.base <= s.last
  BY SegmentIs
<1>5. j.start <= s.last
  <2>1. CASE Reading(j) /\ j.pc # "list"
    <3>1. Serves(j)
      BY <2>1 DEF Phase, Batch
    <3>2. s.last >= NextLSN(j)
      BY <1>3, <3>1 DEF Serves
    <3>3. NextLSN(j) \in Nat /\ NextLSN(j) >= j.start
      BY ExactLSNs
    <3> QED
      BY <1>1, <1>4, <3>2, <3>3
  <2>2. CASE Searching(j)
    <3>1. Found(j)
      BY <2>2 DEF Phase
    <3>2. j.start = s.base
      BY <1>3, <3>1 DEF Found
    <3> QED
      BY <1>4, <3>2
  <2> QED
    BY <2>1, <2>2 DEF At
<1> QED
  BY <1>2, <1>3, <1>5

(* An object is missing only below the floor.                              *)
LEMMA Lost ==
  ASSUME CatalogInv, CoordInv, NEW j \in CallType, Phase(j), Exact(j),
         Elements(j.segs) \subseteq committed, At(j), j.segs[1].base < gone
  PROVE  Fault("missing", j.start)
<1>1. PICK s \in Segment : s = j.segs[1] /\ s \in committed /\ j.start <= s.last
  BY AtSegment
<1>2. s.base \in Nat /\ s.last \in Nat /\ j.start \in Nat
  BY SegmentIs, CallFields
<1>3. part.state.oldest \in Nat /\ gone \in Nat /\ gone <= part.state.oldest
  BY CatalogTyped DEF CoordInv
<1>4. s.base < part.state.oldest
  BY <1>1, <1>2, <1>3
<1>5. s.last < part.state.oldest
  <2>1. s.last < part.state.oldest \/ s.base >= part.state.oldest
    BY <1>1 DEF CatalogInv, LogInv
  <2> QED
    BY <1>2, <1>3, <1>4, <2>1
<1>6. j.start < part.state.oldest
  BY <1>1, <1>2, <1>3, <1>5
<1> QED
  BY <1>6 DEF Fault, Outs

(* A gap in the page is seen only below the floor.                         *)
LEMMA GapBelow ==
  ASSUME NEW j \in CallType, Phase(j), j.pc = "segment", Gap(j.segs[1], NextLSN(j))
  PROVE  Fault("corrupt", j.start)
<1>1. Reading(j)
  BY DEF Phase, Reading, ReadPcs, SearchPcs
<1>2. Serves(j)
  BY <1>1 DEF Phase, Batch
<1>3. j.start < part.state.oldest
  BY <1>2 DEF Serves, Gap
<1> QED
  BY <1>3 DEF Fault, Outs

(* A call at a segment goes on with it.                                    *)
LEMMA ReadGoes ==
  ASSUME ClientsInv, NEW c \in Clients, cl[c].pc # "idle", At(cl[c]),
         NEW p \in ReadPcs \ {"list", "segment"}, cl[c].search => p \in SearchPcs,
         Stays(c, [cl[c] EXCEPT !.pc = p]), UNCHANGED <<part, committed>>
  PROVE  ClientsInv'
<1>1. PICK j \in CallType : j = cl[c]
  BY Hints
<1>2. /\ Phase(j) /\ j.res = "" /\ Exact(j) /\ Elements(j.segs) \subseteq committed
      /\ j.hint # <<>> => j.hint[1] \in committed
  BY <1>1, BusyCall
<1>3. PICK x : x = WithPc(j, p)
  OBVIOUS
<1>4. p \in Pcs
  BY DEF ReadPcs, Pcs
<1>5. Like(x, j) /\ x.pc = p
  BY <1>3, <1>4, PcLike
<1>6. Stays(c, x)
  BY <1>1, <1>3 DEF WithPc
<1>7. /\ x \in CallType /\ x.op = j.op /\ x.start = j.start /\ x.head = j.head /\ x.recs = j.recs
      /\ x.segs = j.segs /\ x.hint = j.hint /\ x.ts = j.ts /\ x.res = j.res
      /\ (x.search <=> j.search)
  BY <1>5 DEF Like
<1>8. Exact(x) /\ NextLSN(x) = NextLSN(j)
  BY <1>2, <1>7, ExactSame
<1>9. CASE Searching(j)
  <2>1. Searching(x) /\ j.op = "stamp" /\ j.recs = {} /\ Under(j) /\ Found(j)
    BY <1>1, <1>2, <1>5, <1>7, <1>9 DEF Searching, Reading, Phase
  <2>2. Under(x) /\ Found(x)
    BY <1>7, <2>1 DEF Under, Found
  <2>3. CallOK(x)
    BY <1>2, <1>7, <2>1, <2>2, SearchingOK
  <2> QED
    BY <1>1, <1>6, <1>7, <2>3, StaysOK
<1>10. CASE Reading(j) /\ j.pc # "list" /\ j.segs[1].base <= NextLSN(j)
  <2>1. Batch(j) /\ Serves(j) /\ ~j.search
    BY <1>2, <1>10 DEF Phase, Batch, Reading
  <2>2. Serves(x)
    BY <1>7, <1>8, <1>10, <2>1 DEF Serves
  <2>3. Batch(x)
    <3>1. Under(x) /\ (x.op = "stamp" => First(x))
      BY <1>7, <2>1 DEF Batch, Under, First
    <3>2. Cardinality(x.recs) < Limit(x) /\ NextLSN(x) < x.head[1].next
      BY <1>7, <1>8, <2>1 DEF Batch, Limit
    <3> QED
      BY <2>2, <3>1, <3>2 DEF Batch
  <2>4. Reading(x)
    BY <1>5, <1>7, <2>1 DEF Reading
  <2>5. CallOK(x)
    BY <1>2, <1>7, <1>8, <2>3, <2>4, ReadingOK
  <2> QED
    BY <1>1, <1>6, <1>7, <2>5, StaysOK
<1> QED
  BY <1>1, <1>9, <1>10 DEF At

(* A call uses what it has read.                                           *)
LEMMA UseBlockOK ==
  ASSUME ClientsInv, NEW c \in Clients, At(cl[c]), UseBlock(c), UNCHANGED <<part, committed>>
  PROVE  ClientsInv'
<1>1. CASE cl[c].search
  <2>1. UseTimestamp(c) /\ Searching(cl[c])
    BY <1>1 DEF UseBlock, At, Reading
  <2> QED
    BY <2>1, UseTimestampOK
<1>2. CASE ~cl[c].search
  <2>1. UseSegment(c) /\ Reading(cl[c]) /\ cl[c].pc # "list" /\ cl[c].segs[1].base <= NextLSN(cl[c])
    BY <1>2 DEF UseBlock, At, Searching
  <2> QED
    BY <2>1, UseSegmentOK
<1> QED
  BY <1>1, <1>2

(* The facts about a call at a segment.                                    *)
LEMMA AtBusy ==
  ASSUME ClientsInv, NEW c \in Clients, NEW j, j = cl[c],
         j.pc \in {"stamp"} \cup (ReadPcs \ {"list"})
  PROVE  /\ j \in CallType /\ Phase(j) /\ Exact(j) /\ Elements(j.segs) \subseteq committed
         /\ j.pc # "idle"
         /\ (j.pc = "segment" => ~Gap(j.segs[1], NextLSN(j))) => At(j)
         /\ (j.segs # <<>> => Head(j.segs) = j.segs[1])
<1>1. j.pc # "idle"
  BY DEF ReadPcs
<1>2. j \in CallType /\ Phase(j) /\ Exact(j) /\ Elements(j.segs) \subseteq committed
  BY <1>1, BusyCall
<1>3. ASSUME j.pc = "segment" => ~Gap(j.segs[1], NextLSN(j)) PROVE At(j)
  <2>1. ASSUME j.pc = "segment" PROVE j.segs[1].base <= NextLSN(j)
    <3>1. Reading(j)
      BY <1>2, <2>1 DEF Phase, Reading, ReadPcs, SearchPcs
    <3>2. Serves(j)
      BY <1>2, <2>1, <3>1 DEF Phase, Batch
    <3>3. j.segs \in Seq(Segment) /\ j.segs # <<>>
      BY <1>2, <3>2, CallFields DEF Serves
    <3>4. 1 \in 1..Len(j.segs)
      BY <3>3
    <3>5. PICK s \in Segment : s = j.segs[1]
      BY <3>3, <3>4
    <3>6. s.base \in Nat /\ NextLSN(j) \in Nat
      BY <1>2, SegmentIs, ExactLSNs
    <3>7. ~(s.base > NextLSN(j))
      BY <1>3, <2>1, <3>5 DEF Gap
    <3> QED
      BY <3>5, <3>6, <3>7
  <2> QED
    BY <1>2, <2>1, AtIs
<1>4. j.segs # <<>> => Head(j.segs) = j.segs[1]
  OBVIOUS
<1> QED
  BY <1>1, <1>2, <1>3, <1>4

(* The search of a timestamp in ranges.                                    *)
LEMMA TimestampStartOK ==
  ASSUME ClientsInv, CatalogInv, CoordInv, NEW c \in Clients, TimestampStart(c),
         UNCHANGED <<part, committed>>
  PROVE  ClientsInv'
<1>1. PICK j : j = cl[c]
  OBVIOUS
<1>2. j.pc = "stamp"
  BY <1>1 DEF TimestampStart
<1>3. /\ j \in CallType /\ Phase(j) /\ Exact(j) /\ Elements(j.segs) \subseteq committed
      /\ j.pc # "idle" /\ At(j)
  BY <1>1, <1>2, AtBusy
<1>4. CASE j.segs[1].base < gone
  <2>1. Anomaly(c, "missing")
    BY <1>1, <1>4 DEF TimestampStart
  <2>2. Fault("missing", cl[c].start)
    BY <1>1, <1>3, <1>4, Lost
  <2> QED
    BY <1>1, <1>3, <2>1, <2>2, AnomalyOK
<1>5. CASE ~(j.segs[1].base < gone)
  <2>1. UseTimestamp(c)
    BY <1>1, <1>5 DEF TimestampStart
  <2>2. Searching(cl[c])
    BY <1>1, <1>2, <1>3 DEF Phase, Searching, SearchPcs
  <2> QED
    BY <2>1, <2>2, UseTimestampOK
<1> QED
  BY <1>4, <1>5

(* A segment is read in ranges.                                            *)
LEMMA ReadSegmentOK ==
  ASSUME ClientsInv, CatalogInv, CoordInv, NEW c \in Clients, ReadSegment(c),
         UNCHANGED <<part, committed>>
  PROVE  ClientsInv'
<1>1. PICK j : j = cl[c]
  OBVIOUS
<1>2. j.pc = "segment" /\ j.pc \in {"stamp"} \cup (ReadPcs \ {"list"})
  BY <1>1 DEF ReadSegment, ReadPcs
<1>3. /\ j \in CallType /\ Phase(j) /\ Exact(j) /\ Elements(j.segs) \subseteq committed
      /\ j.pc # "idle" /\ (~Gap(j.segs[1], NextLSN(j)) => At(j))
  BY <1>1, <1>2, AtBusy
<1>4. Reading(j) /\ j.segs # <<>>
  <2>1. Reading(j)
    BY <1>2, <1>3 DEF Phase, Reading, ReadPcs, SearchPcs
  <2> QED
    BY <1>2, <1>3, <2>1 DEF Phase, Batch, Serves
<1>5. Head(j.segs) = j.segs[1]
  BY <1>4
<1>6. CASE Gap(j.segs[1], NextLSN(j))
  <2>1. Anomaly(c, "corrupt")
    BY <1>1, <1>5, <1>6 DEF ReadSegment
  <2>2. Fault("corrupt", cl[c].start)
    BY <1>1, <1>2, <1>3, <1>6, GapBelow
  <2> QED
    BY <1>1, <1>3, <2>1, <2>2, AnomalyOK
<1>7. CASE ~Gap(j.segs[1], NextLSN(j)) /\ j.segs[1].base < gone
  <2>1. Anomaly(c, "missing")
    BY <1>1, <1>5, <1>7 DEF ReadSegment
  <2>2. Fault("missing", cl[c].start)
    BY <1>1, <1>3, <1>7, Lost
  <2> QED
    BY <1>1, <1>3, <2>1, <2>2, AnomalyOK
<1>8. CASE ~Gap(j.segs[1], NextLSN(j)) /\ ~(j.segs[1].base < gone)
  <2>1. UseSegment(c)
    BY <1>1, <1>5, <1>8 DEF ReadSegment
  <2>2. j.segs[1].base <= NextLSN(j)
    BY <1>3, <1>4, <1>8 DEF At, Searching, Reading
  <2> QED
    BY <1>1, <1>2, <1>4, <2>1, <2>2, UseSegmentOK
<1> QED
  BY <1>6, <1>7, <1>8

(* Tailer.Next at the tail: the snapshot.                                  *)
LEMMA TailSnapshotOK ==
  ASSUME ClientsInv, CoordInv, NEW c \in Clients, TailSnapshot(c), UNCHANGED <<part, committed>>
  PROVE  ClientsInv'
<1>1. cl[c].pc = "tailed" /\ cl[c].pc # "idle" /\ ~Reading(cl[c])
  BY DEF TailSnapshot, Reading, ReadPcs
<1>2. cl[c].op # "stamp" /\ ~cl[c].search
  <2>1. Phase(cl[c])
    BY <1>1, BusyCall
  <2> QED
    BY <1>1, <2>1 DEF Phase, SearchPcs, TailPcs
<1> DEFINE s == partitionSnapshot
<1>3. CASE s # <<>> /\ s[1].snap.head.next > cl[c].start
  <2>1. Stays(c, [cl[c] EXCEPT !.pc = "head"])
    BY <1>3 DEF TailSnapshot
  <2>2. "head" \in Pcs /\ Waiting(cl[c], "head")
    BY <1>2 DEF Pcs, Waiting, TailPcs
  <2> QED
    BY <1>1, <2>1, <2>2, GoesTo
<1>4. CASE ~(s # <<>> /\ s[1].snap.head.next > cl[c].start)
  <2>1. PICK n : n = IF s = <<>> THEN 0 ELSE s[1].gen
    OBVIOUS
  <2>2. n \in Nat
    BY <2>1, SnapshotIs DEF CoordInv
  <2>3. PICK j \in CallType : j = cl[c]
    BY Hints
  <2>4. PICK x : x = WithGen(j, "member", n)
    OBVIOUS
  <2>5. Stays(c, x)
    BY <1>4, <2>1, <2>3, <2>4 DEF TailSnapshot, WithGen
  <2>6. "member" \in Pcs /\ Waiting(cl[c], "member")
    BY <1>2 DEF Pcs, Waiting, TailPcs
  <2>7. Like(x, j) /\ x.pc = "member"
    BY <2>2, <2>4, <2>6, GenLike
  <2> QED
    BY <1>1, <2>3, <2>5, <2>6, <2>7, MovesOn
<1> QED
  BY <1>3, <1>4

(* What partitionMembership may answer.                                    *)
LEMMA MembershipPlain == ASSUME NEW c PROVE MembershipError(c) \in Plain
BY DEF MembershipError, Plain

(* partitionMembership.                                                    *)
LEMMA TailMembershipOK ==
  ASSUME ClientsInv, NEW c \in Clients, TailMembership(c), UNCHANGED <<part, committed>>
  PROVE  ClientsInv'
<1>1. cl[c].pc = "member" /\ cl[c].pc # "idle" /\ ~Reading(cl[c])
  BY DEF TailMembership, Reading, ReadPcs
<1>2. cl[c].op # "stamp" /\ ~cl[c].search
  <2>1. Phase(cl[c])
    BY <1>1, BusyCall
  <2> QED
    BY <1>1, <2>1 DEF Phase, SearchPcs, TailPcs
<1>3. CASE MembershipError(c) # ""
  <2>1. Fails(c, MembershipError(c), cursor[c].hint)
    BY <1>3 DEF TailMembership
  <2> QED
    BY <1>1, <2>1, MembershipPlain, FailsPlain
<1>4. CASE MembershipError(c) = ""
  <2>1. Stays(c, [cl[c] EXCEPT !.pc = "channel"])
    BY <1>4 DEF TailMembership
  <2>2. "channel" \in Pcs /\ Waiting(cl[c], "channel")
    BY <1>2 DEF Pcs, Waiting, TailPcs
  <2> QED
    BY <1>1, <2>1, <2>2, GoesTo
<1> QED
  BY <1>3, <1>4

(* The channel of the subscription.                                        *)
LEMMA TailChannelOK ==
  ASSUME ClientsInv, NEW c \in Clients, TailChannel(c), UNCHANGED <<part, committed>>
  PROVE  ClientsInv'
<1>1. cl[c].pc = "channel" /\ cl[c].pc # "idle" /\ ~Reading(cl[c])
  BY DEF TailChannel, Reading, ReadPcs
<1>2. cl[c].op # "stamp" /\ ~cl[c].search
  <2>1. Phase(cl[c])
    BY <1>1, BusyCall
  <2> QED
    BY <1>1, <2>1 DEF Phase, SearchPcs, TailPcs
<1>3. PICK p \in {"wait", "recheck"} : Stays(c, [cl[c] EXCEPT !.pc = p, !.gen = 0])
  BY DEF TailChannel
<1>4. p \in Pcs /\ Waiting(cl[c], p)
  BY <1>2 DEF Pcs, Waiting, TailPcs
<1>5. PICK j \in CallType : j = cl[c]
  BY Hints
<1>6. PICK x : x = WithGen(j, p, 0)
  OBVIOUS
<1>7. Stays(c, x)
  BY <1>3, <1>5, <1>6 DEF WithGen
<1>8. Like(x, j) /\ x.pc = p
  <2>1. 0 \in Nat
    OBVIOUS
  <2> QED
    BY <1>4, <1>6, <2>1, GenLike
<1> QED
  BY <1>1, <1>4, <1>5, <1>7, <1>8, MovesOn

(* A tailer wakes.                                                         *)
LEMMA TailWokenOK ==
  ASSUME ClientsInv, NEW c \in Clients, TailWoken(c), UNCHANGED <<part, committed>>
  PROVE  ClientsInv'
<1>1. cl[c].pc = "wait" /\ cl[c].pc # "idle" /\ ~Reading(cl[c])
  BY DEF TailWoken, Reading, ReadPcs
<1>2. cl[c].op # "stamp" /\ ~cl[c].search
  <2>1. Phase(cl[c])
    BY <1>1, BusyCall
  <2> QED
    BY <1>1, <2>1 DEF Phase, SearchPcs, TailPcs
<1>3. Stays(c, [cl[c] EXCEPT !.pc = "recheck"])
  BY DEF TailWoken
<1>4. "recheck" \in Pcs /\ Waiting(cl[c], "recheck")
  BY <1>2 DEF Pcs, Waiting, TailPcs
<1> QED
  BY <1>1, <1>3, <1>4, GoesTo

(* And looks at its membership again.                                      *)
LEMMA TailRecheckOK ==
  ASSUME ClientsInv, NEW c \in Clients, TailRecheck(c), UNCHANGED <<part, committed>>
  PROVE  ClientsInv'
<1>1. cl[c].pc = "recheck" /\ cl[c].pc # "idle" /\ ~Reading(cl[c])
  BY DEF TailRecheck, Reading, ReadPcs
<1>2. cl[c].op # "stamp" /\ ~cl[c].search
  <2>1. Phase(cl[c])
    BY <1>1, BusyCall
  <2> QED
    BY <1>1, <2>1 DEF Phase, SearchPcs, TailPcs
<1>3. CASE MembershipError(c) # ""
  <2>1. Fails(c, MembershipError(c), cursor[c].hint)
    BY <1>3 DEF TailRecheck
  <2> QED
    BY <1>1, <2>1, MembershipPlain, FailsPlain
<1>4. CASE MembershipError(c) = ""
  <2>1. Stays(c, [cl[c] EXCEPT !.pc = "head"])
    BY <1>4 DEF TailRecheck
  <2>2. "head" \in Pcs /\ Waiting(cl[c], "head")
    BY <1>2 DEF Pcs, Waiting, TailPcs
  <2> QED
    BY <1>1, <2>1, <2>2, GoesTo
<1> QED
  BY <1>3, <1>4

(* A query or a read fails.                                                *)
LEMMA QueryFailsOK ==
  ASSUME ClientsInv, NEW c \in Clients, QueryFails(c), UNCHANGED <<part, committed>>
  PROVE  ClientsInv'
<1>1. cl[c].pc # "idle"
  BY DEF QueryFails
<1>2. "fault" \in Plain
  BY DEF Plain
<1>3. CASE Fails(c, "fault", <<>>)
  BY <1>1, <1>2, <1>3, FailsPlain
<1>4. CASE Anomaly(c, "fault")
  <2>1. Fault("fault", cl[c].start)
    BY <1>2, PlainFault
  <2> QED
    BY <1>1, <1>4, <2>1, AnomalyOK
<1> QED
  BY <1>3, <1>4 DEF QueryFails

(* A call whose context ended returns.                                     *)
LEMMA CallCancelledOK ==
  ASSUME ClientsInv, NEW c \in Clients, CallCancelled(c), UNCHANGED <<part, committed>>
  PROVE  ClientsInv'
<1>1. cl[c].pc # "idle"
  BY DEF CallCancelled
<1>2. "cancelled" \in Plain
  BY DEF Plain
<1>3. Fails(c, "cancelled", cl[c].hint) \/ Fails(c, "cancelled", cursor[c].hint)
  BY DEF CallCancelled
<1> QED
  BY <1>1, <1>2, <1>3, FailsPlain

(* A call with the same fields is where it was.                            *)
LEMMA CallLike ==
  ASSUME NEW k, NEW x, CallOK(k), Like(x, k), x.pc = k.pc
  PROVE  CallOK(x)
<1>1. /\ x \in CallType /\ x.op = k.op /\ x.start = k.start /\ x.head = k.head /\ x.recs = k.recs
      /\ x.segs = k.segs /\ x.hint = k.hint /\ x.ts = k.ts /\ x.res = k.res
      /\ (x.search <=> k.search)
  BY DEF Like
<1>2. Exact(x) /\ NextLSN(x) = NextLSN(k)
  BY <1>1, ExactSame DEF CallOK
<1>3. Told(k) => Told(x)
  BY <1>1, ToldSame
<1>4. Under(k) => Under(x)
  BY <1>1 DEF Under
<1>5. First(k) => First(x)
  BY <1>1 DEF First
<1>6. Found(k) => Found(x)
  BY <1>1 DEF Found
<1>7. Serves(k) => Serves(x)
  BY <1>1, <1>2 DEF Serves
<1>8. Batch(k) => Batch(x)
  BY <1>1, <1>2, <1>4, <1>5, <1>7 DEF Batch, Limit
<1>9. Phase(k) => Phase(x)
  BY <1>1, <1>4, <1>6, <1>8 DEF Phase, Reading, Searching
<1> QED
  BY <1>1, <1>2, <1>3, <1>9 DEF CallOK

(* The caller's context ends.                                              *)
LEMMA CancelCallOK ==
  ASSUME ClientsInv, NEW c \in Clients, CancelCall(c), UNCHANGED <<part, committed>>
  PROVE  ClientsInv'
<1>1. PICK j : j = cl[c]
  OBVIOUS
<1>2. PICK x : x = Stopping(j)
  OBVIOUS
<1>3. CallOK(j) /\ j \in CallType /\ cl[c].pc # "idle"
  BY <1>1 DEF CancelCall, ClientsInv, ClientOK, CallOK
<1>4. Stays(c, x)
  BY <1>1, <1>2 DEF CancelCall, Stays, Stopping
<1>5. Like(x, j) /\ x.pc = j.pc /\ x.op = j.op /\ x.start = j.start
  BY <1>2, <1>3, StopRec DEF Like
<1>6. CallOK(x)
  BY <1>3, <1>5, CallLike
<1> QED
  BY <1>1, <1>3, <1>4, <1>5, <1>6, StaysOK

----------------------------------------------------------------------------
(* The flights of the caches.                                              *)

FlightOuts == {"", "ok", "missing", "fault", "no waiters", "closed", "unavailable"}
RangeKey == [seg : Segment, part : {"index", "data"}, size : Nat]
OpenIds == {"open"} \X Segment \X Nat
FlightType ==
  [level : {"whole", "open", "range"}, key : Segment \cup RangeKey, n : Nat,
   waiters : SUBSET (Clients \cup OpenIds), current : BOOLEAN,
   stage : {"read", "begin", "wait", "finish", "done"}, cause : {"", "no waiters", "closed"},
   out : FlightOuts]

(* An object is missing only once it was deleted, nobody waits for a flight *)
(* that was cancelled for want of waiters, and an open waits for a range of *)
(* its own segment.                                                        *)
FlightOK(f) ==
  /\ f \in FlightType /\ SegmentOf(f) \in Segment
  /\ f.level # "range" => f.key \in Segment
  /\ f.out = "missing" => SegmentOf(f).base < gone
  /\ f.cause = "no waiters" \/ f.out = "no waiters" => f.waiters = {} /\ ~f.current
  /\ \A x \in f.waiters : x \notin Clients => x[2] = SegmentOf(f)

(* A client waits for a flight of the segment it is at.                    *)
WaitsFor(c, k, f) ==
  c \in f.waiters => /\ k.pc \in {"whole", "open", "range"}
                     /\ k.segs # <<>> /\ k.segs[1] = SegmentOf(f)

FlightsInv ==
  /\ IsFiniteSet(flights)
  /\ \A f \in flights : FlightOK(f) /\ \A c \in Clients : WaitsFor(c, cl[c], f)

(* The flight a client waits for.                                          *)
LEMMA FlightIs ==
  ASSUME NEW x, InFlight(x)
  PROVE  FlightOf(x) \in flights /\ x \in FlightOf(x).waiters
BY DEF InFlight, FlightOf

(* What a client collects.                                                 *)
LEMMA CollectedIs ==
  ASSUME FlightsInv, NEW c \in Clients, Landed(c), NEW e, e = FlightOf(c).out
  PROVE  /\ e \in FlightOuts /\ e # "no waiters"
         /\ e = "missing" => cl[c].segs[1].base < gone
<1>1. PICK f \in flights : f = FlightOf(c) /\ c \in f.waiters
  BY FlightIs DEF Landed
<1>2. FlightOK(f) /\ WaitsFor(c, cl[c], f)
  BY <1>1 DEF FlightsInv
<1>3. e \in FlightOuts
  BY <1>1, <1>2 DEF FlightOK, FlightType
<1>4. e # "no waiters"
  BY <1>1, <1>2 DEF FlightOK
<1>5. e = "missing" => cl[c].segs[1].base < gone
  BY <1>1, <1>2 DEF FlightOK, WaitsFor
<1> QED
  BY <1>3, <1>4, <1>5

(* The load or the read a client waited for failed.                        *)
LEMMA CollectFails ==
  ASSUME ClientsInv, CatalogInv, CoordInv, FlightsInv, NEW c \in Clients,
         cl[c].pc \in {"whole", "open", "range"}, Landed(c),
         FlightOf(c).out \notin {"ok", "unavailable"}, Anomaly(c, FlightOf(c).out),
         UNCHANGED <<part, committed>>
  PROVE  ClientsInv'
<1>1. PICK j : j = cl[c]
  OBVIOUS
<1>2. PICK e : e = FlightOf(c).out
  OBVIOUS
<1>3. /\ e \in FlightOuts /\ e # "no waiters"
      /\ e = "missing" => j.segs[1].base < gone
  BY <1>1, <1>2, CollectedIs
<1>4. j.pc \in {"stamp"} \cup (ReadPcs \ {"list"}) /\ j.pc # "segment"
  BY <1>1 DEF ReadPcs
<1>5. /\ j \in CallType /\ Phase(j) /\ Exact(j) /\ Elements(j.segs) \subseteq committed
      /\ j.pc # "idle" /\ At(j)
  BY <1>1, <1>4, AtBusy
<1>6. Fault(e, j.start)
  <2>1. CASE e = "missing"
    BY <1>3, <1>5, <2>1, Lost
  <2>2. CASE e # "missing"
    <3>1. e \in Plain
      BY <1>2, <1>3, <2>2 DEF FlightOuts, Plain
    <3> QED
      BY <3>1, PlainFault
  <2> QED
    BY <2>1, <2>2
<1> QED
  BY <1>1, <1>2, <1>5, <1>6, AnomalyOK

(* What a client does next after it asked the whole-segment cache.         *)
Nows == {"closed", "leased", "whole", "ranges"}

(* One of these.                                                           *)
LEMMA NowIs == ASSUME NEW x, NEW s PROVE Acquire(x, s).now \in Nows /\ AcquireCached(s).now \in Nows
<1>1. Acquire(x, s).now \in Nows
  BY DEF Acquire, Nows
<1>2. AcquireCached(s).now \in Nows
  BY DEF AcquireCached, Nows
<1> QED
  BY <1>1, <1>2

(* openWholeSegmentForRead.                                                *)
LEMMA OpenWholeOK ==
  ASSUME ClientsInv, CatalogInv, CoordInv, NEW c \in Clients, OpenWhole(c),
         UNCHANGED <<part, committed>>
  PROVE  ClientsInv'
<1>1. PICK j : j = cl[c]
  OBVIOUS
<1>2. j.pc = "segment" /\ j.pc \in {"stamp"} \cup (ReadPcs \ {"list"})
  BY <1>1 DEF OpenWhole, ReadPcs
<1>3. /\ j \in CallType /\ Phase(j) /\ Exact(j) /\ Elements(j.segs) \subseteq committed
      /\ j.pc # "idle" /\ (~Gap(j.segs[1], NextLSN(j)) => At(j))
  BY <1>1, <1>2, AtBusy
<1>4. Reading(j) /\ j.segs # <<>> /\ ~j.search
  <2>1. Reading(j)
    BY <1>2, <1>3 DEF Phase, Reading, ReadPcs, SearchPcs
  <2> QED
    BY <1>2, <1>3, <2>1 DEF Phase, Batch, Serves, Reading
<1>5. Head(j.segs) = j.segs[1]
  BY <1>4
<1>6. CASE Gap(j.segs[1], NextLSN(j))
  <2>1. Anomaly(c, "corrupt")
    BY <1>1, <1>5, <1>6 DEF OpenWhole
  <2>2. Fault("corrupt", cl[c].start)
    BY <1>1, <1>2, <1>3, <1>6, GapBelow
  <2> QED
    BY <1>1, <1>3, <2>1, <2>2, AnomalyOK
<1>7. CASE ~Gap(j.segs[1], NextLSN(j))
  <2>1. PICK p : /\ p = "ranges" \/ p = Acquire(c, j.segs[1]).now \/ p = AcquireCached(j.segs[1]).now
                 /\ IF p = "closed" THEN Anomaly(c, "closed")
                    ELSE Stays(c, [cl[c] EXCEPT !.pc = p])
    <3> DEFINE s == j.segs[1]
               limit == Limit(j) - Cardinality(j.recs)
               a == IF chooseReadStrategy(left.strategy, s, NextLSN(j), limit, Intent(j)) = "whole"
                    THEN Acquire(c, s)
                    ELSE IF left.strategy = "auto" THEN AcquireCached(s)
                    ELSE [now |-> "ranges", whole |-> whole, flights |-> flights]
    <3>1. IF a.now = "closed" THEN Anomaly(c, "closed") ELSE Stays(c, [cl[c] EXCEPT !.pc = a.now])
      BY <1>1, <1>5, <1>7 DEF OpenWhole
    <3>2. a.now = "ranges" \/ a.now = Acquire(c, s).now \/ a.now = AcquireCached(s).now
      OBVIOUS
    <3> HIDE DEF a, s
    <3> QED
      BY <3>1, <3>2 DEF s
  <2>2. p \in Nows
    BY <2>1, NowIs DEF Nows
  <2>3. CASE p = "closed"
    <3>1. "closed" \in Plain
      BY DEF Plain
    <3>2. Fault("closed", cl[c].start)
      BY <3>1, PlainFault
    <3> QED
      BY <1>1, <1>3, <2>1, <2>3, <3>2, AnomalyOK
  <2>4. CASE p # "closed"
    <3>1. p \in ReadPcs \ {"list", "segment"}
      BY <2>2, <2>4 DEF Nows, ReadPcs
    <3>2. Stays(c, [cl[c] EXCEPT !.pc = p])
      BY <2>1, <2>4
    <3> QED
      BY <1>1, <1>3, <1>4, <1>7, <3>1, <3>2, ReadGoes
  <2> QED
    BY <2>3, <2>4
<1> QED
  BY <1>6, <1>7

(* The whole segment was loaded.                                           *)
LEMMA WholeLoadedOK ==
  ASSUME ClientsInv, CatalogInv, CoordInv, FlightsInv, NEW c \in Clients, WholeLoaded(c),
         UNCHANGED <<part, committed>>
  PROVE  ClientsInv'
<1>1. PICK j : j = cl[c]
  OBVIOUS
<1>2. j.pc = "whole" /\ Landed(c) /\ j.pc \in {"stamp"} \cup (ReadPcs \ {"list"})
  BY <1>1 DEF WholeLoaded, Collect, ReadPcs
<1>3. /\ j \in CallType /\ Phase(j) /\ j.pc # "idle" /\ At(j)
  BY <1>1, <1>2, AtBusy
<1>4. CASE FlightOf(c).out \in {"ok", "unavailable"}
  <2>1. PICK p \in {"leased", "ranges"} : Stays(c, [cl[c] EXCEPT !.pc = p])
    BY <1>4 DEF WholeLoaded, Collect
  <2>2. p \in ReadPcs \ {"list", "segment"}
    BY DEF ReadPcs
  <2>3. ~j.search
    BY <1>2, <1>3 DEF Phase, SearchPcs
  <2> QED
    BY <1>1, <1>3, <2>1, <2>2, <2>3, ReadGoes
<1>5. CASE FlightOf(c).out \notin {"ok", "unavailable"}
  <2>1. Anomaly(c, FlightOf(c).out)
    BY <1>5 DEF WholeLoaded, Collect
  <2> QED
    BY <1>1, <1>2, <1>5, <2>1, CollectFails
<1> QED
  BY <1>4, <1>5

(* Lease.Reader.                                                           *)
LEMMA LeaseReaderOK ==
  ASSUME ClientsInv, NEW c \in Clients, LeaseReader(c), UNCHANGED <<part, committed>>
  PROVE  ClientsInv'
<1>1. PICK j : j = cl[c]
  OBVIOUS
<1>2. j.pc = "leased" /\ j.pc \in {"stamp"} \cup (ReadPcs \ {"list"})
  BY <1>1 DEF LeaseReader, ReadPcs
<1>3. /\ j \in CallType /\ Phase(j) /\ j.pc # "idle" /\ At(j)
  BY <1>1, <1>2, AtBusy
<1>4. CASE Stays(c, [cl[c] EXCEPT !.pc = "reading"])
  <2>1. "reading" \in ReadPcs \ {"list", "segment"}
    BY DEF ReadPcs
  <2>2. ~j.search
    BY <1>2, <1>3 DEF Phase, SearchPcs
  <2> QED
    BY <1>1, <1>3, <1>4, <2>1, <2>2, ReadGoes
<1>5. CASE Anomaly(c, "closed")
  <2>1. "closed" \in Plain
    BY DEF Plain
  <2>2. Fault("closed", cl[c].start)
    BY <2>1, PlainFault
  <2> QED
    BY <1>1, <1>3, <1>5, <2>2, AnomalyOK
<1> QED
  BY <1>4, <1>5 DEF LeaseReader

(* The read from the lease.                                                *)
LEMMA LeaseReadOK ==
  ASSUME ClientsInv, NEW c \in Clients, LeaseRead(c), UNCHANGED <<part, committed>>
  PROVE  ClientsInv'
<1>1. PICK j : j = cl[c]
  OBVIOUS
<1>2. j.pc = "reading" /\ j.pc \in {"stamp"} \cup (ReadPcs \ {"list"}) /\ UseSegment(c)
  BY <1>1 DEF LeaseRead, ReadPcs
<1>3. /\ j \in CallType /\ Phase(j) /\ j.pc # "idle" /\ At(j)
  BY <1>1, <1>2, AtBusy
<1>4. Reading(j) /\ j.pc # "list" /\ j.segs[1].base <= NextLSN(j)
  BY <1>2, <1>3 DEF At, Searching, SearchPcs
<1> QED
  BY <1>1, <1>2, <1>4, UseSegmentOK

(* openSegment.                                                            *)
LEMMA OpenSegmentOK ==
  ASSUME ClientsInv, NEW c \in Clients, OpenSegment(c), UNCHANGED <<part, committed>>
  PROVE  ClientsInv'
<1>1. PICK j : j = cl[c]
  OBVIOUS
<1>2. j.pc \in {"ranges", "stamp"} /\ j.pc \in {"stamp"} \cup (ReadPcs \ {"list"})
  BY <1>1 DEF OpenSegment, ReadPcs
<1>3. /\ j \in CallType /\ Phase(j) /\ j.pc # "idle" /\ At(j)
  BY <1>1, <1>2, AtBusy
<1>4. PICK p \in {"block", "open"} : Stays(c, [cl[c] EXCEPT !.pc = p])
  BY DEF OpenSegment
<1>5. p \in ReadPcs \ {"list", "segment"} /\ p \in SearchPcs
  BY DEF ReadPcs, SearchPcs
<1> QED
  BY <1>1, <1>3, <1>4, <1>5, ReadGoes

(* The segment was opened.                                                 *)
LEMMA SegmentOpenedOK ==
  ASSUME ClientsInv, CatalogInv, CoordInv, FlightsInv, NEW c \in Clients, SegmentOpened(c),
         UNCHANGED <<part, committed>>
  PROVE  ClientsInv'
<1>1. PICK j : j = cl[c]
  OBVIOUS
<1>2. j.pc = "open" /\ Landed(c) /\ j.pc \in {"stamp"} \cup (ReadPcs \ {"list"})
  BY <1>1 DEF SegmentOpened, Collect, ReadPcs
<1>3. /\ j \in CallType /\ Phase(j) /\ j.pc # "idle" /\ At(j)
  BY <1>1, <1>2, AtBusy
<1>4. CASE FlightOf(c).out \in {"ok", "unavailable"}
  <2>1. Stays(c, [cl[c] EXCEPT !.pc = "block"])
    BY <1>4 DEF SegmentOpened, Collect
  <2>2. "block" \in ReadPcs \ {"list", "segment"} /\ "block" \in SearchPcs
    BY DEF ReadPcs, SearchPcs
  <2> QED
    BY <1>1, <1>3, <2>1, <2>2, ReadGoes
<1>5. CASE FlightOf(c).out \notin {"ok", "unavailable"}
  <2>1. Anomaly(c, FlightOf(c).out)
    BY <1>5 DEF SegmentOpened, Collect
  <2> QED
    BY <1>1, <1>2, <1>5, <2>1, CollectFails
<1> QED
  BY <1>4, <1>5

(* The lookup of the blocks.                                               *)
LEMMA BlockGetOK ==
  ASSUME ClientsInv, NEW c \in Clients, BlockGet(c), UNCHANGED <<part, committed>>
  PROVE  ClientsInv'
<1>1. PICK j : j = cl[c]
  OBVIOUS
<1>2. j.pc = "block" /\ j.pc \in {"stamp"} \cup (ReadPcs \ {"list"})
  BY <1>1 DEF BlockGet, ReadPcs
<1>3. /\ j \in CallType /\ Phase(j) /\ j.pc # "idle" /\ At(j)
  BY <1>1, <1>2, AtBusy
<1>4. CASE UseBlock(c)
  BY <1>1, <1>3, <1>4, UseBlockOK
<1>5. CASE Stays(c, [cl[c] EXCEPT !.pc = "begin"])
  <2>1. "begin" \in ReadPcs \ {"list", "segment"} /\ "begin" \in SearchPcs
    BY DEF ReadPcs, SearchPcs
  <2> QED
    BY <1>1, <1>3, <1>5, <2>1, ReadGoes
<1> QED
  BY <1>4, <1>5 DEF BlockGet

(* The join of their read.                                                 *)
LEMMA BlockBeginOK ==
  ASSUME ClientsInv, NEW c \in Clients, BlockBegin(c), UNCHANGED <<part, committed>>
  PROVE  ClientsInv'
<1>1. PICK j : j = cl[c]
  OBVIOUS
<1>2. j.pc = "begin" /\ j.pc \in {"stamp"} \cup (ReadPcs \ {"list"})
  BY <1>1 DEF BlockBegin, ReadPcs
<1>3. /\ j \in CallType /\ Phase(j) /\ j.pc # "idle" /\ At(j)
  BY <1>1, <1>2, AtBusy
<1>4. Stays(c, [cl[c] EXCEPT !.pc = "range"])
  BY DEF BlockBegin
<1>5. "range" \in ReadPcs \ {"list", "segment"} /\ "range" \in SearchPcs
  BY DEF ReadPcs, SearchPcs
<1> QED
  BY <1>1, <1>3, <1>4, <1>5, ReadGoes

(* The blocks were read.                                                   *)
LEMMA BlockReadOK ==
  ASSUME ClientsInv, CatalogInv, CoordInv, FlightsInv, NEW c \in Clients, BlockRead(c),
         UNCHANGED <<part, committed>>
  PROVE  ClientsInv'
<1>1. PICK j : j = cl[c]
  OBVIOUS
<1>2. j.pc = "range" /\ Landed(c) /\ j.pc \in {"stamp"} \cup (ReadPcs \ {"list"})
  BY <1>1 DEF BlockRead, Collect, ReadPcs
<1>3. /\ j \in CallType /\ Phase(j) /\ j.pc # "idle" /\ At(j)
  BY <1>1, <1>2, AtBusy
<1>4. CASE FlightOf(c).out \in {"ok", "unavailable"}
  <2>1. UseBlock(c)
    BY <1>4 DEF BlockRead, Collect
  <2> QED
    BY <1>1, <1>3, <2>1, UseBlockOK
<1>5. CASE FlightOf(c).out \notin {"ok", "unavailable"}
  <2>1. Anomaly(c, FlightOf(c).out)
    BY <1>5 DEF BlockRead, Collect
  <2> QED
    BY <1>1, <1>2, <1>5, <2>1, CollectFails
<1> QED
  BY <1>4, <1>5

(* A step of a call keeps what every client may rely on.                   *)
LEMMA ClientStepOK ==
  ASSUME ClientsInv, CatalogInv, CoordInv, FlightsInv, NEW c \in Clients, ClientSteps(c),
         UNCHANGED <<part, committed>>
  PROVE  ClientsInv'
<1>1. CASE CacheSteps(c)
  BY <1>1, OpenWholeOK, WholeLoadedOK, LeaseReaderOK, LeaseReadOK, OpenSegmentOK,
     SegmentOpenedOK, BlockGetOK, BlockBeginOK, BlockReadOK DEF CacheSteps
<1>2. CASE headForRead(c) \/ RefreshJoin(c) \/ Refreshed(c) \/ FetchHead(c) \/ FetchFind(c)
  BY <1>2, HeadForReadOK, RefreshJoinOK, RefreshedOK, FetchHeadOK, FetchFindOK
<1>3. CASE TimestampLookup(c) \/ TimestampStart(c) \/ ListPage(c) \/ ReadSegment(c)
  BY <1>3, TimestampLookupOK, TimestampStartOK, ListPageOK, ReadSegmentOK
<1>4. CASE CallCancelled(c) \/ TailSnapshot(c) \/ TailMembership(c) \/ TailChannel(c)
           \/ TailWoken(c) \/ TailRecheck(c)
  BY <1>4, CallCancelledOK, TailSnapshotOK, TailMembershipOK, TailChannelOK, TailWokenOK,
     TailRecheckOK
<1> QED
  BY <1>1, <1>2, <1>3, <1>4 DEF ClientSteps

----------------------------------------------------------------------------
(* The starts of calls.                                                    *)

(* What a workload offers to clients stays what it was.                    *)
LeftInv ==
  /\ left = [x \in DOMAIN left |-> left[x]] /\ {"starts", "fresh"} \subseteq DOMAIN left
  /\ left.starts \subseteq Nat /\ left.fresh \subseteq STRING

(* Whatever else is spent.                                                 *)
LEMMA SpendKeeps ==
  ASSUME LeftInv, NEW w, w \notin {"starts", "fresh"}, Spend(w)
  PROVE  LeftInv'
BY DEF LeftInv, Spend

(* A workload is one.                                                      *)
LEMMA LeftStarts == ASSUME left \in Workloads PROVE LeftInv
BY WorkloadAssumption DEF LeftInv

(* A call as it starts.                                                    *)
Begun(x, op, p, l, h) ==
  /\ x \in CallType /\ x.op = op /\ x.pc = p /\ x.start = l /\ x.recs = {}
  /\ x.segs = <<>> /\ x.hint = h /\ x.res = "" /\ ~x.search

(* The call nobody has made.                                               *)
LEMMA NoCallIs ==
  /\ NoCall \in CallType /\ NoCall.pc = "idle" /\ NoCall.op = "none"
  /\ Begun(NoCall, "none", "idle", 0, <<>>)
<1>1. /\ "" \in Outs /\ "none" \in Ops /\ "idle" \in Pcs /\ <<>> \in Opt(HeadRec)
      /\ <<>> \in Seq(Segment) /\ {} \in SUBSET Rec /\ <<>> \in Opt(Segment)
  BY DEF Outs, Opt, Ops, Pcs
<1>2. NoCall \in CallType
  BY <1>1 DEF CallType, NoCall
<1>3. /\ NoCall.op = "none" /\ NoCall.pc = "idle" /\ NoCall.start = 0 /\ NoCall.recs = {}
      /\ NoCall.segs = <<>> /\ NoCall.hint = <<>> /\ NoCall.res = "" /\ ~NoCall.search
  BY DEF NoCall
<1> QED
  BY <1>2, <1>3 DEF Begun

(* The calls that start from it.                                           *)
OfHead(k, op, p, f) == [k EXCEPT !.op = op, !.pc = p, !.fresh = f]
OfRead(k, op, p, l, f) == [k EXCEPT !.op = op, !.pc = p, !.start = l, !.fresh = f]
OfFetch(k, op, p, l) == [k EXCEPT !.op = op, !.pc = p, !.start = l]
OfStamp(k, op, p, t) == [k EXCEPT !.op = op, !.pc = p, !.ts = t]
OfNext(k, op, p, l, h) == [k EXCEPT !.op = op, !.pc = p, !.start = l, !.hint = h]

(* Their fields.                                                           *)
LEMMA BegunIs ==
  ASSUME NEW k, Begun(k, "none", "idle", 0, <<>>), NEW op \in Ops, NEW p \in Pcs, NEW l \in Nat,
         NEW x
  PROVE  /\ x = OfFetch(k, op, p, l) => Begun(x, op, p, l, <<>>)
         /\ x = OfStamp(k, op, p, l) => Begun(x, op, p, 0, <<>>)
<1>1. /\ k \in CallType /\ k.start = 0 /\ k.recs = {}
      /\ k.segs = <<>> /\ k.hint = <<>> /\ k.res = "" /\ ~k.search
  BY DEF Begun
<1>2. ASSUME x = OfFetch(k, op, p, l) PROVE Begun(x, op, p, l, <<>>)
  <2>1. /\ x \in CallType /\ x.op = op /\ x.pc = p /\ x.start = l /\ x.recs = k.recs
        /\ x.segs = k.segs /\ x.hint = k.hint /\ x.res = k.res /\ (x.search <=> k.search)
    BY <1>1, <1>2 DEF OfFetch, CallType
  <2> QED
    BY <1>1, <2>1 DEF Begun
<1>3. ASSUME x = OfStamp(k, op, p, l) PROVE Begun(x, op, p, 0, <<>>)
  <2>1. /\ x \in CallType /\ x.op = op /\ x.pc = p /\ x.start = k.start /\ x.recs = k.recs
        /\ x.segs = k.segs /\ x.hint = k.hint /\ x.res = k.res /\ (x.search <=> k.search)
    BY <1>1, <1>3 DEF OfStamp, CallType
  <2> QED
    BY <1>1, <2>1 DEF Begun
<1> QED
  BY <1>2, <1>3

(* Those with a freshness.                                                 *)
LEMMA BegunFresh ==
  ASSUME NEW k, Begun(k, "none", "idle", 0, <<>>), NEW op \in Ops, NEW p \in Pcs, NEW l \in Nat,
         NEW f \in STRING \cup {"tail", "cached"}, NEW x
  PROVE  /\ x = OfHead(k, op, p, f) => Begun(x, op, p, 0, <<>>)
         /\ x = OfRead(k, op, p, l, f) => Begun(x, op, p, l, <<>>)
<1>1. /\ k \in CallType /\ k.start = 0 /\ k.recs = {}
      /\ k.segs = <<>> /\ k.hint = <<>> /\ k.res = "" /\ ~k.search
  BY DEF Begun
<1>2. ASSUME x = OfHead(k, op, p, f) PROVE Begun(x, op, p, 0, <<>>)
  <2>1. /\ x \in CallType /\ x.op = op /\ x.pc = p /\ x.start = k.start /\ x.recs = k.recs
        /\ x.segs = k.segs /\ x.hint = k.hint /\ x.res = k.res /\ (x.search <=> k.search)
    BY <1>1, <1>2 DEF OfHead, CallType
  <2> QED
    BY <1>1, <2>1 DEF Begun
<1>3. ASSUME x = OfRead(k, op, p, l, f) PROVE Begun(x, op, p, l, <<>>)
  <2>1. /\ x \in CallType /\ x.op = op /\ x.pc = p /\ x.start = l /\ x.recs = k.recs
        /\ x.segs = k.segs /\ x.hint = k.hint /\ x.res = k.res /\ (x.search <=> k.search)
    BY <1>1, <1>3 DEF OfRead, CallType
  <2> QED
    BY <1>1, <2>1 DEF Begun
<1> QED
  BY <1>2, <1>3

(* And those with a hint.                                                  *)
LEMMA BegunHint ==
  ASSUME NEW k, Begun(k, "none", "idle", 0, <<>>), NEW op \in Ops, NEW p \in Pcs, NEW l \in Nat,
         NEW h \in Opt(Segment), NEW x, x = OfNext(k, op, p, l, h)
  PROVE  Begun(x, op, p, l, h)
<1>1. /\ k \in CallType /\ k.start = 0 /\ k.recs = {}
      /\ k.segs = <<>> /\ k.hint = <<>> /\ k.res = "" /\ ~k.search
  BY DEF Begun
<1>2. /\ x \in CallType /\ x.op = op /\ x.pc = p /\ x.start = l /\ x.recs = k.recs
      /\ x.segs = k.segs /\ x.hint = h /\ x.res = k.res /\ (x.search <=> k.search)
  BY <1>1 DEF OfNext, CallType
<1> QED
  BY <1>1, <1>2 DEF Begun

(* Where a call starts.                                                    *)
Begins(c, op, p, l, h, q) ==
  /\ p \in {"head", "join", "fetch", "lookup"}
  /\ p \in {"head", "fetch"} => op # "stamp"
  /\ p = "lookup" => op = "stamp"
  /\ h # <<>> => h[1] \in committed
  /\ c \in Tailers => op \notin {"next", "checkpoint", "resume"}
  /\ c \notin Tailers => op # "tail"
  /\ op = "tail" => q.watch # <<>>
  /\ op \in {"next", "tail", "checkpoint"} => l = q.pos
  /\ op = "resume" => q.ckpt # <<>> /\ l = q.ckpt[1].pos

(* A call starts.                                                          *)
LEMMA StartOK ==
  ASSUME ClientsInv, NEW c \in Clients, NEW op, NEW p, NEW l, NEW h, NEW x,
         Begun(x, op, p, l, h), Begins(c, op, p, l, h, cursor[c]), Start(c, x),
         UNCHANGED <<part, committed>>
  PROVE  ClientsInv'
<1>3. /\ x \in CallType /\ x.op = op /\ x.pc = p /\ x.start = l /\ x.recs = {}
      /\ x.segs = <<>> /\ x.hint = h /\ x.res = "" /\ ~x.search
  BY DEF Begun
<1>4. CallOK(x)
  <2>1. Elements(x.segs) = {}
    BY <1>3, NoElements
  <2> QED
    BY <1>3, <2>1, WaitingOK DEF Begins, TailPcs
<1>5. PICK q : q = cursor[c]
  OBVIOUS
<1>6. CursorOK(c, cl[c], q)
  BY <1>5 DEF ClientsInv, ClientOK
<1>7. CursorOK(c, x, q)
  BY <1>3, <1>5, <1>6 DEF CursorOK, Begins
<1>8. cl' = [cl EXCEPT ![c] = x] /\ cursor' = [cursor EXCEPT ![c] = q]
  BY <1>5, CursorKept DEF Start
<1> QED
  BY <1>4, <1>7, <1>8, ClientsFrom DEF ClientOK

(* The calls that need only an LSN or a timestamp.                         *)
LEMMA ReadStartOK ==
  ASSUME ClientsInv, NEW c \in Clients, NEW l \in Nat, UNCHANGED <<part, committed>>,
         PartitionHead(c) \/ Fetch(c, l) \/ Consume(c, l) \/ ConsumeFromTimestamp(c, l)
  PROVE  ClientsInv'
<1>1. PICK k : k = NoCall /\ Begun(k, "none", "idle", 0, <<>>)
  BY NoCallIs
<1>2. /\ \A op \in {"head", "read", "consume", "fetch", "stamp"} : op \in Ops
      /\ \A p \in {"head", "fetch", "lookup"} : p \in Pcs
  BY DEF Ops, Pcs
<1>3. PICK q : q = cursor[c]
  OBVIOUS
<1>4. \A op \in {"head", "read", "consume"}, m \in Nat : Begins(c, op, "head", m, <<>>, q)
  BY DEF Begins
<1>5. \A m \in Nat : Begins(c, "fetch", "fetch", m, <<>>, q) /\ Begins(c, "stamp", "lookup", m, <<>>, q)
  BY DEF Begins
<1>6. CASE PartitionHead(c)
  <2>1. PICK x : x = OfHead(k, "head", "head", "cached") /\ Start(c, x)
    BY <1>1, <1>6 DEF PartitionHead, OfHead
  <2>2. Begun(x, "head", "head", 0, <<>>)
    BY <1>1, <1>2, <2>1, BegunFresh
  <2> QED
    BY <1>3, <1>4, <2>1, <2>2, StartOK
<1>7. CASE Fetch(c, l)
  <2>1. PICK x : x = OfFetch(k, "fetch", "fetch", l) /\ Start(c, x)
    BY <1>1, <1>7 DEF Fetch, OfFetch
  <2>2. Begun(x, "fetch", "fetch", l, <<>>)
    BY <1>1, <1>2, <2>1, BegunIs
  <2> QED
    BY <1>3, <1>5, <2>1, <2>2, StartOK
<1>8. CASE Consume(c, l)
  <2>1. PICK x : x = OfRead(k, "consume", "head", l, "tail") /\ Start(c, x)
    BY <1>1, <1>8 DEF Consume, OfRead
  <2>2. Begun(x, "consume", "head", l, <<>>)
    BY <1>1, <1>2, <2>1, BegunFresh
  <2> QED
    BY <1>3, <1>4, <2>1, <2>2, StartOK
<1>9. CASE ConsumeFromTimestamp(c, l)
  <2>1. PICK x : x = OfStamp(k, "stamp", "lookup", l) /\ Start(c, x)
    BY <1>1, <1>9 DEF ConsumeFromTimestamp, OfStamp
  <2>2. Begun(x, "stamp", "lookup", 0, <<>>)
    BY <1>1, <1>2, <2>1, BegunIs
  <2> QED
    BY <1>3, <1>5, <2>1, <2>2, StartOK
<1> QED
  BY <1>6, <1>7, <1>8, <1>9

(* PartitionReader.Read.                                                   *)
LEMMA FreshStartOK ==
  ASSUME ClientsInv, NEW c \in Clients, NEW l \in Nat, NEW f \in STRING,
         UNCHANGED <<part, committed>>, Read(c, l, f)
  PROVE  ClientsInv'
<1>1. PICK k : k = NoCall /\ Begun(k, "none", "idle", 0, <<>>)
  BY NoCallIs
<1>2. "read" \in Ops /\ "head" \in Pcs
  BY DEF Ops, Pcs
<1>3. PICK x : x = OfRead(k, "read", "head", l, f) /\ Start(c, x)
  BY <1>1 DEF Read, OfRead
<1>4. Begun(x, "read", "head", l, <<>>)
  BY <1>1, <1>2, <1>3, BegunFresh
<1>5. Begins(c, "read", "head", l, <<>>, cursor[c])
  BY DEF Begins
<1> QED
  BY <1>3, <1>4, <1>5, StartOK

(* The calls of a cursor or tailer.                                        *)
LEMMA CursorStartOK ==
  ASSUME ClientsInv, NEW c \in Clients, UNCHANGED <<part, committed>>,
         \/ c \notin Tailers /\ (CursorNext(c) \/ Checkpoint(c) \/ ResumeCursor(c))
         \/ c \in Tailers /\ TailNext(c)
  PROVE  ClientsInv'
<1>1. PICK k : k = NoCall /\ Begun(k, "none", "idle", 0, <<>>)
  BY NoCallIs
<1>2. /\ "next" \in Ops /\ "tail" \in Ops /\ "checkpoint" \in Ops /\ "resume" \in Ops
      /\ "head" \in Pcs /\ "join" \in Pcs
  BY DEF Ops, Pcs
<1>3. PICK q : q = cursor[c]
  OBVIOUS
<1>4. q \in CursorType /\ q.pos \in Nat /\ q.hint \in Opt(Segment)
      /\ (q.hint # <<>> => q.hint[1] \in committed) /\ q.ckpt \in Opt(CkptType)
  BY <1>3, Hints DEF CursorType
<1>5. CASE c \notin Tailers /\ CursorNext(c)
  <2>1. PICK x : x = OfNext(k, "next", "head", q.pos, q.hint) /\ Start(c, x)
    BY <1>1, <1>3, <1>5 DEF CursorNext, OfNext
  <2>2. Begun(x, "next", "head", q.pos, q.hint)
    BY <1>1, <1>2, <1>4, <2>1, BegunHint
  <2>3. Begins(c, "next", "head", q.pos, q.hint, q)
    BY <1>4, <1>5 DEF Begins
  <2> QED
    BY <1>3, <2>1, <2>2, <2>3, StartOK
<1>6. CASE c \in Tailers /\ TailNext(c)
  <2>1. PICK x : x = OfNext(k, "tail", "head", q.pos, q.hint) /\ Start(c, x) /\ q.watch # <<>>
    BY <1>1, <1>3, <1>6 DEF TailNext, OfNext
  <2>2. Begun(x, "tail", "head", q.pos, q.hint)
    BY <1>1, <1>2, <1>4, <2>1, BegunHint
  <2>3. Begins(c, "tail", "head", q.pos, q.hint, q)
    BY <1>4, <1>6, <2>1 DEF Begins
  <2> QED
    BY <1>3, <2>1, <2>2, <2>3, StartOK
<1>7. CASE c \notin Tailers /\ Checkpoint(c)
  <2>1. PICK x : x = OfFetch(k, "checkpoint", "join", q.pos) /\ Start(c, x)
    BY <1>1, <1>3, <1>7 DEF Checkpoint, OfFetch
  <2>2. Begun(x, "checkpoint", "join", q.pos, <<>>)
    BY <1>1, <1>2, <1>4, <2>1, BegunIs
  <2>3. Begins(c, "checkpoint", "join", q.pos, <<>>, q)
    BY <1>4, <1>7 DEF Begins
  <2> QED
    BY <1>3, <2>1, <2>2, <2>3, StartOK
<1>8. CASE c \notin Tailers /\ ResumeCursor(c)
  <2>1. PICK l : l = q.ckpt[1].pos
    OBVIOUS
  <2>2. q.ckpt # <<>> /\ l \in Nat
    <3>1. q.ckpt # <<>>
      BY <1>3, <1>8 DEF ResumeCursor
    <3>2. q.ckpt[1] \in CkptType
      BY <1>4, <3>1, OptIs
    <3> QED
      BY <2>1, <3>1, <3>2 DEF CkptType
  <2>3. PICK x : x = OfFetch(k, "resume", "join", l) /\ Start(c, x)
    BY <1>1, <1>3, <1>8, <2>1 DEF ResumeCursor, OfFetch
  <2>4. Begun(x, "resume", "join", l, <<>>)
    BY <1>1, <1>2, <2>2, <2>3, BegunIs
  <2>5. Begins(c, "resume", "join", l, <<>>, q)
    BY <1>8, <2>1, <2>2 DEF Begins
  <2> QED
    BY <1>3, <2>3, <2>4, <2>5, StartOK
<1> QED
  BY <1>5, <1>6, <1>7, <1>8

(* A cursor after a seek, a tailer that is closed and one that is opened.  *)
Sought(q, l, h) == [q EXCEPT !.pos = l, !.from = l, !.seen = {}, !.hint = h]
Closing(q) == [q EXCEPT !.closed = TRUE, !.hint = <<>>]
Opening(q, w, l) == [q EXCEPT !.watch = <<w>>, !.pos = l, !.from = l]

(* Their fields.                                                           *)
LEMMA SoughtIs ==
  ASSUME NEW q \in CursorType, NEW l \in Nat, NEW h \in Opt(Segment), NEW y, y = Sought(q, l, h)
  PROVE  /\ y \in CursorType /\ y.pos = l /\ y.from = l /\ y.hint = h
         /\ y.ckpt = q.ckpt /\ y.watch = q.watch
<1>1. {} \in SUBSET Nat
  OBVIOUS
<1> QED
  BY <1>1 DEF CursorType, Sought

(* Closed.                                                                 *)
LEMMA ClosingIs ==
  ASSUME NEW q \in CursorType, NEW y, y = Closing(q)
  PROVE  /\ y \in CursorType /\ y.pos = q.pos /\ y.from = q.from /\ y.hint = <<>>
         /\ y.ckpt = q.ckpt /\ y.watch = q.watch /\ y.seen = q.seen
<1>1. <<>> \in Opt(Segment)
  BY DEF Opt
<1> QED
  BY <1>1 DEF CursorType, Closing

(* Opened.                                                                 *)
LEMMA OpeningIs ==
  ASSUME NEW q \in CursorType, NEW l \in Nat, NEW w \in Watches, NEW y, y = Opening(q, w, l)
  PROVE  /\ y \in CursorType /\ y.pos = l /\ y.from = l /\ y.hint = q.hint
         /\ y.ckpt = q.ckpt /\ y.watch = <<w>>
<1>1. <<w>> \in Opt(Watches)
  BY DEF Opt
<1> QED
  BY <1>1 DEF CursorType, Opening

(* Nothing is skipped by a move.                                           *)
LEMMA CompleteMove ==
  ASSUME NEW y, NEW l \in Nat, y.pos = l, y.from = l
  PROVE  Complete(y)
BY DEF Complete

(* Only the cursor changes.                                                *)
LEMMA CursorOnly ==
  ASSUME ClientsInv, NEW c \in Clients, NEW y, CursorOK(c, cl[c], y),
         cursor' = [cursor EXCEPT ![c] = y], UNCHANGED <<cl, part, committed>>
  PROVE  ClientsInv'
<1>1. PICK k : k = cl[c]
  OBVIOUS
<1>2. CallOK(k)
  BY <1>1 DEF ClientsInv, ClientOK
<1>3. cl' = [cl EXCEPT ![c] = k]
  BY <1>1, CursorKept
<1> QED
  BY <1>1, <1>2, <1>3, ClientsFrom DEF ClientOK

(* Seek.                                                                   *)
LEMMA SeekOK ==
  ASSUME ClientsInv, NEW c \in Clients, NEW l \in Nat, UNCHANGED <<part, committed>>, Seek(c, l)
  PROVE  ClientsInv'
<1>1. PICK q : q = cursor[c]
  OBVIOUS
<1>2. PICK k : k = cl[c]
  OBVIOUS
<1>3. CursorOK(c, k, q) /\ q \in CursorType /\ Complete(q) /\ q.hint \in Opt(Segment)
  BY <1>1, <1>2 DEF ClientsInv, ClientOK, CursorOK, CursorType
<1>11. PICK h : h = IF segmentHintContains(q.hint, l) THEN q.hint ELSE <<>>
  OBVIOUS
<1>12. h \in Opt(Segment) /\ (h # <<>> => h = q.hint)
  BY <1>3, <1>11 DEF Opt
<1>13. PICK y : y = Sought(q, l, h)
  OBVIOUS
<1>14. cursor' = [cursor EXCEPT ![c] = y] /\ UNCHANGED cl /\ k.pc = "idle"
  BY <1>1, <1>2, <1>11, <1>13 DEF Seek, Sought
<1>15. /\ y \in CursorType /\ y.pos = l /\ y.from = l /\ y.hint = h
      /\ y.ckpt = q.ckpt /\ y.watch = q.watch
  BY <1>3, <1>12, <1>13, SoughtIs
<1>16. Complete(y)
  BY <1>15, CompleteMove
<1>17. CursorOK(c, k, y)
  BY <1>3, <1>12, <1>14, <1>15, <1>16 DEF CursorOK
<1> QED
  BY <1>2, <1>14, <1>17, CursorOnly

(* Tailer.Close.                                                           *)
LEMMA TailerCloseOK ==
  ASSUME ClientsInv, NEW c \in Clients, UNCHANGED <<part, committed>>, TailerClose(c)
  PROVE  ClientsInv'
<1>1. PICK q : q = cursor[c]
  OBVIOUS
<1>2. PICK k : k = cl[c]
  OBVIOUS
<1>3. CursorOK(c, k, q) /\ q \in CursorType /\ Complete(q) /\ q.hint \in Opt(Segment)
  BY <1>1, <1>2 DEF ClientsInv, ClientOK, CursorOK, CursorType
<1>13. PICK y : y = Closing(q)
  OBVIOUS
<1>14. cursor' = [cursor EXCEPT ![c] = y] /\ UNCHANGED cl
  BY <1>1, <1>13 DEF TailerClose, Closing
<1>15. /\ y \in CursorType /\ y.pos = q.pos /\ y.from = q.from /\ y.hint = <<>>
      /\ y.ckpt = q.ckpt /\ y.watch = q.watch /\ y.seen = q.seen
  BY <1>3, <1>13, ClosingIs
<1>16. Complete(y)
  BY <1>3, <1>15 DEF Complete
<1>17. CursorOK(c, k, y)
  BY <1>3, <1>15, <1>16 DEF CursorOK
<1> QED
  BY <1>2, <1>14, <1>17, CursorOnly

(* Watch.Tail.                                                             *)
LEMMA OpenTailOK ==
  ASSUME ClientsInv, NEW c \in Clients, NEW l \in Nat, NEW w \in Watches,
         UNCHANGED <<part, committed>>, c \in Tailers, OpenTail(c, w, l)
  PROVE  ClientsInv'
<1>1. PICK q : q = cursor[c]
  OBVIOUS
<1>2. PICK k : k = cl[c]
  OBVIOUS
<1>3. CursorOK(c, k, q) /\ q \in CursorType /\ Complete(q) /\ q.hint \in Opt(Segment)
  BY <1>1, <1>2 DEF ClientsInv, ClientOK, CursorOK, CursorType
<1>13. PICK y : y = Opening(q, w, l)
  OBVIOUS
<1>14. cursor' = [cursor EXCEPT ![c] = y] /\ UNCHANGED cl /\ q.watch = <<>>
  BY <1>1, <1>13 DEF OpenTail, Opening
<1>15. /\ y \in CursorType /\ y.pos = l /\ y.from = l /\ y.hint = q.hint
      /\ y.ckpt = q.ckpt /\ y.watch = <<w>>
  BY <1>3, <1>13, OpeningIs
<1>16. Complete(y)
  BY <1>15, CompleteMove
<1>17. CursorOK(c, k, y)
  BY <1>3, <1>14, <1>15, <1>16 DEF CursorOK
<1> QED
  BY <1>2, <1>14, <1>17, CursorOnly

(* The timestamps of LSNs.                                                 *)
LEMMA TimestampNat == ASSUME NEW l \in Nat PROVE Timestamp(l) \in Nat
BY DEF Timestamp

(* A call starts.                                                          *)
LEMMA StartCallOK ==
  ASSUME ClientsInv, LeftInv, NEW c \in Clients, StartCall(c), UNCHANGED <<part, committed>>
  PROVE  ClientsInv'
<1>1. left.starts \subseteq Nat /\ left.fresh \subseteq STRING
  BY DEF LeftInv
<1>3. CASE PartitionHead(c)
  <2>1. 0 \in Nat
    OBVIOUS
  <2> QED
    BY <1>3, <2>1, ReadStartOK
<1>4. ASSUME NEW l \in left.starts, Fetch(c, l) \/ Consume(c, l)
      PROVE  ClientsInv'
  <2>1. l \in Nat
    BY <1>1
  <2> QED
    BY <1>4, <2>1, ReadStartOK
<1>5. ASSUME NEW l \in left.starts, NEW f \in left.fresh, Read(c, l, f)
      PROVE  ClientsInv'
  <2>1. l \in Nat /\ f \in STRING
    BY <1>1
  <2> QED
    BY <1>5, <2>1, FreshStartOK
<1>6. ASSUME NEW l \in left.starts, ConsumeFromTimestamp(c, Timestamp(l))
      PROVE  ClientsInv'
  <2>1. PICK t \in Nat : t = Timestamp(l)
    BY <1>1, TimestampNat
  <2> QED
    BY <1>6, <2>1, ReadStartOK
<1>7. CASE c \notin Tailers /\ (CursorNext(c) \/ Checkpoint(c) \/ ResumeCursor(c))
  BY <1>7, CursorStartOK
<1>8. CASE c \in Tailers /\ TailNext(c)
  BY <1>8, CursorStartOK
<1>9. ASSUME NEW l \in left.starts, Seek(c, l)
      PROVE  ClientsInv'
  BY <1>1, <1>9, SeekOK
<1>10. CASE TailerClose(c)
  BY <1>10, TailerCloseOK
<1>11. ASSUME c \in Tailers, NEW w \in Watches, NEW l \in left.starts, OpenTail(c, w, l)
       PROVE  ClientsInv'
  <2>1. l \in Nat
    BY <1>1
  <2> QED
    BY <1>11, <2>1, OpenTailOK
<1> QED
  BY <1>3, <1>4, <1>5, <1>6, <1>7, <1>8, <1>9, <1>10, <1>11 DEF StartCall

----------------------------------------------------------------------------
(* The steps of flights.                                                   *)

(* A flight as every client that waits for it sees it.                     *)
Good(f) == FlightOK(f) /\ \A c \in Clients : WaitsFor(c, cl[c], f)
AllGood(fs) == IsFiniteSet(fs) /\ \A f \in fs : Good(f)

(* The image of a finite set.                                              *)
LEMMA FiniteImage ==
  ASSUME NEW S, IsFiniteSet(S), NEW T, NEW F \in [S -> T], T = {F[x] : x \in S}
  PROVE  IsFiniteSet(T) /\ Cardinality(T) <= Cardinality(S)
<1>1. F \in Surjection(S, T)
  BY DEF Surjection
<1> QED
  BY <1>1, FS_Surjection

(* A flight that lost waiters or came to something.                        *)
LEMMA GoodFrom ==
  ASSUME NEW f, Good(f), NEW g \in FlightType, g.level = f.level, g.key = f.key,
         g.waiters \subseteq f.waiters, g.out = "missing" => SegmentOf(f).base < gone,
         g.cause = "no waiters" \/ g.out = "no waiters" => g.waiters = {} /\ ~g.current
  PROVE  Good(g)
<1>1. SegmentOf(g) = SegmentOf(f)
  BY DEF SegmentOf
<1>2. FlightOK(g)
  BY <1>1 DEF Good, FlightOK
<1>3. \A c \in Clients : WaitsFor(c, cl[c], g)
  BY <1>1 DEF Good, WaitsFor
<1> QED
  BY <1>2, <1>3 DEF Good

(* Flights without their last waiter, and with other waiters.              *)
Abandoned(f) ==
  [f EXCEPT !.waiters = {}, !.current = FALSE, !.cause = IF @ = "" THEN "no waiters" ELSE @]
Rewaited(f, W) == [f EXCEPT !.waiters = W]

(* The fields of one.                                                      *)
LEMMA AbandonedIs ==
  ASSUME NEW f \in FlightType, NEW g, g = Abandoned(f)
  PROVE  /\ g \in FlightType /\ g.level = f.level /\ g.key = f.key /\ g.waiters = {}
         /\ ~g.current /\ g.out = f.out /\ g.stage = f.stage
<1>1. PICK e : e = IF f.cause = "" THEN "no waiters" ELSE f.cause
  OBVIOUS
<1>2. e \in {"", "no waiters", "closed"} /\ {} \in SUBSET (Clients \cup OpenIds)
  BY <1>1 DEF FlightType
<1>3. g = [f EXCEPT !.waiters = {}, !.current = FALSE, !.cause = e]
  BY <1>1 DEF Abandoned
<1> QED
  BY <1>2, <1>3 DEF FlightType

(* And of the other.                                                       *)
LEMMA RewaitedIs ==
  ASSUME NEW f \in FlightType, NEW W \in SUBSET (Clients \cup OpenIds), NEW g, g = Rewaited(f, W)
  PROVE  /\ g \in FlightType /\ g.level = f.level /\ g.key = f.key /\ g.waiters = W
         /\ (g.current <=> f.current) /\ g.out = f.out /\ g.stage = f.stage /\ g.cause = f.cause
BY DEF FlightType, Rewaited

(* Who leaves is gone from every flight.                                   *)
LEMMA LeaveKeeps ==
  ASSUME NEW fs, AllGood(fs), NEW x
  PROVE  AllGood(leave(fs, x)) /\ \A g \in leave(fs, x) : x \notin g.waiters
<1> DEFINE after(f) ==
             IF x \notin f.waiters THEN f
             ELSE IF f.waiters = {x} /\ f.stage # "done" THEN Abandoned(f)
             ELSE Rewaited(f, f.waiters \ {x})
           all == {after(f) : f \in fs}
<1>1. leave(fs, x) \subseteq all
  BY DEF leave, Abandoned, Rewaited
<1>2. IsFiniteSet(leave(fs, x))
  <2>1. PICK F : F = [f \in fs |-> after(f)]
    OBVIOUS
  <2>2. F \in [fs -> all] /\ all = {F[f] : f \in fs}
    BY <2>1
  <2>3. IsFiniteSet(fs)
    BY DEF AllGood
  <2> HIDE DEF all
  <2>4. IsFiniteSet(all)
    BY <2>2, <2>3, FiniteImage
  <2> QED
    BY <1>1, <2>4, FS_Subset
<1>3. ASSUME NEW g \in leave(fs, x) PROVE Good(g) /\ x \notin g.waiters
  <2>1. PICK f \in fs : g = after(f)
    BY <1>1
  <2>2. Good(f) /\ FlightOK(f) /\ f \in FlightType
    BY DEF AllGood, Good, FlightOK
  <2>3. CASE x \notin f.waiters
    BY <2>1, <2>2, <2>3
  <2>4. CASE x \in f.waiters /\ f.waiters = {x} /\ f.stage # "done"
    <3>1. g = Abandoned(f)
      BY <2>1, <2>4
    <3>2. /\ g \in FlightType /\ g.level = f.level /\ g.key = f.key /\ g.waiters = {}
          /\ ~g.current /\ g.out = f.out
      BY <2>2, <3>1, AbandonedIs
    <3>3. g.out = "missing" => SegmentOf(f).base < gone
      BY <2>2, <3>2 DEF FlightOK
    <3> QED
      BY <2>2, <3>2, <3>3, GoodFrom
  <2>5. CASE x \in f.waiters /\ ~(f.waiters = {x} /\ f.stage # "done")
    <3>1. PICK W : W = f.waiters \ {x}
      OBVIOUS
    <3>2. g = Rewaited(f, W)
      BY <2>1, <2>5, <3>1
    <3>3. W \in SUBSET (Clients \cup OpenIds)
      BY <2>2, <3>1 DEF FlightType
    <3>4. /\ g \in FlightType /\ g.level = f.level /\ g.key = f.key /\ g.waiters = W
          /\ (g.current <=> f.current) /\ g.out = f.out /\ g.cause = f.cause
      BY <2>2, <3>2, <3>3, RewaitedIs
    <3>5. g.out = "missing" => SegmentOf(f).base < gone
      BY <2>2, <3>4 DEF FlightOK
    <3>6. g.cause # "no waiters" /\ g.out # "no waiters"
      BY <2>2, <2>5, <3>4 DEF FlightOK
    <3> QED
      BY <2>2, <3>1, <3>4, <3>5, <3>6, GoodFrom
  <2> QED
    BY <2>3, <2>4, <2>5
<1> QED
  BY <1>2, <1>3 DEF AllGood

(* The number of a new flight.                                             *)
LEMMA NewNumber ==
  ASSUME NEW S, IsFiniteSet(S)
  PROVE  Min((1..Cardinality(S) + 1) \ {f.n : f \in S}) \in Nat
<1> DEFINE T == {f.n : f \in S}
<1>1. PICK m \in Nat : m = Cardinality(S)
  BY FS_CardinalityType
<1>2. IsFiniteSet(T) /\ Cardinality(T) <= m
  <2>1. PICK F : F = [f \in S |-> f.n]
    OBVIOUS
  <2>2. F \in [S -> T] /\ T = {F[f] : f \in S}
    BY <2>1
  <2> HIDE DEF T
  <2> QED
    BY <1>1, <2>2, FiniteImage
<1>3. IsFiniteSet(1..m + 1) /\ Cardinality(1..m + 1) = m + 1
  BY FS_Interval
<1> HIDE DEF T
<1>4. (1..m + 1) \ T # {}
  <2>1. SUFFICES ASSUME (1..m + 1) \in SUBSET T PROVE FALSE
    OBVIOUS
  <2>2. Cardinality(1..m + 1) <= Cardinality(T)
    BY <1>2, <2>1, FS_Subset
  <2>3. Cardinality(T) \in Nat
    BY <1>2, FS_CardinalityType
  <2> QED
    BY <1>2, <1>3, <2>2, <2>3
<1>5. (1..m + 1) \ T \in SUBSET Nat
  OBVIOUS
<1>6. Min((1..m + 1) \ T) \in Nat
  BY <1>4, <1>5, MinIs
<1> QED
  BY <1>1, <1>6 DEF T

(* A new flight.                                                           *)
NewFlight(level, key, n, x) ==
  [level |-> level, key |-> key, n |-> n, waiters |-> {x}, current |-> TRUE,
   stage |-> "read", cause |-> "", out |-> ""]

(* What a flight is for.                                                   *)
KeyFor(level, key, s) ==
  /\ level \in {"whole", "open", "range"} /\ s \in Segment
  /\ level # "range" => key = s
  /\ level = "range" => key \in RangeKey /\ key.seg = s

(* Who joins a flight waits for its segment.                               *)
LEMMA BeginKeeps ==
  ASSUME NEW fs, AllGood(fs), NEW level, NEW key, NEW s, KeyFor(level, key, s),
         NEW x \in Clients \cup OpenIds, x \notin Clients => x[2] = s
  PROVE  /\ IsFiniteSet(begin(fs, level, key, x))
         /\ \A g \in begin(fs, level, key, x) :
              /\ FlightOK(g)
              /\ \A c \in Clients : c # x => WaitsFor(c, cl[c], g)
              /\ x \in g.waiters => SegmentOf(g) = s \/ \E f \in fs : x \in f.waiters
<1> DEFINE same == {f \in fs : f.level = level /\ f.key = key}
           cur == {f \in same : f.current}
           joined == {Rewaited(f, f.waiters \cup {x}) : f \in cur}
<1>1. PICK n : n = Min((1..Cardinality(same) + 1) \ {f.n : f \in same})
  OBVIOUS
<1>2. IsFiniteSet(fs) /\ IsFiniteSet(same) /\ IsFiniteSet(cur)
  BY FS_Subset DEF AllGood
<1>3. n \in Nat
  <2> HIDE DEF same
  <2> QED
    BY <1>1, <1>2, NewNumber
<1>4. PICK new : new = NewFlight(level, key, n, x)
  OBVIOUS
<1>5. begin(fs, level, key, x) = IF cur # {} THEN (fs \ cur) \cup joined ELSE fs \cup {new}
  BY <1>1, <1>4 DEF begin, NewFlight, Rewaited
<1>6. \A f \in fs : Good(f) /\ FlightOK(f) /\ f \in FlightType
  BY DEF AllGood, Good, FlightOK
<1>7. IsFiniteSet(begin(fs, level, key, x))
  <2>1. PICK F : F = [f \in cur |-> Rewaited(f, f.waiters \cup {x})]
    OBVIOUS
  <2>2. F \in [cur -> joined] /\ joined = {F[f] : f \in cur}
    BY <2>1
  <2> HIDE DEF cur, joined
  <2>3. IsFiniteSet(joined)
    BY <1>2, <2>2, FiniteImage
  <2>4. IsFiniteSet(fs \ cur)
    BY <1>2, FS_Difference
  <2>5. IsFiniteSet((fs \ cur) \cup joined) /\ IsFiniteSet(fs \cup {new})
    BY <1>2, <2>3, <2>4, FS_Union, FS_AddElement
  <2> QED
    BY <1>5, <2>5
<1>8. ASSUME NEW g \in begin(fs, level, key, x)
      PROVE  /\ FlightOK(g)
             /\ \A c \in Clients : c # x => WaitsFor(c, cl[c], g)
             /\ x \in g.waiters => SegmentOf(g) = s \/ \E f \in fs : x \in f.waiters
  <2>1. CASE g \in fs
    BY <1>6, <2>1 DEF Good
  <2>2. CASE g \in joined
    <3>1. PICK f \in cur : g = Rewaited(f, f.waiters \cup {x})
      BY <2>2
    <3>2. f \in fs /\ f.level = level /\ f.key = key /\ f.current
      OBVIOUS
    <3>3. Good(f) /\ FlightOK(f) /\ f \in FlightType
      BY <1>6, <3>2
    <3>4. f.waiters \cup {x} \in SUBSET (Clients \cup OpenIds)
      BY <3>3 DEF FlightType
    <3>5. /\ g \in FlightType /\ g.level = f.level /\ g.key = f.key
          /\ g.waiters = f.waiters \cup {x}
          /\ (g.current <=> f.current) /\ g.out = f.out /\ g.cause = f.cause
      BY <3>1, <3>3, <3>4, RewaitedIs
    <3>6. SegmentOf(g) = SegmentOf(f) /\ SegmentOf(f) = s
      BY <3>2, <3>5 DEF SegmentOf, KeyFor
    <3>7. g.cause # "no waiters" /\ g.out # "no waiters"
      BY <3>2, <3>3, <3>5 DEF FlightOK
    <3>8. FlightOK(g)
      BY <3>3, <3>5, <3>6, <3>7 DEF FlightOK
    <3>9. \A c \in Clients : c # x => WaitsFor(c, cl[c], g)
      BY <3>3, <3>5, <3>6 DEF Good, WaitsFor
    <3> QED
      BY <3>6, <3>8, <3>9
  <2>3. CASE g = new
    <3>1. /\ key \in Segment \cup RangeKey /\ level \in {"whole", "open", "range"}
          /\ {x} \in SUBSET (Clients \cup OpenIds) /\ "" \in FlightOuts
      BY DEF KeyFor, FlightOuts
    <3>2. g \in FlightType
      BY <1>3, <1>4, <2>3, <3>1 DEF FlightType, NewFlight
    <3>3. g.level = level /\ g.key = key /\ g.waiters = {x} /\ g.cause = "" /\ g.out = ""
      BY <1>4, <2>3 DEF NewFlight
    <3>4. SegmentOf(g) = s /\ s \in Segment /\ (level # "range" => key = s)
      BY <3>3 DEF SegmentOf, KeyFor
    <3>5. FlightOK(g)
      BY <3>2, <3>3, <3>4 DEF FlightOK
    <3>6. \A c \in Clients : c # x => WaitsFor(c, cl[c], g)
      BY <3>3 DEF WaitsFor
    <3> QED
      BY <3>4, <3>5, <3>6
  <2> QED
    BY <1>5, <1>8, <2>1, <2>2, <2>3
<1> QED
  BY <1>7, <1>8

(* A flight that has an answer.                                            *)
AnsweredAs(f, o) == [f EXCEPT !.stage = "finish", !.out = o]

(* One flight is replaced.                                                 *)
LEMMA ReplacedGood ==
  ASSUME NEW fs, AllGood(fs), NEW f, NEW g, Good(g)
  PROVE  AllGood((fs \ {f}) \cup {g}) /\ AllGood(fs \ {f})
<1>1. IsFiniteSet((fs \ {f}) \cup {g}) /\ IsFiniteSet(fs \ {f})
  BY FS_RemoveElement, FS_AddElement DEF AllGood
<1> QED
  BY <1>1 DEF AllGood

(* A flight is answered, by its cancellation if it was cancelled.          *)
LEMMA AnsweredKeeps ==
  ASSUME NEW fs, AllGood(fs), NEW f, Good(f), NEW o,
         f.cause = "" => /\ o \in FlightOuts /\ o # "no waiters"
                         /\ o = "missing" => SegmentOf(f).base < gone
  PROVE  AllGood(Answered(fs, f, o))
<1>1. f \in FlightType /\ FlightOK(f) /\ f.cause \in {"", "no waiters", "closed"}
  BY DEF Good, FlightOK, FlightType
<1>2. PICK e : e = IF f.cause # "" THEN f.cause ELSE o
  OBVIOUS
<1>3. e \in FlightOuts
  BY <1>1, <1>2 DEF FlightOuts
<1>4. PICK g : g = AnsweredAs(f, e)
  OBVIOUS
<1>5. /\ g \in FlightType /\ g.level = f.level /\ g.key = f.key /\ g.waiters = f.waiters
      /\ (g.current <=> f.current) /\ g.out = e /\ g.cause = f.cause
  <2>1. f \in FlightType
    BY <1>1
  <2> QED
    BY <1>3, <1>4, <2>1 DEF FlightType, AnsweredAs
<1>6. g.out = "missing" => SegmentOf(f).base < gone
  BY <1>1, <1>2, <1>5
<1>7. g.cause = "no waiters" \/ g.out = "no waiters" => g.waiters = {} /\ ~g.current
  BY <1>1, <1>2, <1>5 DEF FlightOK
<1>8. Good(g)
  BY <1>5, <1>6, <1>7, GoodFrom
<1>9. Answered(fs, f, o) = (fs \ {f}) \cup {g}
  BY <1>2, <1>4 DEF Answered, AnsweredAs
<1>10. AllGood((fs \ {f}) \cup {g})
  BY <1>8, ReplacedGood
<1> QED
  BY <1>9, <1>10

(* A flight at another stage, and one that has ended.                      *)
Staged(f, z) == [f EXCEPT !.stage = z]
Ended(f, o) == [f EXCEPT !.stage = "done", !.current = FALSE, !.out = o]
Caused(f, e) == [f EXCEPT !.cause = e]

(* Their fields.                                                           *)
LEMMA StagedGood ==
  ASSUME NEW f, Good(f), NEW z \in {"read", "begin", "wait", "finish", "done"}, NEW g, g = Staged(f, z)
  PROVE  Good(g) /\ g.level = f.level /\ g.key = f.key
<1>1. f \in FlightType /\ FlightOK(f)
  BY DEF Good, FlightOK
<1>2. /\ g \in FlightType /\ g.level = f.level /\ g.key = f.key /\ g.waiters = f.waiters
      /\ (g.current <=> f.current) /\ g.out = f.out /\ g.cause = f.cause
  BY <1>1 DEF FlightType, Staged
<1>3. g.out = "missing" => SegmentOf(f).base < gone
  BY <1>1, <1>2 DEF FlightOK
<1>4. g.cause = "no waiters" \/ g.out = "no waiters" => g.waiters = {} /\ ~g.current
  BY <1>1, <1>2 DEF FlightOK
<1> QED
  BY <1>2, <1>3, <1>4, GoodFrom

(* An ended one.                                                           *)
LEMMA EndedGood ==
  ASSUME NEW f, Good(f), NEW o, o = f.out \/ o = "unavailable", NEW g, g = Ended(f, o)
  PROVE  Good(g)
<1>1. f \in FlightType /\ FlightOK(f)
  BY DEF Good, FlightOK
<1>2. o \in FlightOuts
  BY <1>1 DEF FlightType, FlightOuts
<1>3. /\ g \in FlightType /\ g.level = f.level /\ g.key = f.key /\ g.waiters = f.waiters
      /\ ~g.current /\ g.out = o /\ g.cause = f.cause
  BY <1>1, <1>2 DEF FlightType, Ended
<1>4. g.out = "missing" => SegmentOf(f).base < gone
  BY <1>1, <1>3 DEF FlightOK
<1>5. g.cause = "no waiters" \/ g.out = "no waiters" => g.waiters = {} /\ ~g.current
  BY <1>1, <1>3 DEF FlightOK
<1> QED
  BY <1>3, <1>4, <1>5, GoodFrom

(* A cancelled one.                                                        *)
LEMMA CausedGood ==
  ASSUME NEW f, Good(f), NEW g, g = Caused(f, IF f.cause = "" THEN "closed" ELSE f.cause)
  PROVE  Good(g)
<1>1. f \in FlightType /\ FlightOK(f)
  BY DEF Good, FlightOK
<1>2. PICK e : e = IF f.cause = "" THEN "closed" ELSE f.cause
  OBVIOUS
<1>3. e \in {"", "no waiters", "closed"} /\ (e = "no waiters" => f.cause = "no waiters")
  BY <1>1, <1>2 DEF FlightType
<1>4. /\ g \in FlightType /\ g.level = f.level /\ g.key = f.key /\ g.waiters = f.waiters
      /\ (g.current <=> f.current) /\ g.out = f.out /\ g.cause = e
  <2>1. g = [f EXCEPT !.cause = e]
    BY <1>2 DEF Caused
  <2> QED
    BY <1>1, <1>3, <2>1 DEF FlightType
<1>5. g.out = "missing" => SegmentOf(f).base < gone
  BY <1>1, <1>4 DEF FlightOK
<1>6. g.cause = "no waiters" \/ g.out = "no waiters" => g.waiters = {} /\ ~g.current
  BY <1>1, <1>3, <1>4 DEF FlightOK
<1> QED
  BY <1>4, <1>5, <1>6, GoodFrom

(* The flights after a step.                                               *)
LEMMA FlightsTo ==
  ASSUME NEW fs, flights' = fs, IsFiniteSet(fs), gone' = gone,
         \A f \in fs : FlightOK(f) /\ \A c \in Clients : WaitsFor(c, cl'[c], f)
  PROVE  FlightsInv'
<1>1. ASSUME NEW f \in fs PROVE FlightOK(f)' /\ (\A c \in Clients : WaitsFor(c, cl[c], f))'
  <2>1. FlightOK(f) /\ \A c \in Clients : WaitsFor(c, cl'[c], f)
    OBVIOUS
  <2>2. FlightOK(f)'
    BY <2>1 DEF FlightOK
  <2>3. (\A c \in Clients : WaitsFor(c, cl[c], f))'
    BY <2>1 DEF WaitsFor
  <2> QED
    BY <2>2, <2>3
<1> QED
  BY <1>1 DEF FlightsInv

(* The flights in other words.                                             *)
LEMMA FlightsGood == FlightsInv <=> AllGood(flights)
BY DEF FlightsInv, AllGood, Good

(* A step of no client.                                                    *)
LEMMA FlightsMove ==
  ASSUME NEW fs, flights' = fs, AllGood(fs), UNCHANGED <<cl, gone>>
  PROVE  FlightsInv'
<1>1. \A f \in fs : FlightOK(f) /\ \A c \in Clients : WaitsFor(c, cl'[c], f)
  BY DEF AllGood, Good
<1>2. IsFiniteSet(fs)
  BY DEF AllGood
<1> QED
  BY <1>1, <1>2, FlightsTo

(* More objects are deleted.                                               *)
LEMMA FlightsGone ==
  ASSUME FlightsInv, UNCHANGED <<cl, flights>>, gone \in Nat, gone' \in Nat, gone <= gone'
  PROVE  FlightsInv'
<1>1. ASSUME NEW f \in flights PROVE FlightOK(f)' /\ (\A c \in Clients : WaitsFor(c, cl[c], f))'
  <2>1. FlightOK(f) /\ \A c \in Clients : WaitsFor(c, cl[c], f)
    BY DEF FlightsInv
  <2>2. SegmentOf(f).base \in Nat
    BY <2>1, SegmentIs DEF FlightOK
  <2>3. SegmentOf(f).base < gone => SegmentOf(f).base < gone'
    BY <2>2
  <2>4. FlightOK(f)'
    BY <2>1, <2>3 DEF FlightOK
  <2>5. (\A c \in Clients : WaitsFor(c, cl[c], f))'
    BY <2>1 DEF WaitsFor
  <2> QED
    BY <2>4, <2>5
<1> QED
  BY <1>1 DEF FlightsInv

(* The store answers a flight or fails it.                                 *)
LEMMA StoreKeeps ==
  ASSUME FlightsInv, NEW f \in flights, UNCHANGED <<cl, gone>>,
         StoreAnswers(f, SegmentOf(f).base < gone) \/ StoreFails(f)
  PROVE  FlightsInv'
<1>1. AllGood(flights) /\ Good(f)
  BY FlightsGood DEF AllGood
<1>2. PICK o \in {"ok", "missing", "fault"} :
        flights' = Answered(flights, f, o) /\ (o = "missing" => SegmentOf(f).base < gone)
  BY DEF StoreAnswers, StoreFails
<1>3. o \in FlightOuts /\ o # "no waiters"
  BY DEF FlightOuts
<1>4. PICK fs : fs = Answered(flights, f, o)
  OBVIOUS
<1>5. AllGood(fs)
  BY <1>1, <1>2, <1>3, <1>4, AnsweredKeeps
<1> QED
  BY <1>2, <1>4, <1>5, FlightsMove

(* The identity of an open is none of the clients'.                        *)
LEMMA OpenIs ==
  ASSUME NEW f, Good(f), f.level = "open", NEW y, y = Id(f)
  PROVE  y \in OpenIds /\ y \notin Clients /\ y[2] = SegmentOf(f) /\ SegmentOf(f) = f.key
         /\ f.key \in Segment
<1>1. f.key \in Segment /\ f.n \in Nat
  BY DEF Good, FlightOK, FlightType
<1>2. y = <<"open", f.key, f.n>>
  BY DEF Id
<1>3. y \in OpenIds /\ y[2] = f.key
  BY <1>1, <1>2 DEF OpenIds
<1>4. y \notin Clients
  BY <1>3, ClientsAssumption DEF OpenIds
<1> QED
  BY <1>1, <1>3, <1>4 DEF SegmentOf

(* An open finds its range in the cache, or not.                           *)
LEMMA OpenGetKeeps ==
  ASSUME FlightsInv, NEW f \in flights, UNCHANGED <<cl, gone>>, OpenGet(f)
  PROVE  FlightsInv'
<1>1. AllGood(flights) /\ Good(f)
  BY FlightsGood DEF AllGood
<1>2. CASE flights' = Answered(flights, f, "ok")
  <2>1. PICK o : o = "ok"
    OBVIOUS
  <2>2. o \in FlightOuts /\ o # "no waiters" /\ o # "missing"
    BY <2>1 DEF FlightOuts
  <2>3. PICK fs : fs = Answered(flights, f, o)
    OBVIOUS
  <2>4. AllGood(fs)
    BY <1>1, <2>2, <2>3, AnsweredKeeps
  <2> QED
    BY <1>2, <2>1, <2>3, <2>4, FlightsMove
<1>3. CASE flights' = (flights \ {f}) \cup {[f EXCEPT !.stage = "begin"]}
  <2>1. PICK g : g = Staged(f, "begin")
    OBVIOUS
  <2>2. Good(g)
    BY <1>1, <2>1, StagedGood
  <2>3. PICK fs : fs = (flights \ {f}) \cup {g}
    OBVIOUS
  <2>4. AllGood(fs)
    BY <1>1, <2>2, <2>3, ReplacedGood
  <2>5. flights' = fs
    BY <1>3, <2>1, <2>3 DEF Staged
  <2> QED
    BY <2>4, <2>5, FlightsMove
<1> QED
  BY <1>2, <1>3 DEF OpenGet

(* The keys of flights.                                                    *)
LEMMA KeysAre ==
  ASSUME NEW s \in Segment
  PROVE  /\ KeyFor("whole", s, s) /\ KeyFor("open", s, s)
         /\ KeyFor("range", DataRange(s), s) /\ KeyFor("range", IndexRange(s), s)
<1>1. Size(s) \in Nat
  BY SegmentIs DEF Size
<1>2. DataRange(s) \in RangeKey /\ DataRange(s).seg = s
  BY <1>1 DEF DataRange, RangeKey
<1>3. IndexRange(s) \in RangeKey /\ IndexRange(s).seg = s
  BY DEF IndexRange, RangeKey
<1> QED
  BY <1>2, <1>3 DEF KeyFor

(* It joins the read of its range.                                         *)
LEMMA OpenBeginKeeps ==
  ASSUME FlightsInv, NEW f \in flights, UNCHANGED <<cl, gone>>, OpenBegin(f)
  PROVE  FlightsInv'
<1>1. AllGood(flights) /\ Good(f) /\ f.level = "open"
  BY FlightsGood DEF AllGood, OpenBegin
<1>2. PICK g : g = Staged(f, "wait")
  OBVIOUS
<1>3. Good(g)
  BY <1>1, <1>2, StagedGood
<1>4. PICK gs : gs = (flights \ {f}) \cup {g}
  OBVIOUS
<1>5. AllGood(gs)
  BY <1>1, <1>3, <1>4, ReplacedGood
<1>6. PICK y : y = Id(f)
  OBVIOUS
<1>7. PICK s \in Segment : s = f.key /\ y[2] = s /\ y \in OpenIds /\ y \notin Clients
  BY <1>1, <1>6, OpenIs
<1>8. PICK k : k = IndexRange(s) /\ KeyFor("range", k, s)
  BY KeysAre
<1>9. PICK fs : fs = begin(gs, "range", k, y)
  OBVIOUS
<1>10. flights' = fs
  BY <1>2, <1>4, <1>6, <1>7, <1>8, <1>9 DEF OpenBegin, Staged
<1>11. y \in Clients \cup OpenIds
  BY <1>7
<1>12. IsFiniteSet(fs) /\ \A h \in fs : FlightOK(h) /\ \A c \in Clients : c # y => WaitsFor(c, cl[c], h)
  BY <1>5, <1>7, <1>8, <1>9, <1>11, BeginKeeps
<1>13. \A h \in fs : FlightOK(h) /\ \A c \in Clients : WaitsFor(c, cl'[c], h)
  BY <1>7, <1>12
<1> QED
  BY <1>10, <1>12, <1>13, FlightsTo

(* Its range was read.                                                     *)
LEMMA OpenAnsweredKeeps ==
  ASSUME FlightsInv, NEW f \in flights, UNCHANGED <<cl, gone>>, OpenAnswered(f)
  PROVE  FlightsInv'
<1>1. AllGood(flights) /\ Good(f) /\ f.level = "open" /\ Landed(Id(f))
  BY FlightsGood DEF AllGood, OpenAnswered
<1>2. PICK y : y = Id(f)
  OBVIOUS
<1>3. y \notin Clients /\ y[2] = SegmentOf(f)
  BY <1>1, <1>2, OpenIs
<1>4. PICK h \in flights : h = FlightOf(y) /\ y \in h.waiters
  BY <1>1, <1>2, FlightIs DEF Landed
<1>5. FlightOK(h)
  BY <1>1, <1>4 DEF AllGood, Good
<1>6. PICK o : o = h.out
  OBVIOUS
<1>7. o \in FlightOuts
  BY <1>5, <1>6 DEF FlightOK, FlightType
<1>8. o # "no waiters" /\ (o = "missing" => SegmentOf(f).base < gone)
  BY <1>3, <1>4, <1>5, <1>6 DEF FlightOK
<1>9. PICK gs : gs = leave(flights, y)
  OBVIOUS
<1>10. AllGood(gs)
  BY <1>1, <1>9, LeaveKeeps
<1>11. PICK fs : fs = Answered(gs, f, o)
  OBVIOUS
<1>12. AllGood(fs)
  BY <1>1, <1>7, <1>8, <1>10, <1>11, AnsweredKeeps
<1>13. flights' = fs
  BY <1>2, <1>4, <1>6, <1>9, <1>11 DEF OpenAnswered
<1> QED
  BY <1>12, <1>13, FlightsMove

(* It gives up.                                                            *)
LEMMA OpenGivesUpKeeps ==
  ASSUME FlightsInv, NEW f \in flights, UNCHANGED <<cl, gone>>, OpenGivesUp(f)
  PROVE  FlightsInv'
<1>1. AllGood(flights) /\ Good(f) /\ f.cause # ""
  BY FlightsGood DEF AllGood, OpenGivesUp
<1>2. PICK gs : gs = leave(flights, Id(f))
  OBVIOUS
<1>3. AllGood(gs)
  BY <1>1, <1>2, LeaveKeeps
<1>4. PICK fs : fs = Answered(gs, f, f.cause)
  OBVIOUS
<1>5. AllGood(fs)
  BY <1>1, <1>3, <1>4, AnsweredKeeps
<1>6. flights' = fs
  BY <1>2, <1>4 DEF OpenGivesUp
<1> QED
  BY <1>5, <1>6, FlightsMove

(* A flight ends.                                                          *)
LEMMA FinishKeeps ==
  ASSUME FlightsInv, NEW f \in flights, UNCHANGED <<cl, gone>>, FlightFinish(f)
  PROVE  FlightsInv'
<1>1. AllGood(flights) /\ Good(f)
  BY FlightsGood DEF AllGood
<1>2. PICK o : o = IF f.level = "whole" /\ f.out = "ok" /\ ~Installs(f) THEN "unavailable" ELSE f.out
  OBVIOUS
<1>3. o = f.out \/ o = "unavailable"
  BY <1>2
<1>4. PICK g : g = Ended(f, o)
  OBVIOUS
<1>5. Good(g)
  BY <1>1, <1>3, <1>4, EndedGood
<1>6. PICK fs : fs = (flights \ {f}) \cup (IF f.waiters = {} THEN {} ELSE {g})
  OBVIOUS
<1>7. fs = flights \ {f} \/ fs = (flights \ {f}) \cup {g}
  BY <1>6
<1>8. AllGood(fs)
  <2>1. AllGood((flights \ {f}) \cup {g}) /\ AllGood(flights \ {f})
    BY <1>1, <1>5, ReplacedGood
  <2> QED
    BY <1>7, <2>1
<1>9. flights' = fs
  BY <1>2, <1>4, <1>6 DEF FlightFinish, Ended
<1> QED
  BY <1>8, <1>9, FlightsMove

(* The whole-segment cache is closed.                                      *)
LEMMA CancelKeeps ==
  ASSUME FlightsInv, UNCHANGED <<cl, gone>>, flights' = CancelUnfinished
  PROVE  FlightsInv'
<1> DEFINE U == Unfinished
           ended == {Caused(f, IF f.cause = "" THEN "closed" ELSE f.cause) : f \in U}
<1>1. PICK fs : fs = (flights \ U) \cup ended
  OBVIOUS
<1>2. flights' = fs
  BY <1>1 DEF CancelUnfinished, Caused
<1>3. AllGood(flights) /\ U \in SUBSET flights
  BY FlightsGood DEF Unfinished
<1>4. IsFiniteSet(fs)
  <2>1. PICK F : F = [f \in U |-> Caused(f, IF f.cause = "" THEN "closed" ELSE f.cause)]
    OBVIOUS
  <2>2. F \in [U -> ended] /\ ended = {F[f] : f \in U}
    BY <2>1
  <2>3. IsFiniteSet(flights)
    BY <1>3 DEF AllGood
  <2> HIDE DEF U, ended
  <2>4. IsFiniteSet(U) /\ IsFiniteSet(flights \ U)
    BY <1>3, <2>3, FS_Subset, FS_Difference
  <2>5. IsFiniteSet(ended)
    BY <2>2, <2>4, FiniteImage
  <2> QED
    BY <1>1, <2>4, <2>5, FS_Union
<1>5. ASSUME NEW g \in fs PROVE Good(g)
  <2>1. CASE g \in flights
    BY <1>3, <2>1 DEF AllGood
  <2>2. CASE g \in ended
    <3>1. PICK f \in U : g = Caused(f, IF f.cause = "" THEN "closed" ELSE f.cause)
      BY <2>2
    <3>2. Good(f)
      BY <1>3 DEF AllGood
    <3> QED
      BY <3>1, <3>2, CausedGood
  <2> QED
    BY <1>1, <2>1, <2>2
<1>6. AllGood(fs)
  BY <1>4, <1>5 DEF AllGood
<1> QED
  BY <1>2, <1>6, FlightsMove

(* The steps of flights keep what holds of them.                           *)
LEMMA FlightStepsKeep ==
  ASSUME FlightsInv, FlightSteps \/ FlightFault
  PROVE  FlightsInv'
<1>1. PICK f \in flights :
        \/ StoreAnswers(f, SegmentOf(f).base < gone) \/ StoreFails(f)
        \/ OpenGet(f) \/ OpenBegin(f) \/ OpenAnswered(f) \/ OpenGivesUp(f) \/ FlightFinish(f)
  BY DEF FlightSteps, FlightFault
<1>2. UNCHANGED <<cl, gone>>
  BY DEF FlightSteps, FlightFault, FlightsAlone, clientVars
<1> QED
  BY <1>1, <1>2, StoreKeeps, OpenGetKeeps, OpenBeginKeeps, OpenAnsweredKeeps, OpenGivesUpKeeps,
     FinishKeeps

(* The steps of one client.                                                *)
WaitPcs == {"whole", "open", "range"}
OneMoves(c) == \A d \in Clients : d # c => cl'[d] = cl[d]

(* They touch one call.                                                    *)
LEMMA OneIs ==
  ASSUME ClientsInv, NEW c \in Clients, NEW k, cl' = [cl EXCEPT ![c] = k]
  PROVE  OneMoves(c) /\ cl'[c] = k
BY DEF ClientsInv, OneMoves

(* However it goes on or returns.                                          *)
LEMMA StaysOne == ASSUME ClientsInv, NEW c \in Clients, NEW k, Stays(c, k) PROVE OneMoves(c) /\ cl'[c] = k
BY OneIs DEF Stays

(* It returns.                                                             *)
LEMMA ReturnsOne ==
  ASSUME ClientsInv, NEW c \in Clients, NEW k, NEW h, Returns(c, k, h)
  PROVE  OneMoves(c)
<1>1. PICK x : cl' = [cl EXCEPT ![c] = x]
  BY DEF Returns
<1> QED
  BY <1>1, OneIs

(* It fails or starts over.                                                *)
LEMMA FailsOne ==
  ASSUME ClientsInv, NEW c \in Clients, NEW e, NEW h, Fails(c, e, h)
  PROVE  OneMoves(c)
BY ReturnsOne DEF Fails

(* Or.                                                                     *)
LEMMA AnomalyOne == ASSUME ClientsInv, NEW c \in Clients, NEW e, Anomaly(c, e) PROVE OneMoves(c)
BY FailsOne, StaysOne DEF Anomaly

(* An empty batch.                                                         *)
LEMMA EmptyOne == ASSUME ClientsInv, NEW c \in Clients, NEW h, Empty(c, h) PROVE OneMoves(c)
BY ReturnsOne, StaysOne DEF Empty

(* It uses a head.                                                         *)
LEMMA UseHeadOne == ASSUME ClientsInv, NEW c \in Clients, NEW h, UseHead(c, h) PROVE OneMoves(c)
BY ReturnsOne, StaysOne, FailsOne, EmptyOne, AnomalyOne DEF UseHead

(* A segment.                                                              *)
LEMMA UseSegmentOne == ASSUME ClientsInv, NEW c \in Clients, UseSegment(c) PROVE OneMoves(c)
BY ReturnsOne, StaysOne DEF UseSegment

(* A timestamp.                                                            *)
LEMMA UseTimestampOne == ASSUME ClientsInv, NEW c \in Clients, UseTimestamp(c) PROVE OneMoves(c)
BY StaysOne DEF UseTimestamp

(* Either.                                                                 *)
LEMMA UseBlockOne == ASSUME ClientsInv, NEW c \in Clients, UseBlock(c) PROVE OneMoves(c)
BY UseSegmentOne, UseTimestampOne DEF UseBlock

(* A position.                                                             *)
LEMMA UsePositionOne == ASSUME ClientsInv, NEW c \in Clients, NEW h, UsePosition(c, h) PROVE OneMoves(c)
<1>1. PICK x : cl' = [cl EXCEPT ![c] = x]
  BY DEF UsePosition
<1> QED
  BY <1>1, OneIs

(* A client that is not at a flight waits for none.                        *)
LEMMA NotWaiting ==
  ASSUME FlightsInv, NEW c \in Clients, cl[c].pc \notin WaitPcs
  PROVE  \A f \in flights : c \notin f.waiters
BY DEF FlightsInv, WaitsFor, WaitPcs

(* Neither before nor after its step.                                      *)
LEMMA StepFree ==
  ASSUME FlightsInv, NEW c \in Clients, cl[c].pc \notin WaitPcs, OneMoves(c),
         UNCHANGED <<flights, gone>>
  PROVE  FlightsInv'
<1>1. PICK fs : fs = flights
  OBVIOUS
<1>2. \A f \in fs : c \notin f.waiters
  BY <1>1, NotWaiting
<1>3. ASSUME NEW f \in fs PROVE FlightOK(f) /\ \A d \in Clients : WaitsFor(d, cl'[d], f)
  <2>1. FlightOK(f) /\ \A d \in Clients : WaitsFor(d, cl[d], f)
    BY <1>1 DEF FlightsInv
  <2>2. ASSUME NEW d \in Clients PROVE WaitsFor(d, cl'[d], f)
    <3>1. CASE d = c
      BY <1>2, <3>1 DEF WaitsFor
    <3>2. CASE d # c
      BY <2>1, <3>2 DEF OneMoves
    <3> QED
      BY <3>1, <3>2
  <2> QED
    BY <2>1, <2>2
<1>4. IsFiniteSet(fs)
  BY <1>1 DEF FlightsInv
<1> QED
  BY <1>1, <1>3, <1>4, FlightsTo

(* A client leaves its flight.                                             *)
LEMMA StepLeaves ==
  ASSUME FlightsInv, NEW c \in Clients, OneMoves(c), flights' = leave(flights, c), gone' = gone
  PROVE  FlightsInv'
<1>1. PICK fs : fs = leave(flights, c)
  OBVIOUS
<1>2. AllGood(fs) /\ \A f \in fs : c \notin f.waiters
  BY <1>1, FlightsGood, LeaveKeeps
<1>3. ASSUME NEW f \in fs PROVE FlightOK(f) /\ \A d \in Clients : WaitsFor(d, cl'[d], f)
  <2>1. FlightOK(f) /\ \A d \in Clients : WaitsFor(d, cl[d], f)
    BY <1>2 DEF AllGood, Good
  <2>2. ASSUME NEW d \in Clients PROVE WaitsFor(d, cl'[d], f)
    <3>1. CASE d = c
      BY <1>2, <3>1 DEF WaitsFor
    <3>2. CASE d # c
      BY <2>1, <3>2 DEF OneMoves
    <3> QED
      BY <3>1, <3>2
  <2> QED
    BY <2>1, <2>2
<1>4. IsFiniteSet(fs)
  BY <1>2 DEF AllGood
<1> QED
  BY <1>1, <1>3, <1>4, FlightsTo

(* A client joins one.                                                     *)
LEMMA StepJoins ==
  ASSUME FlightsInv, NEW c \in Clients, cl[c].pc \notin WaitPcs, OneMoves(c),
         NEW level, NEW key, NEW s, KeyFor(level, key, s),
         flights' = begin(flights, level, key, c), gone' = gone,
         cl'[c].pc \in WaitPcs, cl'[c].segs # <<>>, cl'[c].segs[1] = s
  PROVE  FlightsInv'
<1>1. PICK fs : fs = begin(flights, level, key, c)
  OBVIOUS
<1>2. \A f \in flights : c \notin f.waiters
  BY NotWaiting
<1>3. AllGood(flights) /\ c \in Clients \cup OpenIds
  BY FlightsGood
<1>4. /\ IsFiniteSet(fs)
      /\ \A g \in fs : /\ FlightOK(g)
                       /\ \A d \in Clients : d # c => WaitsFor(d, cl[d], g)
                       /\ c \in g.waiters => SegmentOf(g) = s \/ \E f \in flights : c \in f.waiters
  BY <1>1, <1>3, BeginKeeps
<1>5. ASSUME NEW f \in fs PROVE FlightOK(f) /\ \A d \in Clients : WaitsFor(d, cl'[d], f)
  <2>1. ASSUME NEW d \in Clients PROVE WaitsFor(d, cl'[d], f)
    <3>1. CASE d = c
      BY <1>2, <1>4, <3>1 DEF WaitsFor, WaitPcs
    <3>2. CASE d # c
      BY <1>4, <3>2 DEF OneMoves
    <3> QED
      BY <3>1, <3>2
  <2> QED
    BY <1>4, <2>1
<1> QED
  BY <1>1, <1>4, <1>5, FlightsTo

(* The segment a client asks a cache for.                                  *)
LEMMA AsksFor ==
  ASSUME ClientsInv, NEW c \in Clients, cl[c].pc \in {"segment", "ranges", "stamp", "begin"},
         cl[c].pc = "segment" => ~Gap(cl[c].segs[1], NextLSN(cl[c])),
         NEW p \in Pcs, Stays(c, [cl[c] EXCEPT !.pc = p])
  PROVE  /\ OneMoves(c) /\ cl'[c].pc = p /\ cl'[c].segs = cl[c].segs /\ cl[c].segs # <<>>
         /\ cl[c].segs[1] \in Segment /\ Head(cl[c].segs) = cl[c].segs[1] /\ cl[c].pc \notin WaitPcs
<1>1. PICK j : j = cl[c]
  OBVIOUS
<1>2. j.pc \in {"stamp"} \cup (ReadPcs \ {"list"}) /\ j.pc \notin WaitPcs
  BY <1>1 DEF ReadPcs, WaitPcs
<1>3. j \in CallType /\ Phase(j) /\ Exact(j) /\ Elements(j.segs) \subseteq committed /\ At(j)
  BY <1>1, <1>2, AtBusy
<1>4. j.segs # <<>> /\ j.segs[1] \in Segment /\ Head(j.segs) = j.segs[1]
  BY <1>3, AtSegment
<1>5. PICK x : x = WithPc(j, p)
  OBVIOUS
<1>6. Like(x, j) /\ x.pc = p
  <2>1. j \in CallType
    BY <1>3
  <2> QED
    BY <1>5, <2>1, PcLike
<1>7. Stays(c, x)
  BY <1>1, <1>5 DEF WithPc
<1>8. OneMoves(c) /\ cl'[c] = x
  BY <1>7, StaysOne
<1>9. x.segs = j.segs
  BY <1>6 DEF Like
<1> QED
  BY <1>1, <1>2, <1>4, <1>6, <1>8, <1>9

(* openWholeSegmentForRead.                                                *)
LEMMA OpenWholeFlights ==
  ASSUME ClientsInv, FlightsInv, NEW c \in Clients, OpenWhole(c), gone' = gone
  PROVE  FlightsInv'
<1>1. PICK j : j = cl[c]
  OBVIOUS
<1>2. j.pc = "segment" /\ j.pc \notin WaitPcs
  BY <1>1 DEF OpenWhole, WaitPcs
<1>3. j.segs # <<>> /\ Head(j.segs) = j.segs[1]
  <2>1. j.pc # "idle"
    BY <1>2
  <2>2. Phase(j)
    BY <1>1, <2>1, BusyCall
  <2>3. Reading(j)
    BY <1>2, <2>2 DEF Phase, Reading, ReadPcs, SearchPcs
  <2>4. Batch(j)
    BY <2>2, <2>3 DEF Phase
  <2>5. Serves(j)
    BY <1>2, <2>4 DEF Batch
  <2>6. j.segs # <<>>
    BY <2>5 DEF Serves
  <2> QED
    BY <2>6
<1>4. PICK s : s = j.segs[1]
  OBVIOUS
<1>5. CASE Gap(s, NextLSN(j))
  <2>1. Anomaly(c, "corrupt") /\ UNCHANGED flights
    BY <1>1, <1>3, <1>4, <1>5 DEF OpenWhole
  <2>2. OneMoves(c)
    BY <2>1, AnomalyOne
  <2> QED
    BY <1>1, <1>2, <2>1, <2>2, StepFree
<1>6. CASE ~Gap(s, NextLSN(j))
  <2>1. PICK a : /\ \/ a = Acquire(c, s) \/ a = AcquireCached(s)
                    \/ a = [now |-> "ranges", whole |-> whole, flights |-> flights]
                 /\ flights' = a.flights
                 /\ IF a.now = "closed" THEN Anomaly(c, "closed")
                    ELSE Stays(c, [cl[c] EXCEPT !.pc = a.now])
    <3> DEFINE limit == Limit(j) - Cardinality(j.recs)
               b == IF chooseReadStrategy(left.strategy, s, NextLSN(j), limit, Intent(j)) = "whole"
                    THEN Acquire(c, s)
                    ELSE IF left.strategy = "auto" THEN AcquireCached(s)
                    ELSE [now |-> "ranges", whole |-> whole, flights |-> flights]
    <3>1. /\ flights' = b.flights
          /\ IF b.now = "closed" THEN Anomaly(c, "closed") ELSE Stays(c, [cl[c] EXCEPT !.pc = b.now])
      BY <1>1, <1>3, <1>4, <1>6 DEF OpenWhole
    <3>2. \/ b = Acquire(c, s) \/ b = AcquireCached(s)
          \/ b = [now |-> "ranges", whole |-> whole, flights |-> flights]
      OBVIOUS
    <3> HIDE DEF b
    <3> QED
      BY <3>1, <3>2
  <2>2. /\ a.now \in Nows
        /\ \/ a.flights = flights
           \/ a.now = "whole" /\ a.flights = begin(flights, "whole", s, c)
    <3>1. CASE a = Acquire(c, s)
      BY <3>1 DEF Acquire, Nows
    <3>2. CASE a = AcquireCached(s)
      BY <3>2 DEF AcquireCached, Nows
    <3>3. CASE a = [now |-> "ranges", whole |-> whole, flights |-> flights]
      BY <3>3 DEF Nows
    <3> QED
      BY <2>1, <3>1, <3>2, <3>3
  <2>3. CASE a.now = "closed"
    <3>1. Anomaly(c, "closed") /\ flights' = flights
      BY <2>1, <2>2, <2>3
    <3>2. OneMoves(c)
      BY <3>1, AnomalyOne
    <3> QED
      BY <1>1, <1>2, <3>1, <3>2, StepFree
  <2>4. CASE a.now # "closed"
    <3>1. PICK p \in Pcs : p = a.now
      <4>1. Nows \ {"closed"} \subseteq Pcs
        BY DEF Nows, Pcs
      <4>2. a.now \in Nows \ {"closed"}
        BY <2>2, <2>4
      <4> QED
        BY <4>1, <4>2
    <3>2. Stays(c, [cl[c] EXCEPT !.pc = p])
      BY <2>1, <2>4, <3>1
    <3>3. /\ OneMoves(c) /\ cl'[c].pc = p /\ cl'[c].segs = cl[c].segs /\ cl[c].segs # <<>>
          /\ cl[c].segs[1] \in Segment /\ cl[c].pc \notin WaitPcs
      BY <1>1, <1>2, <1>4, <1>6, <3>2, AsksFor
    <3>4. CASE a.flights = flights
      BY <2>1, <3>3, <3>4, StepFree
    <3>5. CASE a.now = "whole" /\ a.flights = begin(flights, "whole", s, c)
      <4>1. KeyFor("whole", s, s) /\ p \in WaitPcs
        BY <1>1, <1>4, <3>1, <3>3, <3>5, KeysAre DEF WaitPcs
      <4>2. flights' = begin(flights, "whole", s, c)
        BY <2>1, <3>5
      <4> QED
        BY <1>1, <1>4, <3>3, <4>1, <4>2, StepJoins
    <3> QED
      BY <2>2, <3>4, <3>5
  <2> QED
    BY <2>3, <2>4
<1> QED
  BY <1>5, <1>6

(* openSegment.                                                            *)
LEMMA OpenSegmentFlights ==
  ASSUME ClientsInv, FlightsInv, NEW c \in Clients, OpenSegment(c), gone' = gone
  PROVE  FlightsInv'
<1>1. cl[c].pc \in {"segment", "ranges", "stamp", "begin"} /\ cl[c].pc # "segment"
  BY DEF OpenSegment
<1>2. PICK s : s = Head(cl[c].segs)
  OBVIOUS
<1>3. CASE UNCHANGED flights /\ Stays(c, [cl[c] EXCEPT !.pc = "block"])
  <2>1. "block" \in Pcs
    BY DEF Pcs
  <2>2. OneMoves(c) /\ cl[c].pc \notin WaitPcs
    BY <1>1, <1>3, <2>1, AsksFor
  <2> QED
    BY <1>3, <2>2, StepFree
<1>4. CASE flights' = begin(flights, "open", s, c) /\ Stays(c, [cl[c] EXCEPT !.pc = "open"])
  <2>1. "open" \in Pcs /\ "open" \in WaitPcs
    BY DEF Pcs, WaitPcs
  <2>2. /\ OneMoves(c) /\ cl'[c].pc = "open" /\ cl'[c].segs = cl[c].segs /\ cl[c].segs # <<>>
        /\ cl[c].segs[1] \in Segment /\ Head(cl[c].segs) = cl[c].segs[1] /\ cl[c].pc \notin WaitPcs
    BY <1>1, <1>4, <2>1, AsksFor
  <2>3. s \in Segment /\ cl'[c].segs[1] = s
    BY <1>2, <2>2
  <2>4. KeyFor("open", s, s)
    BY <2>3, KeysAre
  <2> QED
    BY <1>4, <2>1, <2>2, <2>3, <2>4, StepJoins
<1> QED
  BY <1>2, <1>3, <1>4 DEF OpenSegment

(* The join of the read of blocks.                                         *)
LEMMA BlockBeginFlights ==
  ASSUME ClientsInv, FlightsInv, NEW c \in Clients, BlockBegin(c), gone' = gone
  PROVE  FlightsInv'
<1>1. cl[c].pc \in {"segment", "ranges", "stamp", "begin"} /\ cl[c].pc # "segment"
  BY DEF BlockBegin
<1>2. PICK s : s = Head(cl[c].segs)
  OBVIOUS
<1>3. flights' = begin(flights, "range", DataRange(s), c) /\ Stays(c, [cl[c] EXCEPT !.pc = "range"])
  BY <1>2 DEF BlockBegin
<1>4. "range" \in Pcs /\ "range" \in WaitPcs
  BY DEF Pcs, WaitPcs
<1>5. /\ OneMoves(c) /\ cl'[c].pc = "range" /\ cl'[c].segs = cl[c].segs /\ cl[c].segs # <<>>
      /\ cl[c].segs[1] \in Segment /\ Head(cl[c].segs) = cl[c].segs[1] /\ cl[c].pc \notin WaitPcs
  BY <1>1, <1>3, <1>4, AsksFor
<1>6. s \in Segment /\ cl'[c].segs[1] = s
  BY <1>2, <1>5
<1>7. PICK k : k = DataRange(s)
  OBVIOUS
<1>8. KeyFor("range", k, s) /\ flights' = begin(flights, "range", k, c)
  BY <1>3, <1>6, <1>7, KeysAre
<1> QED
  BY <1>4, <1>5, <1>6, <1>8, StepJoins

(* A client collects what it waited for.                                   *)
LEMMA CollectFlights ==
  ASSUME ClientsInv, FlightsInv, NEW c \in Clients, WholeLoaded(c) \/ SegmentOpened(c) \/ BlockRead(c),
         gone' = gone
  PROVE  FlightsInv'
<1>1. flights' = leave(flights, c)
  BY DEF WholeLoaded, SegmentOpened, BlockRead, Collect
<1>2. OneMoves(c)
  BY StaysOne, AnomalyOne, UseBlockOne DEF WholeLoaded, SegmentOpened, BlockRead, Collect
<1> QED
  BY <1>1, <1>2, StepLeaves

(* A step that leaves the flights to others.                               *)
LEMMA FreeStep ==
  ASSUME ClientsInv, FlightsInv, NEW c \in Clients, ClientSteps(c), gone' = gone,
         flights' = flights, ~(cl[c].pc \in WaitPcs), ~Refreshed(c)
  PROVE  FlightsInv'
<1> USE StaysOne, FailsOne, AnomalyOne, UseHeadOne, EmptyOne, UseBlockOne, UseSegmentOne,
        UseTimestampOne
<1>1. OneMoves(c)
  <2>1. CASE headForRead(c)
    BY <2>1 DEF headForRead
  <2>2. CASE RefreshJoin(c)
    BY <2>2 DEF RefreshJoin
  <2>3. CASE Refreshed(c)
    BY <2>3
  <2>4. CASE FetchHead(c)
    BY <2>4 DEF FetchHead
  <2>5. CASE FetchFind(c)
    BY <2>5 DEF FetchFind
  <2>6. CASE TimestampLookup(c)
    BY <2>6 DEF TimestampLookup
  <2>7. CASE TimestampStart(c)
    BY <2>7 DEF TimestampStart
  <2>8. CASE ListPage(c)
    BY <2>8 DEF ListPage
  <2>9. CASE ReadSegment(c)
    BY <2>9 DEF ReadSegment
  <2>10. CASE OpenWhole(c)
    BY <2>10 DEF OpenWhole
  <2>11. CASE WholeLoaded(c)
    BY <2>11 DEF WholeLoaded, Collect
  <2>12. CASE LeaseReader(c)
    BY <2>12 DEF LeaseReader
  <2>13. CASE LeaseRead(c)
    BY <2>13 DEF LeaseRead
  <2>14. CASE OpenSegment(c)
    BY <2>14 DEF OpenSegment
  <2>15. CASE SegmentOpened(c)
    BY <2>15 DEF SegmentOpened, Collect
  <2>16. CASE BlockGet(c)
    BY <2>16 DEF BlockGet
  <2>17. CASE BlockBegin(c)
    BY <2>17 DEF BlockBegin
  <2>18. CASE BlockRead(c)
    BY <2>18 DEF BlockRead, Collect
  <2>19. CASE CallCancelled(c)
    BY <2>19 DEF CallCancelled
  <2>20. CASE TailSnapshot(c)
    BY <2>20 DEF TailSnapshot
  <2>21. CASE TailMembership(c)
    BY <2>21 DEF TailMembership
  <2>22. CASE TailChannel(c)
    BY <2>22 DEF TailChannel
  <2>23. CASE TailWoken(c)
    BY <2>23 DEF TailWoken
  <2>24. CASE TailRecheck(c)
    BY <2>24 DEF TailRecheck
  <2> QED
    BY <2>1, <2>2, <2>3, <2>4, <2>5, <2>6, <2>7, <2>8, <2>9, <2>10, <2>11, <2>12, <2>13,
        <2>14, <2>15, <2>16, <2>17, <2>18, <2>19, <2>20, <2>21, <2>22, <2>23, <2>24 DEF
        ClientSteps, CacheSteps
<1> QED
  BY <1>1, StepFree

(* The refresh returned.                                                   *)
LEMMA RefreshedFlights ==
  ASSUME ClientsInv, FlightsInv, NEW c \in Clients, Refreshed(c), gone' = gone
  PROVE  FlightsInv'
<1>1. PICK a : a = answer[c][1]
  OBVIOUS
<1>2. cl[c].pc \notin WaitPcs /\ flights' = flights
  BY DEF Refreshed, WaitPcs, ClientStep, cacheVars
<1>3. OneMoves(c)
  <2>1. \/ Fails(c, a.err, cl[c].hint) \/ Stays(c, [cl[c] EXCEPT !.pc = "lookup"])
        \/ UsePosition(c, a.head) \/ UseHead(c, a.head)
    BY <1>1 DEF Refreshed
  <2> QED
    BY <2>1, FailsOne, StaysOne, UsePositionOne, UseHeadOne
<1> QED
  BY <1>2, <1>3, StepFree

(* A step of a call keeps what the flights rely on.                        *)
LEMMA ClientFlights ==
  ASSUME ClientsInv, FlightsInv, NEW c \in Clients, ClientSteps(c), gone' = gone
  PROVE  FlightsInv'
<1> USE DEF LocalStep, ClientStep, CacheStep, cacheVars, WaitPcs
<1>1. CASE headForRead(c)
  <2>1. flights' = flights /\ ~(cl[c].pc \in WaitPcs) /\ ~Refreshed(c)
    BY <1>1 DEF headForRead, Refreshed
  <2> QED
    BY <2>1, FreeStep
<1>2. CASE RefreshJoin(c)
  <2>1. flights' = flights /\ ~(cl[c].pc \in WaitPcs) /\ ~Refreshed(c)
    BY <1>2 DEF RefreshJoin, Refreshed
  <2> QED
    BY <2>1, FreeStep
<1>3. CASE Refreshed(c)
  BY <1>3, RefreshedFlights
<1>4. CASE FetchHead(c)
  <2>1. flights' = flights /\ ~(cl[c].pc \in WaitPcs) /\ ~Refreshed(c)
    BY <1>4 DEF FetchHead, Refreshed
  <2> QED
    BY <2>1, FreeStep
<1>5. CASE FetchFind(c)
  <2>1. flights' = flights /\ ~(cl[c].pc \in WaitPcs) /\ ~Refreshed(c)
    BY <1>5 DEF FetchFind, Refreshed
  <2> QED
    BY <2>1, FreeStep
<1>6. CASE TimestampLookup(c)
  <2>1. flights' = flights /\ ~(cl[c].pc \in WaitPcs) /\ ~Refreshed(c)
    BY <1>6 DEF TimestampLookup, Refreshed
  <2> QED
    BY <2>1, FreeStep
<1>7. CASE TimestampStart(c)
  <2>1. flights' = flights /\ ~(cl[c].pc \in WaitPcs) /\ ~Refreshed(c)
    BY <1>7 DEF TimestampStart, Refreshed
  <2> QED
    BY <2>1, FreeStep
<1>8. CASE ListPage(c)
  <2>1. flights' = flights /\ ~(cl[c].pc \in WaitPcs) /\ ~Refreshed(c)
    BY <1>8 DEF ListPage, Refreshed
  <2> QED
    BY <2>1, FreeStep
<1>9. CASE ReadSegment(c)
  <2>1. flights' = flights /\ ~(cl[c].pc \in WaitPcs) /\ ~Refreshed(c)
    BY <1>9 DEF ReadSegment, Refreshed
  <2> QED
    BY <2>1, FreeStep
<1>10. CASE OpenWhole(c)
  BY <1>10, OpenWholeFlights
<1>11. CASE WholeLoaded(c)
  BY <1>11, CollectFlights
<1>12. CASE LeaseReader(c)
  <2>1. flights' = flights /\ ~(cl[c].pc \in WaitPcs) /\ ~Refreshed(c)
    BY <1>12 DEF LeaseReader, Refreshed
  <2> QED
    BY <2>1, FreeStep
<1>13. CASE LeaseRead(c)
  <2>1. flights' = flights /\ ~(cl[c].pc \in WaitPcs) /\ ~Refreshed(c)
    BY <1>13 DEF LeaseRead, Refreshed
  <2> QED
    BY <2>1, FreeStep
<1>14. CASE OpenSegment(c)
  BY <1>14, OpenSegmentFlights
<1>15. CASE SegmentOpened(c)
  BY <1>15, CollectFlights
<1>16. CASE BlockGet(c)
  <2>1. flights' = flights /\ ~(cl[c].pc \in WaitPcs) /\ ~Refreshed(c)
    BY <1>16 DEF BlockGet, Refreshed
  <2> QED
    BY <2>1, FreeStep
<1>17. CASE BlockBegin(c)
  BY <1>17, BlockBeginFlights
<1>18. CASE BlockRead(c)
  BY <1>18, CollectFlights
<1>19. CASE CallCancelled(c)
  <2>1. flights' = leave(flights, c) /\ OneMoves(c)
    BY <1>19, FailsOne DEF CallCancelled
  <2> QED
    BY <2>1, StepLeaves
<1>20. CASE TailSnapshot(c)
  <2>1. flights' = flights /\ ~(cl[c].pc \in WaitPcs) /\ ~Refreshed(c)
    BY <1>20 DEF TailSnapshot, Refreshed
  <2> QED
    BY <2>1, FreeStep
<1>21. CASE TailMembership(c)
  <2>1. flights' = flights /\ ~(cl[c].pc \in WaitPcs) /\ ~Refreshed(c)
    BY <1>21 DEF TailMembership, Refreshed
  <2> QED
    BY <2>1, FreeStep
<1>22. CASE TailChannel(c)
  <2>1. flights' = flights /\ ~(cl[c].pc \in WaitPcs) /\ ~Refreshed(c)
    BY <1>22 DEF TailChannel, Refreshed
  <2> QED
    BY <2>1, FreeStep
<1>23. CASE TailWoken(c)
  <2>1. flights' = flights /\ ~(cl[c].pc \in WaitPcs) /\ ~Refreshed(c)
    BY <1>23 DEF TailWoken, Refreshed
  <2> QED
    BY <2>1, FreeStep
<1>24. CASE TailRecheck(c)
  <2>1. flights' = flights /\ ~(cl[c].pc \in WaitPcs) /\ ~Refreshed(c)
    BY <1>24 DEF TailRecheck, Refreshed
  <2> QED
    BY <2>1, FreeStep
<1> QED
  BY <1>1, <1>2, <1>3, <1>4, <1>5, <1>6, <1>7, <1>8, <1>9, <1>10, <1>11, <1>12, <1>13,
      <1>14, <1>15, <1>16, <1>17, <1>18, <1>19, <1>20, <1>21, <1>22, <1>23, <1>24 DEF
      ClientSteps, CacheSteps

(* A query fails.                                                          *)
LEMMA QueryFlights ==
  ASSUME ClientsInv, FlightsInv, NEW c \in Clients, QueryFails(c)
  PROVE  FlightsInv'
<1>1. cl[c].pc \notin WaitPcs /\ UNCHANGED <<flights, gone>>
  BY DEF QueryFails, WaitPcs, cacheVars
<1>2. OneMoves(c)
  BY FailsOne, AnomalyOne DEF QueryFails
<1> QED
  BY <1>1, <1>2, StepFree

(* The caller's context ends: the call is where it was.                    *)
LEMMA CancelFlights ==
  ASSUME ClientsInv, FlightsInv, NEW c \in Clients, CancelCall(c)
  PROVE  FlightsInv'
<1>1. PICK j : j = cl[c]
  OBVIOUS
<1>2. PICK x : x = Stopping(j)
  OBVIOUS
<1>3. j \in CallType /\ UNCHANGED <<flights, gone>>
  BY <1>1 DEF CancelCall, ClientsInv, ClientOK, CallOK, cacheVars
<1>4. Stays(c, x)
  BY <1>1, <1>2 DEF CancelCall, Stays, Stopping
<1>5. x.pc = j.pc /\ x.segs = j.segs
  BY <1>2, <1>3, StopRec
<1>6. OneMoves(c) /\ cl'[c] = x
  BY <1>4, StaysOne
<1>7. PICK fs : fs = flights
  OBVIOUS
<1>8. ASSUME NEW f \in fs PROVE FlightOK(f) /\ \A d \in Clients : WaitsFor(d, cl'[d], f)
  <2>1. FlightOK(f) /\ \A d \in Clients : WaitsFor(d, cl[d], f)
    BY <1>7 DEF FlightsInv
  <2>2. ASSUME NEW d \in Clients PROVE WaitsFor(d, cl'[d], f)
    <3>1. CASE d = c
      BY <1>1, <1>5, <1>6, <2>1, <3>1 DEF WaitsFor
    <3>2. CASE d # c
      BY <1>6, <2>1, <3>2 DEF OneMoves
    <3> QED
      BY <3>1, <3>2
  <2> QED
    BY <2>1, <2>2
<1>9. IsFiniteSet(fs)
  BY <1>7 DEF FlightsInv
<1> QED
  BY <1>3, <1>7, <1>8, <1>9, FlightsTo

(* The calls and the flights as they were.                                 *)
LEMMA FlightsSame == ASSUME FlightsInv, UNCHANGED <<cl, flights, gone>> PROVE FlightsInv'
BY FlightsMove, FlightsGood

(* A call begins.                                                          *)
LEMMA StartFlights ==
  ASSUME ClientsInv, FlightsInv, NEW c \in Clients, StartCall(c)
  PROVE  FlightsInv'
<1>1. UNCHANGED <<flights, gone>>
  BY StartKeeps DEF cacheVars
<1>2. CASE UNCHANGED cl
  BY <1>1, <1>2, FlightsSame
<1>3. CASE \E k : Start(c, k)
  <2>1. PICK k : Start(c, k)
    BY <1>3
  <2>2. cl[c].pc \notin WaitPcs
    BY <2>1 DEF Start, WaitPcs
  <2>3. OneMoves(c)
    BY <2>1, OneIs DEF Start
  <2> QED
    BY <1>1, <2>2, <2>3, StepFree
<1>4. (UNCHANGED cl) \/ \E k : Start(c, k)
  BY Zenon DEF StartCall, PartitionHead, Fetch, Consume, Read, ConsumeFromTimestamp, CursorNext,
         Checkpoint, ResumeCursor, Seek, TailNext, TailerClose, OpenTail
<1> QED
  BY <1>2, <1>3, <1>4

(* The calls and cursors as they were, while the catalog may have grown.   *)
LEMMA ClientsGrow ==
  ASSUME ClientsInv, CatalogInv, CatalogInv', Grows, UNCHANGED <<cl, cursor>>
  PROVE  ClientsInv'
<1>1. /\ cl = [x \in Clients |-> cl[x]] /\ cursor = [x \in Clients |-> cursor[x]]
      /\ \A x \in Clients : ClientOK(x, cl[x], cursor[x])
  BY DEF ClientsInv
<1>2. ASSUME NEW x \in Clients PROVE ClientOK(x, cl[x], cursor[x])'
  <2>1. PICK j : j = cl[x]
    OBVIOUS
  <2>2. PICK q : q = cursor[x]
    OBVIOUS
  <2>3. CallOK(j) /\ CursorOK(x, j, q)
    BY <1>1, <2>1, <2>2 DEF ClientOK
  <2>4. committed \subseteq committed'
    BY DEF Grows
  <2>5. CallOK(j)' /\ CursorOK(x, j, q)'
    BY <2>3, <2>4, CallGrows, CursorGrows
  <2> QED
    BY <2>1, <2>2, <2>5 DEF ClientOK
<1> QED
  BY <1>1, <1>2 DEF ClientsInv

----------------------------------------------------------------------------
(* Every step of the system.                                               *)

(* Nothing changed.                                                        *)
LEMMA LeftSame == ASSUME LeftInv, UNCHANGED left PROVE LeftInv'
BY DEF LeftInv

(* What a workload offers stays.                                           *)
LEMMA LeftStep ==
  ASSUME LeftInv, [Next]_vars
  PROVE  LeftInv'
<1>1. CASE Environment
  BY <1>1, LeftSame, SpendKeeps DEF Environment
<1>2. CASE ReclaimObjects
  BY <1>2, LeftSame, SpendKeeps DEF ReclaimObjects
<1>3. CASE LoadBegin /\ Alone
  BY <1>3, LeftSame, SpendKeeps DEF LoadBegin, Alone
<1>4. CASE LoadQuery /\ Alone
  BY <1>4, LeftSame, SpendKeeps DEF LoadQuery, Alone
<1>5. CASE LoadDone /\ Alone
  BY <1>5, LeftSame, SpendKeeps DEF LoadDone, Alone
<1>6. ASSUME NEW o \in group.orphans, OrphanDone(o) /\ Alone PROVE LeftInv'
  BY <1>6, LeftSame, SpendKeeps DEF OrphanDone, Alone
<1>7. ASSUME NEW o \in group.orphans, OrphanQuery(o) /\ Alone PROVE LeftInv'
  BY <1>7, LeftSame, SpendKeeps DEF OrphanQuery, Alone
<1>8. CASE Poll /\ Alone
  BY <1>8, LeftSame, SpendKeeps DEF Poll, Alone
<1>9. ASSUME NEW x \in Watches \cup {TheReader}, StoppedPollLeaves(x) /\ Alone PROVE LeftInv'
  BY <1>9, LeftSame, SpendKeeps DEF StoppedPollLeaves, Alone
<1>10. CASE LoadFails /\ Alone
  BY <1>10, LeftSame, SpendKeeps DEF LoadFails, Alone
<1>11. CASE PollTimeout /\ Alone
  BY <1>11, LeftSame, SpendKeeps DEF PollTimeout, Alone
<1>12. CASE EvictCachedHead /\ Alone
  BY <1>12, LeftSame, SpendKeeps DEF EvictCachedHead, Alone
<1>13. CASE FlightSteps
  BY <1>13, LeftSame, SpendKeeps DEF FlightSteps, FlightsAlone
<1>14. CASE FlightFault
  BY <1>14, LeftSame, SpendKeeps DEF FlightFault, FlightsAlone
<1>15. CASE CloseReader
  BY <1>15, LeftSame, SpendKeeps DEF CloseReader, WatchStep
<1>16. ASSUME NEW w \in Watches, CloseNextWatch(w) PROVE LeftInv'
  BY <1>16, LeftSame, SpendKeeps DEF CloseNextWatch, WatchStep
<1>17. CASE CloseWatchDone
  BY <1>17, LeftSame, SpendKeeps DEF CloseWatchDone, WatchStep
<1>18. CASE CloseRefresh
  BY <1>18, LeftSame, SpendKeeps DEF CloseRefresh, WatchStep
<1>19. CASE CloseGroup
  BY <1>19, LeftSame, SpendKeeps DEF CloseGroup, WatchStep
<1>20. CASE CloseWhole
  BY <1>20, LeftSame, SpendKeeps DEF CloseWhole, CloseStep
<1>21. CASE CloseCancels
  BY <1>21, LeftSame, SpendKeeps DEF CloseCancels, CloseStep
<1>22. CASE CloseDone
  BY <1>22, LeftSame, SpendKeeps DEF CloseDone, CloseStep
<1>23. ASSUME NEW c \in Clients, StartCall(c) PROVE LeftInv'
  <2>1. UNCHANGED left \/ Spend("calls")
    BY <1>23 DEF StartCall, PartitionHead, Fetch, Consume, Read, ConsumeFromTimestamp, CursorNext,
       Checkpoint, ResumeCursor, Seek, TailNext, TailerClose, OpenTail, Start
  <2> QED
    BY <2>1, LeftSame, SpendKeeps
<1>24. ASSUME NEW c \in Clients, CancelCall(c) PROVE LeftInv'
  BY <1>24, LeftSame, SpendKeeps DEF CancelCall
<1>25. ASSUME NEW c \in Clients, ClientSteps(c) PROVE LeftInv'
  BY <1>25, ClientKeeps, LeftSame
<1>26. ASSUME NEW c \in Clients, QueryFails(c) PROVE LeftInv'
  BY <1>26, LeftSame, SpendKeeps DEF QueryFails
<1>27. ASSUME NEW w \in Watches, OpenWatch(w) PROVE LeftInv'
  BY <1>27, LeftSame, SpendKeeps DEF OpenWatch, WatchStep
<1>28. ASSUME NEW w \in Watches, AddPartition(w) PROVE LeftInv'
  BY <1>28, LeftSame, SpendKeeps DEF AddPartition, WatchStep
<1>29. ASSUME NEW w \in Watches, RemovePartition(w) PROVE LeftInv'
  BY <1>29, LeftSame, SpendKeeps DEF RemovePartition, WatchStep
<1>30. ASSUME NEW w \in Watches, CloseWatch(w) PROVE LeftInv'
  BY <1>30, LeftSame, SpendKeeps DEF CloseWatch, WatchStep
<1>31. ASSUME NEW w \in Watches, RemoveReturns(w) PROVE LeftInv'
  BY <1>31, LeftSame, SpendKeeps DEF RemoveReturns, WatchStep
<1>32. ASSUME NEW w \in Watches, CloseUnwatches(w) PROVE LeftInv'
  BY <1>32, LeftSame, SpendKeeps DEF CloseUnwatches, WatchStep
<1>33. ASSUME NEW w \in Watches, CloseReturns(w) PROVE LeftInv'
  BY <1>33, LeftSame, SpendKeeps DEF CloseReturns, WatchStep
<1>34. CASE UNCHANGED vars
  BY <1>34, LeftSame, SpendKeeps DEF vars
<1> QED
  BY <1>1, <1>2, <1>3, <1>4, <1>5, <1>6, <1>7, <1>8, <1>9, <1>10, <1>11, <1>12, <1>13,
      <1>14, <1>15, <1>16, <1>17, <1>18, <1>19, <1>20, <1>21, <1>22, <1>23, <1>24,
      <1>25, <1>26, <1>27, <1>28, <1>29, <1>30, <1>31, <1>32, <1>33, <1>34
  DEF Next, Background, LoadSteps, OrphanEnds, OrphanAnswered, PollSteps, Disturbances,
      CloseSteps, WatchSteps

(* What every client may rely on stays.                                    *)
LEMMA ClientsStep ==
  ASSUME CatalogInv, CatalogInv', Grows, CoordInv, LeftInv, ClientsInv, FlightsInv, [Next]_vars
  PROVE  ClientsInv'
<1>1. CASE Environment
  BY <1>1, ClientsGrow DEF Environment, clientVars
<1>2. CASE ReclaimObjects
  BY <1>2, ClientsGrow DEF ReclaimObjects, clientVars
<1>3. CASE LoadBegin /\ Alone
  BY <1>3, ClientsGrow DEF LoadBegin, Alone, clientVars
<1>4. CASE LoadQuery /\ Alone
  BY <1>4, ClientsGrow DEF LoadQuery, Alone, clientVars
<1>5. CASE LoadDone /\ Alone
  BY <1>5, ClientsGrow DEF LoadDone, Alone, clientVars
<1>6. ASSUME NEW o \in group.orphans, OrphanDone(o) /\ Alone PROVE ClientsInv'
  BY <1>6, ClientsGrow DEF OrphanDone, Alone, clientVars
<1>7. ASSUME NEW o \in group.orphans, OrphanQuery(o) /\ Alone PROVE ClientsInv'
  BY <1>7, ClientsGrow DEF OrphanQuery, Alone, clientVars
<1>8. CASE Poll /\ Alone
  BY <1>8, ClientsGrow DEF Poll, Alone, clientVars
<1>9. ASSUME NEW x \in Watches \cup {TheReader}, StoppedPollLeaves(x) /\ Alone PROVE ClientsInv'
  BY <1>9, ClientsGrow DEF StoppedPollLeaves, Alone, clientVars
<1>10. CASE LoadFails /\ Alone
  BY <1>10, ClientsGrow DEF LoadFails, Alone, clientVars
<1>11. CASE PollTimeout /\ Alone
  BY <1>11, ClientsGrow DEF PollTimeout, Alone, clientVars
<1>12. CASE EvictCachedHead /\ Alone
  BY <1>12, ClientsGrow DEF EvictCachedHead, Alone, clientVars
<1>13. CASE FlightSteps
  BY <1>13, ClientsGrow DEF FlightSteps, FlightsAlone, clientVars
<1>14. CASE FlightFault
  BY <1>14, ClientsGrow DEF FlightFault, FlightsAlone, clientVars
<1>15. CASE CloseReader
  BY <1>15, ClientsGrow DEF CloseReader, WatchStep
<1>16. ASSUME NEW w \in Watches, CloseNextWatch(w) PROVE ClientsInv'
  BY <1>16, ClientsGrow DEF CloseNextWatch, WatchStep
<1>17. CASE CloseWatchDone
  BY <1>17, ClientsGrow DEF CloseWatchDone, WatchStep
<1>18. CASE CloseRefresh
  BY <1>18, ClientsGrow DEF CloseRefresh, WatchStep
<1>19. CASE CloseGroup
  BY <1>19, ClientsGrow DEF CloseGroup, WatchStep
<1>20. CASE CloseWhole
  BY <1>20, ClientsGrow DEF CloseWhole, CloseStep, clientVars
<1>21. CASE CloseCancels
  BY <1>21, ClientsGrow DEF CloseCancels, CloseStep, clientVars
<1>22. CASE CloseDone
  BY <1>22, ClientsGrow DEF CloseDone, CloseStep, clientVars
<1>23. ASSUME NEW c \in Clients, StartCall(c) PROVE ClientsInv'
  <2>1. UNCHANGED <<part, committed>>
    BY <1>23, StartKeeps DEF catalogVars
  <2> QED
    BY <1>23, <2>1, StartCallOK
<1>24. ASSUME NEW c \in Clients, CancelCall(c) PROVE ClientsInv'
  <2>1. UNCHANGED <<part, committed>>
    BY <1>24 DEF CancelCall, catalogVars
  <2> QED
    BY <1>24, <2>1, CancelCallOK
<1>25. ASSUME NEW c \in Clients, ClientSteps(c) PROVE ClientsInv'
  <2>1. UNCHANGED <<part, committed>>
    BY <1>25, ClientKeeps DEF catalogVars
  <2> QED
    BY <1>25, <2>1, ClientStepOK
<1>26. ASSUME NEW c \in Clients, QueryFails(c) PROVE ClientsInv'
  <2>1. UNCHANGED <<part, committed>>
    BY <1>26 DEF QueryFails, catalogVars
  <2> QED
    BY <1>26, <2>1, QueryFailsOK
<1>27. ASSUME NEW w \in Watches, OpenWatch(w) PROVE ClientsInv'
  BY <1>27, ClientsGrow DEF OpenWatch, WatchStep
<1>28. ASSUME NEW w \in Watches, AddPartition(w) PROVE ClientsInv'
  BY <1>28, ClientsGrow DEF AddPartition, WatchStep
<1>29. ASSUME NEW w \in Watches, RemovePartition(w) PROVE ClientsInv'
  BY <1>29, ClientsGrow DEF RemovePartition, WatchStep
<1>30. ASSUME NEW w \in Watches, CloseWatch(w) PROVE ClientsInv'
  BY <1>30, ClientsGrow DEF CloseWatch, WatchStep
<1>31. ASSUME NEW w \in Watches, RemoveReturns(w) PROVE ClientsInv'
  BY <1>31, ClientsGrow DEF RemoveReturns, WatchStep
<1>32. ASSUME NEW w \in Watches, CloseUnwatches(w) PROVE ClientsInv'
  BY <1>32, ClientsGrow DEF CloseUnwatches, WatchStep
<1>33. ASSUME NEW w \in Watches, CloseReturns(w) PROVE ClientsInv'
  BY <1>33, ClientsGrow DEF CloseReturns, WatchStep
<1>34. CASE UNCHANGED vars
  BY <1>34, ClientsGrow DEF vars, clientVars
<1> QED
  BY <1>1, <1>2, <1>3, <1>4, <1>5, <1>6, <1>7, <1>8, <1>9, <1>10, <1>11, <1>12, <1>13,
      <1>14, <1>15, <1>16, <1>17, <1>18, <1>19, <1>20, <1>21, <1>22, <1>23, <1>24,
      <1>25, <1>26, <1>27, <1>28, <1>29, <1>30, <1>31, <1>32, <1>33, <1>34
  DEF Next, Background, LoadSteps, OrphanEnds, OrphanAnswered, PollSteps, Disturbances,
      CloseSteps, WatchSteps

(* What the flights rely on stays.                                         *)
LEMMA FlightsStep ==
  ASSUME CatalogInv, CatalogInv', Grows, CoordInv, LeftInv, ClientsInv, FlightsInv, [Next]_vars
  PROVE  FlightsInv'
<1>1. CASE Environment
  BY <1>1, FlightsSame DEF Environment, clientVars, cacheVars
<1>2. CASE ReclaimObjects
  <2>1. UNCHANGED <<cl, flights>> /\ gone' = part.state.oldest
    BY <1>2 DEF ReclaimObjects, clientVars, cacheVars
  <2>2. gone \in Nat /\ gone' \in Nat /\ gone <= gone'
    BY <2>1, CatalogTyped DEF CoordInv
  <2> QED
    BY <2>1, <2>2, FlightsGone
<1>3. CASE LoadBegin /\ Alone
  BY <1>3, FlightsSame DEF LoadBegin, Alone, clientVars, cacheVars
<1>4. CASE LoadQuery /\ Alone
  BY <1>4, FlightsSame DEF LoadQuery, Alone, clientVars, cacheVars
<1>5. CASE LoadDone /\ Alone
  BY <1>5, FlightsSame DEF LoadDone, Alone, clientVars, cacheVars
<1>6. ASSUME NEW o \in group.orphans, OrphanDone(o) /\ Alone PROVE FlightsInv'
  BY <1>6, FlightsSame DEF OrphanDone, Alone, clientVars, cacheVars
<1>7. ASSUME NEW o \in group.orphans, OrphanQuery(o) /\ Alone PROVE FlightsInv'
  BY <1>7, FlightsSame DEF OrphanQuery, Alone, clientVars, cacheVars
<1>8. CASE Poll /\ Alone
  BY <1>8, FlightsSame DEF Poll, Alone, clientVars, cacheVars
<1>9. ASSUME NEW x \in Watches \cup {TheReader}, StoppedPollLeaves(x) /\ Alone PROVE FlightsInv'
  BY <1>9, FlightsSame DEF StoppedPollLeaves, Alone, clientVars, cacheVars
<1>10. CASE LoadFails /\ Alone
  BY <1>10, FlightsSame DEF LoadFails, Alone, clientVars, cacheVars
<1>11. CASE PollTimeout /\ Alone
  BY <1>11, FlightsSame DEF PollTimeout, Alone, clientVars, cacheVars
<1>12. CASE EvictCachedHead /\ Alone
  BY <1>12, FlightsSame DEF EvictCachedHead, Alone, clientVars, cacheVars
<1>13. CASE FlightSteps
  BY <1>13, FlightStepsKeep
<1>14. CASE FlightFault
  BY <1>14, FlightStepsKeep
<1>15. CASE CloseReader
  BY <1>15, FlightsSame DEF CloseReader, WatchStep, cacheVars
<1>16. ASSUME NEW w \in Watches, CloseNextWatch(w) PROVE FlightsInv'
  BY <1>16, FlightsSame DEF CloseNextWatch, WatchStep, cacheVars
<1>17. CASE CloseWatchDone
  BY <1>17, FlightsSame DEF CloseWatchDone, WatchStep, cacheVars
<1>18. CASE CloseRefresh
  BY <1>18, FlightsSame DEF CloseRefresh, WatchStep, cacheVars
<1>19. CASE CloseGroup
  BY <1>19, FlightsSame DEF CloseGroup, WatchStep, cacheVars
<1>20. CASE CloseWhole
  BY <1>20, FlightsSame DEF CloseWhole, CloseStep, clientVars, cacheVars
<1>21. CASE CloseCancels
  <2>1. UNCHANGED <<cl, gone>> /\ flights' = CancelUnfinished
    BY <1>21 DEF CloseCancels, CloseStep, clientVars
  <2> QED
    BY <2>1, CancelKeeps
<1>22. CASE CloseDone
  BY <1>22, FlightsSame DEF CloseDone, CloseStep, clientVars, cacheVars
<1>23. ASSUME NEW c \in Clients, StartCall(c) PROVE FlightsInv'
  BY <1>23, StartFlights
<1>24. ASSUME NEW c \in Clients, CancelCall(c) PROVE FlightsInv'
  BY <1>24, CancelFlights
<1>25. ASSUME NEW c \in Clients, ClientSteps(c) PROVE FlightsInv'
  <2>1. gone' = gone
    BY <1>25, ClientKeeps
  <2> QED
    BY <1>25, <2>1, ClientFlights
<1>26. ASSUME NEW c \in Clients, QueryFails(c) PROVE FlightsInv'
  BY <1>26, QueryFlights
<1>27. ASSUME NEW w \in Watches, OpenWatch(w) PROVE FlightsInv'
  BY <1>27, FlightsSame DEF OpenWatch, WatchStep, cacheVars
<1>28. ASSUME NEW w \in Watches, AddPartition(w) PROVE FlightsInv'
  BY <1>28, FlightsSame DEF AddPartition, WatchStep, cacheVars
<1>29. ASSUME NEW w \in Watches, RemovePartition(w) PROVE FlightsInv'
  BY <1>29, FlightsSame DEF RemovePartition, WatchStep, cacheVars
<1>30. ASSUME NEW w \in Watches, CloseWatch(w) PROVE FlightsInv'
  BY <1>30, FlightsSame DEF CloseWatch, WatchStep, cacheVars
<1>31. ASSUME NEW w \in Watches, RemoveReturns(w) PROVE FlightsInv'
  BY <1>31, FlightsSame DEF RemoveReturns, WatchStep, cacheVars
<1>32. ASSUME NEW w \in Watches, CloseUnwatches(w) PROVE FlightsInv'
  BY <1>32, FlightsSame DEF CloseUnwatches, WatchStep, cacheVars
<1>33. ASSUME NEW w \in Watches, CloseReturns(w) PROVE FlightsInv'
  BY <1>33, FlightsSame DEF CloseReturns, WatchStep, cacheVars
<1>34. CASE UNCHANGED vars
  BY <1>34, FlightsSame DEF vars, clientVars, cacheVars
<1> QED
  BY <1>1, <1>2, <1>3, <1>4, <1>5, <1>6, <1>7, <1>8, <1>9, <1>10, <1>11, <1>12, <1>13,
      <1>14, <1>15, <1>16, <1>17, <1>18, <1>19, <1>20, <1>21, <1>22, <1>23, <1>24,
      <1>25, <1>26, <1>27, <1>28, <1>29, <1>30, <1>31, <1>32, <1>33, <1>34
  DEF Next, Background, LoadSteps, OrphanEnds, OrphanAnswered, PollSteps, Disturbances,
      CloseSteps, WatchSteps

----------------------------------------------------------------------------
(* The invariant of the readers and what follows from it.                  *)

ReadersInv == CatalogInv /\ CoordInv /\ LeftInv /\ ClientsInv /\ FlightsInv

(* It holds before anything happens.                                       *)
LEMMA ReadersStart == ASSUME ReaderInit PROVE ReadersInv
<1> DEFINE none == <<>>
           q == [pos |-> 0, hint |-> none, ckpt |-> none, watch |-> none,
                 closed |-> FALSE, from |-> 0, seen |-> {}]
<1>1. CatalogInv /\ CoordInv
  BY CatalogStarts, CoordStarts
<1>2. LeftInv
  BY LeftStarts DEF ReaderInit
<1>3. flights = {} /\ cl = [c \in Clients |-> NoCall] /\ cursor = [c \in Clients |-> q]
  BY DEF ReaderInit, CachesInit
<1>4. FlightsInv
  BY <1>3, FS_EmptySet DEF FlightsInv
<1>5. PICK k : k = NoCall /\ Begun(k, "none", "idle", 0, <<>>)
  BY NoCallIs
<1>6. CallOK(k)
  <2>1. /\ k \in CallType /\ k.op = "none" /\ k.pc = "idle" /\ k.start = 0 /\ k.recs = {}
        /\ k.segs = <<>> /\ k.hint = <<>> /\ k.res = ""
    BY <1>5 DEF Begun
  <2>2. IsFiniteSet(k.recs) /\ Cardinality(k.recs) = 0
    BY <2>1, FS_EmptySet
  <2>3. LSNs(k.recs) = {}
    BY <2>1 DEF LSNs
  <2>4. k.start = 0
    BY <2>1
  <2>5. NextLSN(k) = 0
    BY <2>2, <2>4 DEF NextLSN
  <2>6. 0..0 - 1 = {}
    OBVIOUS
  <2>7. k.start..NextLSN(k) - 1 = {}
    BY <2>5, <2>6, <2>4
  <2>8. Exact(k)
    BY <2>1, <2>2, <2>3, <2>7 DEF Exact
  <2>9. Elements(k.segs) = {}
    BY <2>1, NoElements
  <2>10. Told(k)
    BY <2>1 DEF Told
  <2> QED
    BY <2>1, <2>8, <2>9, <2>10 DEF CallOK
<1>7. q \in CursorType
  BY DEF CursorType, Opt
<1>8. q.hint = none /\ q.ckpt = none /\ q.pos = 0 /\ q.from = 0 /\ q.seen = {}
  OBVIOUS
<1> HIDE DEF q
<1>9. ASSUME NEW c PROVE CursorOK(c, k, q)
  <2>1. Complete(q)
    BY <1>8 DEF Complete
  <2>2. k.op = "none" /\ k.pc = "idle"
    BY <1>5 DEF Begun
  <2> QED
    BY <1>7, <1>8, <2>1, <2>2 DEF CursorOK
<1>10. ClientsInv
  BY <1>3, <1>5, <1>6, <1>9 DEF ClientsInv, ClientOK
<1> QED
  BY <1>1, <1>2, <1>4, <1>10 DEF ReadersInv

(* And after every step.                                                   *)
LEMMA ReadersStep == ASSUME ReadersInv, [Next]_vars PROVE ReadersInv'
<1> USE DEF ReadersInv
<1>1. CatalogInv' /\ Grows
  BY CatalogStep
<1>2. CoordInv'
  BY <1>1, CoordStep
<1>3. LeftInv'
  BY LeftStep
<1>4. ClientsInv'
  BY <1>1, ClientsStep
<1>5. FlightsInv'
  BY <1>1, FlightsStep
<1> QED
  BY <1>1, <1>2, <1>3, <1>4, <1>5

(* A batch that was returned is exact.                                     *)
LEMMA BatchHolds == ASSUME ReadersInv PROVE BatchIsExact
<1> SUFFICES ASSUME NEW c \in Clients, NEW k, k = cl[c], k.pc = "idle", k.res \in {"records", "empty"}
             PROVE  /\ LSNs(k.recs) = k.start..NextLSN(k) - 1
                    /\ k.recs \subseteq UNION {Records(s) : s \in committed}
                    /\ Delivered(k)
  BY DEF BatchIsExact, Delivered
<1>1. CallOK(k)
  BY DEF ReadersInv, ClientsInv, ClientOK
<1>2. k \in CallType /\ Exact(k) /\ Told(k)
  BY <1>1 DEF CallOK
<1>3. k.recs \subseteq Rec
  BY <1>2 DEF CallType
<1>4. ASSUME NEW r \in k.recs PROVE r \in UNION {Records(s) : s \in committed}
  <2>1. r.seg \in committed /\ Covers(r.seg, r.lsn) /\ r \in Rec
    BY <1>2, <1>3 DEF Exact
  <2>2. r = [lsn |-> r.lsn, seg |-> r.seg] /\ r.lsn \in Nat /\ r.seg \in Segment
    BY <2>1 DEF Rec
  <2>3. r.lsn \in r.seg.base..r.seg.last
    BY <2>1, <2>2 DEF Covers, Segment
  <2>4. r \in Records(r.seg)
    BY <2>2, <2>3 DEF Records
  <2> QED
    BY <2>1, <2>4
<1>5. Delivered(k)
  BY <1>2 DEF Told
<1> QED
  BY <1>2, <1>4, <1>5 DEF Exact

(* Whatever a call told its caller is true.                                *)
LEMMA AnswersHold == ASSUME ReadersInv PROVE AnswersAreTrue
<1> SUFFICES ASSUME NEW c \in Clients, NEW k, k = cl[c]
             PROVE  /\ k.res \in {"expired", "corrupt", "missing"} => k.start < part.state.oldest
                    /\ k.res # "no waiters"
  BY DEF AnswersAreTrue
<1>1. CallOK(k)
  BY DEF ReadersInv, ClientsInv, ClientOK
<1>2. CASE k.pc = "idle"
  BY <1>1, <1>2 DEF CallOK, Told
<1>3. CASE k.pc # "idle"
  BY <1>1, <1>3 DEF CallOK, Phase
<1> QED
  BY <1>2, <1>3

(* No cursor has skipped a record.                                         *)
LEMMA CursorsHold == ASSUME ReadersInv PROVE NothingSkipped
BY DEF ReadersInv, ClientsInv, ClientOK, CursorOK, Complete, NothingSkipped

(* The readers' invariant: every call knows only heads the catalog had and *)
(* only committed segments, has read from its start on without a gap, and   *)
(* waits, if at all, for a flight of the segment it is at.                 *)
THEOREM ReadersAreSound == Spec => []ReadersInv
<1>1. ReaderInit => ReadersInv
  BY ReadersStart
<1>2. ReadersInv /\ [Next]_vars => ReadersInv'
  BY ReadersStep
<1> QED
  BY <1>1, <1>2, PTL DEF Spec

(* Every batch a read, a fetch, a timestamp read, a cursor or a tailer      *)
(* returns is exact: consumeFromHeadOnce reads page by page under one head  *)
(* while appends, retention and the deletion of objects go on.             *)
THEOREM BatchesStayExact == Spec => []BatchIsExact
<1>1. ReadersInv => BatchIsExact
  BY BatchHolds
<1> QED
  BY <1>1, ReadersAreSound, PTL

(* Expired, corrupt and missing are answered only of LSNs that retention    *)
(* has passed, and the departure of one waiter of a shared load never fails *)
(* another's call.                                                         *)
THEOREM AnswersStayTrue == Spec => []AnswersAreTrue
<1>1. ReadersInv => AnswersAreTrue
  BY AnswersHold
<1> QED
  BY <1>1, ReadersAreSound, PTL

(* Cursors and tailers return everything between where they started and     *)
(* where they are, through failed calls, seeks, checkpoints and            *)
(* resumptions.                                                            *)
THEOREM CursorsSkipNothing == Spec => []NothingSkipped
<1>1. ReadersInv => NothingSkipped
  BY CursorsHold
<1> QED
  BY <1>1, ReadersAreSound, PTL
=============================================================================
