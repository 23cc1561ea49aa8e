--------------------------- MODULE ReclaimerProofs ---------------------------
(***************************************************************************)
(* The lease of module Reclaimer, for every set of workers, every partition *)
(* and every pattern of faults: of the workers whose lease has not run out, *)
(* one at most is past its acquisition (LeaseStaysExclusive).               *)
(***************************************************************************)
EXTENDS Reclaimer, TLAPS

(* Where a pass has not taken the lease, and where it works under it.      *)
Before == {"idle", "load", "acquire"}
Busy == {"snapshot", "save", "segments", "pages", "staging", "delete"}

(* The fields of a state object and of a pass that the lease depends on.   *)
StShape(st) == {"owner", "until"} \subseteq DOMAIN st
Shape(k) ==
  /\ {"pc", "now", "st", "token", "sweep", "then"} \subseteq DOMAIN k
  /\ StShape(k.st) /\ k.sweep # "acquire" /\ k.then # "acquire"

(* The pass n is k further on, under the same lease.                       *)
Same(k, n) ==
  /\ Shape(n) /\ n.token = k.token /\ n.now = k.now /\ n.st.until = k.st.until
  /\ n.pc # "acquire"

(* Worker w, in pass k, while the state object is f and the time is t: a     *)
(* pass that has taken the lease knows the state last written unless another *)
(* worker wrote it since, and none can have while the lease runs.           *)
Leased(w, k, f, t) ==
  /\ Shape(k) /\ k.token \in Nat /\ k.token <= f.token
  /\ k.now \in Nat /\ k.now <= t /\ k.st.until \in Nat
  /\ k.pc = "acquire" => k.st.owner = w
  /\ k.pc = "acquire" /\ k.token = f.token
       => f.st.owner \in {NoOwner, w} \/ f.st.until <= k.now
  /\ k.pc \notin Before /\ k.token = f.token => f.st.owner = w
  /\ k.pc \notin Before \cup {"release"} /\ k.token = f.token => f.st.until = k.st.until
  /\ k.pc \in Busy /\ k.st.until > t => k.token = f.token

(* The state object.                                                       *)
FileOK(f) == f.token \in Nat /\ f.st.until \in Nat /\ StShape(f.st)

(* The inductive invariant: every worker's pass agrees with the state object. *)
LeaseInv ==
  /\ clock \in Nat /\ FileOK(file)
  /\ DOMAIN work = Workers
  /\ \A w \in Workers : Leased(w, work[w], file, clock)

----------------------------------------------------------------------------
(* Steps of a pass under one lease.                                        *)

(* Entering a sweep.                                                       *)
LEMMA Enters ==
  ASSUME NEW k, Shape(k), NEW s, s # "acquire"
  PROVE  Same(k, Enter(k, s))
<1>1. PICK e : e = [k EXCEPT !.pc = s, !.sweep = s, !.then = "none"]
  OBVIOUS
<1>2. Same(k, e)
  BY <1>1 DEF Same, Shape
<1>3. CASE Enter(k, s) = e
  BY <1>2, <1>3
<1>4. CASE Enter(k, s) = [e EXCEPT !.pc = "save", !.then = "staging",
                     !.st.stagingEpoch = k.epoch, !.st.stagingAfter = None]
  <2>1. PICK st : st = [e.st EXCEPT !.stagingEpoch = k.epoch, !.stagingAfter = None]
    OBVIOUS
  <2>2. StShape(st) /\ st.until = e.st.until
    BY <1>2, <2>1 DEF Same, Shape, StShape
  <2>3. Enter(k, s) = [e EXCEPT !.pc = "save", !.then = "staging", !.st = st]
    BY <1>2, <1>4, <2>1 DEF Same, Shape
  <2> QED
    BY <1>2, <2>2, <2>3 DEF Same, Shape
<1>5. CASE Enter(k, s) = [e EXCEPT !.entered = IF @ = None THEN clock ELSE @]
  BY <1>2, <1>5 DEF Same, Shape
<1> QED
  BY <1>1, <1>3, <1>4, <1>5 DEF Enter

(* What follows a sweep.                                                   *)
LEMMA Follow == ASSUME NEW k, NEW s PROVE Following(k, s) # "acquire"
BY DEF Following

(* A state to be saved.                                                    *)
LEMMA Saves ==
  ASSUME NEW k, Shape(k), NEW st, StShape(st), st.until = k.st.until, NEW b
  PROVE  Same(k, Save(k, st, b))
<1>1. PICK n : n = [k EXCEPT !.st = st]
  OBVIOUS
<1>2. Shape(n) /\ n.token = k.token /\ n.now = k.now /\ n.st.until = k.st.until
  BY <1>1 DEF Shape
<1>3. PICK t : t = IF b /\ Available(k) THEN k.sweep ELSE Following(n, k.sweep)
  OBVIOUS
<1>4. t # "acquire"
  BY <1>3, Follow DEF Shape
<1>5. Save(k, st, b) = [n EXCEPT !.pc = "save", !.then = t]
  BY <1>1, <1>3 DEF Save
<1> QED
  BY <1>2, <1>4, <1>5 DEF Same, Shape

(* A cursor moves.                                                         *)
LEMMA Cursors ==
  ASSUME NEW k, Shape(k), NEW key
  PROVE  StShape(SetCursor(k, key)) /\ SetCursor(k, key).until = k.st.until
BY DEF SetCursor, Shape, StShape

(* One after the other.                                                    *)
LEMMA SameTrans ==
  ASSUME NEW k, NEW n, NEW m, Same(k, n), Same(n, m) PROVE Same(k, m)
BY DEF Same

(* A page of objects is done.                                              *)
LEMMA Finishes ==
  ASSUME NEW k, Shape(k), k.pc # "acquire"
  PROVE  Same(k, FinishPage(k))
<1>1. PICK n : n = [k EXCEPT !.cand = <<>>, !.last = None, !.stop = "none", !.more = FALSE]
  OBVIOUS
<1>2. Same(k, n) /\ Shape(n) /\ n.st = k.st
  BY <1>1 DEF Same, Shape
<1>3. PICK st : st = k.st
  OBVIOUS
<1>4. ASSUME NEW x, StShape(x), x.until = st.until, NEW b PROVE Same(k, Save(n, x, b))
  BY <1>2, <1>3, <1>4, Saves, SameTrans
<1>5. CASE FinishPage(k) = Enter(n, Following(n, k.sweep))
  BY <1>2, <1>5, Enters, Follow, SameTrans
<1>6. ASSUME NEW b, FinishPage(k) = Save(n, SetCursor(k, k.last), b) PROVE Same(k, FinishPage(k))
  BY <1>3, <1>4, <1>6, Cursors
<1>7. CASE FinishPage(k) = Save(n, [st EXCEPT !.segThrough = st.safe, !.segAfter = None], FALSE)
  <2>1. PICK x : x = [st EXCEPT !.segThrough = st.safe, !.segAfter = None]
    OBVIOUS
  <2>2. StShape(x) /\ x.until = st.until
    BY <1>3, <2>1 DEF Shape, StShape
  <2> QED
    BY <1>4, <1>7, <2>1, <2>2
<1>8. CASE FinishPage(k) = Save(n, [st EXCEPT !.stagingAfter = None], FALSE)
  <2>1. PICK x : x = [st EXCEPT !.stagingAfter = None]
    OBVIOUS
  <2>2. StShape(x) /\ x.until = st.until
    BY <1>3, <2>1 DEF Shape, StShape
  <2> QED
    BY <1>4, <1>8, <2>1, <2>2
<1>9. CASE FinishPage(k) = Save(n, [st EXCEPT !.pageLevel = @ + 1, !.pageAfter = None], TRUE)
  <2>1. PICK x : x = [st EXCEPT !.pageLevel = @ + 1, !.pageAfter = None]
    OBVIOUS
  <2>2. StShape(x) /\ x.until = st.until
    BY <1>3, <2>1 DEF Shape, StShape
  <2> QED
    BY <1>4, <1>9, <2>1, <2>2
<1>10. CASE FinishPage(k) = Save(n, [st EXCEPT !.pageThrough = st.safe, !.pageLevel = 0, !.pageAfter = None],
                                 FALSE)
  <2>1. PICK x : x = [st EXCEPT !.pageThrough = st.safe, !.pageLevel = 0, !.pageAfter = None]
    OBVIOUS
  <2>2. StShape(x) /\ x.until = st.until
    BY <1>3, <2>1 DEF Shape, StShape
  <2> QED
    BY <1>4, <1>10, <2>1, <2>2
<1> QED
  BY <1>1, <1>3, <1>5, <1>6, <1>7, <1>8, <1>9, <1>10 DEF FinishPage

(* A page of deletes has returned.                                         *)
LEMMA Deleted ==
  ASSUME NEW k, Shape(k), k.pc # "acquire", NEW failed
  PROVE  Same(k, AfterDeletes(k, failed))
<1>1. PICK done : done = k.deleted + Len(k.cand) - Cardinality(failed)
  OBVIOUS
<1>2. PICK n : n = [k EXCEPT !.deleted = done, !.exhausted = @ \/ done >= MaxDeletes]
  OBVIOUS
<1>3. Same(k, n) /\ Shape(n) /\ n.pc # "acquire"
  BY <1>2 DEF Same, Shape
<1>4. PICK key : key = k.cand[Min(failed)].before
  OBVIOUS
<1>5. PICK r : r = [n EXCEPT !.cand = <<>>, !.last = None, !.stop = "none", !.more = FALSE,
                             !.pc = "release"]
  OBVIOUS
<1>6. Same(k, r)
  BY <1>3, <1>5 DEF Same, Shape
<1>7. CASE AfterDeletes(k, failed) = FinishPage(n)
  BY <1>3, <1>7, Finishes, SameTrans
<1>8. CASE AfterDeletes(k, failed) = r
  BY <1>6, <1>8
<1>9. CASE AfterDeletes(k, failed) = [r EXCEPT !.pc = "save", !.then = "release", !.st = SetCursor(k, key)]
  <2>1. PICK x : x = SetCursor(k, key) /\ StShape(x) /\ x.until = k.st.until
    BY Cursors
  <2>2. AfterDeletes(k, failed) = [r EXCEPT !.pc = "save", !.then = "release", !.st = x]
    BY <1>9, <2>1
  <2> QED
    BY <1>6, <2>1, <2>2 DEF Same, Shape
<1> QED
  BY <1>1, <1>2, <1>4, <1>5, <1>7, <1>8, <1>9 DEF AfterDeletes

(* A head was observed.                                                    *)
LEMMA Observes ==
  ASSUME NEW st, StShape(st), NEW h, NEW t
  PROVE  StShape(ObserveHead(st, h, t)) /\ ObserveHead(st, h, t).until = st.until
<1>1. PICK seen : seen = [st EXCEPT !.retVer = IF h.retVer > @ THEN h.retVer ELSE @,
                         !.maxLevel = IF MaxPageLevel(h) > @ THEN MaxPageLevel(h) ELSE @]
  OBVIOUS
<1>2. StShape(seen) /\ seen.until = st.until
  BY <1>1 DEF StShape
<1>3. PICK p : p = Promote(seen, t)
  OBVIOUS
<1>4. StShape(p) /\ p.until = st.until
  BY <1>2, <1>3 DEF Promote, StShape
<1>5. \/ ObserveHead(st, h, t) = p
      \/ ObserveHead(st, h, t) = [p EXCEPT !.pending = [lsn |-> h.oldest, since |-> t]]
  BY <1>1, <1>3 DEF ObserveHead
<1> QED
  BY <1>4, <1>5 DEF StShape

----------------------------------------------------------------------------
(* What a step does to the leases.                                         *)

(* Time passes.                                                            *)
LEMMA Later ==
  ASSUME NEW w, NEW k, NEW f, NEW t \in Nat, Leased(w, k, f, t)
  PROVE  Leased(w, k, f, t + 1)
BY DEF Leased

(* The pass goes on under its lease.                                       *)
LEMMA GoesOn ==
  ASSUME NEW w, NEW k, NEW n, NEW f, NEW t, Leased(w, k, f, t), k.pc \in Busy, Same(k, n)
  PROVE  Leased(w, n, f, t)
BY DEF Leased, Same, Busy, Before

(* The pass has ended, or is about to load the state.                      *)
LEMMA Rests ==
  ASSUME NEW w, NEW n, NEW f, NEW t, Shape(n), n.pc \in {"idle", "load"},
         n.token \in Nat, n.token <= f.token, n.now \in Nat, n.now <= t, n.st.until \in Nat
  PROVE  Leased(w, n, f, t)
BY DEF Leased, Before, Busy

(* The idle pass.                                                          *)
LEMMA IdleRests ==
  ASSUME NEW w, NEW f, FileOK(f), NEW t \in Nat
  PROVE  Shape(Idle) /\ Leased(w, Idle, f, t)
<1>1. StShape(NewState) /\ NewState.until = 0
  BY DEF StShape, NewState
<1>2. PICK s : s = NewState
  OBVIOUS
<1>3. /\ {"pc", "now", "st", "token", "sweep", "then"} \subseteq DOMAIN Idle
      /\ Idle.pc = "idle" /\ Idle.now = 0 /\ Idle.st = s /\ Idle.token = 0
      /\ Idle.sweep = "none" /\ Idle.then = "none"
  BY <1>2 DEF Idle
<1>4. Shape(Idle)
  BY <1>1, <1>2, <1>3 DEF Shape
<1> QED
  BY <1>1, <1>2, <1>3, <1>4, Rests DEF FileOK

(* A pass that may write the state does so.  No other unexpired lease is     *)
(* there to be broken.                                                     *)
LEMMA Breaks ==
  ASSUME NEW w, NEW v, v # w, v # NoOwner, NEW k, NEW m, NEW f, FileOK(f), NEW t \in Nat,
         Leased(w, k, f, t), k.pc \notin {"idle", "load"}, k.token = f.token,
         Leased(v, m, f, t), NEW st
  PROVE  Leased(v, m, [token |-> k.token + 1, st |-> st], t)
<1>1. m.token <= k.token /\ m.token \in Nat /\ k.token + 1 \in Nat
  BY DEF Leased, FileOK
<1>2. ~(m.pc \in Busy /\ m.st.until > t)
  <2>1. SUFFICES ASSUME m.pc \in Busy, m.st.until > t PROVE FALSE
    OBVIOUS
  <2>2. f.st.owner = v /\ f.st.until = m.st.until
    BY <2>1 DEF Leased, Busy, Before
  <2>3. CASE k.pc = "acquire"
    BY <2>1, <2>2, <2>3 DEF Leased
  <2>4. CASE k.pc \notin Before
    BY <2>2, <2>4 DEF Leased
  <2> QED
    BY <2>3, <2>4 DEF Before
<1> QED
  BY <1>1, <1>2 DEF Leased

(* One worker's pass changes, and nothing else.                            *)
LEMMA OneMoves ==
  ASSUME LeaseInv, NEW w \in Workers, NEW n, Become(w, n), file' = file, clock' = clock,
         Leased(w, n, file, clock)
  PROVE  LeaseInv'
BY DEF LeaseInv, Become

(* One worker writes the state, or does not, and its pass changes.         *)
LEMMA OneWrites ==
  ASSUME LeaseInv, NEW w \in Workers, NEW n, Become(w, n), clock' = clock,
         work[w].pc \notin {"idle", "load"}, NEW st, StShape(st), st.until \in Nat,
         Put(work[w].token, st) \/ file' = file,
         Leased(w, n, file', clock)
  PROVE  LeaseInv'
<1>1. CASE file' = file
  BY <1>1, OneMoves
<1>2. CASE work[w].token = file.token /\ file' = [token |-> work[w].token + 1, st |-> st]
  <2>1. FileOK(file')
    BY <1>2 DEF LeaseInv, FileOK
  <2>2. ASSUME NEW v \in Workers, v # w PROVE Leased(v, work[v], file', clock)
    BY <1>2, <2>2, Breaks, ReclaimerAssumption DEF LeaseInv
  <2> QED
    BY <2>1, <2>2 DEF LeaseInv, Become
<1> QED
  BY <1>1, <1>2 DEF Put

----------------------------------------------------------------------------
(* The steps of a pass.                                                    *)

(* A pass begins.                                                          *)
LEMMA Begins ==
  ASSUME LeaseInv, NEW w \in Workers, RunPartition(w) PROVE LeaseInv'
<1>1. PICK i : i = Idle /\ Shape(i) /\ Leased(w, i, file, clock)
  BY IdleRests DEF LeaseInv
<1>2. PICK n : n = [i EXCEPT !.pc = "load", !.op = "reclaim", !.now = clock]
  OBVIOUS
<1>3. Shape(n) /\ n.pc = "load" /\ n.token = i.token /\ n.now = clock /\ n.st = i.st
  BY <1>1, <1>2 DEF Shape
<1>4. Leased(w, n, file, clock)
  <2>1. n.token \in Nat /\ n.token <= file.token /\ n.now \in Nat /\ n.st.until \in Nat
    BY <1>1, <1>3 DEF Leased, LeaseInv
  <2>2. n.now <= clock
    BY <1>3, <2>1
  <2> QED
    BY <1>3, <2>1, <2>2, Rests
<1>5. Become(w, n) /\ file' = file /\ clock' = clock
  BY <1>1, <1>2 DEF RunPartition, StartPass
<1> QED
  BY <1>4, <1>5, OneMoves

(* A pass ends without having written.                                     *)
LEMMA Ends ==
  ASSUME LeaseInv, NEW w \in Workers, Become(w, Idle), file' = file, clock' = clock
  PROVE  LeaseInv'
BY IdleRests, OneMoves DEF LeaseInv

(* The state is loaded.                                                    *)
LEMMA Loads ==
  ASSUME LeaseInv, NEW w \in Workers, LoadState(w) PROVE LeaseInv'
<1>1. file' = file /\ clock' = clock /\ work[w].pc = "load"
  BY DEF LoadState
<1>2. CASE Become(w, Idle)
  BY <1>1, <1>2, Ends
<1>3. ASSUME ~Held(w, work[w]),
             Become(w, [work[w] EXCEPT !.pc = "acquire", !.token = file.token,
                          !.st = [file.st EXCEPT !.owner = w,
                                                 !.until = work[w].now + LeaseDuration]])
      PROVE  LeaseInv'
  <2>1. PICK st : st = [file.st EXCEPT !.owner = w, !.until = work[w].now + LeaseDuration]
    OBVIOUS
  <2>2. PICK n : n = [work[w] EXCEPT !.pc = "acquire", !.token = file.token, !.st = st]
    OBVIOUS
  <2>3. work[w].now \in Nat /\ work[w].now <= clock /\ Shape(work[w]) /\ FileOK(file)
    BY DEF LeaseInv, Leased
  <2>4. LeaseDuration \in Nat
    BY ReclaimerAssumption DEF LeaseDuration
  <2>5. StShape(st) /\ st.owner = w /\ st.until \in Nat
    BY <2>1, <2>3, <2>4 DEF StShape, FileOK
  <2>6. /\ Shape(n) /\ n.pc = "acquire" /\ n.token = file.token /\ n.st = st
        /\ n.now = work[w].now
    BY <2>2, <2>3, <2>5 DEF Shape
  <2>7. file.st.owner \in {NoOwner, w} \/ file.st.until <= n.now
    BY <1>3, <2>3, <2>6 DEF Held, FileOK
  <2>8. Leased(w, n, file, clock)
    BY <2>3, <2>5, <2>6, <2>7 DEF Leased, Before, Busy, FileOK
  <2> QED
    BY <1>1, <1>3, <2>1, <2>2, <2>8, OneMoves
<1> QED
  BY <1>2, <1>3 DEF LoadState

(* The lease is written, refused or its answer lost.                       *)
LEMMA Acquires ==
  ASSUME LeaseInv, NEW w \in Workers, AcquireCas(w) PROVE LeaseInv'
<1>1. PICK k : k = work[w]
  OBVIOUS
<1>2. /\ k.pc = "acquire" /\ clock' = clock /\ Leased(w, k, file, clock) /\ Shape(k)
      /\ FileOK(file) /\ clock \in Nat
  BY <1>1 DEF AcquireCas, LeaseInv, Leased
<1>3. StShape(k.st) /\ k.st.until \in Nat /\ k.st.owner = w /\ k.token \in Nat
  BY <1>2 DEF Leased, Shape
<1>4. ASSUME k.token = file.token, Put(k.token, k.st),
             Become(w, [k EXCEPT !.pc = "snapshot", !.token = @ + 1])
      PROVE  LeaseInv'
  <2>1. PICK n : n = [k EXCEPT !.pc = "snapshot", !.token = @ + 1]
    OBVIOUS
  <2>2. /\ Shape(n) /\ n.pc = "snapshot" /\ n.token = k.token + 1 /\ n.st = k.st
        /\ n.now = k.now
    BY <1>2, <2>1 DEF Shape
  <2>3. file' = [token |-> k.token + 1, st |-> k.st]
    BY <1>4 DEF Put
  <2>4. Leased(w, n, file', clock)
    BY <1>2, <1>3, <2>2, <2>3 DEF Leased, Before, Busy
  <2> QED
    BY <1>1, <1>2, <1>3, <1>4, <2>1, <2>4, OneWrites
<1>5. CASE Become(w, [k EXCEPT !.pc = "load", !.attempt = @ + 1]) /\ file' = file
  <2>1. PICK n : n = [k EXCEPT !.pc = "load", !.attempt = @ + 1]
    OBVIOUS
  <2>2. /\ Shape(n) /\ n.pc = "load" /\ n.token = k.token /\ n.st = k.st /\ n.now = k.now
    BY <1>2, <2>1 DEF Shape
  <2>3. Leased(w, n, file, clock)
    BY <1>2, <1>3, <2>2, Rests DEF Leased
  <2> QED
    BY <1>2, <1>5, <2>1, <2>3, OneMoves
<1>6. ASSUME Become(w, Idle), Put(k.token, k.st) \/ file' = file PROVE LeaseInv'
  <2>1. FileOK(file')
    BY <1>2, <1>3, <1>6 DEF Put, FileOK
  <2>2. Leased(w, Idle, file', clock)
    BY <1>2, <2>1, IdleRests
  <2> QED
    BY <1>1, <1>2, <1>3, <1>6, <2>2, OneWrites
<1> QED
  BY <1>1, <1>4, <1>5, <1>6 DEF AcquireCas

(* The pass gives up.                                                      *)
LEMMA GivesUp ==
  ASSUME NEW k, Shape(k) PROVE Same(k, [k EXCEPT !.pc = "release"])
BY DEF Same, Shape

(* The pass goes on.                                                       *)
LEMMA Steps ==
  ASSUME LeaseInv, NEW w \in Workers, work[w].pc \in Busy, NEW n, Same(work[w], n),
         Become(w, n), file' = file, clock' = clock
  PROVE  LeaseInv'
BY GoesOn, OneMoves DEF LeaseInv

(* The head is loaded.                                                     *)
LEMMA Snapshots ==
  ASSUME LeaseInv, NEW w \in Workers, Snapshot(w) PROVE LeaseInv'
<1>1. PICK k : k = work[w]
  OBVIOUS
<1>2. k.pc \in Busy /\ k.pc # "acquire" /\ Shape(k) /\ file' = file /\ clock' = clock
  BY <1>1 DEF Snapshot, Busy, LeaseInv, Leased
<1>3. PICK seen : seen = [k EXCEPT !.epoch = head.epoch]
  OBVIOUS
<1>4. Same(k, seen) /\ Shape(seen) /\ seen.st = k.st
  BY <1>2, <1>3 DEF Same, Shape
<1>5. PICK st : /\ st = ObserveHead(k.st, head, k.now)
                /\ StShape(st) /\ st.until = k.st.until
  BY <1>2, Observes DEF Shape
<1>6. CASE Become(w, Save(seen, st, FALSE))
  <2>1. Same(k, Save(seen, st, FALSE))
    BY <1>4, <1>5, Saves, SameTrans
  <2> QED
    BY <1>1, <1>2, <1>6, <2>1, Steps
<1>7. CASE Become(w, Enter(seen, Following(seen, "none")))
  <2>1. Same(k, Enter(seen, Following(seen, "none")))
    BY <1>4, Follow, Enters, SameTrans
  <2> QED
    BY <1>1, <1>2, <1>7, <2>1, Steps
<1>8. CASE Become(w, [k EXCEPT !.pc = "release"])
  BY <1>1, <1>2, <1>8, GivesUp, Steps
<1> QED
  BY <1>1, <1>3, <1>5, <1>6, <1>7, <1>8 DEF Snapshot

(* Objects are listed.                                                     *)
LEMMA Lists ==
  ASSUME LeaseInv, NEW w \in Workers, List(w) PROVE LeaseInv'
<1>1. PICK k : k = work[w]
  OBVIOUS
<1>2. k.pc \in Busy /\ k.pc # "acquire" /\ Shape(k) /\ file' = file /\ clock' = clock
  BY <1>1 DEF List, Busy, LeaseInv, Leased
<1>3. CASE Become(w, [k EXCEPT !.pc = "release"])
  BY <1>1, <1>2, <1>3, GivesUp, Steps
<1>4. ASSUME NEW seen, Same(k, seen), seen.pc = k.pc,
             Become(w, FinishPage(seen)) \/ Become(w, [seen EXCEPT !.pc = "delete"])
      PROVE  LeaseInv'
  <2>1. Same(k, FinishPage(seen))
    BY <1>2, <1>4, Finishes, SameTrans DEF Same
  <2>2. Same(k, [seen EXCEPT !.pc = "delete"])
    BY <1>4 DEF Same, Shape
  <2> QED
    BY <1>1, <1>2, <1>4, <2>1, <2>2, Steps
<1>5. PICK page : page = Walk(k)
  OBVIOUS
<1>6. PICK scanned, exhausted :
        /\ scanned = k.scanned + page.scanned
        /\ exhausted = (scanned >= MaxObjects \/ page.stop = "budget")
  OBVIOUS
<1>7. PICK seen : seen = [k EXCEPT !.scanned = scanned, !.exhausted = exhausted,
                                   !.cand = page.cand, !.last = page.last,
                                   !.stop = page.stop, !.more = page.more]
  OBVIOUS
<1>8. Same(k, seen) /\ seen.pc = k.pc
  BY <1>2, <1>7 DEF Same, Shape
<1>9. \/ Become(w, FinishPage(seen)) \/ Become(w, [seen EXCEPT !.pc = "delete"])
      \/ Become(w, [k EXCEPT !.pc = "release"])
  BY <1>1, <1>5, <1>6, <1>7 DEF List
<1> QED
  BY <1>3, <1>4, <1>8, <1>9

(* Objects are deleted.                                                    *)
LEMMA DeletesThem ==
  ASSUME LeaseInv, NEW w \in Workers, Delete(w) PROVE LeaseInv'
<1>1. PICK k : k = work[w]
  OBVIOUS
<1>2. k.pc \in Busy /\ k.pc # "acquire" /\ Shape(k) /\ file' = file /\ clock' = clock
  BY <1>1 DEF Delete, Busy, LeaseInv, Leased
<1>3. \/ \E failed \in SUBSET DOMAIN k.cand : Become(w, AfterDeletes(k, failed))
      \/ Become(w, [k EXCEPT !.pc = "release", !.cand = <<>>, !.last = None,
                             !.stop = "none", !.more = FALSE])
  BY <1>1 DEF Delete, Deletes
<1>4. CASE \E failed \in SUBSET DOMAIN k.cand : Become(w, AfterDeletes(k, failed))
  BY <1>1, <1>2, <1>4, Deleted, Steps
<1>5. CASE Become(w, [k EXCEPT !.pc = "release", !.cand = <<>>, !.last = None,
                               !.stop = "none", !.more = FALSE])
  <2>1. PICK n : n = [k EXCEPT !.pc = "release", !.cand = <<>>, !.last = None,
                               !.stop = "none", !.more = FALSE]
    OBVIOUS
  <2>2. Same(k, n)
    BY <1>2, <2>1 DEF Same, Shape
  <2> QED
    BY <1>1, <1>2, <1>5, <2>1, <2>2, Steps
<1> QED
  BY <1>3, <1>4, <1>5

(* The state is saved and the lease renewed, or lost.                      *)
LEMMA SavesState ==
  ASSUME LeaseInv, NEW w \in Workers, SaveState(w) PROVE LeaseInv'
<1>1. PICK k : k = work[w]
  OBVIOUS
<1>2. /\ k.pc = "save" /\ clock' = clock /\ Leased(w, k, file, clock) /\ Shape(k)
      /\ FileOK(file) /\ clock \in Nat /\ k.token \in Nat
  BY <1>1 DEF SaveState, LeaseInv, Leased
<1>3. PICK st : st = [k.st EXCEPT !.owner = w, !.until = clock + LeaseDuration]
  OBVIOUS
<1>4. StShape(st) /\ st.owner = w /\ st.until \in Nat
  BY <1>2, <1>3, ReclaimerAssumption DEF Shape, StShape, LeaseDuration
<1>5. ASSUME k.token = file.token, Put(k.token, st),
             Become(w, Enter([k EXCEPT !.st = st, !.token = @ + 1], k.then))
      PROVE  LeaseInv'
  <2>1. PICK n : n = [k EXCEPT !.st = st, !.token = @ + 1]
    OBVIOUS
  <2>2. Shape(n) /\ n.pc = "save" /\ n.token = k.token + 1 /\ n.st = st /\ n.now = k.now
    BY <1>2, <1>4, <2>1 DEF Shape
  <2>3. file' = [token |-> k.token + 1, st |-> st]
    BY <1>5 DEF Put
  <2>4. Leased(w, n, file', clock)
    BY <1>2, <1>4, <2>2, <2>3 DEF Leased, Before, Busy
  <2>5. Leased(w, Enter(n, k.then), file', clock)
    BY <1>2, <2>2, <2>4, Enters, GoesOn DEF Busy, Shape
  <2> QED
    BY <1>1, <1>2, <1>4, <1>5, <2>1, <2>5, OneWrites
<1>6. ASSUME Become(w, [k EXCEPT !.pc = "release", !.then = "none", !.st = st]),
             Put(k.token, st) \/ file' = file
      PROVE  LeaseInv'
  <2>1. PICK n : n = [k EXCEPT !.pc = "release", !.then = "none", !.st = st]
    OBVIOUS
  <2>2. Shape(n) /\ n.pc = "release" /\ n.token = k.token /\ n.st = st /\ n.now = k.now
    BY <1>2, <1>4, <2>1 DEF Shape
  <2>3. /\ k.token <= file'.token
        /\ k.token = file'.token => file'.st.owner = w
    BY <1>2, <1>4, <1>6 DEF Put, Leased, Before, FileOK
  <2>4. Leased(w, n, file', clock)
    BY <1>2, <1>4, <2>2, <2>3 DEF Leased, Before, Busy
  <2> QED
    BY <1>1, <1>2, <1>4, <1>6, <2>1, <2>4, OneWrites
<1> QED
  BY <1>1, <1>3, <1>5, <1>6 DEF SaveState

(* The lease is given back.                                                *)
LEMMA Releases ==
  ASSUME LeaseInv, NEW w \in Workers, Release(w) PROVE LeaseInv'
<1>1. PICK k : k = work[w]
  OBVIOUS
<1>2. /\ k.pc = "release" /\ clock' = clock /\ Shape(k) /\ FileOK(file) /\ clock \in Nat
      /\ Become(w, Idle) /\ k.token \in Nat
  BY <1>1 DEF Release, LeaseInv, Leased
<1>3. PICK st : st = [k.st EXCEPT !.owner = NoOwner, !.until = 0]
  OBVIOUS
<1>4. StShape(st) /\ st.until \in Nat
  BY <1>2, <1>3 DEF Shape, StShape
<1>5. Put(k.token, st) \/ file' = file
  BY <1>1, <1>3 DEF Release
<1>6. FileOK(file')
  BY <1>2, <1>4, <1>5 DEF Put, FileOK
<1>7. Leased(w, Idle, file', clock)
  BY <1>2, <1>6, IdleRests
<1> QED
  BY <1>1, <1>2, <1>4, <1>5, <1>7, OneWrites

(* Every step of the specification.                                        *)
LEMMA LeaseStep == ASSUME LeaseInv, [Next]_vars PROVE LeaseInv'
<1>1. ASSUME NEW w \in Workers, Pass(w) PROVE LeaseInv'
  <2>1. CASE Crash(w)
    BY <2>1, Ends DEF Crash
  <2> QED
    BY <1>1, <2>1, Begins, Loads, Acquires, Snapshots, Lists, DeletesThem, SavesState, Releases
    DEF Pass
<1>2. CASE UNCHANGED <<clock, file, work>>
  BY <1>2 DEF LeaseInv
<1>3. CASE Writer
  BY <1>2, <1>3 DEF Writer, Upload, AppendSegment, OpenWriter, ApplyRetention, Commit
<1>4. CASE DeleteLate
  BY <1>2, <1>4 DEF DeleteLate
<1>5. CASE Tick
  BY <1>5, Later DEF Tick, LeaseInv
<1>6. CASE UNCHANGED vars
  BY <1>2, <1>6 DEF vars
<1> QED
  BY <1>1, <1>3, <1>4, <1>5, <1>6 DEF Next

(* At most one worker may delete: of two passes past acquire, one has lost  *)
(* its lease to time, whatever crashed, was refused or was answered late.   *)
THEOREM LeaseStaysExclusive == Spec => []LeaseIsExclusive
<1>1. Init => LeaseInv
  <2>1. SUFFICES ASSUME Init PROVE LeaseInv
    OBVIOUS
  <2>2. FileOK(file) /\ clock \in Nat
    <3>1. clock = 0 /\ file = [token |-> 0, st |-> NewState]
      BY <2>1 DEF Init
    <3>2. NewState.until = 0 /\ StShape(NewState)
      BY DEF NewState, StShape
    <3> QED
      BY <3>1, <3>2 DEF FileOK
  <2>3. \A w \in Workers : Leased(w, Idle, file, clock)
    BY <2>2, IdleRests
  <2> QED
    <3>1. work = [w \in Workers |-> Idle]
      BY <2>1 DEF Init
    <3> QED
      BY <2>2, <2>3, <3>1 DEF LeaseInv
<1>2. LeaseInv /\ [Next]_vars => LeaseInv'
  BY LeaseStep
<1>3. LeaseInv => LeaseIsExclusive
  <2>1. SUFFICES ASSUME LeaseInv, NEW v \in Workers, NEW w \in Workers, Holding(v), Holding(w)
                 PROVE  v = w
    BY DEF LeaseIsExclusive
  <2>2. ASSUME NEW u \in Workers, Holding(u) PROVE file.st.owner = u
    BY <2>1, <2>2 DEF LeaseInv, Leased, Holding, Busy, Before
  <2> QED
    BY <2>1, <2>2
<1> QED
  BY <1>1, <1>2, <1>3, PTL DEF Spec
=============================================================================
