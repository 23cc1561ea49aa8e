----------------------------- MODULE CatalogLog -----------------------------
(***************************************************************************)
(* What a partition catalog promises its writers and readers, whatever      *)
(* stores it: a fenced, append-only history of segments with a retention    *)
(* floor (internal/catalog/DESIGN.md, "Invariants").  catengine.Session     *)
(* over an object store implements it (module CatalogSession).              *)
(***************************************************************************)
EXTENDS CatalogHead

VARIABLES
  epoch, owner,      \* the fence
  committed,         \* every segment ever committed, retained or not
  next, oldest,      \* readers see the LSNs oldest .. next - 1
  retLSN, retVer,    \* the retention request in force
  acked,             \* segments a writer was told are committed
  ackedVers          \* policy versions a writer was told are applied

logVars ==
  <<epoch, owner, committed, next, oldest, retLSN, retVer, acked, ackedVers>>

LogInit ==
  /\ epoch = 0 /\ owner = NoWriter
  /\ committed = {}
  /\ next = 0 /\ oldest = 0
  /\ retLSN = 0 /\ retVer = 0
  /\ acked = {} /\ ackedVers = {}

\* A partition nobody has written to may be created at a checkpoint LSN.
Create(n) ==
  /\ epoch = 0 /\ committed = {} /\ next = 0
  /\ next' = n /\ oldest' = n
  /\ UNCHANGED <<epoch, owner, committed, retLSN, retVer, acked, ackedVers>>

\* A new incarnation takes the partition over; epochs are never reused.
Fence(w) ==
  /\ epoch' = epoch + 1 /\ owner' = w
  /\ UNCHANGED <<committed, next, oldest, retLSN, retVer, acked, ackedVers>>

\* Only the fence's owner extends the history, and only at its end.  The
\* writer may learn of it in the same step or later.
Commit(s) ==
  /\ s.epoch = epoch /\ s.tag = owner /\ s.base = next
  /\ committed' = committed \cup {s}
  /\ next' = s.last + 1
  /\ acked' \in {acked, acked \cup {s}}
  /\ UNCHANGED <<epoch, owner, oldest, retLSN, retVer, ackedVers>>

\* The floor rises to a segment boundary.  It passes no segment that holds a
\* record at or above the requested LSN, and passes every one that does not.
Retain(ver, lsn, floor) ==
  /\ ver > retVer /\ lsn >= retLSN /\ lsn <= next
  /\ floor >= oldest /\ floor <= next
  /\ \A s \in committed :
       /\ s.last < floor \/ s.base >= floor
       /\ s.base >= oldest => (s.base >= floor <=> s.last >= lsn)
  /\ retLSN' = lsn /\ retVer' = ver /\ oldest' = floor
  /\ ackedVers' \in {ackedVers, ackedVers \cup {ver}}
  /\ UNCHANGED <<epoch, owner, committed, next, acked>>

Acknowledge(s) ==
  /\ s \in committed
  /\ acked' = acked \cup {s}
  /\ UNCHANGED <<epoch, owner, committed, next, oldest, retLSN, retVer, ackedVers>>

AcknowledgeRetention(v) ==
  /\ v <= retVer
  /\ ackedVers' = ackedVers \cup {v}
  /\ UNCHANGED <<epoch, owner, committed, next, oldest, retLSN, retVer, acked>>

LogNext ==
  \/ \E n \in 0..MaxLSN : Create(n)
  \/ \E w \in Writers : Fence(w)
  \/ \E s \in Segment : Commit(s)
  \/ \E r \in Requests, lsn, floor \in 0..MaxLSN + 1 : Retain(r.ver, lsn, floor)
  \/ \E s \in committed : Acknowledge(s)
  \/ \E r \in Requests : AcknowledgeRetention(r.ver)

LogSpec == LogInit /\ [][LogNext]_logVars
=============================================================================
