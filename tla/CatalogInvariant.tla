-------------------------- MODULE CatalogInvariant --------------------------
(***************************************************************************)
(* The inductive invariant of CatalogSession, from which the safety         *)
(* properties of that module follow.  Its parts are operators of the head,  *)
(* the history or the session record they speak of, so that the proofs can  *)
(* state what a step makes of each of them.                                 *)
(***************************************************************************)
EXTENDS CatalogSession

\* m is a mutation the code may build from head h.
Legal(h, m) ==
  \/ \E w \in Writers : CanTakeover(h) /\ m = Takeover(h, w)
  \/ \E s \in Segment : CanAppend(h, s) /\ m = AppendSeg(h, s)
  \/ \E r \in Requests : CanRetain(h, r) /\ m = ApplyRetention(h, r)

\* A head describes exactly the retained part of the history cm.
HeadOK(h, cm) ==
  /\ h.oldest <= h.next /\ h.retLSN <= h.next /\ h.next <= MaxLSN + 1
  /\ h.log = {s \in cm : s.base >= h.oldest}
  /\ \A lsn \in 0..h.next :
       h.oldest <= lsn /\ lsn < h.next => \E s \in h.log : Covers(s, lsn)
  /\ h.last = NoSegment => h.oldest = h.next
  /\ h.last # NoSegment => h.next = h.last.last + 1

\* Segments tile the LSNs in the order of their epochs, and the retention
\* floor lies on a boundary between two of them.
HistoryOK(h, cm) ==
  /\ \A s \in cm :
       /\ s.last < h.next /\ s.epoch <= h.epoch
       /\ s.epoch = h.epoch => s.tag = h.writer
       /\ s.base < h.oldest => s.last < h.oldest /\ s.last < h.retLSN
  /\ \A s, t \in cm :
       /\ s # t => s.last < t.base \/ t.last < s.base
       /\ s.epoch = t.epoch => s.tag = t.tag
       /\ s.base < t.base => s.epoch <= t.epoch

\* An absent head object reads as the head of an empty partition.
StoreInv ==
  /\ HeadOK(store.head, committed)
  /\ HistoryOK(store.head, committed)
  /\ store.token = 0 => store.head = NewHead(0) /\ committed = {}

\* A put that can still land carries a legal mutation of the stored head.
InflightInv ==
  \A r \in inflight :
    /\ r.token = store.token
    /\ \/ Legal(store.head, r.head)
       \/ store.token = 0 /\ \E n \in StartLSNs : r.head = NewHead(n)

\* A pending retention mutation is what its request makes of the head it was
\* built from.
Built(p) ==
  /\ p.req \in Requests
  /\ CanRetain(p.previous, p.req)
  /\ p.mutation = ApplyRetention(p.previous, p.req)

\* What the fields of a session record mean at each point of a call.
CallOK(s) ==
  /\ s.op = "append" => s.seg \in Segment
  /\ Unresolved(s) => Built(s.pending)
  /\ s.pc = "retry" => s.op = "append"
  /\ s.pc = "resolve" => Unresolved(s) /\ s.op # "retention"
  /\ s.pc \in {"commit", "confirm"} =>
       IF Unresolved(s)
       THEN /\ s.pending.previous = s.head
            /\ s.op = "retention" => s.req = s.pending.req
       ELSE s.op = "append" /\ CanAppend(s.head, s.seg)

CallInv == \A w \in Writers : CallOK(sess[w])

\* A session whose token is current has the stored head in its cache.
CacheOK(s, st) ==
  /\ s.token <= st.token
  /\ s.token = st.token => s.head = st.head

\* A session's epoch is the head's and the head is its own, or the partition
\* has been taken over since.
FenceOK(w, s, h) ==
  /\ s.epoch <= h.epoch
  /\ s.epoch = h.epoch /\ s.epoch # 0 => h.writer = w
  /\ s.stale => s.epoch < h.epoch

Serving == {"ready", "resolve", "refresh", "retry", "commit", "confirm"}

\* A session that saw no other fence works on a head of its own epoch, and
\* only on its own segments.
OwnOK(w, s) ==
  /\ s.pc \in Serving => s.epoch # 0
  /\ s.pc \in Serving /\ ~s.stale => s.head.epoch = s.epoch /\ s.head.writer = w
  /\ s.head.last # NoSegment => s.head.next = s.head.last.last + 1
  /\ s.op = "append" => s.seg.epoch = s.epoch /\ s.seg.tag = w
  /\ s.pc = "retry" => s.head.last = s.seg /\ ~s.stale

\* The state a writer expects after its segment.
EndState(seg) == [next |-> seg.last + 1, epoch |-> seg.epoch]

\* What a session remembers of its own commits is so.
MemoryOK(s, h, cm) ==
  /\ s.lastAppend # NoSegment =>
       s.lastAppend \in cm /\ s.lastAppendState = EndState(s.lastAppend)
  /\ HasPending(s) =>
       /\ s.pending.req \in Requests
       /\ s.pending.mutation.retVer = s.pending.req.ver
       /\ s.pending.resolved => s.pending.req.ver <= h.retVer

SessionOK(w, s, st, cm) ==
  /\ CacheOK(s, st)
  /\ FenceOK(w, s, st.head)
  /\ OwnOK(w, s)
  /\ MemoryOK(s, st.head, cm)

SessionInv == \A w \in Writers : SessionOK(w, sess[w], store, committed)

\* Epochs are handed out once.
EpochInv ==
  \A v, w \in Writers : v # w /\ sess[v].epoch # 0 => sess[v].epoch # sess[w].epoch

\* What callers were told is so.
AckInv ==
  /\ \A a \in acked : a.seg \in committed /\ a.state = EndState(a.seg)
  /\ \A v \in ackedVers : v <= store.head.retVer

IInv ==
  /\ TypeOK /\ CallInv
  /\ StoreInv /\ InflightInv /\ SessionInv /\ EpochInv /\ AckInv

-----------------------------------------------------------------------------
(* PendingIsKept needs more: the requests that are being worked on were all *)
(* in the mailbox once, so a newer one asks for no less than an older one.  *)

Agree(q, r) ==
  /\ q.ver <= r.ver => q.before <= r.before
  /\ r.ver <= q.ver => r.before <= q.before

Live == UNION {{sess[w].req, sess[w].pending.req} : w \in Writers}

\* The request behind a retention put that can still land.
Behind(r, h) == CanRetain(store.head, r) /\ h = ApplyRetention(store.head, r)

RequestInv ==
  /\ \A q \in Live : q.ver <= mailbox.ver /\ Agree(q, mailbox)
  /\ \A q, r \in Live : Agree(q, r)
  /\ \A x \in inflight :
       \/ x.head.retVer = store.head.retVer
       \/ \E r \in Requests : /\ Behind(r, x.head)
                              /\ r.ver <= mailbox.ver /\ Agree(r, mailbox)
                              /\ \A q \in Live : Agree(q, r)

\* The floor f of a mutation that a request for `before' asks for stays a
\* boundary of the history, and no retention with that version or a later one
\* leaves the floor below it.
FloorOK(f, req, h, cm) ==
  /\ \/ f <= h.oldest
     \/ f <= req.before /\ f <= h.next /\ \A c \in cm : c.base < f => c.last < f
  /\ req.ver <= h.retVer => f <= h.oldest

FloorInv ==
  \A w \in Writers :
    Unresolved(sess[w]) =>
      FloorOK(sess[w].pending.mutation.oldest, sess[w].pending.req, store.head, committed)

\* A session that is not serving calls has nothing pending.
OpenInv == \A w \in Writers : sess[w].pc \notin Serving => ~HasPending(sess[w])

KeepInv == RequestInv /\ FloorInv /\ OpenInv
=============================================================================
