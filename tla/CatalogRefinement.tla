------------------------- MODULE CatalogRefinement -------------------------
(***************************************************************************)
(* CatalogSession implements CatalogLog: the abstract log is the stored     *)
(* head, the history of commits and what the callers were told.             *)
(***************************************************************************)
EXTENDS CatalogSession

Log == INSTANCE CatalogLog WITH
         epoch <- store.head.epoch, owner <- store.head.writer,
         next <- store.head.next, oldest <- store.head.oldest,
         retLSN <- store.head.retLSN, retVer <- store.head.retVer,
         acked <- {a.seg : a \in acked}

\* Whatever requests are lost, late or repeated and however many writers race
\* for the partition, the sessions over the object store behave as one fenced
\* append-only log whose answers are all true.
ImplementsLog == Log!LogSpec

\* Every object-store request is answered in the end (each carries a context)
\* and the retry loops of a call are bounded, so the steps of a call are fair.
FairSpec ==
  Spec /\ \A w \in Writers : WF_vars(OpenSteps(w)) /\ WF_vars(CallSteps(w))

\* OpenWriter and every call of a session returns, whatever the store answers
\* and whatever the other writers do.
CallsReturn ==
  \A w \in Writers :
    sess[w].pc \notin {"new", "ready", "closed"} ~> sess[w].pc \in {"ready", "closed"}
=============================================================================
