------------------------ MODULE SegmentWriterProofs ------------------------
(***************************************************************************)
(* The safety of the segment writer for every number of workers, buffers,  *)
(* records, faults and cancellations: an object that became durable is     *)
(* never reported as a definite failure, no call leaves the transaction    *)
(* open or a goroutine that can still write it, no block buffer is lost    *)
(* before an error, and the object is exactly what was appended.           *)
(***************************************************************************)
EXTENDS SegmentWriter, DataTheorems

Recs == Seq(Nat)
Block == [seq : Nat, recs : Recs]
PieceType == [kind : {"preamble", "block", "index", "trailer"}, recs : Recs]
EntryType == [at : Nat, recs : Recs]
PackerType ==
    [made : BOOLEAN, body : Seq(PieceType), failed : BOOLEAN, sealed : BOOLEAN,
     completed : BOOLEAN, aborted : BOOLEAN, abortFailed : BOOLEAN]
WorkerType == [state : {"idle", "sealed", "failed", "done"}, block : Block]
SealedType == [block : Block, ok : BOOLEAN]

(* The type invariant of the pipeline.                                     *)
TypeInv ==
    /\ free \in Nat /\ count \in Nat /\ nextSeq \in Nat
    /\ active \in Seq(Recs) /\ Len(active) <= 1
    /\ jobs \in Seq(Block)
    /\ worker \in [Workers -> WorkerType]
    /\ out \in Seq(SealedType)
    /\ pending \in SUBSET Block /\ IsFiniteSet(pending)
    /\ index \in Seq(EntryType)
    /\ packer \in PackerType

(* Close is past the pipeline and talks to the transaction.                *)
Late == {"index", "trailer", "commit", "committing"}

(* A call left the writer closed or aborted.                               *)
Over == pc = "idle" /\ (aborted \/ closed)

AllSealed == \A w \in Workers : worker[w].state = "done"

(* What the calling goroutine knows while it waits.                        *)
CallerInv ==
    /\ pc \in {"take", "enqueue", "closeEnqueue"} => ~aborted /\ ~closed
    /\ closed => pc = "idle"
    /\ pc = "take" => active = <<>>
    /\ pc \in {"enqueue", "closeEnqueue"} => active # <<>> /\ active[1] # <<>>

(* Once finishPipeline has returned nobody but the caller and the          *)
(* cancellation of its context can record an error, and until then the     *)
(* pipeline is stopped only by an error.                                   *)
QuietInv ==
    /\ pc \in {"emitted", "abort"} \cup Late \/ Over => AllSealed
    /\ pc \in {"abort"} \cup Late \/ Over => emitter = "received"
    /\ pc \in Late => firstErr \in {"none", "cancel"}
    /\ done => firstErr # "none" \/ closed

(* An open transaction belongs to a packer that can still abort it, and    *)
(* is not left behind by a call that ended the writer.                     *)
TxnInv ==
    /\ txn = "open" => packer.made /\ ~packer.completed /\ ~packer.aborted
    /\ Over => txn # "open"

(* A worker holds a block exactly while it has one to send.                *)
HolderInv ==
    /\ \A w \in Workers :
          worker[w].block = NoBlock <=> worker[w].state \in {"idle", "done"}
    /\ \A i \in DOMAIN jobs : jobs[i].recs # <<>>

(* The block numbers in the pipeline differ: those in sealJobs ascend and  *)
(* are above all that were taken from it.                                  *)
Holds(w) == worker[w].block # NoBlock
OrderInv ==
    /\ \A i \in DOMAIN jobs : jobs[i].seq < nextSeq
    /\ \A i, j \in DOMAIN jobs : i < j => jobs[i].seq < jobs[j].seq
    /\ \A w \in Workers : Holds(w) =>
          worker[w].block.seq < nextSeq
          /\ \A i \in DOMAIN jobs : worker[w].block.seq < jobs[i].seq
    /\ \A k \in DOMAIN out :
          out[k].block.seq < nextSeq
          /\ \A i \in DOMAIN jobs : out[k].block.seq < jobs[i].seq
    /\ \A b \in pending :
          b.seq < nextSeq /\ \A i \in DOMAIN jobs : b.seq < jobs[i].seq

ApartInv ==
    /\ \A v, w \in Workers : v # w /\ Holds(v) /\ Holds(w) =>
          worker[v].block.seq # worker[w].block.seq
    /\ \A k, l \in DOMAIN out : k # l => out[k].block.seq # out[l].block.seq
    /\ \A w \in Workers, k \in DOMAIN out :
          Holds(w) => worker[w].block.seq # out[k].block.seq
    /\ \A w \in Workers, b \in pending : Holds(w) => worker[w].block.seq # b.seq
    /\ \A k \in DOMAIN out, b \in pending : out[k].block.seq # b.seq

(* The inductive invariant.                                                *)
IInv ==
    /\ TypeInv /\ CallerInv /\ QuietInv /\ TxnInv /\ HolderInv /\ OrderInv /\ ApartInv
    /\ DurableIsNotDenied /\ BuffersConserved

-----------------------------------------------------------------------------
(* Types                                                                   *)

(* A returned buffer is counted, or was dropped with the context.          *)
LEMMA ReturnedType ==
    ASSUME NEW n \in Nat, free \in Nat, returnBuffers(n) PROVE free' \in Nat
BY DEF returnBuffers

(* The active buffer after AddRecord holds one block.                      *)
LEMMA AddedType ==
    ASSUME NEW recs \in Recs, count \in Nat, AddRecord(recs)
    PROVE  active' \in Seq(Recs) /\ Len(active') = 1 /\ count' \in Nat
           /\ active' # <<>>
<1>1. Append(recs, count + 1) \in Recs
  BY DEF Recs
<1>2. active' = <<Append(recs, count + 1)>> /\ count' = count + 1
  BY DEF AddRecord
<1> QED
  BY <1>1, <1>2

(* The active buffer, when there is one.                                  *)
LEMMA ActiveType ==
    ASSUME active \in Seq(Recs), Len(active) <= 1, active # <<>>
    PROVE  Len(active) = 1 /\ active[1] \in Recs
<1>1. Len(active) \in Nat /\ Len(active) # 0
  OBVIOUS
<1>2. Len(active) = 1
  BY <1>1
<1> QED
  BY <1>2

(* SendJob moves the active buffer, as the block numbered nextSeq, to the  *)
(* end of sealJobs.                                                        *)
LEMMA SentType ==
    ASSUME TypeInv, active # <<>>, SendJob
    PROVE  /\ active[1] \in Recs /\ Len(active) = 1
           /\ [seq |-> nextSeq, recs |-> active[1]] \in Block
           /\ jobs' = Append(jobs, [seq |-> nextSeq, recs |-> active[1]])
           /\ jobs' \in Seq(Block)
           /\ active' = <<>> /\ nextSeq' = nextSeq + 1
<1>1. active[1] \in Recs /\ Len(active) = 1
  BY ActiveType DEF TypeInv
<1>2. [seq |-> nextSeq, recs |-> active[1]] \in Block
  BY <1>1 DEF TypeInv, Block
<1> QED
  BY <1>1, <1>2 DEF SendJob, TypeInv

(* The packer that a piece was written to.                                 *)
LEMMA WrittenType ==
    ASSUME packer \in PackerType, NEW p \in PieceType
    PROVE  /\ Written(p) \in PackerType
           /\ Written(p).made = packer.made /\ Written(p).aborted = packer.aborted
           /\ Written(p).completed = packer.completed
<1>1. packer.body \in Seq(PieceType)
  BY DEF PackerType
<1>2. Append(packer.body, p) \in Seq(PieceType)
  BY <1>1
<1> QED
  BY <1>2 DEF Written, PackerType

(* The pieces Close writes.                                                *)
LEMMA ClosePieces ==
    ASSUME TypeInv PROVE BlockIndex \in PieceType /\ Trailer \in PieceType
<1>1. DOMAIN index = 1..Len(index) /\ Len(index) \in Nat
  BY DEF TypeInv
<1>2. \A i \in 1..Len(index) : index[i] \in EntryType
  BY DEF TypeInv
<1>3. \A i \in 1..Len(index) : index[i].at \in Nat
  BY <1>2 DEF EntryType
<1>4. [i \in DOMAIN index |-> index[i].at] \in Recs
  BY <1>1, <1>3 DEF Recs
<1>5. <<count>> \in Recs
  BY DEF TypeInv, Recs
<1> QED
  BY <1>4, <1>5 DEF BlockIndex, Trailer, Piece, PieceType

(* The block whose turn it is.                                             *)
LEMMA TurnType ==
    ASSUME TypeInv, NEW b \in Turn
    PROVE  /\ b \in pending /\ b \in Block /\ b.recs \in Recs
           /\ Piece("block", b.recs) \in PieceType
<1>1. b \in pending /\ b \in Block
  BY DEF TypeInv, Turn
<1>2. b.recs \in Recs
  BY <1>1 DEF Block
<1> QED
  BY <1>1, <1>2 DEF Piece, PieceType

(* Whatever packer.Abort does, it opens nothing.                           *)
LEMMA AbortedPacker ==
    ASSUME packer \in PackerType, packerAbort
    PROVE  /\ packer' \in PackerType /\ object' = object
           /\ \/ packer' = packer /\ txn' = txn /\ (packer.completed \/ packer.aborted)
              \/ txn' # "open"
<1>1. CASE packer' = [packer EXCEPT !.aborted = TRUE, !.abortFailed = FALSE]
  BY <1>1 DEF PackerType, packerAbort, sinkVars
<1>2. CASE packer' = [packer EXCEPT !.aborted = TRUE, !.abortFailed = TRUE]
  BY <1>2 DEF PackerType, packerAbort, sinkVars
<1>3. CASE UNCHANGED <<sinkVars, boundVars>> /\ (packer.completed \/ packer.aborted)
  BY <1>3 DEF sinkVars
<1> QED
  BY <1>1, <1>2, <1>3 DEF packerAbort

(* The pending blocks can be counted.                                      *)
LEMMA PendingSize ==
    ASSUME TypeInv PROVE Cardinality(pending) \in Nat /\ IsFiniteSet({})
BY FS_CardinalityType, FS_EmptySet DEF TypeInv

(* Every step keeps the type invariant.                                   *)
LEMMA TypeStep ==
    ASSUME IInv, [Next]_vars PROVE TypeInv'
<1> USE DEF IInv, TypeInv, callerVars, pipeVars, emitVars, errVars, sinkVars, boundVars
<1>1. CASE StartAppend
  <2>1. active # <<>> => active[1] \in Recs
    BY ActiveType
  <2>2. CASE active # <<>> /\ AddRecord(active[1])
    BY <1>1, <2>1, <2>2, AddedType DEF StartAppend
  <2>3. CASE UNCHANGED <<active, count>>
    BY <1>1, <2>3 DEF StartAppend
  <2> QED
    BY <1>1, <2>2, <2>3 DEF StartAppend
<1>2. CASE StartClose
  BY <1>2 DEF StartClose
<1>3. CASE StartAbort
  BY <1>3 DEF StartAbort
<1>4. CASE TakeFreeBuffer
  <2>1. CASE free > 0 /\ free' = free - 1 /\ AddRecord(<<>>)
    <3>1. <<>> \in Recs
      BY DEF Recs
    <3>2. active' \in Seq(Recs) /\ Len(active') = 1 /\ count' \in Nat
      BY <2>1, <3>1, AddedType
    <3> QED
      BY <1>4, <2>1, <3>2 DEF TakeFreeBuffer
  <2>2. CASE UNCHANGED <<free, active, count>>
    BY <1>4, <2>2 DEF TakeFreeBuffer
  <2> QED
    BY <1>4, <2>1, <2>2 DEF TakeFreeBuffer
<1>5. CASE EnqueueActive
  <2>1. CASE SendJob
    <3>1. active # <<>>
      BY <1>5 DEF CallerInv, EnqueueActive
    <3>2. jobs' \in Seq(Block) /\ active' = <<>> /\ nextSeq' = nextSeq + 1
      BY <2>1, <3>1, SentType
    <3>3. active' \in Seq(Recs) /\ Len(active') <= 1
      BY <3>2
    <3> QED
      BY <1>5, <3>2, <3>3 DEF EnqueueActive
  <2>2. CASE UNCHANGED <<jobs, nextSeq, active>>
    BY <1>5, <2>2 DEF EnqueueActive
  <2> QED
    BY <1>5, <2>1, <2>2 DEF EnqueueActive
<1>6. CASE CloseEnqueue
  <2>1. CASE SendJob
    <3>1. active # <<>>
      BY <1>6 DEF CallerInv, CloseEnqueue
    <3>2. jobs' \in Seq(Block) /\ active' = <<>> /\ nextSeq' = nextSeq + 1
      BY <2>1, <3>1, SentType
    <3>3. active' \in Seq(Recs) /\ Len(active') <= 1
      BY <3>2
    <3> QED
      BY <1>6, <3>2, <3>3 DEF CloseEnqueue
  <2>2. CASE UNCHANGED <<jobs, nextSeq, active>>
    BY <1>6, <2>2 DEF CloseEnqueue
  <2> QED
    BY <1>6, <2>1, <2>2 DEF CloseEnqueue
<1>7. CASE WaitWorkers
  BY <1>7 DEF WaitWorkers
<1>8. CASE WaitEmitter
  BY <1>8 DEF WaitEmitter
<1>9. CASE CloseWrite
  <2>1. Written(Trailer) \in PackerType /\ Written(BlockIndex) \in PackerType
    BY ClosePieces, WrittenType
  <2>2. [Written(BlockIndex) EXCEPT !.sealed = TRUE] \in PackerType
    BY <2>1 DEF PackerType
  <2>3. [packer EXCEPT !.failed = TRUE] \in PackerType
    BY DEF PackerType
  <2>4. packer' \in PackerType
    BY <1>9, <2>1, <2>2, <2>3 DEF CloseWrite
  <2> QED
    BY <1>9, <2>4 DEF CloseWrite
<1>10. CASE StartCommit
  BY <1>10 DEF StartCommit
<1>11. CASE Complete
  <2>1. packer' \in PackerType
    BY <1>11 DEF Complete, PackerType
  <2> QED
    BY <1>11, <2>1 DEF Complete
<1>12. CASE AbortPacker
  <2>1. packer' \in PackerType
    BY <1>12, AbortedPacker DEF AbortPacker
  <2> QED
    BY <1>12, <2>1 DEF AbortPacker
<1>13. ASSUME NEW w \in Workers, Seal(w) PROVE TypeInv'
  <2>1. Head(jobs) \in Block /\ Tail(jobs) \in Seq(Block)
    BY <1>13 DEF Seal
  <2>2. PICK b \in WorkerType : worker' = [worker EXCEPT ![w] = b]
    BY <1>13, <2>1 DEF Seal, WorkerType
  <2>3. worker' \in [Workers -> WorkerType]
    BY <2>2
  <2> QED
    BY <1>13, <2>1, <2>3 DEF Seal
<1>14. ASSUME NEW w \in Workers, SendSealed(w) PROVE TypeInv'
  <2>1. worker[w] \in WorkerType
    OBVIOUS
  <2>2. NoBlock \in Block
    BY DEF Block, NoBlock, Recs
  <2>3. PICK b \in WorkerType : worker' = [worker EXCEPT ![w] = b]
    BY <1>14, <2>1, <2>2 DEF SendSealed, WorkerType
  <2>4. worker' \in [Workers -> WorkerType]
    BY <2>3
  <2>5. [block |-> worker[w].block, ok |-> worker[w].state = "sealed"] \in SealedType
    BY <2>1 DEF WorkerType, SealedType
  <2>6. CASE out' = Append(out, [block |-> worker[w].block,
                                 ok |-> worker[w].state = "sealed"])
    BY <1>14, <2>4, <2>5, <2>6 DEF SendSealed
  <2>7. CASE UNCHANGED out
    BY <1>14, <2>4, <2>7 DEF SendSealed
  <2> QED
    BY <1>14, <2>6, <2>7 DEF SendSealed
<1>15. ASSUME NEW w \in Workers, WorkerExit(w) PROVE TypeInv'
  <2>1. worker' \in [Workers -> WorkerType]
    BY <1>15 DEF WorkerExit, WorkerType
  <2> QED
    BY <1>15, <2>1 DEF WorkerExit
<1>16. CASE EmitRecv
  <2>1. Head(out) \in SealedType /\ Tail(out) \in Seq(SealedType)
    BY <1>16 DEF EmitRecv
  <2>2. Head(out).block \in Block
    BY <2>1 DEF SealedType
  <2>3. CASE pending' = pending \cup {Head(out).block} /\ UNCHANGED free
    <3>1. IsFiniteSet(pending')
      BY <2>3, FS_AddElement
    <3> QED
      BY <1>16, <2>1, <2>2, <2>3, <3>1 DEF EmitRecv
  <2>4. CASE returnBuffers(1) /\ UNCHANGED pending
    BY <1>16, <2>1, <2>4, ReturnedType DEF EmitRecv
  <2> QED
    BY <1>16, <2>3, <2>4 DEF EmitRecv
<1>17. CASE EmitPause
  <2>1. CASE returnBuffers(Cardinality(pending)) /\ pending' = {}
    BY <1>17, <2>1, PendingSize, ReturnedType DEF EmitPause
  <2>2. CASE UNCHANGED <<free, pending>>
    BY <1>17, <2>2 DEF EmitPause
  <2> QED
    BY <1>17, <2>1, <2>2 DEF EmitPause
<1>18. CASE EnsurePacker
  <2>1. [NoPacker EXCEPT !.made = TRUE, !.body = <<Piece("preamble", <<1>>)>>]
            \in PackerType
    <3>1. <<1>> \in Recs
      BY DEF Recs
    <3>2. Piece("preamble", <<1>>) \in PieceType
      BY <3>1 DEF Piece, PieceType
    <3>3. <<Piece("preamble", <<1>>)>> \in Seq(PieceType)
      BY <3>2
    <3> QED
      BY <3>3 DEF NoPacker, PackerType
  <2>2. packer' \in PackerType
    BY <1>18, <2>1 DEF EnsurePacker
  <2>3. CASE UNCHANGED <<pending, free, index>>
    BY <1>18, <2>2, <2>3 DEF EnsurePacker
  <2>4. CASE returnBuffers(Cardinality(pending)) /\ pending' = {} /\ UNCHANGED index
    BY <1>18, <2>2, <2>4, PendingSize, ReturnedType DEF EnsurePacker
  <2> QED
    BY <1>18, <2>3, <2>4 DEF EnsurePacker, EmitFails
<1>19. CASE EmitBlock
  <2>1. PICK b \in Turn :
          \/ /\ packer' = Written(Piece("block", b.recs))
             /\ index' = Append(index, [at |-> Len(packer.body) + 1, recs |-> b.recs])
             /\ pending' = pending \ {b} /\ returnBuffers(1)
          \/ /\ returnBuffers(Cardinality(pending)) /\ pending' = {} /\ UNCHANGED index
             /\ packer' \in {packer, [packer EXCEPT !.failed = TRUE]}
    BY <1>19 DEF EmitBlock, EmitFails
  <2>2. [packer EXCEPT !.failed = TRUE] \in PackerType
    BY DEF PackerType
  <2>3. /\ b \in Block /\ b.recs \in Recs
        /\ Written(Piece("block", b.recs)) \in PackerType
    BY TurnType, WrittenType
  <2>4. packer.body \in Seq(PieceType)
    BY DEF PackerType
  <2>5. packer' \in PackerType
    BY <2>1, <2>2, <2>3
  <2>6. index' \in Seq(EntryType)
    <3>1. [at |-> Len(packer.body) + 1, recs |-> b.recs] \in EntryType
      BY <2>3, <2>4 DEF EntryType
    <3>2. Append(index, [at |-> Len(packer.body) + 1, recs |-> b.recs]) \in Seq(EntryType)
      BY <3>1
    <3> QED
      BY <2>1, <3>2
  <2>7. pending' \in SUBSET Block /\ IsFiniteSet(pending')
    <3>1. IsFiniteSet(pending \ {b})
      BY FS_RemoveElement
    <3> QED
      BY <2>1, <3>1, PendingSize
  <2>8. free' \in Nat
    BY <2>1, ReturnedType, PendingSize
  <2> QED
    BY <1>19, <2>5, <2>6, <2>7, <2>8 DEF EmitBlock
<1>20. CASE EmitEnd
  <2>1. CASE returnBuffers(Cardinality(pending)) /\ pending' = {}
    BY <1>20, <2>1, PendingSize, ReturnedType DEF EmitEnd
  <2>2. CASE UNCHANGED <<free, pending>>
    BY <1>20, <2>2 DEF EmitEnd
  <2> QED
    BY <1>20, <2>1, <2>2 DEF EmitEnd
<1>21. CASE CloseCancellation
  BY <1>21 DEF CloseCancellation
<1>22. CASE CancelCall
  BY <1>22 DEF CancelCall
<1>23. CASE FreshContext
  BY <1>23 DEF FreshContext
<1>24. CASE UNCHANGED vars
  BY <1>24 DEF vars
<1> QED
  BY <1>1, <1>2, <1>3, <1>4, <1>5, <1>6, <1>7, <1>8, <1>9, <1>10, <1>11, <1>12, <1>13, <1>14, <1>15, <1>16, <1>17, <1>18, <1>19, <1>20, <1>21, <1>22, <1>23, <1>24
  DEF Next, Caller, Worker, Emitter

-----------------------------------------------------------------------------
(* Control                                                                 *)

(* What the caller knows at its waits stays true: only it moves the buffer.  *)
LEMMA CallerStep ==
    ASSUME IInv, [Next]_vars PROVE CallerInv'
<1> USE DEF IInv, TypeInv, CallerInv, callerVars, pipeVars, emitVars, errVars, sinkVars, boundVars
<1>1. CASE StartAppend
  <2>1. Full => active # <<>> /\ active[1] # <<>>
    BY SizeAssumption DEF Full
  <2>2. pc' = "enqueue" => Full /\ UNCHANGED active
    BY <1>1 DEF StartAppend, abortWith, Return
  <2>3. pc' = "take" => active = <<>> /\ UNCHANGED active
    BY <1>1 DEF StartAppend, abortWith, Return
  <2>4. pc' \in {"idle", "workers", "enqueue", "take"} /\ ~closed'
    BY <1>1 DEF StartAppend, abortWith, Return
  <2>5. pc' \in {"enqueue", "take"} => ~aborted'
    BY <1>1 DEF StartAppend, abortWith, Return
  <2> QED
    BY <2>1, <2>2, <2>3, <2>4, <2>5
<1>2. CASE StartClose
  BY <1>2 DEF StartClose, abortWith, setFirstErr, NoFault
<1>3. CASE StartAbort
  BY <1>3 DEF StartAbort, setFirstErr, NoFault
<1>4. CASE TakeFreeBuffer
  BY <1>4 DEF TakeFreeBuffer, AddRecord, Return, appendCancellation, abortWith, setFirstErr, NoFault
<1>5. CASE EnqueueActive
  BY <1>5 DEF EnqueueActive, SendJob, Return, appendCancellation, abortWith, setFirstErr, NoFault
<1>6. CASE CloseEnqueue
  BY <1>6 DEF CloseEnqueue, SendJob, abortWith, setFirstErr, NoFault
<1>7. CASE WaitWorkers
  BY <1>7 DEF WaitWorkers
<1>8. CASE WaitEmitter
  BY <1>8 DEF WaitEmitter, abortWith, setFirstErr, NoFault
<1>9. CASE CloseWrite
  BY <1>9 DEF CloseWrite, Written, BlockIndex, Trailer, Piece, abortWith, setFirstErr, Fault, NoFault
<1>10. CASE StartCommit
  BY <1>10 DEF StartCommit, abortWith, setFirstErr
<1>11. CASE Complete
  <2>1. pc' = "idle" \/ (pc' = "abort" /\ UNCHANGED closed)
    BY <1>11 DEF Complete, abortWith, Return
  <2>2. ~closed
    BY <1>11 DEF Complete
  <2> QED
    BY <2>1, <2>2
<1>12. CASE AbortPacker
  BY <1>12 DEF AbortPacker, packerAbort, Return, Fault, NoFault
<1>13. ASSUME NEW w \in Workers, Seal(w) PROVE CallerInv'
  BY <1>13 DEF Seal, setFirstErr, Fault, NoFault
<1>14. ASSUME NEW w \in Workers, SendSealed(w) PROVE CallerInv'
  BY <1>14 DEF SendSealed
<1>15. ASSUME NEW w \in Workers, WorkerExit(w) PROVE CallerInv'
  BY <1>15 DEF WorkerExit
<1>16. CASE EmitRecv
  BY <1>16 DEF EmitRecv, returnBuffers, setFirstErr
<1>17. CASE EmitPause
  BY <1>17 DEF EmitPause, returnBuffers
<1>18. CASE EnsurePacker
  BY <1>18 DEF EnsurePacker, EmitFails, returnBuffers, setFirstErr, NoPacker, Piece, Fault, NoFault
<1>19. CASE EmitBlock
  BY <1>19 DEF EmitBlock, EmitFails, returnBuffers, setFirstErr, Written, Piece, Turn, Fault, NoFault
<1>20. CASE EmitEnd
  BY <1>20 DEF EmitEnd, returnBuffers
<1>21. CASE CloseCancellation
  BY <1>21 DEF CloseCancellation, setFirstErr
<1>22. CASE CancelCall
  BY <1>22 DEF CancelCall
<1>23. CASE FreshContext
  BY <1>23 DEF FreshContext
<1>24. CASE UNCHANGED vars
  BY <1>24 DEF vars
<1> QED
  BY <1>1, <1>2, <1>3, <1>4, <1>5, <1>6, <1>7, <1>8, <1>9, <1>10, <1>11, <1>12, <1>13, <1>14, <1>15, <1>16, <1>17, <1>18, <1>19, <1>20, <1>21, <1>22, <1>23, <1>24
  DEF Next, Caller, Worker, Emitter

(* Workers and emitter that have ended stay ended, and record no error.     *)
LEMMA QuietStep ==
    ASSUME IInv, [Next]_vars PROVE QuietInv'
<1> USE DEF IInv, TypeInv, CallerInv, QuietInv, Over, Late, AllSealed, callerVars, pipeVars, emitVars, errVars, sinkVars, boundVars
<1>1. CASE StartAppend
  BY <1>1 DEF StartAppend, abortWith, setFirstErr, AddRecord, Return, Full, Fault, NoFault
<1>2. CASE StartClose
  BY <1>2 DEF StartClose, abortWith, setFirstErr, NoFault
<1>3. CASE StartAbort
  BY <1>3 DEF StartAbort, setFirstErr, NoFault
<1>4. CASE TakeFreeBuffer
  BY <1>4 DEF TakeFreeBuffer, AddRecord, Return, appendCancellation, abortWith, setFirstErr, NoFault
<1>5. CASE EnqueueActive
  BY <1>5 DEF EnqueueActive, SendJob, Return, appendCancellation, abortWith, setFirstErr, NoFault
<1>6. CASE CloseEnqueue
  BY <1>6 DEF CloseEnqueue, SendJob, abortWith, setFirstErr, NoFault
<1>7. CASE WaitWorkers
  BY <1>7 DEF WaitWorkers
<1>8. CASE WaitEmitter
  BY <1>8 DEF WaitEmitter, abortWith, setFirstErr, NoFault
<1>9. CASE CloseWrite
  BY <1>9 DEF CloseWrite, Written, BlockIndex, Trailer, Piece, abortWith, setFirstErr, Fault, NoFault
<1>10. CASE StartCommit
  BY <1>10 DEF StartCommit, abortWith, setFirstErr
<1>11. CASE Complete
  BY <1>11 DEF Complete, Return, abortWith, setFirstErr, Fault, NoFault
<1>12. CASE AbortPacker
  BY <1>12 DEF AbortPacker, packerAbort, Return, Fault, NoFault
<1>13. ASSUME NEW w \in Workers, Seal(w) PROVE QuietInv'
  BY <1>13 DEF Seal, setFirstErr, Fault, NoFault
<1>14. ASSUME NEW w \in Workers, SendSealed(w) PROVE QuietInv'
  BY <1>14 DEF SendSealed
<1>15. ASSUME NEW w \in Workers, WorkerExit(w) PROVE QuietInv'
  BY <1>15 DEF WorkerExit
<1>16. CASE EmitRecv
  BY <1>16 DEF EmitRecv, returnBuffers, setFirstErr
<1>17. CASE EmitPause
  BY <1>17 DEF EmitPause, returnBuffers
<1>18. CASE EnsurePacker
  BY <1>18 DEF EnsurePacker, EmitFails, returnBuffers, setFirstErr, NoPacker, Piece, Fault, NoFault
<1>19. CASE EmitBlock
  BY <1>19 DEF EmitBlock, EmitFails, returnBuffers, setFirstErr, Written, Piece, Turn, Fault, NoFault
<1>20. CASE EmitEnd
  BY <1>20 DEF EmitEnd, returnBuffers
<1>21. CASE CloseCancellation
  BY <1>21 DEF CloseCancellation, setFirstErr
<1>22. CASE CancelCall
  BY <1>22 DEF CancelCall
<1>23. CASE FreshContext
  BY <1>23 DEF FreshContext
<1>24. CASE UNCHANGED vars
  BY <1>24 DEF vars
<1> QED
  BY <1>1, <1>2, <1>3, <1>4, <1>5, <1>6, <1>7, <1>8, <1>9, <1>10, <1>11, <1>12, <1>13, <1>14, <1>15, <1>16, <1>17, <1>18, <1>19, <1>20, <1>21, <1>22, <1>23, <1>24
  DEF Next, Caller, Worker, Emitter

(* The transaction is opened once, and the call that ends the writer ends it. *)
LEMMA TxnStep ==
    ASSUME IInv, [Next]_vars PROVE TxnInv'
<1> USE DEF IInv, TypeInv, CallerInv, QuietInv, TxnInv, Over, Late, callerVars, pipeVars, emitVars, errVars, sinkVars, boundVars
<1>1. CASE StartAppend
  BY <1>1 DEF StartAppend, abortWith, setFirstErr, AddRecord, Return, Full, Fault, NoFault
<1>2. CASE StartClose
  BY <1>2 DEF StartClose, abortWith, setFirstErr, NoFault
<1>3. CASE StartAbort
  BY <1>3 DEF StartAbort, setFirstErr, NoFault
<1>4. CASE TakeFreeBuffer
  BY <1>4 DEF TakeFreeBuffer, AddRecord, Return, appendCancellation, abortWith, setFirstErr, NoFault
<1>5. CASE EnqueueActive
  BY <1>5 DEF EnqueueActive, SendJob, Return, appendCancellation, abortWith, setFirstErr, NoFault
<1>6. CASE CloseEnqueue
  BY <1>6 DEF CloseEnqueue, SendJob, abortWith, setFirstErr, NoFault
<1>7. CASE WaitWorkers
  BY <1>7 DEF WaitWorkers
<1>8. CASE WaitEmitter
  BY <1>8 DEF WaitEmitter, abortWith, setFirstErr, NoFault
<1>9. CASE CloseWrite
  <2>1. /\ packer'.made = packer.made /\ packer'.aborted = packer.aborted
        /\ packer'.completed = packer.completed
    <3>1. /\ Written(Trailer) \in PackerType /\ Written(BlockIndex) \in PackerType
          /\ Written(Trailer).made = packer.made /\ Written(BlockIndex).made = packer.made
          /\ Written(Trailer).aborted = packer.aborted
          /\ Written(BlockIndex).aborted = packer.aborted
          /\ Written(Trailer).completed = packer.completed
          /\ Written(BlockIndex).completed = packer.completed
      BY ClosePieces, WrittenType
    <3>2. CASE packer' = [Written(BlockIndex) EXCEPT !.sealed = TRUE]
      BY <3>1, <3>2 DEF PackerType
    <3>3. CASE packer' = Written(Trailer)
      BY <3>1, <3>3
    <3>4. CASE packer' = [packer EXCEPT !.failed = TRUE]
      BY <3>4 DEF PackerType
    <3>5. CASE packer' = packer
      BY <3>5
    <3> QED
      BY <1>9, <3>2, <3>3, <3>4, <3>5 DEF CloseWrite
  <2>2. UNCHANGED txn /\ pc' # "idle"
    BY <1>9 DEF CloseWrite, abortWith
  <2> QED
    BY <2>1, <2>2
<1>10. CASE StartCommit
  BY <1>10 DEF StartCommit, abortWith, setFirstErr
<1>11. CASE Complete
  BY <1>11 DEF Complete, Return, abortWith, setFirstErr, Fault, NoFault
<1>12. CASE AbortPacker
  BY <1>12 DEF AbortPacker, packerAbort, Return, Fault, NoFault
<1>13. ASSUME NEW w \in Workers, Seal(w) PROVE TxnInv'
  BY <1>13 DEF Seal, setFirstErr, Fault, NoFault
<1>14. ASSUME NEW w \in Workers, SendSealed(w) PROVE TxnInv'
  BY <1>14 DEF SendSealed
<1>15. ASSUME NEW w \in Workers, WorkerExit(w) PROVE TxnInv'
  BY <1>15 DEF WorkerExit
<1>16. CASE EmitRecv
  BY <1>16 DEF EmitRecv, returnBuffers, setFirstErr
<1>17. CASE EmitPause
  BY <1>17 DEF EmitPause, returnBuffers
<1>18. CASE EnsurePacker
  BY <1>18 DEF EnsurePacker, EmitFails, returnBuffers, setFirstErr, NoPacker, Piece, Fault, NoFault
<1>19. CASE EmitBlock
  <2>1. PICK b \in Turn :
          packer' \in {Written(Piece("block", b.recs)), packer, [packer EXCEPT !.failed = TRUE]}
    BY <1>19 DEF EmitBlock
  <2>2. /\ packer'.made = packer.made /\ packer'.aborted = packer.aborted
        /\ packer'.completed = packer.completed
    <3>1. CASE packer' = Written(Piece("block", b.recs))
      BY <3>1, TurnType, WrittenType
    <3>2. CASE packer' = [packer EXCEPT !.failed = TRUE]
      BY <3>2 DEF PackerType
    <3> QED
      BY <2>1, <3>1, <3>2
  <2>3. UNCHANGED <<txn, pc, aborted, closed>>
    BY <1>19 DEF EmitBlock
  <2> QED
    BY <2>2, <2>3
<1>20. CASE EmitEnd
  BY <1>20 DEF EmitEnd, returnBuffers
<1>21. CASE CloseCancellation
  BY <1>21 DEF CloseCancellation, setFirstErr
<1>22. CASE CancelCall
  BY <1>22 DEF CancelCall
<1>23. CASE FreshContext
  BY <1>23 DEF FreshContext
<1>24. CASE UNCHANGED vars
  BY <1>24 DEF vars
<1> QED
  BY <1>1, <1>2, <1>3, <1>4, <1>5, <1>6, <1>7, <1>8, <1>9, <1>10, <1>11, <1>12, <1>13, <1>14, <1>15, <1>16, <1>17, <1>18, <1>19, <1>20, <1>21, <1>22, <1>23, <1>24
  DEF Next, Caller, Worker, Emitter

(* The error kept with a durable object is the unknown outcome.             *)
LEMMA DurableStep ==
    ASSUME IInv, [Next]_vars PROVE DurableIsNotDenied'
<1> USE DEF IInv, CallerInv, QuietInv, DurableIsNotDenied, Late, callerVars, pipeVars, emitVars, errVars, sinkVars, boundVars
<1>1. CASE StartAppend
  BY <1>1 DEF StartAppend, abortWith, setFirstErr, AddRecord, Return, Full, Fault, NoFault
<1>2. CASE StartClose
  BY <1>2 DEF StartClose, abortWith, setFirstErr, NoFault
<1>3. CASE StartAbort
  BY <1>3 DEF StartAbort, setFirstErr, NoFault
<1>4. CASE TakeFreeBuffer
  BY <1>4 DEF TakeFreeBuffer, AddRecord, Return, appendCancellation, abortWith, setFirstErr, NoFault
<1>5. CASE EnqueueActive
  BY <1>5 DEF EnqueueActive, SendJob, Return, appendCancellation, abortWith, setFirstErr, NoFault
<1>6. CASE CloseEnqueue
  BY <1>6 DEF CloseEnqueue, SendJob, abortWith, setFirstErr, NoFault
<1>7. CASE WaitWorkers
  BY <1>7 DEF WaitWorkers
<1>8. CASE WaitEmitter
  BY <1>8 DEF WaitEmitter, abortWith, setFirstErr, NoFault
<1>9. CASE CloseWrite
  BY <1>9 DEF CloseWrite, Written, BlockIndex, Trailer, Piece, abortWith, setFirstErr, Fault, NoFault
<1>10. CASE StartCommit
  BY <1>10 DEF StartCommit, abortWith, setFirstErr
<1>11. CASE Complete
  BY <1>11 DEF Complete, Return, abortWith, setFirstErr, Fault, NoFault
<1>12. CASE AbortPacker
  BY <1>12 DEF AbortPacker, packerAbort, Return, Fault, NoFault
<1>13. ASSUME NEW w \in Workers, Seal(w) PROVE DurableIsNotDenied'
  BY <1>13 DEF Seal, setFirstErr, Fault, NoFault
<1>14. ASSUME NEW w \in Workers, SendSealed(w) PROVE DurableIsNotDenied'
  BY <1>14 DEF SendSealed
<1>15. ASSUME NEW w \in Workers, WorkerExit(w) PROVE DurableIsNotDenied'
  BY <1>15 DEF WorkerExit
<1>16. CASE EmitRecv
  BY <1>16 DEF EmitRecv, returnBuffers, setFirstErr
<1>17. CASE EmitPause
  BY <1>17 DEF EmitPause, returnBuffers
<1>18. CASE EnsurePacker
  BY <1>18 DEF EnsurePacker, EmitFails, returnBuffers, setFirstErr, NoPacker, Piece, Fault, NoFault
<1>19. CASE EmitBlock
  BY <1>19 DEF EmitBlock, EmitFails, returnBuffers, setFirstErr, Written, Piece, Turn, Fault, NoFault
<1>20. CASE EmitEnd
  BY <1>20 DEF EmitEnd, returnBuffers
<1>21. CASE CloseCancellation
  BY <1>21 DEF CloseCancellation, setFirstErr
<1>22. CASE CancelCall
  BY <1>22 DEF CancelCall
<1>23. CASE FreshContext
  BY <1>23 DEF FreshContext
<1>24. CASE UNCHANGED vars
  BY <1>24 DEF vars
<1> QED
  BY <1>1, <1>2, <1>3, <1>4, <1>5, <1>6, <1>7, <1>8, <1>9, <1>10, <1>11, <1>12, <1>13, <1>14, <1>15, <1>16, <1>17, <1>18, <1>19, <1>20, <1>21, <1>22, <1>23, <1>24
  DEF Next, Caller, Worker, Emitter

-----------------------------------------------------------------------------
(* Blocks in the pipeline                                                  *)

(* Only blocks with records are sealed, and a worker gives up the one it sent. *)
LEMMA HolderStep ==
    ASSUME IInv, [Next]_vars PROVE HolderInv'
<1> USE DEF IInv, TypeInv, CallerInv, HolderInv, callerVars, pipeVars, emitVars, errVars, sinkVars, boundVars
<1>1. CASE StartAppend
  BY <1>1 DEF StartAppend
<1>2. CASE StartClose
  BY <1>2 DEF StartClose
<1>3. CASE StartAbort
  BY <1>3 DEF StartAbort
<1>4. CASE TakeFreeBuffer
  BY <1>4 DEF TakeFreeBuffer
<1>5. CASE EnqueueActive
  <2>1. CASE SendJob
    <3>1. active # <<>> /\ active[1] # <<>>
      BY <1>5 DEF EnqueueActive
    <3>2. jobs' = Append(jobs, [seq |-> nextSeq, recs |-> active[1]]) /\ UNCHANGED worker
      BY <1>5, <2>1, <3>1, SentType DEF EnqueueActive
    <3>3. \A i \in DOMAIN jobs' : jobs'[i].recs # <<>>
      BY <3>1, <3>2
    <3> QED
      BY <3>2, <3>3
  <2>2. CASE UNCHANGED jobs
    BY <1>5, <2>2 DEF EnqueueActive
  <2> QED
    BY <1>5, <2>1, <2>2 DEF EnqueueActive
<1>6. CASE CloseEnqueue
  <2>1. CASE SendJob
    <3>1. active # <<>> /\ active[1] # <<>>
      BY <1>6 DEF CloseEnqueue
    <3>2. jobs' = Append(jobs, [seq |-> nextSeq, recs |-> active[1]]) /\ UNCHANGED worker
      BY <1>6, <2>1, <3>1, SentType DEF CloseEnqueue
    <3>3. \A i \in DOMAIN jobs' : jobs'[i].recs # <<>>
      BY <3>1, <3>2
    <3> QED
      BY <3>2, <3>3
  <2>2. CASE UNCHANGED jobs
    BY <1>6, <2>2 DEF CloseEnqueue
  <2> QED
    BY <1>6, <2>1, <2>2 DEF CloseEnqueue
<1>7. CASE WaitWorkers
  BY <1>7 DEF WaitWorkers
<1>8. CASE WaitEmitter
  BY <1>8 DEF WaitEmitter
<1>9. CASE CloseWrite
  BY <1>9 DEF CloseWrite
<1>10. CASE StartCommit
  BY <1>10 DEF StartCommit
<1>11. CASE Complete
  BY <1>11 DEF Complete
<1>12. CASE AbortPacker
  BY <1>12 DEF AbortPacker
<1>13. ASSUME NEW w \in Workers, Seal(w) PROVE HolderInv'
  <2>1. /\ jobs' = Tail(jobs) /\ jobs # <<>>
        /\ \E st \in {"sealed", "failed"} :
              worker' = [worker EXCEPT ![w] = [state |-> st, block |-> Head(jobs)]]
    BY <1>13 DEF Seal
  <2>2. Head(jobs) = jobs[1] /\ 1 \in DOMAIN jobs
    BY <2>1
  <2>3. Head(jobs) # NoBlock
    BY <2>2 DEF NoBlock
  <2>4. \A i \in DOMAIN Tail(jobs) : Tail(jobs)[i] = jobs[i + 1] /\ i + 1 \in DOMAIN jobs
    BY <2>1
  <2> QED
    BY <2>1, <2>3, <2>4
<1>14. ASSUME NEW w \in Workers, SendSealed(w) PROVE HolderInv'
  BY <1>14 DEF SendSealed
<1>15. ASSUME NEW w \in Workers, WorkerExit(w) PROVE HolderInv'
  BY <1>15 DEF WorkerExit
<1>16. CASE EmitRecv
  BY <1>16 DEF EmitRecv, returnBuffers, setFirstErr
<1>17. CASE EmitPause
  BY <1>17 DEF EmitPause
<1>18. CASE EnsurePacker
  BY <1>18 DEF EnsurePacker
<1>19. CASE EmitBlock
  BY <1>19 DEF EmitBlock
<1>20. CASE EmitEnd
  BY <1>20 DEF EmitEnd
<1>21. CASE CloseCancellation
  BY <1>21 DEF CloseCancellation, setFirstErr
<1>22. CASE CancelCall
  BY <1>22 DEF CancelCall
<1>23. CASE FreshContext
  BY <1>23 DEF FreshContext
<1>24. CASE UNCHANGED vars
  BY <1>24 DEF vars
<1> QED
  BY <1>1, <1>2, <1>3, <1>4, <1>5, <1>6, <1>7, <1>8, <1>9, <1>10, <1>11, <1>12, <1>13, <1>14, <1>15, <1>16, <1>17, <1>18, <1>19, <1>20, <1>21, <1>22, <1>23, <1>24
  DEF Next, Caller, Worker, Emitter

(* The numbers in the pipeline are numbers.                                *)
LEMMA Numbers ==
    ASSUME TypeInv
    PROVE  /\ \A i \in DOMAIN jobs : jobs[i].seq \in Nat
           /\ \A w \in Workers : worker[w].block.seq \in Nat
           /\ \A k \in DOMAIN out : out[k].block.seq \in Nat
           /\ \A b \in pending : b.seq \in Nat
<1>1. \A i \in DOMAIN jobs : jobs[i] \in Block
  BY DEF TypeInv
<1>2. \A w \in Workers : worker[w].block \in Block
  BY DEF TypeInv, WorkerType
<1>3. \A k \in DOMAIN out : out[k] \in SealedType
  BY DEF TypeInv
<1>4. \A k \in DOMAIN out : out[k].block \in Block
  BY <1>3 DEF SealedType
<1> QED
  BY <1>1, <1>2, <1>4 DEF TypeInv, Block

(* The block SendJob adds has the highest number.                          *)
LEMMA SentOrder ==
    ASSUME TypeInv, OrderInv, active # <<>>, SendJob, UNCHANGED <<worker, out, pending>>
    PROVE  OrderInv'
<1>1. /\ jobs' = Append(jobs, [seq |-> nextSeq, recs |-> active[1]])
      /\ nextSeq' = nextSeq + 1 /\ nextSeq \in Nat
  BY SentType DEF TypeInv
<1>2. \A i \in DOMAIN jobs' :
        \/ i \in DOMAIN jobs /\ jobs'[i] = jobs[i]
        \/ i = Len(jobs) + 1 /\ jobs'[i].seq = nextSeq
  BY <1>1 DEF TypeInv
<1>3. \A i \in DOMAIN jobs : i \in Nat /\ i < Len(jobs) + 1
  BY DEF TypeInv
<1>4. Len(jobs) \in Nat
  BY DEF TypeInv
<1>5. \A i \in DOMAIN jobs' : jobs'[i].seq < nextSeq'
  BY <1>1, <1>2, Numbers DEF OrderInv
<1>6. \A i, j \in DOMAIN jobs' : i < j => jobs'[i].seq < jobs'[j].seq
  BY <1>1, <1>2, <1>3, <1>4, Numbers DEF OrderInv
<1>7. ASSUME NEW n \in Nat, n < nextSeq, \A i \in DOMAIN jobs : n < jobs[i].seq
      PROVE  n < nextSeq' /\ \A i \in DOMAIN jobs' : n < jobs'[i].seq
  BY <1>1, <1>2, <1>7
<1>8. \A w \in Workers : Holds(w)' =>
         worker'[w].block.seq < nextSeq'
         /\ \A i \in DOMAIN jobs' : worker'[w].block.seq < jobs'[i].seq
  BY <1>7, Numbers DEF OrderInv, Holds
<1>9. \A k \in DOMAIN out' :
         out'[k].block.seq < nextSeq'
         /\ \A i \in DOMAIN jobs' : out'[k].block.seq < jobs'[i].seq
  BY <1>7, Numbers DEF OrderInv
<1>10. \A b \in pending' :
         b.seq < nextSeq' /\ \A i \in DOMAIN jobs' : b.seq < jobs'[i].seq
  BY <1>7, Numbers DEF OrderInv
<1> QED
  BY <1>5, <1>6, <1>8, <1>9, <1>10 DEF OrderInv

(* What SendSealed may add to sealedOut is the worker's block.             *)
LEMMA SentSealed ==
    ASSUME TypeInv, NEW w \in Workers, SendSealed(w)
    PROVE  \A k \in DOMAIN out' :
             \/ k \in DOMAIN out /\ out'[k] = out[k]
             \/ k = Len(out) + 1 /\ k \notin DOMAIN out /\ out'[k].block = worker[w].block
<1>1. CASE out' = Append(out, [block |-> worker[w].block, ok |-> worker[w].state = "sealed"])
  <2>1. out \in Seq(SealedType)
    BY DEF TypeInv
  <2>2. [block |-> worker[w].block, ok |-> worker[w].state = "sealed"].block = worker[w].block
    OBVIOUS
  <2> HIDE DEF SealedType
  <2> QED
    BY <1>1, <2>1, <2>2
<1>2. CASE out' = out
  BY <1>2
<1> QED
  BY <1>1, <1>2 DEF SendSealed

(* Block numbers leave sealJobs in ascending order.                         *)
LEMMA OrderStep ==
    ASSUME IInv, [Next]_vars PROVE OrderInv'
<1> USE DEF IInv, TypeInv, HolderInv, OrderInv, Holds, callerVars, pipeVars, emitVars, errVars, sinkVars, boundVars
<1>1. CASE StartAppend
  BY <1>1 DEF StartAppend
<1>2. CASE StartClose
  BY <1>2 DEF StartClose
<1>3. CASE StartAbort
  BY <1>3 DEF StartAbort
<1>4. CASE TakeFreeBuffer
  BY <1>4 DEF TakeFreeBuffer
<1>5. CASE EnqueueActive
  <2>1. CASE SendJob
    <3>1. active # <<>> /\ UNCHANGED <<worker, out, pending>>
      BY <1>5 DEF CallerInv, EnqueueActive
    <3> QED
      BY <2>1, <3>1, SentOrder
  <2>2. CASE UNCHANGED <<jobs, nextSeq>>
    BY <1>5, <2>2 DEF EnqueueActive
  <2> QED
    BY <1>5, <2>1, <2>2 DEF EnqueueActive
<1>6. CASE CloseEnqueue
  <2>1. CASE SendJob
    <3>1. active # <<>> /\ UNCHANGED <<worker, out, pending>>
      BY <1>6 DEF CallerInv, CloseEnqueue
    <3> QED
      BY <2>1, <3>1, SentOrder
  <2>2. CASE UNCHANGED <<jobs, nextSeq>>
    BY <1>6, <2>2 DEF CloseEnqueue
  <2> QED
    BY <1>6, <2>1, <2>2 DEF CloseEnqueue
<1>7. CASE WaitWorkers
  BY <1>7 DEF WaitWorkers
<1>8. CASE WaitEmitter
  BY <1>8 DEF WaitEmitter
<1>9. CASE CloseWrite
  BY <1>9 DEF CloseWrite
<1>10. CASE StartCommit
  BY <1>10 DEF StartCommit
<1>11. CASE Complete
  BY <1>11 DEF Complete
<1>12. CASE AbortPacker
  BY <1>12 DEF AbortPacker
<1>13. ASSUME NEW w \in Workers, Seal(w) PROVE OrderInv'
  <2>1. /\ jobs' = Tail(jobs) /\ jobs # <<>> /\ UNCHANGED <<nextSeq, out, pending>>
        /\ \E st \in {"sealed", "failed"} :
              worker' = [worker EXCEPT ![w] = [state |-> st, block |-> Head(jobs)]]
    BY <1>13 DEF Seal
  <2>2. Head(jobs) = jobs[1] /\ 1 \in DOMAIN jobs
    BY <2>1
  <2>3. \A i \in DOMAIN jobs' : /\ jobs'[i] = jobs[i + 1] /\ i + 1 \in DOMAIN jobs
                                /\ i \in Nat /\ 1 < i + 1
    BY <2>1
  <2>4. worker'[w].block = jobs[1] /\ \A v \in Workers \ {w} : worker'[v] = worker[v]
    BY <2>1, <2>2
  <2>5. \A i, j \in DOMAIN jobs' : i < j => jobs'[i].seq < jobs'[j].seq
    BY <2>3, SMTT(30)
  <2>6. \A i \in DOMAIN jobs' : jobs[1].seq < jobs'[i].seq /\ jobs'[i].seq < nextSeq
    BY <2>2, <2>3
  <2>7. \A v \in Workers : worker'[v].block # NoBlock =>
          /\ worker'[v].block.seq < nextSeq
          /\ \A i \in DOMAIN jobs' : worker'[v].block.seq < jobs'[i].seq
    BY <2>2, <2>3, <2>4, <2>6
  <2> QED
    BY <2>1, <2>3, <2>5, <2>6, <2>7
<1>14. ASSUME NEW w \in Workers, SendSealed(w) PROVE OrderInv'
  <2>1. /\ UNCHANGED <<jobs, nextSeq, pending>>
        /\ worker'[w].block = NoBlock /\ \A v \in Workers \ {w} : worker'[v] = worker[v]
    BY <1>14 DEF SendSealed
  <2>2. worker[w].block # NoBlock
    BY <1>14 DEF SendSealed
  <2>3. \A k \in DOMAIN out' : \/ k \in DOMAIN out /\ out'[k] = out[k]
                               \/ out'[k].block = worker[w].block
    BY <1>14, SentSealed
  <2> QED
    BY <2>1, <2>2, <2>3, SMTT(30)
<1>15. ASSUME NEW w \in Workers, WorkerExit(w) PROVE OrderInv'
  <2>1. \A v \in Workers : worker'[v].block = worker[v].block
    BY <1>15 DEF WorkerExit, WorkerType
  <2> QED
    BY <1>15, <2>1 DEF WorkerExit
<1>16. CASE EmitRecv
  <2>1. /\ out # <<>> /\ out' = Tail(out) /\ UNCHANGED <<jobs, nextSeq, worker>>
        /\ pending' \in {pending, pending \cup {Head(out).block}}
    BY <1>16 DEF EmitRecv
  <2>2. Head(out) = out[1] /\ 1 \in DOMAIN out
    BY <2>1
  <2>3. \A k \in DOMAIN out' : out'[k] = out[k + 1] /\ k + 1 \in DOMAIN out
    BY <2>1
  <2> QED
    BY <2>1, <2>2, <2>3, ZenonT(40)
<1>17. CASE EmitPause
  <2>1. pending' \in SUBSET pending /\ UNCHANGED <<jobs, nextSeq, worker, out>>
    BY <1>17 DEF EmitPause, EmitFails
  <2> QED
    BY <2>1
<1>18. CASE EnsurePacker
  <2>1. pending' \in SUBSET pending /\ UNCHANGED <<jobs, nextSeq, worker, out>>
    BY <1>18 DEF EnsurePacker, EmitFails
  <2> QED
    BY <2>1
<1>19. CASE EmitBlock
  <2>1. pending' \in SUBSET pending /\ UNCHANGED <<jobs, nextSeq, worker, out>>
    BY <1>19 DEF EmitBlock, EmitFails
  <2> QED
    BY <2>1
<1>20. CASE EmitEnd
  <2>1. pending' \in SUBSET pending /\ UNCHANGED <<jobs, nextSeq, worker, out>>
    BY <1>20 DEF EmitEnd, EmitFails
  <2> QED
    BY <2>1
<1>21. CASE CloseCancellation
  BY <1>21 DEF CloseCancellation, setFirstErr
<1>22. CASE CancelCall
  BY <1>22 DEF CancelCall
<1>23. CASE FreshContext
  BY <1>23 DEF FreshContext
<1>24. CASE UNCHANGED vars
  BY <1>24 DEF vars
<1> QED
  BY <1>1, <1>2, <1>3, <1>4, <1>5, <1>6, <1>7, <1>8, <1>9, <1>10, <1>11, <1>12, <1>13, <1>14, <1>15, <1>16, <1>17, <1>18, <1>19, <1>20, <1>21, <1>22, <1>23, <1>24
  DEF Next, Caller, Worker, Emitter

(* No block number is in the pipeline twice.                                *)
LEMMA ApartStep ==
    ASSUME IInv, [Next]_vars PROVE ApartInv'
<1> USE DEF IInv, TypeInv, HolderInv, OrderInv, ApartInv, Holds, callerVars, pipeVars, emitVars, errVars, sinkVars, boundVars
<1>1. CASE StartAppend
  BY <1>1 DEF StartAppend
<1>2. CASE StartClose
  BY <1>2 DEF StartClose
<1>3. CASE StartAbort
  BY <1>3 DEF StartAbort
<1>4. CASE TakeFreeBuffer
  BY <1>4 DEF TakeFreeBuffer
<1>5. CASE EnqueueActive
  BY <1>5 DEF EnqueueActive
<1>6. CASE CloseEnqueue
  BY <1>6 DEF CloseEnqueue
<1>7. CASE WaitWorkers
  BY <1>7 DEF WaitWorkers
<1>8. CASE WaitEmitter
  BY <1>8 DEF WaitEmitter
<1>9. CASE CloseWrite
  BY <1>9 DEF CloseWrite
<1>10. CASE StartCommit
  BY <1>10 DEF StartCommit
<1>11. CASE Complete
  BY <1>11, ZenonT(40) DEF Complete
<1>12. CASE AbortPacker
  BY <1>12 DEF AbortPacker
<1>13. ASSUME NEW w \in Workers, Seal(w) PROVE ApartInv'
  <2>1. /\ jobs # <<>> /\ UNCHANGED <<out, pending>>
        /\ \E st \in {"sealed", "failed"} :
              worker' = [worker EXCEPT ![w] = [state |-> st, block |-> Head(jobs)]]
    BY <1>13 DEF Seal
  <2>2. Head(jobs) = jobs[1] /\ 1 \in DOMAIN jobs
    BY <2>1
  <2>3. worker'[w].block = jobs[1] /\ \A v \in Workers \ {w} : worker'[v] = worker[v]
    BY <2>1, <2>2
  <2>4. \A v \in Workers : worker[v].block # NoBlock => worker[v].block.seq # jobs[1].seq
    <3> SUFFICES ASSUME NEW v \in Workers, worker[v].block # NoBlock
                 PROVE  worker[v].block.seq # jobs[1].seq
      OBVIOUS
    <3>1. worker[v].block.seq \in Nat /\ worker[v].block.seq < jobs[1].seq
      BY <2>2, Numbers
    <3> QED
      BY <3>1
  <2>5. \A k \in DOMAIN out : out[k].block.seq # jobs[1].seq
    <3> SUFFICES ASSUME NEW k \in DOMAIN out PROVE out[k].block.seq # jobs[1].seq
      OBVIOUS
    <3>1. out[k].block.seq \in Nat /\ out[k].block.seq < jobs[1].seq
      BY <2>2, Numbers
    <3> QED
      BY <3>1
  <2>6. \A b \in pending : b.seq # jobs[1].seq
    <3> SUFFICES ASSUME NEW b \in pending PROVE b.seq # jobs[1].seq
      OBVIOUS
    <3>1. b.seq \in Nat /\ b.seq < jobs[1].seq
      BY <2>2, Numbers
    <3> QED
      BY <3>1
  <2> QED
    BY <2>1, <2>3, <2>4, <2>5, <2>6
<1>14. ASSUME NEW w \in Workers, SendSealed(w) PROVE ApartInv'
  <2>1. /\ UNCHANGED pending
        /\ worker'[w].block = NoBlock /\ \A v \in Workers \ {w} : worker'[v] = worker[v]
    BY <1>14 DEF SendSealed
  <2>2. worker[w].block # NoBlock
    BY <1>14 DEF SendSealed
  <2>3. \A k \in DOMAIN out' :
          \/ k \in DOMAIN out /\ out'[k] = out[k]
          \/ k = Len(out) + 1 /\ k \notin DOMAIN out /\ out'[k].block = worker[w].block
    BY <1>14, SentSealed
  <2>4. \A k, l \in DOMAIN out' : k # l => out'[k].block.seq # out'[l].block.seq
    BY <2>2, <2>3
  <2>5. \A v \in Workers, k \in DOMAIN out' :
          worker'[v].block # NoBlock => worker'[v].block.seq # out'[k].block.seq
    <3> SUFFICES ASSUME NEW v \in Workers, NEW k \in DOMAIN out', worker'[v].block # NoBlock
                 PROVE  worker'[v].block.seq # out'[k].block.seq
      OBVIOUS
    <3>1. v # w /\ worker'[v] = worker[v] /\ worker[v].block # NoBlock
      BY ONLY <2>1, v \in Workers, worker'[v].block # NoBlock
    <3>2. CASE k \in DOMAIN out /\ out'[k] = out[k]
      <4>1. worker[v].block.seq # out[k].block.seq
        BY <3>1, <3>2
      <4> QED
        BY ONLY <3>1, <3>2, <4>1
    <3>3. CASE out'[k].block = worker[w].block
      <4>1. worker[v].block.seq # worker[w].block.seq
        BY <2>2, <3>1
      <4> QED
        BY ONLY <3>1, <3>3, <4>1
    <3> QED
      BY ONLY <2>3, <3>2, <3>3, k \in DOMAIN out'
  <2>6. \A k \in DOMAIN out', b \in pending : out'[k].block.seq # b.seq
    BY <2>2, <2>3
  <2> QED
    BY <2>1, <2>4, <2>5, <2>6
<1>15. ASSUME NEW w \in Workers, WorkerExit(w) PROVE ApartInv'
  <2>1. \A v \in Workers : worker'[v].block = worker[v].block
    BY <1>15 DEF WorkerExit, WorkerType
  <2> QED
    BY <1>15, <2>1 DEF WorkerExit
<1>16. CASE EmitRecv
  <2>1. /\ out # <<>> /\ out' = Tail(out) /\ UNCHANGED worker
        /\ pending' \in {pending, pending \cup {Head(out).block}}
    BY <1>16 DEF EmitRecv
  <2>2. Head(out) = out[1] /\ 1 \in DOMAIN out
    BY <2>1
  <2>3. \A k \in DOMAIN out' : out'[k] = out[k + 1] /\ k + 1 \in DOMAIN out /\ k + 1 # 1
    BY <2>1
  <2>4. \A k, l \in DOMAIN out' : k # l => out'[k].block.seq # out'[l].block.seq
    <3>1. \A k, l \in DOMAIN out' : k # l => k + 1 # l + 1
      BY <2>1
    <3> QED
      BY <2>3, <3>1
  <2>5. \A k \in DOMAIN out', b \in pending' : out'[k].block.seq # b.seq
    BY <2>1, <2>2, <2>3
  <2>6. \A w \in Workers, b \in pending' :
          worker[w].block # NoBlock => worker[w].block.seq # b.seq
    BY <2>1, <2>2
  <2>7. \A w \in Workers, k \in DOMAIN out' :
          worker[w].block # NoBlock => worker[w].block.seq # out'[k].block.seq
    BY <2>3
  <2> QED
    BY <2>1, <2>4, <2>5, <2>6, <2>7
<1>17. CASE EmitPause
  <2>1. pending' \in SUBSET pending /\ UNCHANGED <<worker, out>>
    BY <1>17 DEF EmitPause, EmitFails
  <2> QED
    BY <2>1
<1>18. CASE EnsurePacker
  <2>1. pending' \in SUBSET pending /\ UNCHANGED <<worker, out>>
    BY <1>18 DEF EnsurePacker, EmitFails
  <2> QED
    BY <2>1
<1>19. CASE EmitBlock
  <2>1. pending' \in SUBSET pending /\ UNCHANGED <<worker, out>>
    BY <1>19 DEF EmitBlock, EmitFails
  <2> QED
    BY <2>1
<1>20. CASE EmitEnd
  <2>1. pending' \in SUBSET pending /\ UNCHANGED <<worker, out>>
    BY <1>20 DEF EmitEnd, EmitFails
  <2> QED
    BY <2>1
<1>21. CASE CloseCancellation
  BY <1>21 DEF CloseCancellation, setFirstErr
<1>22. CASE CancelCall
  BY <1>22 DEF CancelCall
<1>23. CASE FreshContext
  BY <1>23 DEF FreshContext
<1>24. CASE UNCHANGED vars
  BY <1>24 DEF vars
<1> QED
  BY <1>1, <1>2, <1>3, <1>4, <1>5, <1>6, <1>7, <1>8, <1>9, <1>10, <1>11, <1>12, <1>13, <1>14, <1>15, <1>16, <1>17, <1>18, <1>19, <1>20, <1>21, <1>22, <1>23, <1>24
  DEF Next, Caller, Worker, Emitter

-----------------------------------------------------------------------------
(* Block buffers                                                           *)

Holding == {w \in Workers : worker[w].block # NoBlock}

(* What is counted is finite.                                              *)
LEMMA Sizes ==
    ASSUME TypeInv
    PROVE  /\ free \in Nat /\ Len(active) \in Nat /\ Len(jobs) \in Nat /\ Len(out) \in Nat
           /\ IsFiniteSet(Holding) /\ Cardinality(Holding) \in Nat
           /\ Cardinality(pending) \in Nat /\ BlockBufferCount \in Nat
<1>1. IsFiniteSet(Holding)
  BY WorkersAssumption, FS_Subset DEF Holding
<1>2. Cardinality(Holding) \in Nat
  BY <1>1, FS_CardinalityType
<1> QED
  BY <1>1, <1>2, PendingSize, BufferAssumption DEF TypeInv

(* An action that moves no buffer.                                         *)
LEMMA NoneMoved ==
    ASSUME BuffersConserved, firstErr' = "none" => firstErr = "none",
           UNCHANGED <<free, active, jobs, out, pending, worker>>
    PROVE  BuffersConserved'
BY DEF BuffersConserved

(* An error ends the account.                                              *)
LEMMA ErrorEnds ==
    ASSUME firstErr' # "none" PROVE BuffersConserved'
BY DEF BuffersConserved

(* A full buffer goes from the caller to sealJobs.                         *)
LEMMA SentBalance ==
    ASSUME TypeInv, BuffersConserved, active # <<>>, SendJob,
           UNCHANGED <<firstErr, free, worker, out, pending>>
    PROVE  BuffersConserved'
<1>1. Len(active) = 1 /\ active' = <<>>
      /\ jobs' = Append(jobs, [seq |-> nextSeq, recs |-> active[1]])
  BY SentType
<1>2. Len(active') = 0 /\ Len(jobs') = Len(jobs) + 1
  BY <1>1 DEF TypeInv
<1>3. Cardinality(Holding') = Cardinality(Holding)
  BY DEF Holding
<1> QED
  BY <1>1, <1>2, <1>3, Sizes, SMTT(30) DEF BuffersConserved, Holding

(* A worker takes a block from sealJobs.                                   *)
LEMMA SealBalance ==
    ASSUME TypeInv, HolderInv, BuffersConserved, NEW w \in Workers, Seal(w)
    PROVE  BuffersConserved'
<1>1. CASE firstErr' # "none"
  BY <1>1, ErrorEnds
<1>2. CASE firstErr' = "none"
  <2>1. firstErr = "none" /\ UNCHANGED <<free, active, out, pending>>
        /\ worker' = [worker EXCEPT ![w] = [state |-> "sealed", block |-> Head(jobs)]]
        /\ jobs # <<>> /\ jobs' = Tail(jobs)
    BY <1>2 DEF Seal, setFirstErr, errVars, callerVars, emitVars
  <2>2. Head(jobs) = jobs[1] /\ 1 \in DOMAIN jobs /\ Len(jobs') = Len(jobs) - 1
    BY <2>1 DEF TypeInv
  <2>3. Head(jobs) # NoBlock
    BY <2>2 DEF HolderInv, NoBlock
  <2>4. w \notin Holding
    BY DEF Holding, HolderInv, Seal
  <2>5. worker'[w].block = Head(jobs) /\ \A v \in Workers \ {w} : worker'[v] = worker[v]
    BY <2>1 DEF TypeInv
  <2>6. Holding' = Holding \cup {w}
    BY <2>3, <2>5 DEF Holding
  <2>7. Cardinality(Holding') = Cardinality(Holding) + 1
    BY <2>4, <2>6, Sizes, FS_AddElement
  <2> QED
    BY <2>1, <2>2, <2>7, Sizes, SMTT(30) DEF BuffersConserved, Holding
<1> QED
  BY <1>1, <1>2

(* It hands the block to sealedOut; it drops one only after an error.      *)
LEMMA SendBalance ==
    ASSUME TypeInv, HolderInv, QuietInv, CallerInv, BuffersConserved,
           NEW w \in Workers, SendSealed(w)
    PROVE  BuffersConserved'
<1>1. CASE firstErr # "none"
  BY <1>1, ErrorEnds DEF SendSealed, errVars
<1>2. CASE firstErr = "none"
  <2>1. ~done
    <3>1. worker[w].state # "done"
      BY DEF SendSealed
    <3> QED
      BY <1>2, <3>1 DEF QuietInv, CallerInv, AllSealed, Over
  <2>2. UNCHANGED <<free, active, jobs, pending>>
        /\ out' = Append(out, [block |-> worker[w].block, ok |-> worker[w].state = "sealed"])
    BY <2>1 DEF SendSealed, callerVars, emitVars
  <2>3. Len(out') = Len(out) + 1
    BY <2>2 DEF TypeInv
  <2>4. worker'[w].block = NoBlock /\ \A v \in Workers \ {w} : worker'[v] = worker[v]
    BY DEF SendSealed, TypeInv
  <2>5. w \in Holding
    BY DEF SendSealed, Holding, HolderInv
  <2>6. Holding' = Holding \ {w}
    BY <2>4 DEF Holding
  <2>7. Cardinality(Holding') = Cardinality(Holding) - 1
    BY <2>5, <2>6, Sizes, FS_RemoveElement
  <2>8. UNCHANGED <<firstErr, free, active, jobs, pending>>
    BY <2>2 DEF SendSealed, errVars
  <2>9. BlockBufferCount = free + Len(active) + Len(jobs) + Len(out)
            + Cardinality(pending) + Cardinality(Holding)
    BY <1>2 DEF BuffersConserved, Holding
  <2>10. BlockBufferCount = free' + Len(active') + Len(jobs') + Len(out')
            + Cardinality(pending') + Cardinality(Holding')
    BY <2>3, <2>7, <2>8, <2>9, Sizes, SMTT(30)
  <2> QED
    BY <2>10 DEF BuffersConserved, Holding
<1> QED
  BY <1>1, <1>2

(* The emitter takes a result: it was not pending, as its number differs.  *)
LEMMA RecvBalance ==
    ASSUME TypeInv, ApartInv, BuffersConserved, EmitRecv PROVE BuffersConserved'
<1>1. CASE firstErr' # "none"
  BY <1>1, ErrorEnds
<1>2. CASE firstErr' = "none"
  <2>1. /\ firstErr = "none" /\ UNCHANGED <<free, active, jobs, worker>>
        /\ out # <<>> /\ out' = Tail(out) /\ pending' = pending \cup {Head(out).block}
    BY <1>2 DEF EmitRecv, setFirstErr, errVars, callerVars
  <2>2. Head(out) = out[1] /\ 1 \in DOMAIN out /\ Len(out') = Len(out) - 1
    BY <2>1 DEF TypeInv
  <2>3. Head(out).block \notin pending
    BY <2>2 DEF ApartInv
  <2>4. Cardinality(pending') = Cardinality(pending) + 1
    BY <2>1, <2>3, FS_AddElement DEF TypeInv
  <2>5. Cardinality(Holding') = Cardinality(Holding)
    BY <2>1 DEF Holding
  <2>6. /\ free' = free /\ Len(active') = Len(active) /\ Len(jobs') = Len(jobs)
        /\ Len(out') = Len(out) - 1 /\ Len(out') \in Nat
    BY <2>1, <2>2, Sizes DEF TypeInv
  <2>7. BlockBufferCount = free + Len(active) + Len(jobs) + Len(out)
            + Cardinality(pending) + Cardinality(Holding)
    BY <2>1 DEF BuffersConserved, Holding
  <2>8. BlockBufferCount = free' + Len(active') + Len(jobs') + Len(out')
            + Cardinality(pending') + Cardinality(Holding')
    <3>1. /\ free \in Nat /\ Len(active) \in Nat /\ Len(jobs) \in Nat /\ Len(out) \in Nat
          /\ Cardinality(Holding) \in Nat /\ Cardinality(pending) \in Nat
      BY Sizes
    <3> QED
      BY <2>4, <2>5, <2>6, <2>7, <3>1
  <2> QED
    BY <2>8 DEF BuffersConserved, Holding
<1> QED
  BY <1>1, <1>2

(* A block that was written gives its buffer back: the pipeline's context  *)
(* is not cancelled then.                                                  *)
LEMMA EmitBalance ==
    ASSUME TypeInv, BuffersConserved, EmitBlock PROVE BuffersConserved'
<1>1. CASE firstErr' # "none"
  BY <1>1, ErrorEnds
<1>2. CASE firstErr' = "none"
  <2>1. PICK b \in Turn :
          /\ ~done /\ firstErr = "none" /\ UNCHANGED <<active, jobs, out, worker>>
          /\ pending' = pending \ {b} /\ returnBuffers(1)
    BY <1>2 DEF EmitBlock, EmitFails, setFirstErr, callerVars
  <2>2. free' = free + 1
    BY <2>1 DEF returnBuffers
  <2>3. b \in pending
    BY DEF Turn
  <2>4. Cardinality(pending') = Cardinality(pending) - 1
    BY <2>1, <2>3, FS_RemoveElement DEF TypeInv
  <2>5. Cardinality(Holding') = Cardinality(Holding)
    BY <2>1 DEF Holding
  <2> QED
    BY <2>1, <2>2, <2>4, <2>5, Sizes DEF BuffersConserved, Holding, TypeInv
<1> QED
  BY <1>1, <1>2

(* Every step keeps the account of the buffers.                            *)
LEMMA BufferStep ==
    ASSUME IInv, [Next]_vars PROVE BuffersConserved'
<1> USE DEF IInv, callerVars, pipeVars, emitVars, errVars, sinkVars, boundVars
<1>1. CASE StartAppend
  <2>1. CASE active # <<>> /\ AddRecord(active[1]) /\ UNCHANGED firstErr
    <3>1. Len(active') = 1 /\ Len(active) = 1
      BY <2>1, ActiveType, AddedType DEF TypeInv
    <3> QED
      BY <1>1, <2>1, <3>1 DEF StartAppend, BuffersConserved
  <2>2. CASE UNCHANGED active /\ UNCHANGED firstErr
    BY <1>1, <2>2, NoneMoved DEF StartAppend
  <2>3. CASE firstErr' # "none"
    BY <2>3, ErrorEnds
  <2> QED
    BY <1>1, <2>1, <2>2, <2>3 DEF StartAppend, abortWith, setFirstErr
<1>2. CASE StartClose
  <2>1. firstErr' = "none" => firstErr = "none"
    BY <1>2 DEF StartClose, abortWith, setFirstErr
  <2> QED
    BY <1>2, <2>1, NoneMoved DEF StartClose
<1>3. CASE StartAbort
  <2>1. firstErr' = "none" => firstErr = "none"
    BY <1>3 DEF StartAbort, setFirstErr
  <2> QED
    BY <1>3, <2>1, NoneMoved DEF StartAbort
<1>4. CASE TakeFreeBuffer
  <2>1. CASE /\ free > 0 /\ free' = free - 1 /\ AddRecord(<<>>)
             /\ UNCHANGED <<jobs, out, pending, worker, firstErr>>
    <3>1. <<>> \in Recs /\ count \in Nat
      BY DEF Recs, TypeInv
    <3>2. Len(active') = 1
      BY <2>1, <3>1, AddedType
    <3>3. Len(active) = 0
      BY <1>4 DEF CallerInv, TakeFreeBuffer
    <3> QED
      BY <2>1, <3>2, <3>3, Sizes DEF BuffersConserved, TypeInv
  <2>2. CASE UNCHANGED <<free, active>>
    <3>1. firstErr' = "none" => firstErr = "none"
      BY <1>4 DEF TakeFreeBuffer, appendCancellation, abortWith, setFirstErr
    <3> QED
      BY <1>4, <2>2, <3>1, NoneMoved DEF TakeFreeBuffer
  <2> QED
    BY <1>4, <2>1, <2>2 DEF TakeFreeBuffer
<1>5. CASE EnqueueActive
  <2>1. CASE SendJob /\ UNCHANGED firstErr
    <3>1. active # <<>>
      BY <1>5 DEF CallerInv, EnqueueActive
    <3> QED
      BY <1>5, <2>1, <3>1, SentBalance DEF EnqueueActive
  <2>2. CASE UNCHANGED <<jobs, active>>
    <3>1. firstErr' = "none" => firstErr = "none"
      BY <1>5 DEF EnqueueActive, appendCancellation, abortWith, setFirstErr
    <3> QED
      BY <1>5, <2>2, <3>1, NoneMoved DEF EnqueueActive
  <2> QED
    BY <1>5, <2>1, <2>2 DEF EnqueueActive
<1>6. CASE CloseEnqueue
  <2>1. CASE SendJob /\ UNCHANGED firstErr
    <3>1. active # <<>>
      BY <1>6 DEF CallerInv, CloseEnqueue
    <3> QED
      BY <1>6, <2>1, <3>1, SentBalance DEF CloseEnqueue
  <2>2. CASE UNCHANGED <<jobs, active>>
    <3>1. firstErr' = "none" => firstErr = "none"
      BY <1>6 DEF CloseEnqueue, abortWith, setFirstErr
    <3> QED
      BY <1>6, <2>2, <3>1, NoneMoved DEF CloseEnqueue
  <2> QED
    BY <1>6, <2>1, <2>2 DEF CloseEnqueue
<1>7. CASE WaitWorkers
  <2>1. firstErr' = "none" => firstErr = "none"
    BY <1>7 DEF WaitWorkers
  <2> QED
    BY <1>7, <2>1, NoneMoved DEF WaitWorkers
<1>8. CASE WaitEmitter
  <2>1. firstErr' = "none" => firstErr = "none"
    BY <1>8 DEF WaitEmitter, abortWith, setFirstErr
  <2> QED
    BY <1>8, <2>1, NoneMoved DEF WaitEmitter
<1>9. CASE CloseWrite
  <2>1. firstErr' = "none" => firstErr = "none"
    BY <1>9 DEF CloseWrite, abortWith, setFirstErr
  <2> QED
    BY <1>9, <2>1, NoneMoved DEF CloseWrite
<1>10. CASE StartCommit
  <2>1. firstErr' = "none" => firstErr = "none"
    BY <1>10 DEF StartCommit, abortWith, setFirstErr
  <2> QED
    BY <1>10, <2>1, NoneMoved DEF StartCommit
<1>11. CASE Complete
  <2>1. firstErr' = "none" => firstErr = "none"
    BY <1>11 DEF Complete, abortWith, setFirstErr
  <2> QED
    BY <1>11, <2>1, NoneMoved DEF Complete
<1>12. CASE AbortPacker
  <2>1. firstErr' = "none" => firstErr = "none"
    BY <1>12 DEF AbortPacker
  <2> QED
    BY <1>12, <2>1, NoneMoved DEF AbortPacker
<1>13. ASSUME NEW w \in Workers, Seal(w) PROVE BuffersConserved'
  BY <1>13, SealBalance
<1>14. ASSUME NEW w \in Workers, SendSealed(w) PROVE BuffersConserved'
  BY <1>14, SendBalance
<1>15. ASSUME NEW w \in Workers, WorkerExit(w) PROVE BuffersConserved'
  <2>1. \A v \in Workers : worker'[v].block = worker[v].block
    BY <1>15 DEF WorkerExit, TypeInv, WorkerType
  <2>2. Holding' = Holding
    BY <2>1 DEF Holding
  <2> QED
    BY <1>15, <2>2 DEF WorkerExit, BuffersConserved, Holding
<1>16. CASE EmitRecv
  BY <1>16, RecvBalance
<1>17. CASE EmitPause
  <2>1. CASE firstErr # "none"
    BY <1>17, <2>1, ErrorEnds DEF EmitPause
  <2>2. CASE firstErr = "none"
    BY <1>17, <2>2, NoneMoved DEF EmitPause
  <2> QED
    BY <2>1, <2>2
<1>18. CASE EnsurePacker
  <2>1. CASE UNCHANGED <<pending, free, firstErr>>
    BY <1>18, <2>1, NoneMoved DEF EnsurePacker
  <2>2. CASE firstErr' # "none"
    BY <2>2, ErrorEnds
  <2> QED
    BY <1>18, <2>1, <2>2 DEF EnsurePacker, EmitFails, setFirstErr
<1>19. CASE EmitBlock
  BY <1>19, EmitBalance
<1>20. CASE EmitEnd
  <2>1. CASE firstErr # "none"
    BY <1>20, <2>1, ErrorEnds DEF EmitEnd
  <2>2. CASE firstErr = "none"
    BY <1>20, <2>2, NoneMoved DEF EmitEnd
  <2> QED
    BY <2>1, <2>2
<1>21. CASE CloseCancellation
  <2>1. firstErr' = "none" => firstErr = "none"
    BY <1>21 DEF CloseCancellation, setFirstErr
  <2> QED
    BY <1>21, <2>1, NoneMoved DEF CloseCancellation
<1>22. CASE CancelCall
  <2>1. firstErr' = "none" => firstErr = "none"
    BY <1>22 DEF CancelCall
  <2> QED
    BY <1>22, <2>1, NoneMoved DEF CancelCall
<1>23. CASE FreshContext
  <2>1. firstErr' = "none" => firstErr = "none"
    BY <1>23 DEF FreshContext
  <2> QED
    BY <1>23, <2>1, NoneMoved DEF FreshContext
<1>24. CASE UNCHANGED vars
  BY <1>24, NoneMoved DEF vars
<1> QED
  BY <1>1, <1>2, <1>3, <1>4, <1>5, <1>6, <1>7, <1>8, <1>9, <1>10, <1>11, <1>12, <1>13, <1>14, <1>15, <1>16, <1>17, <1>18, <1>19, <1>20, <1>21, <1>22, <1>23, <1>24
  DEF Next, Caller, Worker, Emitter

-----------------------------------------------------------------------------
(* The theorems                                                            *)

(* The invariant holds of a new pipeline.                                  *)
LEMMA InitIInv == Init => IInv
<1> SUFFICES ASSUME Init PROVE IInv
  OBVIOUS
<1> USE DEF Init
<1>1. TypeInv
  <2>1. BlockBufferCount - 1 \in Nat
    <3>1. Cardinality(Workers) \in Nat
      BY WorkersAssumption, FS_CardinalityType
    <3> QED
      BY <3>1, BufferAssumption
  <2>2. active \in Seq(Recs) /\ Len(active) <= 1
    <3>1. <<>> \in Recs
      BY DEF Recs
    <3> QED
      BY <3>1
  <2>3. worker \in [Workers -> WorkerType]
    BY DEF WorkerType, NoBlock, Block, Recs
  <2>4. packer \in PackerType
    BY DEF PackerType, NoPacker
  <2>5. pending \in SUBSET Block /\ IsFiniteSet(pending)
    BY FS_EmptySet
  <2> QED
    BY <2>1, <2>2, <2>3, <2>4, <2>5 DEF TypeInv
<1>2. CallerInv /\ QuietInv /\ TxnInv /\ DurableIsNotDenied
  BY DEF CallerInv, QuietInv, TxnInv, DurableIsNotDenied, Late, Over
<1>3. HolderInv
  BY DEF HolderInv, NoBlock
<1>4. OrderInv /\ ApartInv
  BY DEF OrderInv, ApartInv, Holds, NoBlock
<1>5. BuffersConserved
  <2>1. {w \in Workers : worker[w].block # NoBlock} = {}
    OBVIOUS
  <2>2. Cardinality({}) = 0
    BY FS_EmptySet
  <2>3. Len(active) = 1 /\ Len(jobs) = 0 /\ Len(out) = 0
    OBVIOUS
  <2> QED
    BY <2>1, <2>2, <2>3, BufferAssumption, SMTT(30) DEF BuffersConserved
<1> QED
  BY <1>1, <1>2, <1>3, <1>4, <1>5 DEF IInv

-----------------------------------------------------------------------------
(* What the pipeline carries                                               *)

(* The records before block k, and the records of block k: those up to the *)
(* next block, or to the last record.                                      *)
Base(k) == k * BlockRecords
Limit(k) == IF Base(k + 1) <= count THEN Base(k + 1) ELSE count
Chunk(k) == [i \in 1..(Limit(k) - Base(k)) |-> Base(k) + i]

(* The blocks in the pipeline.                                             *)
Queued == {jobs[i] : i \in DOMAIN jobs}
Held == {worker[w].block : w \in {v \in Workers : Holds(v)}}
Sealed == {out[i].block : i \in DOMAIN out}
PipeBlocks == Queued \cup Held \cup Sealed \cup pending
InPipe(k) == \E b \in PipeBlocks : b.seq = k

(* finishPipeline closes sealJobs behind the last send and sealedOut       *)
(* behind the last worker, and a call that ends early ends the writer.     *)
StopInv ==
    /\ jobsClosed => pc \notin {"take", "enqueue", "closeEnqueue"}
                     /\ (pc = "idle" => aborted \/ closed)
    /\ outClosed => AllSealed
    /\ emitter \in {"done", "received"} => out = <<>> /\ outClosed
    /\ pc \in {"workers", "emitted"} => aborted \/ after = "close"
    /\ pc = "closeEnqueue" => after = "close"
    /\ pc = "abort" => aborted
    /\ firstErr # "close"

(* Until an error, a worker returns only when sealJobs is drained, the     *)
(* emitter waits only for a block it does not have, and a block that was   *)
(* sent and not written is in the pipeline.                                *)
SealInv ==
    /\ \A w \in Workers : worker[w].state = "failed" => firstErr # "none"
    /\ firstErr = "none" =>
          \A w \in Workers : worker[w].state = "done" => jobs = <<>> /\ jobsClosed
TurnInv == firstErr = "none" /\ emitter \in {"recv", "done", "received"} => Turn = {}
CoverInv ==
    /\ nextEmit \in Nat /\ nextEmit <= nextSeq
    /\ firstErr = "none" => \A k \in Nat : nextEmit <= k /\ k < nextSeq => InPipe(k)

(* The records of each block in the pipeline.                              *)
ChunkInv == \A b \in PipeBlocks : b.recs = Chunk(b.seq)

(* The active buffer takes the records after those sent; only the last     *)
(* block of all may be short.                                              *)
Usable == pc \in {"idle", "take"} /\ ~aborted /\ ~closed
Follows(recs, b) == recs = [i \in 1..Len(recs) |-> b + i]
FillInv ==
    active # <<>> =>
        /\ count = Base(nextSeq) + Len(active[1]) /\ Len(active[1]) <= BlockRecords
        /\ Follows(active[1], Base(nextSeq))
SpillInv ==
    /\ active = <<>> => count <= Base(nextSeq) /\ (Usable => count = Base(nextSeq))
    /\ pc = "enqueue" => Len(active[1]) = BlockRecords
    /\ (pc \in {"workers", "emitted"} /\ after = "close") \/ pc \in Late => count <= Base(nextSeq)
ActiveInv == FillInv /\ SpillInv

(* What was written of the object.                                         *)
Preamble == Piece("preamble", <<1>>)
WroteBlocks(body, n) ==
    /\ Len(body) >= n + 1 /\ body[1] = Preamble
    /\ \A k \in Nat : k < n => body[k + 2] = Piece("block", Chunk(k))
WroteIndex(body, n) ==
    Len(body) >= n + 2 /\ body[n + 2] = Piece("index", [i \in 1..n |-> i + 1])
WroteTrailer(body, n) == Len(body) = n + 3 /\ body[n + 3] = Trailer
Exact(body, n) ==
    WroteBlocks(body, n) /\ WroteIndex(body, n) /\ WroteTrailer(body, n) /\ count <= Base(n)

IndexOK(n) == Len(index) = n /\ \A i \in 1..n : index[i].at = i + 1

EmitInv ==
    /\ ~packer.made => nextEmit = 0
    /\ packer.made => WroteBlocks(packer.body, nextEmit)
    /\ packer.made /\ emitter # "received" => Len(packer.body) = nextEmit + 1
    /\ IndexOK(nextEmit)
CloseInv ==
    /\ pc \in Late => packer.made /\ nextEmit = nextSeq
    /\ pc = "index" => Len(packer.body) = nextEmit + 1
    /\ pc = "trailer" => Len(packer.body) = nextEmit + 2
    /\ pc \in Late \ {"index"} => WroteIndex(packer.body, nextEmit)
    /\ pc \in {"commit", "committing"} => WroteTrailer(packer.body, nextEmit)
BodyInv == EmitInv /\ CloseInv

ObjectInv ==
    object # <<>> => (aborted \/ closed) /\ Len(object) = 1 /\ object[1] \in Seq(PieceType)
                     /\ \E n \in Nat : Exact(object[1], n)

ContentInv ==
    /\ StopInv /\ SealInv /\ TurnInv /\ CoverInv /\ ChunkInv /\ ActiveInv
    /\ BodyInv /\ ObjectInv

-----------------------------------------------------------------------------
(* Arithmetic of the blocks                                                *)

(* Where the blocks begin.                                                 *)
LEMMA Bases ==
    ASSUME NEW k \in Nat
    PROVE  Base(k) \in Nat /\ Base(k + 1) = Base(k) + BlockRecords /\ Base(0) = 0
BY SizeAssumption DEF Base

(* A later block starts no earlier.                                        *)
LEMMA BaseMonotone ==
    ASSUME NEW k \in Nat, NEW m \in Nat, k <= m PROVE Base(k) <= Base(m)
<1>1. PICK d \in Nat : m = k + d
  <2>1. m - k \in Nat /\ m = k + (m - k)
    OBVIOUS
  <2> QED
    BY <2>1
<1>2. m * BlockRecords = k * BlockRecords + d * BlockRecords
  BY <1>1, SizeAssumption
<1>3. d * BlockRecords \in Nat /\ k * BlockRecords \in Nat
  BY SizeAssumption
<1> QED
  BY <1>2, <1>3 DEF Base

(* Accepting a record does not change the blocks that were sent, since     *)
(* all of them are full.                                                   *)
LEMMA ChunkKept ==
    ASSUME TypeInv, count' \in Nat, count' >= count,
           NEW m \in Nat, Base(m) <= count \/ count' = count, NEW k \in Nat, k < m
    PROVE  Chunk(k)' = Chunk(k)
<1>1. count \in Nat
  BY DEF TypeInv
<1>2. CASE count' = count
  BY <1>2 DEF Chunk, Limit, Base
<1>3. CASE Base(m) <= count
  <2>1. k + 1 \in Nat /\ k + 1 <= m
    OBVIOUS
  <2>2. Base(k + 1) <= count /\ Base(k + 1) <= count'
    <3>1. Base(k + 1) <= Base(m) /\ Base(m) \in Nat /\ Base(k + 1) \in Nat
      BY <2>1, BaseMonotone, Bases
    <3> QED
      BY <1>1, <1>3, <3>1
  <2>3. Limit(k) = Base(k + 1) /\ Limit(k)' = Base(k + 1)
    BY <2>2 DEF Limit, Base
  <2> QED
    BY <2>3 DEF Chunk, Base
<1> QED
  BY <1>2, <1>3

(* The records of the active buffer are those of the next block.           *)
LEMMA ActiveChunk ==
    ASSUME TypeInv, ActiveInv, active # <<>> PROVE active[1] = Chunk(nextSeq)
<1> DEFINE l == Len(active[1])
<1>1. /\ count = Base(nextSeq) + l /\ l <= BlockRecords
      /\ active[1] = [i \in 1..l |-> Base(nextSeq) + i]
  BY DEF ActiveInv, FillInv, Follows
<1>2. active[1] \in Recs
  BY ActiveType DEF TypeInv
<1>3. l \in Nat /\ BlockRecords \in Nat
  BY <1>2, SizeAssumption DEF Recs
<1> HIDE DEF l
<1>4. Base(nextSeq) \in Nat /\ Base(nextSeq + 1) = Base(nextSeq) + BlockRecords
  BY Bases DEF TypeInv
<1>5. Limit(nextSeq) = count
  BY <1>1, <1>3, <1>4 DEF Limit
<1>6. Limit(nextSeq) - Base(nextSeq) = l
  BY <1>1, <1>3, <1>4, <1>5
<1> QED
  BY <1>1, <1>6 DEF Chunk

-----------------------------------------------------------------------------
(* What the steps keep of it                                               *)

(* The channels are closed behind the last send.                           *)
LEMMA StopStep ==
    ASSUME IInv, ContentInv, [Next]_vars PROVE StopInv'
<1> USE DEF IInv, ContentInv, TypeInv, CallerInv, QuietInv, StopInv, AllSealed, Over, Late, callerVars, pipeVars, emitVars, errVars, sinkVars, boundVars
<1>1. CASE StartAppend
  BY <1>1 DEF StartAppend, abortWith, setFirstErr, AddRecord, Return, Full, Fault, NoFault
<1>2. CASE StartClose
  BY <1>2 DEF StartClose, abortWith, setFirstErr, NoFault
<1>3. CASE StartAbort
  BY <1>3 DEF StartAbort, setFirstErr, NoFault
<1>4. CASE TakeFreeBuffer
  BY <1>4 DEF TakeFreeBuffer, AddRecord, Return, appendCancellation, abortWith, setFirstErr, NoFault
<1>5. CASE EnqueueActive
  BY <1>5 DEF EnqueueActive, SendJob, Return, appendCancellation, abortWith, setFirstErr, NoFault
<1>6. CASE CloseEnqueue
  BY <1>6 DEF CloseEnqueue, SendJob, abortWith, setFirstErr, NoFault
<1>7. CASE WaitWorkers
  BY <1>7 DEF WaitWorkers
<1>8. CASE WaitEmitter
  BY <1>8 DEF WaitEmitter, abortWith, setFirstErr, NoFault
<1>9. CASE CloseWrite
  BY <1>9 DEF CloseWrite, Written, BlockIndex, Trailer, Piece, abortWith, setFirstErr, Fault, NoFault
<1>10. CASE StartCommit
  BY <1>10 DEF StartCommit, abortWith, setFirstErr
<1>11. CASE Complete
  BY <1>11 DEF Complete, Return, abortWith, setFirstErr, Fault, NoFault
<1>12. CASE AbortPacker
  BY <1>12 DEF AbortPacker, packerAbort, Return, Fault, NoFault
<1>13. ASSUME NEW w \in Workers, Seal(w) PROVE StopInv'
  BY <1>13 DEF Seal, setFirstErr, Fault, NoFault
<1>14. ASSUME NEW w \in Workers, SendSealed(w) PROVE StopInv'
  BY <1>14 DEF SendSealed
<1>15. ASSUME NEW w \in Workers, WorkerExit(w) PROVE StopInv'
  BY <1>15 DEF WorkerExit
<1>16. CASE EmitRecv
  BY <1>16 DEF EmitRecv, returnBuffers, setFirstErr
<1>17. CASE EmitPause
  BY <1>17 DEF EmitPause, returnBuffers
<1>18. CASE EnsurePacker
  BY <1>18 DEF EnsurePacker, EmitFails, returnBuffers, setFirstErr, NoPacker, Piece, Fault, NoFault
<1>19. CASE EmitBlock
  BY <1>19 DEF EmitBlock, EmitFails, returnBuffers, setFirstErr, Written, Piece, Turn, Fault, NoFault
<1>20. CASE EmitEnd
  BY <1>20 DEF EmitEnd, returnBuffers
<1>21. CASE CloseCancellation
  BY <1>21 DEF CloseCancellation, setFirstErr
<1>22. CASE CancelCall
  BY <1>22 DEF CancelCall
<1>23. CASE FreshContext
  BY <1>23 DEF FreshContext
<1>24. CASE UNCHANGED vars
  BY <1>24 DEF vars
<1> QED
  BY <1>1, <1>2, <1>3, <1>4, <1>5, <1>6, <1>7, <1>8, <1>9, <1>10, <1>11, <1>12, <1>13, <1>14, <1>15, <1>16, <1>17, <1>18, <1>19, <1>20, <1>21, <1>22, <1>23, <1>24
  DEF Next, Caller, Worker, Emitter

-----------------------------------------------------------------------------
(* How the blocks move                                                     *)

(* The blocks in the pipeline are blocks that were sent.                   *)
LEMMA PipeTypes ==
    ASSUME TypeInv, OrderInv
    PROVE  \A b \in PipeBlocks : b \in Block /\ b.seq \in Nat /\ b.seq < nextSeq
<1>1. \A i \in DOMAIN jobs : jobs[i] \in Block
  BY DEF TypeInv
<1>2. \A w \in Workers : worker[w].block \in Block
  BY DEF TypeInv, WorkerType
<1>3. \A k \in DOMAIN out : out[k] \in SealedType
  BY DEF TypeInv
<1>4. \A k \in DOMAIN out : out[k].block \in Block
  BY <1>3 DEF SealedType
<1>5. \A b \in PipeBlocks : b \in Block /\ b.seq < nextSeq
  BY <1>1, <1>2, <1>4 DEF TypeInv, OrderInv, PipeBlocks, Queued, Held, Sealed
<1> QED
  BY <1>5 DEF Block

(* What a step does to the pipeline: nothing, it takes the active buffer,  *)
(* a block leaves it for the object, or blocks are dropped after an error. *)
Kept == PipeBlocks' = PipeBlocks /\ UNCHANGED <<nextSeq, nextEmit>>
Sent ==
    /\ PipeBlocks' = PipeBlocks \cup {[seq |-> nextSeq, recs |-> active[1]]}
    /\ active # <<>> /\ nextSeq' = nextSeq + 1 /\ UNCHANGED <<nextEmit, count>>
Emitted ==
    /\ \E b \in PipeBlocks :
          /\ b.seq = nextEmit /\ PipeBlocks' \subseteq PipeBlocks
          /\ PipeBlocks \subseteq PipeBlocks' \cup {b}
    /\ nextEmit' = nextEmit + 1 /\ UNCHANGED <<nextSeq, count>>
Dropped ==
    /\ PipeBlocks' \subseteq PipeBlocks /\ firstErr' # "none"
    /\ UNCHANGED <<nextSeq, nextEmit, count>>

(* SendJob queues the active buffer behind the others.                     *)
LEMMA SendIsSent ==
    ASSUME TypeInv, active # <<>>, SendJob, UNCHANGED <<worker, out, pending, nextEmit, count>>
    PROVE  Sent
<1>1. /\ jobs' = Append(jobs, [seq |-> nextSeq, recs |-> active[1]]) /\ nextSeq' = nextSeq + 1
      /\ [seq |-> nextSeq, recs |-> active[1]] \in Block
  BY SentType
<1> DEFINE x == [seq |-> nextSeq, recs |-> active[1]]
<1>2. jobs \in Seq(Block) /\ x \in Block /\ jobs' = Append(jobs, x)
  BY <1>1 DEF TypeInv
<1> HIDE DEF x
<1>3. Queued' = Queued \cup {x}
  <2>1. DOMAIN jobs = 1..Len(jobs) /\ DOMAIN jobs' = 1..(Len(jobs) + 1) /\ Len(jobs) \in Nat
    BY <1>2
  <2>2. (\A i \in 1..Len(jobs) : jobs'[i] = jobs[i]) /\ jobs'[Len(jobs) + 1] = x
    BY <1>2
  <2>3. \A i \in 1..(Len(jobs) + 1) : i \in 1..Len(jobs) \/ i = Len(jobs) + 1
    BY <2>1
  <2>4. 1..Len(jobs) \subseteq 1..(Len(jobs) + 1) /\ Len(jobs) + 1 \in 1..(Len(jobs) + 1)
    BY <2>1
  <2>5. Queued' \subseteq Queued \cup {x}
    BY <2>1, <2>2, <2>3 DEF Queued
  <2>6. Queued \cup {x} \subseteq Queued'
    BY <2>1, <2>2, <2>4, Zenon DEF Queued
  <2> QED
    BY <2>5, <2>6
<1>4. Held' = Held /\ Sealed' = Sealed
  BY DEF Held, Holds, Sealed
<1>5. PipeBlocks' = PipeBlocks \cup {x}
  BY <1>3, <1>4 DEF PipeBlocks
<1> QED
  BY <1>1, <1>5 DEF Sent, x

(* A worker that takes a job holds it.                                     *)
LEMMA SealKeeps ==
    ASSUME TypeInv, HolderInv, NEW w \in Workers, Seal(w) PROVE Kept
<1>1. /\ jobs' = Tail(jobs) /\ jobs # <<>> /\ UNCHANGED <<nextSeq, nextEmit, out, pending>>
      /\ worker[w].state = "idle"
      /\ \E st \in {"sealed", "failed"} :
            worker' = [worker EXCEPT ![w] = [state |-> st, block |-> Head(jobs)]]
  BY DEF Seal, emitVars, callerVars
<1>2. /\ jobs[1] = Head(jobs) /\ 1 \in DOMAIN jobs
      /\ \A i \in DOMAIN jobs' : jobs'[i] = jobs[i + 1] /\ i + 1 \in DOMAIN jobs
      /\ \A i \in DOMAIN jobs : i # 1 => i - 1 \in DOMAIN jobs' /\ jobs[i] = jobs'[i - 1]
  BY <1>1 DEF TypeInv
<1>3. worker'[w].block = jobs[1] /\ \A v \in Workers \ {w} : worker'[v] = worker[v]
  BY <1>1, <1>2 DEF TypeInv
<1>4. jobs[1] # NoBlock /\ ~Holds(w)
  BY <1>1, <1>2 DEF HolderInv, NoBlock, Holds
<1>5. Held' = Held \cup {jobs[1]}
  BY <1>3, <1>4 DEF Held, Holds
<1>6. Queued = Queued' \cup {jobs[1]}
  <2>1. Queued' \cup {jobs[1]} \subseteq Queued
    BY <1>2 DEF Queued
  <2>2. Queued \subseteq Queued' \cup {jobs[1]}
    BY <1>2 DEF Queued
  <2> QED
    BY <2>1, <2>2
<1>7. Sealed' = Sealed
  BY <1>1 DEF Sealed
<1> QED
  BY <1>1, <1>5, <1>6, <1>7 DEF Kept, PipeBlocks

(* A sealed block goes to sealedOut, or is dropped once the context is     *)
(* cancelled.                                                              *)
LEMMA SendSealedMoves ==
    ASSUME IInv, NEW w \in Workers, SendSealed(w) PROVE (Kept \/ Dropped) /\ count' = count
<1> DEFINE x == [block |-> worker[w].block, ok |-> worker[w].state = "sealed"]
<1>1. /\ UNCHANGED <<jobs, nextSeq, nextEmit, count, pending, firstErr, done>>
      /\ worker'[w].block = NoBlock /\ \A v \in Workers \ {w} : worker'[v] = worker[v]
      /\ out' = Append(out, x) \/ (done /\ out' = out)
      /\ worker[w].state \in {"sealed", "failed"}
  <2>1. /\ UNCHANGED <<jobs, nextSeq, nextEmit, count, pending, firstErr, done>>
        /\ worker[w].state \in {"sealed", "failed"}
    BY DEF SendSealed, callerVars, emitVars, errVars
  <2>2. out' = Append(out, x) \/ (done /\ out' = out)
    BY DEF SendSealed
  <2>3. PICK st : worker' = [worker EXCEPT ![w] = [state |-> st, block |-> NoBlock]]
    BY DEF SendSealed
  <2>4. worker'[w].block = NoBlock /\ \A v \in Workers \ {w} : worker'[v] = worker[v]
    BY <2>3 DEF IInv, TypeInv
  <2> QED
    BY <2>1, <2>2, <2>4
<1>2. Queued' = Queued
  BY <1>1 DEF Queued
<1>3. Holds(w) /\ ~Holds(w)'
  BY <1>1 DEF IInv, HolderInv, Holds
<1>4. Held = Held' \cup {worker[w].block}
  BY <1>1, <1>3 DEF Held, Holds
<1>5. CASE out' = Append(out, x)
  <2>1. out \in Seq(SealedType) /\ x \in SealedType /\ x.block = worker[w].block
    BY DEF IInv, TypeInv, SealedType, WorkerType
  <2> HIDE DEF x, SealedType
  <2>2. DOMAIN out = 1..Len(out) /\ DOMAIN out' = 1..(Len(out) + 1) /\ Len(out) \in Nat
    BY <1>5, <2>1
  <2>3. (\A i \in 1..Len(out) : out'[i] = out[i]) /\ out'[Len(out) + 1] = x
    BY <1>5, <2>1
  <2>4. \A i \in 1..(Len(out) + 1) : i \in 1..Len(out) \/ i = Len(out) + 1
    BY <2>2
  <2>5. 1..Len(out) \subseteq 1..(Len(out) + 1) /\ Len(out) + 1 \in 1..(Len(out) + 1)
    BY <2>2
  <2>6. Sealed' \subseteq Sealed \cup {x.block}
    BY <2>2, <2>3, <2>4 DEF Sealed
  <2>7. Sealed \cup {x.block} \subseteq Sealed'
    BY <2>2, <2>3, <2>5, Zenon DEF Sealed
  <2>8. Sealed' = Sealed \cup {worker[w].block}
    BY <2>1, <2>6, <2>7
  <2> QED
    BY <1>1, <1>2, <1>4, <2>8 DEF Kept, PipeBlocks
<1>6. CASE done /\ out' = out
  <2>1. ~closed
    BY <1>1 DEF IInv, CallerInv, QuietInv, Over, AllSealed
  <2>2. firstErr' # "none"
    BY <1>1, <1>6, <2>1 DEF IInv, QuietInv
  <2>3. Sealed' = Sealed
    BY <1>6 DEF Sealed
  <2> QED
    BY <1>1, <1>2, <1>4, <2>2, <2>3 DEF Dropped, PipeBlocks
<1> QED
  BY <1>1, <1>5, <1>6

(* The emitter takes a result, and keeps it until an error.                *)
LEMMA EmitRecvMoves ==
    ASSUME TypeInv, EmitRecv PROVE (Kept \/ Dropped) /\ count' = count
<1>1. /\ out # <<>> /\ out' = Tail(out) /\ UNCHANGED <<jobs, worker, nextSeq, nextEmit, count>>
      /\ \/ pending' = pending \cup {Head(out).block}
         \/ pending' = pending /\ firstErr' # "none"
  BY DEF EmitRecv, callerVars, setFirstErr, errVars
<1>2. /\ out[1] = Head(out) /\ 1 \in DOMAIN out
      /\ \A i \in DOMAIN out' : out'[i] = out[i + 1] /\ i + 1 \in DOMAIN out
      /\ \A i \in DOMAIN out : i # 1 => i - 1 \in DOMAIN out' /\ out[i] = out'[i - 1]
  BY <1>1 DEF TypeInv
<1>3. Queued' = Queued /\ Held' = Held
  BY <1>1 DEF Queued, Held, Holds
<1>4. Sealed = Sealed' \cup {Head(out).block}
  <2>1. Sealed' \cup {Head(out).block} \subseteq Sealed
    BY <1>2 DEF Sealed
  <2>2. Sealed \subseteq Sealed' \cup {Head(out).block}
    BY <1>2 DEF Sealed
  <2> QED
    BY <2>1, <2>2
<1> QED
  BY <1>1, <1>3, <1>4 DEF Kept, Dropped, PipeBlocks

(* The emitter gives up what it holds only after an error.                 *)
LEMMA PendingMoves ==
    ASSUME UNCHANGED <<jobs, worker, out, nextSeq, nextEmit, count>>,
           pending' = pending \/ (pending' = {} /\ firstErr' # "none")
    PROVE  Kept \/ Dropped
<1>1. Queued' = Queued /\ Held' = Held /\ Sealed' = Sealed
  BY DEF Queued, Held, Holds, Sealed
<1> QED
  BY <1>1 DEF Kept, Dropped, PipeBlocks

(* emitSealed takes the block whose turn it is.                            *)
LEMMA EmitBlockMoves ==
    ASSUME EmitBlock PROVE Kept \/ Dropped \/ Emitted
<1>1. UNCHANGED <<jobs, worker, out, nextSeq, count>>
  BY DEF EmitBlock, callerVars
<1>2. PICK b \in Turn :
        \/ nextEmit' = nextEmit + 1 /\ pending' = pending \ {b}
        \/ pending' = {} /\ firstErr' # "none" /\ UNCHANGED nextEmit
  BY DEF EmitBlock, EmitFails, setFirstErr
<1>3. Queued' = Queued /\ Held' = Held /\ Sealed' = Sealed
  BY <1>1 DEF Queued, Held, Holds, Sealed
<1>4. b \in pending /\ b.seq = nextEmit
  BY DEF Turn
<1>5. CASE nextEmit' = nextEmit + 1 /\ pending' = pending \ {b}
  BY <1>1, <1>3, <1>4, <1>5 DEF Emitted, PipeBlocks
<1>6. CASE pending' = {} /\ firstErr' # "none" /\ UNCHANGED nextEmit
  BY <1>1, <1>6, PendingMoves
<1> QED
  BY <1>2, <1>5, <1>6

(* A record is accepted while all blocks sent are full.                     *)
Added == count' = count + 1 /\ Base(nextSeq) <= count

PipeMoves ==
    \/ Kept /\ (count' = count \/ Added)
    \/ Sent \/ Emitted \/ Dropped

(* Every step moves the blocks in one of these ways.                       *)
LEMMA PipeStep ==
    ASSUME IInv, ContentInv, [Next]_vars PROVE PipeMoves
<1>0. TypeInv /\ CallerInv /\ HolderInv /\ OrderInv /\ ActiveInv
  BY DEF IInv, ContentInv
<1> USE DEF callerVars, pipeVars, emitVars, errVars, sinkVars, boundVars
<1>1. CASE StartAppend
  <2>1. UNCHANGED <<jobs, worker, out, pending, nextSeq, nextEmit>>
    BY <1>1 DEF StartAppend
  <2>2. Kept
    BY <2>1 DEF Kept, PipeMoves, PipeBlocks, Queued, Held, Holds, Sealed
  <2>3. CASE active # <<>> /\ AddRecord(active[1])
    <3>1. count = Base(nextSeq) + Len(active[1]) /\ Len(active[1]) \in Nat
      BY <2>3, <1>0, ActiveType DEF ActiveInv, FillInv, Recs, TypeInv
    <3>2. Base(nextSeq) \in Nat
      BY <1>0, Bases DEF TypeInv
    <3>3. Base(nextSeq) <= count
      BY <3>1, <3>2
    <3> QED
      BY <2>2, <2>3, <3>3 DEF Added, AddRecord, PipeMoves
  <2>4. CASE count' = count
    BY <2>2, <2>4 DEF PipeMoves
  <2> QED
    BY <1>1, <2>3, <2>4 DEF StartAppend
<1>2. CASE StartClose
  <2>1. UNCHANGED <<jobs, worker, out, pending, nextSeq, nextEmit, count>>
    BY <1>2 DEF StartClose
  <2> QED
    BY <2>1 DEF Kept, PipeMoves, PipeBlocks, Queued, Held, Holds, Sealed
<1>3. CASE StartAbort
  <2>1. UNCHANGED <<jobs, worker, out, pending, nextSeq, nextEmit, count>>
    BY <1>3 DEF StartAbort
  <2> QED
    BY <2>1 DEF Kept, PipeMoves, PipeBlocks, Queued, Held, Holds, Sealed
<1>4. CASE TakeFreeBuffer
  <2>1. UNCHANGED <<jobs, worker, out, pending, nextSeq, nextEmit>>
    BY <1>4 DEF TakeFreeBuffer
  <2>2. Kept
    BY <2>1 DEF Kept, PipeMoves, PipeBlocks, Queued, Held, Holds, Sealed
  <2>3. active = <<>> /\ Usable
    BY <1>4, <1>0 DEF TakeFreeBuffer, CallerInv, Usable
  <2>4. count = Base(nextSeq)
    BY <2>3, <1>0 DEF ActiveInv, SpillInv
  <2>5. Base(nextSeq) \in Nat
    BY <1>0, Bases DEF TypeInv
  <2>7. CASE AddRecord(<<>>)
    BY <2>2, <2>4, <2>5, <2>7 DEF Added, AddRecord, PipeMoves
  <2>6. CASE count' = count
    BY <2>2, <2>6 DEF PipeMoves
  <2> QED
    BY <1>4, <2>6, <2>7 DEF TakeFreeBuffer
<1>5. CASE EnqueueActive
  <2>1. UNCHANGED <<worker, out, pending, nextEmit, count>> /\ active # <<>>
    BY <1>5, <1>0 DEF EnqueueActive, CallerInv
  <2>2. CASE SendJob
    BY <2>1, <2>2, <1>0, SendIsSent DEF PipeMoves
  <2>3. CASE UNCHANGED <<jobs, nextSeq>>
    BY <2>1, <2>3 DEF Kept, PipeMoves, PipeBlocks, Queued, Held, Holds, Sealed
  <2> QED
    BY <1>5, <2>2, <2>3 DEF EnqueueActive
<1>6. CASE CloseEnqueue
  <2>1. UNCHANGED <<worker, out, pending, nextEmit, count>> /\ active # <<>>
    BY <1>6, <1>0 DEF CloseEnqueue, CallerInv
  <2>2. CASE SendJob
    BY <2>1, <2>2, <1>0, SendIsSent DEF PipeMoves
  <2>3. CASE UNCHANGED <<jobs, nextSeq>>
    BY <2>1, <2>3 DEF Kept, PipeMoves, PipeBlocks, Queued, Held, Holds, Sealed
  <2> QED
    BY <1>6, <2>2, <2>3 DEF CloseEnqueue
<1>7. CASE WaitWorkers
  <2>1. UNCHANGED <<jobs, worker, out, pending, nextSeq, nextEmit, count>>
    BY <1>7 DEF WaitWorkers
  <2> QED
    BY <2>1 DEF Kept, PipeMoves, PipeBlocks, Queued, Held, Holds, Sealed
<1>8. CASE WaitEmitter
  <2>1. UNCHANGED <<jobs, worker, out, pending, nextSeq, nextEmit, count>>
    BY <1>8 DEF WaitEmitter
  <2> QED
    BY <2>1 DEF Kept, PipeMoves, PipeBlocks, Queued, Held, Holds, Sealed
<1>9. CASE CloseWrite
  <2>1. UNCHANGED <<jobs, worker, out, pending, nextSeq, nextEmit, count>>
    BY <1>9 DEF CloseWrite
  <2> QED
    BY <2>1 DEF Kept, PipeMoves, PipeBlocks, Queued, Held, Holds, Sealed
<1>10. CASE StartCommit
  <2>1. UNCHANGED <<jobs, worker, out, pending, nextSeq, nextEmit, count>>
    BY <1>10 DEF StartCommit
  <2> QED
    BY <2>1 DEF Kept, PipeMoves, PipeBlocks, Queued, Held, Holds, Sealed
<1>11. CASE Complete
  <2>1. UNCHANGED <<jobs, worker, out, pending, nextSeq, nextEmit, count>>
    BY <1>11 DEF Complete
  <2> QED
    BY <2>1 DEF Kept, PipeMoves, PipeBlocks, Queued, Held, Holds, Sealed
<1>12. CASE AbortPacker
  <2>1. UNCHANGED <<jobs, worker, out, pending, nextSeq, nextEmit, count>>
    BY <1>12 DEF AbortPacker
  <2> QED
    BY <2>1 DEF Kept, PipeMoves, PipeBlocks, Queued, Held, Holds, Sealed
<1>13. ASSUME NEW w \in Workers, Seal(w) PROVE PipeMoves
  <2>1. count' = count
    BY <1>13 DEF Seal
  <2> QED
    BY <1>13, <2>1, <1>0, SealKeeps DEF PipeMoves
<1>14. ASSUME NEW w \in Workers, SendSealed(w) PROVE PipeMoves
  BY <1>14, SendSealedMoves DEF PipeMoves
<1>15. ASSUME NEW w \in Workers, WorkerExit(w) PROVE PipeMoves
  <2>1. UNCHANGED <<jobs, out, pending, nextSeq, nextEmit, count>>
    BY <1>15 DEF WorkerExit
  <2>2. \A v \in Workers : worker'[v].block = worker[v].block
    BY <1>15, <1>0 DEF WorkerExit, WorkerType, TypeInv
  <2> QED
    BY <2>1, <2>2 DEF Kept, PipeMoves, PipeBlocks, Queued, Held, Holds, Sealed
<1>16. CASE EmitRecv
  BY <1>16, <1>0, EmitRecvMoves DEF PipeMoves
<1>17. CASE EmitPause
  <2>1. /\ UNCHANGED <<jobs, worker, out, nextSeq, nextEmit, count>>
        /\ pending' = pending \/ (pending' = {} /\ firstErr' # "none")
    BY <1>17 DEF EmitPause
  <2> QED
    BY <2>1, PendingMoves DEF PipeMoves, Kept
<1>18. CASE EnsurePacker
  <2>1. /\ UNCHANGED <<jobs, worker, out, nextSeq, nextEmit, count>>
        /\ pending' = pending \/ (pending' = {} /\ firstErr' # "none")
    BY <1>18 DEF EnsurePacker, EmitFails, setFirstErr
  <2> QED
    BY <2>1, PendingMoves DEF PipeMoves, Kept
<1>19. CASE EmitBlock
  <2>1. count' = count
    BY <1>19 DEF EmitBlock
  <2> QED
    BY <1>19, <2>1, EmitBlockMoves DEF PipeMoves
<1>20. CASE EmitEnd
  <2>1. /\ UNCHANGED <<jobs, worker, out, nextSeq, nextEmit, count>>
        /\ pending' = pending \/ (pending' = {} /\ firstErr' # "none")
    BY <1>20 DEF EmitEnd
  <2> QED
    BY <2>1, PendingMoves DEF PipeMoves, Kept
<1>21. CASE CloseCancellation
  <2>1. UNCHANGED <<jobs, worker, out, pending, nextSeq, nextEmit, count>>
    BY <1>21 DEF CloseCancellation
  <2> QED
    BY <2>1 DEF Kept, PipeMoves, PipeBlocks, Queued, Held, Holds, Sealed
<1>22. CASE CancelCall
  <2>1. UNCHANGED <<jobs, worker, out, pending, nextSeq, nextEmit, count>>
    BY <1>22 DEF CancelCall
  <2> QED
    BY <2>1 DEF Kept, PipeMoves, PipeBlocks, Queued, Held, Holds, Sealed
<1>23. CASE FreshContext
  <2>1. UNCHANGED <<jobs, worker, out, pending, nextSeq, nextEmit, count>>
    BY <1>23 DEF FreshContext
  <2> QED
    BY <2>1 DEF Kept, PipeMoves, PipeBlocks, Queued, Held, Holds, Sealed
<1>24. CASE UNCHANGED vars
  <2>1. UNCHANGED <<jobs, worker, out, pending, nextSeq, nextEmit, count>>
    BY <1>24 DEF vars
  <2> QED
    BY <2>1 DEF Kept, PipeMoves, PipeBlocks, Queued, Held, Holds, Sealed
<1> QED
  BY <1>1, <1>2, <1>3, <1>4, <1>5, <1>6, <1>7, <1>8, <1>9, <1>10, <1>11, <1>12, <1>13, <1>14, <1>15, <1>16, <1>17, <1>18, <1>19, <1>20, <1>21, <1>22, <1>23, <1>24
  DEF Next, Caller, Worker, Emitter

(* No step changes what a sent block holds.                                *)
LEMMA ChunksKept ==
    ASSUME TypeInv, PipeMoves, NEW k \in Nat, k < nextSeq PROVE Chunk(k)' = Chunk(k)
<1>1. count \in Nat /\ nextSeq \in Nat
  BY DEF TypeInv
<1>2. count' = count \/ (count' = count + 1 /\ Base(nextSeq) <= count)
  BY DEF PipeMoves, Added, Sent, Emitted, Dropped
<1>3. count' \in Nat /\ count' >= count
  BY <1>1, <1>2
<1> QED
  BY <1>1, <1>2, <1>3, ChunkKept

(* A block in the pipeline keeps its records.                              *)
LEMMA ChunkStep ==
    ASSUME IInv, ContentInv, [Next]_vars PROVE ChunkInv'
<1>1. TypeInv /\ OrderInv /\ ChunkInv /\ ActiveInv /\ PipeMoves
  BY PipeStep DEF IInv, ContentInv
<1>2. ASSUME NEW b \in PipeBlocks PROVE b.recs = Chunk(b.seq)'
  <2>1. b.seq \in Nat /\ b.seq < nextSeq /\ b.recs = Chunk(b.seq)
    BY <1>1, PipeTypes DEF ChunkInv
  <2> QED
    BY <1>1, <2>1, ChunksKept
<1>3. CASE PipeBlocks' \subseteq PipeBlocks
  BY <1>2, <1>3 DEF ChunkInv
<1>4. CASE Sent
  <2>0. PICK x : x = [seq |-> nextSeq, recs |-> active[1]]
    OBVIOUS
  <2>1. x.recs = Chunk(x.seq) /\ count' = count
    BY <1>1, <1>4, <2>0, ActiveChunk DEF Sent
  <2>2. Chunk(x.seq)' = Chunk(x.seq)
    BY <2>1 DEF Chunk, Limit, Base
  <2>3. PipeBlocks' = PipeBlocks \cup {x}
    BY <1>4, <2>0 DEF Sent
  <2> QED
    BY <1>2, <2>1, <2>2, <2>3 DEF ChunkInv
<1> QED
  BY <1>1, <1>3, <1>4 DEF PipeMoves, Kept, Emitted, Dropped

ErrorKept == firstErr # "none" => firstErr' # "none"

(* The first error stays.                                                  *)
LEMMA ErrorStays ==
    ASSUME IInv, [Next]_vars PROVE ErrorKept
<1> USE DEF ErrorKept, errVars
<1>1. CASE StartAppend
  BY <1>1 DEF StartAppend, abortWith, setFirstErr, AddRecord, Return, Full, Fault, NoFault
<1>2. CASE StartClose
  BY <1>2 DEF StartClose, abortWith, setFirstErr, NoFault
<1>3. CASE StartAbort
  BY <1>3 DEF StartAbort, setFirstErr, NoFault
<1>4. CASE TakeFreeBuffer
  BY <1>4 DEF TakeFreeBuffer, AddRecord, Return, appendCancellation, abortWith, setFirstErr, NoFault
<1>5. CASE EnqueueActive
  BY <1>5 DEF EnqueueActive, SendJob, Return, appendCancellation, abortWith, setFirstErr, NoFault
<1>6. CASE CloseEnqueue
  BY <1>6 DEF CloseEnqueue, SendJob, abortWith, setFirstErr, NoFault
<1>7. CASE WaitWorkers
  BY <1>7 DEF WaitWorkers
<1>8. CASE WaitEmitter
  BY <1>8 DEF WaitEmitter, abortWith, setFirstErr, NoFault
<1>9. CASE CloseWrite
  BY <1>9 DEF CloseWrite, Written, BlockIndex, Trailer, Piece, abortWith, setFirstErr, Fault, NoFault
<1>10. CASE StartCommit
  BY <1>10 DEF StartCommit, abortWith, setFirstErr
<1>11. CASE Complete
  BY <1>11 DEF Complete, Return, abortWith, setFirstErr, Fault, NoFault
<1>12. CASE AbortPacker
  BY <1>12 DEF AbortPacker, packerAbort, Return, Fault, NoFault
<1>13. ASSUME NEW w \in Workers, Seal(w) PROVE ErrorKept
  BY <1>13 DEF Seal, setFirstErr, Fault, NoFault
<1>14. ASSUME NEW w \in Workers, SendSealed(w) PROVE ErrorKept
  BY <1>14 DEF SendSealed
<1>15. ASSUME NEW w \in Workers, WorkerExit(w) PROVE ErrorKept
  BY <1>15 DEF WorkerExit
<1>16. CASE EmitRecv
  BY <1>16 DEF EmitRecv, returnBuffers, setFirstErr
<1>17. CASE EmitPause
  BY <1>17 DEF EmitPause, returnBuffers
<1>18. CASE EnsurePacker
  BY <1>18 DEF EnsurePacker, EmitFails, returnBuffers, setFirstErr, NoPacker, Piece, Fault, NoFault
<1>19. CASE EmitBlock
  BY <1>19 DEF EmitBlock, EmitFails, returnBuffers, setFirstErr, Written, Piece, Turn, Fault, NoFault
<1>20. CASE EmitEnd
  BY <1>20 DEF EmitEnd, returnBuffers
<1>21. CASE CloseCancellation
  BY <1>21 DEF CloseCancellation, setFirstErr
<1>22. CASE CancelCall
  BY <1>22 DEF CancelCall
<1>23. CASE FreshContext
  BY <1>23 DEF FreshContext
<1>24. CASE UNCHANGED vars
  BY <1>24 DEF vars, ErrorKept
<1> QED
  BY <1>1, <1>2, <1>3, <1>4, <1>5, <1>6, <1>7, <1>8, <1>9, <1>10, <1>11, <1>12, <1>13, <1>14, <1>15, <1>16, <1>17, <1>18, <1>19, <1>20, <1>21, <1>22, <1>23, <1>24
  DEF Next, Caller, Worker, Emitter

(* Until an error no block is lost.                                        *)
LEMMA CoverStep ==
    ASSUME IInv, ContentInv, [Next]_vars
    PROVE  CoverInv'
<1>1. TypeInv /\ OrderInv /\ CoverInv /\ PipeMoves /\ ErrorKept
  BY PipeStep, ErrorStays DEF IInv, ContentInv
<1>2. nextEmit \in Nat /\ nextSeq \in Nat /\ nextEmit <= nextSeq
  BY <1>1 DEF TypeInv, CoverInv
<1>3. firstErr' = "none" => \A k \in Nat : nextEmit <= k /\ k < nextSeq => InPipe(k)
  BY <1>1 DEF CoverInv, ErrorKept
<1>0. SUFFICES /\ nextEmit' \in Nat /\ nextEmit' <= nextSeq'
               /\ firstErr' = "none" =>
                     \A k \in Nat : nextEmit' <= k /\ k < nextSeq' => InPipe(k)'
  BY DEF CoverInv
<1>4. CASE Kept
  BY <1>2, <1>3, <1>4 DEF Kept, InPipe
<1>5. CASE Sent
  <2>0. PICK x : x = [seq |-> nextSeq, recs |-> active[1]]
    OBVIOUS
  <2>1. x.seq = nextSeq /\ PipeBlocks' = PipeBlocks \cup {x}
        /\ nextSeq' = nextSeq + 1 /\ nextEmit' = nextEmit
    BY <1>5, <2>0 DEF Sent
  <2>2. \A k \in Nat : k < nextSeq' => k < nextSeq \/ k = nextSeq
    BY <1>2, <2>1
  <2>3. nextEmit' <= nextSeq'
    BY <1>2, <2>1
  <2>4. \A k : InPipe(k) => InPipe(k)'
    BY <2>1 DEF InPipe
  <2>5. InPipe(x.seq)'
    BY <2>1 DEF InPipe
  <2> QED
    BY <1>2, <1>3, <2>1, <2>2, <2>3, <2>4, <2>5
<1>6. CASE Emitted
  <2>1. PICK b \in PipeBlocks :
          b.seq = nextEmit /\ PipeBlocks \subseteq PipeBlocks' \cup {b}
    BY <1>6 DEF Emitted
  <2>2. nextEmit' = nextEmit + 1 /\ nextSeq' = nextSeq
    BY <1>6 DEF Emitted
  <2>3. nextEmit < nextSeq
    BY <1>1, <2>1, PipeTypes
  <2>4. ASSUME NEW k \in Nat, nextEmit' <= k, k < nextSeq', InPipe(k) PROVE InPipe(k)'
    <3>1. PICK c \in PipeBlocks : c.seq = k
      BY <2>4 DEF InPipe
    <3>2. k # nextEmit
      BY <1>2, <2>2, <2>4
    <3> QED
      BY <2>1, <3>1, <3>2 DEF InPipe
  <2>5. \A k \in Nat : nextEmit' <= k => nextEmit <= k
    BY <1>2, <2>2
  <2> QED
    BY <1>2, <1>3, <2>2, <2>3, <2>4, <2>5
<1>7. CASE Dropped
  BY <1>2, <1>7 DEF Dropped
<1> QED
  BY <1>1, <1>4, <1>5, <1>6, <1>7 DEF PipeMoves

(* A worker that returned early left an error behind.                      *)
LEMMA SealStep ==
    ASSUME IInv, ContentInv, [Next]_vars PROVE SealInv'
<1> USE DEF IInv, ContentInv, TypeInv, CallerInv, QuietInv, StopInv, SealInv, AllSealed, Over, Late, callerVars, pipeVars, emitVars, errVars, sinkVars, boundVars
<1>1. CASE StartAppend
  BY <1>1 DEF StartAppend, abortWith, setFirstErr, AddRecord, Return, Full, Fault, NoFault
<1>2. CASE StartClose
  BY <1>2 DEF StartClose, abortWith, setFirstErr, NoFault
<1>3. CASE StartAbort
  BY <1>3 DEF StartAbort, setFirstErr, NoFault
<1>4. CASE TakeFreeBuffer
  BY <1>4 DEF TakeFreeBuffer, AddRecord, Return, appendCancellation, abortWith, setFirstErr, NoFault
<1>5. CASE EnqueueActive
  <2>1. ~jobsClosed /\ UNCHANGED worker
    BY <1>5 DEF EnqueueActive
  <2>2. firstErr' = "none" => firstErr = "none"
    BY <1>5 DEF EnqueueActive, SendJob, Return, appendCancellation, abortWith, setFirstErr, NoFault
  <2> QED
    BY <2>1, <2>2
<1>6. CASE CloseEnqueue
  <2>1. ~jobsClosed /\ UNCHANGED worker
    BY <1>6 DEF CloseEnqueue
  <2>2. firstErr' = "none" => firstErr = "none"
    BY <1>6 DEF CloseEnqueue, SendJob, abortWith, setFirstErr, NoFault
  <2> QED
    BY <2>1, <2>2
<1>7. CASE WaitWorkers
  BY <1>7 DEF WaitWorkers
<1>8. CASE WaitEmitter
  BY <1>8 DEF WaitEmitter, abortWith, setFirstErr, NoFault
<1>9. CASE CloseWrite
  BY <1>9 DEF CloseWrite, Written, BlockIndex, Trailer, Piece, abortWith, setFirstErr, Fault, NoFault
<1>10. CASE StartCommit
  BY <1>10 DEF StartCommit, abortWith, setFirstErr
<1>11. CASE Complete
  <2>1. UNCHANGED <<worker, jobs, jobsClosed>>
    BY <1>11 DEF Complete, abortWith
  <2>2. firstErr # "none" => firstErr' # "none"
    BY <1>11 DEF Complete, abortWith, setFirstErr
  <2> QED
    BY <2>1, <2>2
<1>12. CASE AbortPacker
  BY <1>12 DEF AbortPacker, packerAbort, Return, Fault, NoFault
<1>13. ASSUME NEW w \in Workers, Seal(w) PROVE SealInv'
  <2>1. jobs # <<>> /\ UNCHANGED jobsClosed
        /\ \/ /\ worker' = [worker EXCEPT ![w] = [state |-> "sealed", block |-> Head(jobs)]]
              /\ UNCHANGED firstErr
           \/ /\ worker' = [worker EXCEPT ![w] = [state |-> "failed", block |-> Head(jobs)]]
              /\ firstErr' # "none"
    BY <1>13 DEF Seal, setFirstErr
  <2>2. worker'[w].state # "done" /\ (worker'[w].state = "failed" => firstErr' # "none")
    BY <2>1
  <2>3. \A v \in Workers : v # w => worker'[v].state = worker[v].state
    BY <2>1
  <2>4. firstErr # "none" => firstErr' # "none"
    BY <2>1
  <2> QED
    BY <2>1, <2>2, <2>3, <2>4
<1>14. ASSUME NEW w \in Workers, SendSealed(w) PROVE SealInv'
  <2>1. /\ UNCHANGED <<jobs, jobsClosed, firstErr>> /\ worker[w].state \in {"sealed", "failed"}
        /\ \/ worker' = [worker EXCEPT ![w] = [state |-> IF @.state = "sealed" THEN "idle" ELSE "done",
                                               block |-> NoBlock]]
           \/ done /\ worker' = [worker EXCEPT ![w] = [state |-> "done", block |-> NoBlock]]
    BY <1>14 DEF SendSealed
  <2>2. worker'[w].state # "failed"
    BY <2>1
  <2>3. \A v \in Workers : v # w => worker'[v].state = worker[v].state
    BY <2>1
  <2>4. ~closed
    BY <2>1
  <2>5. worker'[w].state = "done" => firstErr' # "none"
    BY <2>1, <2>4
  <2> QED
    BY <2>1, <2>2, <2>3, <2>5
<1>15. ASSUME NEW w \in Workers, WorkerExit(w) PROVE SealInv'
  <2>1. UNCHANGED <<jobs, jobsClosed, firstErr>> /\ jobs = <<>> /\ jobsClosed
    BY <1>15 DEF WorkerExit
  <2>2. worker'[w].state = "done" /\ \A v \in Workers : v # w => worker'[v].state = worker[v].state
    BY <1>15 DEF WorkerExit, WorkerType
  <2> QED
    BY <2>1, <2>2
<1>16. CASE EmitRecv
  BY <1>16 DEF EmitRecv, returnBuffers, setFirstErr
<1>17. CASE EmitPause
  BY <1>17 DEF EmitPause, returnBuffers
<1>18. CASE EnsurePacker
  BY <1>18 DEF EnsurePacker, EmitFails, returnBuffers, setFirstErr, NoPacker, Piece, Fault, NoFault
<1>19. CASE EmitBlock
  BY <1>19 DEF EmitBlock, EmitFails, returnBuffers, setFirstErr, Written, Piece, Turn, Fault, NoFault
<1>20. CASE EmitEnd
  BY <1>20 DEF EmitEnd, returnBuffers
<1>21. CASE CloseCancellation
  BY <1>21 DEF CloseCancellation, setFirstErr
<1>22. CASE CancelCall
  BY <1>22 DEF CancelCall
<1>23. CASE FreshContext
  BY <1>23 DEF FreshContext
<1>24. CASE UNCHANGED vars
  BY <1>24 DEF vars
<1> QED
  BY <1>1, <1>2, <1>3, <1>4, <1>5, <1>6, <1>7, <1>8, <1>9, <1>10, <1>11, <1>12, <1>13, <1>14, <1>15, <1>16, <1>17, <1>18, <1>19, <1>20, <1>21, <1>22, <1>23, <1>24
  DEF Next, Caller, Worker, Emitter

(* The emitter waits only while the block whose turn it is has not come.   *)
LEMMA TurnStep ==
    ASSUME IInv, ContentInv, [Next]_vars PROVE TurnInv'
<1>0. TurnInv /\ ErrorKept
  BY ErrorStays DEF ContentInv
<1> USE DEF TurnInv, Turn, ErrorKept, callerVars, pipeVars, emitVars, errVars, sinkVars, boundVars
<1>1. CASE StartAppend
  <2>1. UNCHANGED <<pending, nextEmit, emitter>>
    BY <1>1 DEF StartAppend
  <2> QED
    BY <1>0, <2>1
<1>2. CASE StartClose
  <2>1. UNCHANGED <<pending, nextEmit, emitter>>
    BY <1>2 DEF StartClose
  <2> QED
    BY <1>0, <2>1
<1>3. CASE StartAbort
  <2>1. UNCHANGED <<pending, nextEmit, emitter>>
    BY <1>3 DEF StartAbort
  <2> QED
    BY <1>0, <2>1
<1>4. CASE TakeFreeBuffer
  <2>1. UNCHANGED <<pending, nextEmit, emitter>>
    BY <1>4 DEF TakeFreeBuffer
  <2> QED
    BY <1>0, <2>1
<1>5. CASE EnqueueActive
  <2>1. UNCHANGED <<pending, nextEmit, emitter>>
    BY <1>5 DEF EnqueueActive
  <2> QED
    BY <1>0, <2>1
<1>6. CASE CloseEnqueue
  <2>1. UNCHANGED <<pending, nextEmit, emitter>>
    BY <1>6 DEF CloseEnqueue
  <2> QED
    BY <1>0, <2>1
<1>7. CASE WaitWorkers
  <2>1. UNCHANGED <<pending, nextEmit, emitter>>
    BY <1>7 DEF WaitWorkers
  <2> QED
    BY <1>0, <2>1
<1>8. CASE WaitEmitter
  <2>1. UNCHANGED <<pending, nextEmit>> /\ emitter = "done"
    BY <1>8 DEF WaitEmitter
  <2> QED
    BY <1>0, <2>1
<1>9. CASE CloseWrite
  <2>1. UNCHANGED <<pending, nextEmit, emitter>>
    BY <1>9 DEF CloseWrite
  <2> QED
    BY <1>0, <2>1
<1>10. CASE StartCommit
  <2>1. UNCHANGED <<pending, nextEmit, emitter>>
    BY <1>10 DEF StartCommit
  <2> QED
    BY <1>0, <2>1
<1>11. CASE Complete
  <2>1. UNCHANGED <<pending, nextEmit, emitter>>
    BY <1>11 DEF Complete
  <2> QED
    BY <1>0, <2>1
<1>12. CASE AbortPacker
  <2>1. UNCHANGED <<pending, nextEmit, emitter>>
    BY <1>12 DEF AbortPacker
  <2> QED
    BY <1>0, <2>1
<1>13. ASSUME NEW w \in Workers, Seal(w) PROVE TurnInv'
  <2>1. UNCHANGED <<pending, nextEmit, emitter>>
    BY <1>13 DEF Seal
  <2> QED
    BY <1>0, <2>1
<1>14. ASSUME NEW w \in Workers, SendSealed(w) PROVE TurnInv'
  <2>1. UNCHANGED <<pending, nextEmit, emitter>>
    BY <1>14 DEF SendSealed
  <2> QED
    BY <1>0, <2>1
<1>15. ASSUME NEW w \in Workers, WorkerExit(w) PROVE TurnInv'
  <2>1. UNCHANGED <<pending, nextEmit, emitter>>
    BY <1>15 DEF WorkerExit
  <2> QED
    BY <1>0, <2>1
<1>16. CASE EmitRecv
  <2>1. emitter' = "emit" \/ firstErr' # "none"
    BY <1>16 DEF EmitRecv, setFirstErr
  <2> QED
    BY <2>1
<1>17. CASE EmitPause
  <2>1. firstErr' # "none" \/ (Turn = {} /\ UNCHANGED <<pending, nextEmit>>)
    BY <1>17 DEF EmitPause
  <2> QED
    BY <1>0, <2>1
<1>18. CASE EnsurePacker
  <2>1. emitter' = "emit" \/ firstErr' # "none"
    BY <1>18 DEF EnsurePacker, EmitFails, setFirstErr
  <2> QED
    BY <2>1
<1>19. CASE EmitBlock
  <2>1. emitter' = "emit" \/ firstErr' # "none"
    BY <1>19 DEF EmitBlock, EmitFails, setFirstErr
  <2> QED
    BY <2>1
<1>20. CASE EmitEnd
  <2>1. emitter = "recv" /\ (firstErr' # "none" \/ UNCHANGED <<pending, nextEmit>>)
    BY <1>20 DEF EmitEnd
  <2> QED
    BY <1>0, <2>1
<1>21. CASE CloseCancellation
  <2>1. UNCHANGED <<pending, nextEmit, emitter>>
    BY <1>21 DEF CloseCancellation
  <2> QED
    BY <1>0, <2>1
<1>22. CASE CancelCall
  <2>1. UNCHANGED <<pending, nextEmit, emitter>>
    BY <1>22 DEF CancelCall
  <2> QED
    BY <1>0, <2>1
<1>23. CASE FreshContext
  <2>1. UNCHANGED <<pending, nextEmit, emitter>>
    BY <1>23 DEF FreshContext
  <2> QED
    BY <1>0, <2>1
<1>24. CASE UNCHANGED vars
  <2>1. UNCHANGED <<pending, nextEmit, emitter>>
    BY <1>24 DEF vars
  <2> QED
    BY <1>0, <2>1
<1> QED
  BY <1>1, <1>2, <1>3, <1>4, <1>5, <1>6, <1>7, <1>8, <1>9, <1>10, <1>11, <1>12, <1>13, <1>14, <1>15, <1>16, <1>17, <1>18, <1>19, <1>20, <1>21, <1>22, <1>23, <1>24
  DEF Next, Caller, Worker, Emitter

(* A record goes behind the others of the active buffer.                   *)
LEMMA AddFills ==
    ASSUME NEW recs \in Recs, count \in Nat, nextSeq \in Nat, AddRecord(recs), nextSeq' = nextSeq,
           count = Base(nextSeq) + Len(recs), Len(recs) < BlockRecords,
           Follows(recs, Base(nextSeq))
    PROVE  FillInv' /\ active' # <<>>
<1> DEFINE x == Append(recs, count + 1)
           y == [i \in 1..(Len(recs) + 1) |-> Base(nextSeq) + i]
<1>1. active' = <<x>> /\ count' = count + 1
  BY DEF AddRecord
<1>2. /\ Len(recs) \in Nat /\ recs \in Seq(Nat) /\ Base(nextSeq) \in Nat
      /\ count + 1 \in Nat /\ BlockRecords \in Nat
  <2>1. Base(nextSeq) \in Nat /\ BlockRecords \in Nat
    BY Bases, SizeAssumption
  <2>2. Len(recs) \in Nat /\ recs \in Seq(Nat)
    BY DEF Recs
  <2> QED
    BY <2>1, <2>2
<1>3. x \in Seq(Nat) /\ Len(x) = Len(recs) + 1 /\ x[Len(recs) + 1] = count + 1
      /\ \A i \in 1..Len(recs) : x[i] = recs[i]
  BY <1>2, AppendProperties
<1>4. y \in Seq(Nat) /\ Len(y) = Len(recs) + 1
      /\ \A i \in 1..(Len(recs) + 1) : y[i] = Base(nextSeq) + i
  BY <1>2
<1>5. \A i \in 1..Len(recs) : recs[i] = Base(nextSeq) + i
  BY DEF Follows
<1> HIDE DEF x, y
<1>6. \A i \in 1..(Len(recs) + 1) : x[i] = y[i]
  <2> SUFFICES ASSUME NEW i \in 1..(Len(recs) + 1) PROVE x[i] = y[i]
    OBVIOUS
  <2>1. CASE i = Len(recs) + 1
    <3>1. count + 1 = Base(nextSeq) + (Len(recs) + 1)
      BY <1>2
    <3> QED
      BY <1>3, <1>4, <2>1, <3>1
  <2>2. CASE i # Len(recs) + 1
    <3>1. i \in 1..Len(recs)
      BY <1>2, <2>2
    <3> QED
      BY <1>3, <1>4, <1>5, <3>1
  <2> QED
    BY <2>1, <2>2
<1>7. x = y
  BY <1>3, <1>4, <1>6, SeqEqual
<1>8. active' # <<>> /\ active'[1] = x
  BY <1>1
<1>9. count' = Base(nextSeq) + Len(x) /\ Len(x) <= BlockRecords
  <2>1. Len(x) = Len(recs) + 1
    BY <1>3
  <2>2. \A c, b, l, n, m \in Nat : c = b + l /\ n = l + 1 /\ l < m => c + 1 = b + n /\ n <= m
    OBVIOUS
  <2>3. count + 1 = Base(nextSeq) + Len(x) /\ Len(x) <= BlockRecords
    BY <1>2, <2>1, <2>2
  <2> QED
    BY <1>1, <2>3
<1>10. Follows(x, Base(nextSeq))
  BY <1>3, <1>7 DEF y, Follows
<1>11. Base(nextSeq)' = Base(nextSeq)
  BY DEF Base
<1> QED
  BY <1>8, <1>9, <1>10, <1>11 DEF FillInv

(* Nothing is filled, and nothing spilled, when the buffer does not move.   *)
LEMMA FillKept ==
    ASSUME FillInv, UNCHANGED <<active, count, nextSeq>> PROVE FillInv'
<1>1. Base(nextSeq)' = Base(nextSeq)
  BY DEF Base
<1> QED
  BY <1>1 DEF FillInv

(* The records held for the next block, by a step that adds none.          *)
LEMMA SpillKept ==
    ASSUME SpillInv, UNCHANGED <<active, count, nextSeq>>,
           Usable' /\ active = <<>> => Usable, pc' = "enqueue" => pc = "enqueue" \/ Full,
           \/ (pc \in {"workers", "emitted"} /\ after = "close") \/ pc \in Late
           \/ active = <<>>
           \/ ~((pc \in {"workers", "emitted"} /\ after = "close") \/ pc \in Late)'
    PROVE  SpillInv'
<1>1. Base(nextSeq)' = Base(nextSeq)
  BY DEF Base
<1> QED
  BY <1>1 DEF SpillInv, Full

(* The block that is sent takes all records so far.                        *)
LEMMA SendSpills ==
    ASSUME TypeInv, FillInv, active # <<>>, SendJob, UNCHANGED count
    PROVE  /\ active' = <<>> /\ count' <= Base(nextSeq')
           /\ Len(active[1]) = BlockRecords => count' = Base(nextSeq')
<1>1. active' = <<>> /\ nextSeq' = nextSeq + 1
  BY SentType
<1>2. count = Base(nextSeq) + Len(active[1]) /\ Len(active[1]) <= BlockRecords
  BY DEF FillInv
<1>3. nextSeq \in Nat /\ Len(active[1]) \in Nat
  BY ActiveType DEF TypeInv, Recs
<1>4. Base(nextSeq) \in Nat /\ Base(nextSeq + 1) = Base(nextSeq) + BlockRecords
  BY <1>3, Bases
<1>5. BlockRecords \in Nat
  BY SizeAssumption
<1> QED
  BY <1>1, <1>2, <1>3, <1>4, <1>5

(* The active buffer is filled in order and only the last block is short.  *)
LEMMA ActiveStep ==
    ASSUME IInv, ContentInv, [Next]_vars PROVE ActiveInv'
<1>0. TypeInv /\ CallerInv /\ FillInv /\ SpillInv /\ StopInv
  BY DEF IInv, ContentInv, ActiveInv
<1> USE DEF callerVars, pipeVars, emitVars, errVars, sinkVars, boundVars
<1>1. CASE StartAppend
  <2>1. CASE active # <<>> /\ ~Full /\ AddRecord(active[1]) /\ pc' = "idle"
    <3>1. active[1] \in Recs /\ Len(active[1]) \in Nat
      BY <1>0, <2>1, ActiveType DEF TypeInv, Recs
    <3>2. /\ count = Base(nextSeq) + Len(active[1]) /\ Len(active[1]) <= BlockRecords
          /\ Follows(active[1], Base(nextSeq))
      BY <1>0, <2>1 DEF FillInv
    <3>3. Len(active[1]) < BlockRecords
      BY <2>1, <3>1, <3>2, SizeAssumption DEF Full
    <3>4. nextSeq' = nextSeq /\ count \in Nat /\ nextSeq \in Nat
      BY <1>1, <1>0 DEF StartAppend, TypeInv
    <3>5. FillInv' /\ active' # <<>>
      BY <2>1, <3>1, <3>2, <3>3, <3>4, AddFills
    <3> QED
      BY <2>1, <3>5 DEF ActiveInv, SpillInv, Late
  <2>2. CASE UNCHANGED <<active, count>>
    <3>1. UNCHANGED <<active, count, nextSeq>>
      BY <1>1, <2>2 DEF StartAppend
    <3>2. (Usable' /\ active = <<>> => Usable) /\ (pc' = "enqueue" => Full)
      BY <1>1 DEF StartAppend, Usable, abortWith, Return
    <3>3. ~((pc \in {"workers", "emitted"} /\ after = "close") \/ pc \in Late)'
      BY <1>1, <1>0 DEF StartAppend, abortWith, Return, Late, StopInv
    <3> QED
      BY <1>0, <3>1, <3>2, <3>3, FillKept, SpillKept DEF ActiveInv
  <2> QED
    BY <1>1, <2>1, <2>2 DEF StartAppend, Return
<1>2. CASE StartClose
  <2>1. UNCHANGED <<active, count, nextSeq>>
    BY <1>2 DEF StartClose
  <2>2. (Usable' /\ active = <<>> => Usable) /\ (pc' = "enqueue" => pc = "enqueue")
    BY <1>2, <1>0 DEF StartClose, Usable, abortWith
  <2>3. CASE (pc \in {"workers", "emitted"} /\ after = "close")'
    <3>1. active = <<>> \/ active[1] = <<>>
      BY <1>2, <1>0, <2>3 DEF StartClose, abortWith, StopInv
    <3>2. CASE active = <<>>
      BY <1>0, <2>1, <2>2, <3>2, FillKept, SpillKept DEF ActiveInv
    <3>3. CASE active # <<>>
      <4>1. count <= Base(nextSeq)
        <5>1. Len(active[1]) = 0 /\ count = Base(nextSeq) + Len(active[1])
          BY <1>0, <3>1, <3>3 DEF FillInv
        <5>2. Base(nextSeq) \in Nat
          BY <1>0, Bases DEF TypeInv
        <5> QED
          BY <5>1, <5>2
      <4>2. Base(nextSeq)' = Base(nextSeq)
        BY <2>1 DEF Base
      <4> QED
        BY <1>0, <2>1, <2>3, <3>3, <4>1, <4>2, FillKept DEF ActiveInv, SpillInv
    <3> QED
      BY <3>2, <3>3
  <2>4. CASE ~(pc \in {"workers", "emitted"} /\ after = "close")'
    <3>1. ~((pc \in {"workers", "emitted"} /\ after = "close") \/ pc \in Late)'
      BY <1>2, <1>0, <2>4 DEF StartClose, abortWith, Late, StopInv
    <3> QED
      BY <1>0, <2>1, <2>2, <3>1, FillKept, SpillKept DEF ActiveInv
  <2> QED
    BY <2>3, <2>4
<1>3. CASE StartAbort
  <2>1. UNCHANGED <<active, count, nextSeq>>
    BY <1>3 DEF StartAbort
  <2>2. (Usable' /\ active = <<>> => Usable) /\ (pc' = "enqueue" => pc = "enqueue")
    BY <1>3, <1>0 DEF StartAbort, Usable, CallerInv, StopInv
  <2>3. \/ (pc \in {"workers", "emitted"} /\ after = "close") \/ pc \in Late
        \/ ~((pc \in {"workers", "emitted"} /\ after = "close") \/ pc \in Late)'
    BY <1>3, <1>0 DEF StartAbort, Late, StopInv
  <2> QED
    BY <1>0, <2>1, <2>2, <2>3, FillKept, SpillKept DEF ActiveInv
<1>4. CASE TakeFreeBuffer
  <2>0. nextSeq' = nextSeq /\ count \in Nat /\ nextSeq \in Nat /\ active = <<>> /\ Usable
    BY <1>4, <1>0 DEF TakeFreeBuffer, TypeInv, CallerInv, Usable
  <2>1. CASE AddRecord(<<>>) /\ pc' = "idle"
    <3>1. count = Base(nextSeq)
      BY <1>0, <2>0 DEF SpillInv
    <3>2. PICK r : r = <<>>
      OBVIOUS
    <3>3. r \in Recs /\ Len(r) = 0 /\ Follows(r, Base(nextSeq))
      BY <3>2 DEF Recs, Follows
    <3>4. count = Base(nextSeq) + Len(r) /\ Len(r) < BlockRecords /\ AddRecord(r)
      BY <2>0, <2>1, <3>1, <3>2, <3>3, SizeAssumption
    <3>5. FillInv' /\ active' # <<>>
      BY <2>0, <3>3, <3>4, AddFills
    <3> QED
      BY <2>1, <3>5 DEF ActiveInv, SpillInv, Late
  <2>2. CASE UNCHANGED <<active, count>>
    <3>2. (Usable' /\ active = <<>> => Usable) /\ pc' # "enqueue"
      BY <1>4, <2>0, <2>2 DEF TakeFreeBuffer, appendCancellation, abortWith, Return, AddRecord
    <3>3. ~((pc \in {"workers", "emitted"} /\ after = "close") \/ pc \in Late)'
      BY <1>4, <1>0, <2>0, <2>2 DEF TakeFreeBuffer, appendCancellation, abortWith, Return, AddRecord, Late, StopInv, TypeInv
    <3> QED
      BY <1>0, <2>0, <2>2, <3>2, <3>3, FillKept, SpillKept DEF ActiveInv
  <2> QED
    BY <1>4, <2>1, <2>2 DEF TakeFreeBuffer, Return
<1>5. CASE EnqueueActive
  <2>0. active # <<>> /\ count' = count /\ Len(active[1]) = BlockRecords
    BY <1>5, <1>0 DEF EnqueueActive, CallerInv, SpillInv
  <2>1. CASE SendJob /\ pc' = "take"
    <3>1. active' = <<>> /\ count' <= Base(nextSeq') /\ count' = Base(nextSeq')
      BY <1>0, <2>0, <2>1, SendSpills
    <3> QED
      BY <2>1, <3>1 DEF ActiveInv, FillInv, SpillInv, Late
  <2>2. CASE appendCancellation /\ UNCHANGED <<nextSeq, active>>
    <3>1. pc' # "enqueue"
      BY <2>2 DEF appendCancellation, abortWith, Return
    <3>2. ~((pc \in {"workers", "emitted"} /\ after = "close") \/ pc \in Late)'
      BY <1>0, <2>2 DEF appendCancellation, abortWith, Return, Late, StopInv
    <3> QED
      BY <1>0, <2>0, <2>2, <3>1, <3>2, FillKept, SpillKept DEF ActiveInv
  <2> QED
    BY <1>5, <2>1, <2>2 DEF EnqueueActive
<1>6. CASE CloseEnqueue
  <2>0. active # <<>> /\ count' = count
    BY <1>6, <1>0 DEF CloseEnqueue, CallerInv
  <2>1. CASE SendJob /\ pc' = "workers"
    <3>1. active' = <<>> /\ count' <= Base(nextSeq')
      BY <1>0, <2>0, <2>1, SendSpills
    <3> QED
      BY <2>1, <3>1 DEF ActiveInv, FillInv, SpillInv, Usable
  <2>2. CASE abortWith(IF firstErr # "none" THEN firstErr ELSE "cancel", TRUE) /\ UNCHANGED <<nextSeq, active>>
    <3>1. pc' # "enqueue"
      BY <2>2 DEF abortWith
    <3>2. ~((pc \in {"workers", "emitted"} /\ after = "close") \/ pc \in Late)'
      BY <1>0, <2>2 DEF abortWith, Late, StopInv
    <3> QED
      BY <1>0, <2>0, <2>2, <3>1, <3>2, FillKept, SpillKept DEF ActiveInv
  <2> QED
    BY <1>6, <2>1, <2>2 DEF CloseEnqueue
<1>7. CASE WaitWorkers
  <2>1. UNCHANGED <<active, count, nextSeq>>
    BY <1>7 DEF WaitWorkers
  <2>2. (Usable' /\ active = <<>> => Usable) /\ (pc' = "enqueue" => pc = "enqueue")
    BY <1>7, <1>0 DEF WaitWorkers, Usable, CallerInv, StopInv
  <2>3. \/ (pc \in {"workers", "emitted"} /\ after = "close") \/ pc \in Late
        \/ ~((pc \in {"workers", "emitted"} /\ after = "close") \/ pc \in Late)'
    BY <1>7, <1>0 DEF WaitWorkers, Late, StopInv
  <2> QED
    BY <1>0, <2>1, <2>2, <2>3, FillKept, SpillKept DEF ActiveInv
<1>8. CASE WaitEmitter
  <2>1. UNCHANGED <<active, count, nextSeq>>
    BY <1>8 DEF WaitEmitter
  <2>2. (Usable' /\ active = <<>> => Usable) /\ (pc' = "enqueue" => pc = "enqueue")
    BY <1>8, <1>0 DEF WaitEmitter, abortWith, Usable, CallerInv, StopInv
  <2>3. \/ (pc \in {"workers", "emitted"} /\ after = "close") \/ pc \in Late
        \/ ~((pc \in {"workers", "emitted"} /\ after = "close") \/ pc \in Late)'
    BY <1>8, <1>0 DEF WaitEmitter, abortWith, Late, StopInv
  <2> QED
    BY <1>0, <2>1, <2>2, <2>3, FillKept, SpillKept DEF ActiveInv
<1>9. CASE CloseWrite
  <2>1. UNCHANGED <<active, count, nextSeq>>
    BY <1>9 DEF CloseWrite
  <2>2. (Usable' /\ active = <<>> => Usable) /\ (pc' = "enqueue" => pc = "enqueue")
    BY <1>9, <1>0 DEF CloseWrite, abortWith, Usable, CallerInv, StopInv
  <2>3. \/ (pc \in {"workers", "emitted"} /\ after = "close") \/ pc \in Late
        \/ ~((pc \in {"workers", "emitted"} /\ after = "close") \/ pc \in Late)'
    BY <1>9, <1>0 DEF CloseWrite, abortWith, Late, StopInv
  <2> QED
    BY <1>0, <2>1, <2>2, <2>3, FillKept, SpillKept DEF ActiveInv
<1>10. CASE StartCommit
  <2>1. UNCHANGED <<active, count, nextSeq>>
    BY <1>10 DEF StartCommit
  <2>2. (Usable' /\ active = <<>> => Usable) /\ (pc' = "enqueue" => pc = "enqueue")
    BY <1>10, <1>0 DEF StartCommit, abortWith, Usable, CallerInv, StopInv
  <2>3. \/ (pc \in {"workers", "emitted"} /\ after = "close") \/ pc \in Late
        \/ ~((pc \in {"workers", "emitted"} /\ after = "close") \/ pc \in Late)'
    BY <1>10, <1>0 DEF StartCommit, abortWith, Late, StopInv
  <2> QED
    BY <1>0, <2>1, <2>2, <2>3, FillKept, SpillKept DEF ActiveInv
<1>11. CASE Complete
  <2>1. UNCHANGED <<active, count, nextSeq>>
    BY <1>11 DEF Complete
  <2>2. (Usable' /\ active = <<>> => Usable) /\ (pc' = "enqueue" => pc = "enqueue")
    BY <1>11, <1>0 DEF Complete, abortWith, Return, Usable, CallerInv, StopInv
  <2>3. \/ (pc \in {"workers", "emitted"} /\ after = "close") \/ pc \in Late
        \/ ~((pc \in {"workers", "emitted"} /\ after = "close") \/ pc \in Late)'
    BY <1>11, <1>0 DEF Complete, abortWith, Return, Late, StopInv
  <2> QED
    BY <1>0, <2>1, <2>2, <2>3, FillKept, SpillKept DEF ActiveInv
<1>12. CASE AbortPacker
  <2>1. UNCHANGED <<active, count, nextSeq>>
    BY <1>12 DEF AbortPacker
  <2>2. (Usable' /\ active = <<>> => Usable) /\ (pc' = "enqueue" => pc = "enqueue")
    BY <1>12, <1>0 DEF AbortPacker, Return, Usable, CallerInv, StopInv
  <2>3. \/ (pc \in {"workers", "emitted"} /\ after = "close") \/ pc \in Late
        \/ ~((pc \in {"workers", "emitted"} /\ after = "close") \/ pc \in Late)'
    BY <1>12, <1>0 DEF AbortPacker, Return, Late, StopInv
  <2> QED
    BY <1>0, <2>1, <2>2, <2>3, FillKept, SpillKept DEF ActiveInv
<1>13. ASSUME NEW w \in Workers, Seal(w) PROVE ActiveInv'
  <2>1. UNCHANGED <<active, count, nextSeq, pc, after, aborted, closed>>
    BY <1>13 DEF Seal
  <2>2. (Usable' => Usable) /\ (pc' = "enqueue" => pc = "enqueue")
    BY <2>1 DEF Usable
  <2>3. \/ (pc \in {"workers", "emitted"} /\ after = "close") \/ pc \in Late
        \/ ~((pc \in {"workers", "emitted"} /\ after = "close") \/ pc \in Late)'
    BY <2>1
  <2> QED
    BY <1>0, <2>1, <2>2, <2>3, FillKept, SpillKept DEF ActiveInv
<1>14. ASSUME NEW w \in Workers, SendSealed(w) PROVE ActiveInv'
  <2>1. UNCHANGED <<active, count, nextSeq, pc, after, aborted, closed>>
    BY <1>14 DEF SendSealed
  <2>2. (Usable' => Usable) /\ (pc' = "enqueue" => pc = "enqueue")
    BY <2>1 DEF Usable
  <2>3. \/ (pc \in {"workers", "emitted"} /\ after = "close") \/ pc \in Late
        \/ ~((pc \in {"workers", "emitted"} /\ after = "close") \/ pc \in Late)'
    BY <2>1
  <2> QED
    BY <1>0, <2>1, <2>2, <2>3, FillKept, SpillKept DEF ActiveInv
<1>15. ASSUME NEW w \in Workers, WorkerExit(w) PROVE ActiveInv'
  <2>1. UNCHANGED <<active, count, nextSeq, pc, after, aborted, closed>>
    BY <1>15 DEF WorkerExit
  <2>2. (Usable' => Usable) /\ (pc' = "enqueue" => pc = "enqueue")
    BY <2>1 DEF Usable
  <2>3. \/ (pc \in {"workers", "emitted"} /\ after = "close") \/ pc \in Late
        \/ ~((pc \in {"workers", "emitted"} /\ after = "close") \/ pc \in Late)'
    BY <2>1
  <2> QED
    BY <1>0, <2>1, <2>2, <2>3, FillKept, SpillKept DEF ActiveInv
<1>16. CASE EmitRecv
  <2>1. UNCHANGED <<active, count, nextSeq, pc, after, aborted, closed>>
    BY <1>16 DEF EmitRecv
  <2>2. (Usable' => Usable) /\ (pc' = "enqueue" => pc = "enqueue")
    BY <2>1 DEF Usable
  <2>3. \/ (pc \in {"workers", "emitted"} /\ after = "close") \/ pc \in Late
        \/ ~((pc \in {"workers", "emitted"} /\ after = "close") \/ pc \in Late)'
    BY <2>1
  <2> QED
    BY <1>0, <2>1, <2>2, <2>3, FillKept, SpillKept DEF ActiveInv
<1>17. CASE EmitPause
  <2>1. UNCHANGED <<active, count, nextSeq, pc, after, aborted, closed>>
    BY <1>17 DEF EmitPause
  <2>2. (Usable' => Usable) /\ (pc' = "enqueue" => pc = "enqueue")
    BY <2>1 DEF Usable
  <2>3. \/ (pc \in {"workers", "emitted"} /\ after = "close") \/ pc \in Late
        \/ ~((pc \in {"workers", "emitted"} /\ after = "close") \/ pc \in Late)'
    BY <2>1
  <2> QED
    BY <1>0, <2>1, <2>2, <2>3, FillKept, SpillKept DEF ActiveInv
<1>18. CASE EnsurePacker
  <2>1. UNCHANGED <<active, count, nextSeq, pc, after, aborted, closed>>
    BY <1>18 DEF EnsurePacker
  <2>2. (Usable' => Usable) /\ (pc' = "enqueue" => pc = "enqueue")
    BY <2>1 DEF Usable
  <2>3. \/ (pc \in {"workers", "emitted"} /\ after = "close") \/ pc \in Late
        \/ ~((pc \in {"workers", "emitted"} /\ after = "close") \/ pc \in Late)'
    BY <2>1
  <2> QED
    BY <1>0, <2>1, <2>2, <2>3, FillKept, SpillKept DEF ActiveInv
<1>19. CASE EmitBlock
  <2>1. UNCHANGED <<active, count, nextSeq, pc, after, aborted, closed>>
    BY <1>19 DEF EmitBlock
  <2>2. (Usable' => Usable) /\ (pc' = "enqueue" => pc = "enqueue")
    BY <2>1 DEF Usable
  <2>3. \/ (pc \in {"workers", "emitted"} /\ after = "close") \/ pc \in Late
        \/ ~((pc \in {"workers", "emitted"} /\ after = "close") \/ pc \in Late)'
    BY <2>1
  <2> QED
    BY <1>0, <2>1, <2>2, <2>3, FillKept, SpillKept DEF ActiveInv
<1>20. CASE EmitEnd
  <2>1. UNCHANGED <<active, count, nextSeq, pc, after, aborted, closed>>
    BY <1>20 DEF EmitEnd
  <2>2. (Usable' => Usable) /\ (pc' = "enqueue" => pc = "enqueue")
    BY <2>1 DEF Usable
  <2>3. \/ (pc \in {"workers", "emitted"} /\ after = "close") \/ pc \in Late
        \/ ~((pc \in {"workers", "emitted"} /\ after = "close") \/ pc \in Late)'
    BY <2>1
  <2> QED
    BY <1>0, <2>1, <2>2, <2>3, FillKept, SpillKept DEF ActiveInv
<1>21. CASE CloseCancellation
  <2>1. UNCHANGED <<active, count, nextSeq, pc, after, aborted, closed>>
    BY <1>21 DEF CloseCancellation
  <2>2. (Usable' => Usable) /\ (pc' = "enqueue" => pc = "enqueue")
    BY <2>1 DEF Usable
  <2>3. \/ (pc \in {"workers", "emitted"} /\ after = "close") \/ pc \in Late
        \/ ~((pc \in {"workers", "emitted"} /\ after = "close") \/ pc \in Late)'
    BY <2>1
  <2> QED
    BY <1>0, <2>1, <2>2, <2>3, FillKept, SpillKept DEF ActiveInv
<1>22. CASE CancelCall
  <2>1. UNCHANGED <<active, count, nextSeq, pc, after, aborted, closed>>
    BY <1>22 DEF CancelCall
  <2>2. (Usable' => Usable) /\ (pc' = "enqueue" => pc = "enqueue")
    BY <2>1 DEF Usable
  <2>3. \/ (pc \in {"workers", "emitted"} /\ after = "close") \/ pc \in Late
        \/ ~((pc \in {"workers", "emitted"} /\ after = "close") \/ pc \in Late)'
    BY <2>1
  <2> QED
    BY <1>0, <2>1, <2>2, <2>3, FillKept, SpillKept DEF ActiveInv
<1>23. CASE FreshContext
  <2>1. UNCHANGED <<active, count, nextSeq, pc, after, aborted, closed>>
    BY <1>23 DEF FreshContext
  <2>2. (Usable' => Usable) /\ (pc' = "enqueue" => pc = "enqueue")
    BY <2>1 DEF Usable
  <2>3. \/ (pc \in {"workers", "emitted"} /\ after = "close") \/ pc \in Late
        \/ ~((pc \in {"workers", "emitted"} /\ after = "close") \/ pc \in Late)'
    BY <2>1
  <2> QED
    BY <1>0, <2>1, <2>2, <2>3, FillKept, SpillKept DEF ActiveInv
<1>24. CASE UNCHANGED vars
  <2>1. UNCHANGED <<active, count, nextSeq, pc, after, aborted, closed>>
    BY <1>24 DEF vars
  <2>2. (Usable' => Usable) /\ (pc' = "enqueue" => pc = "enqueue")
    BY <2>1 DEF Usable
  <2>3. \/ (pc \in {"workers", "emitted"} /\ after = "close") \/ pc \in Late
        \/ ~((pc \in {"workers", "emitted"} /\ after = "close") \/ pc \in Late)'
    BY <2>1
  <2> QED
    BY <1>0, <2>1, <2>2, <2>3, FillKept, SpillKept DEF ActiveInv
<1> QED
  BY <1>1, <1>2, <1>3, <1>4, <1>5, <1>6, <1>7, <1>8, <1>9, <1>10, <1>11, <1>12, <1>13, <1>14, <1>15, <1>16, <1>17, <1>18, <1>19, <1>20, <1>21, <1>22, <1>23, <1>24
  DEF Next, Caller, Worker, Emitter

-----------------------------------------------------------------------------
(* What is written                                                         *)

(* The blocks that were written keep their records.                        *)
LEMMA WroteKept ==
    ASSUME TypeInv, PipeMoves, NEW n \in Nat, n <= nextSeq, NEW b, WroteBlocks(b, n)
    PROVE  WroteBlocks(b, n)'
<1>1. nextSeq \in Nat
  BY DEF TypeInv
<1>2. ASSUME NEW k \in Nat, k < n PROVE Piece("block", Chunk(k))' = Piece("block", Chunk(k))
  <2>1. k < nextSeq
    BY <1>1, <1>2
  <2>2. Chunk(k)' = Chunk(k)
    BY <2>1, ChunksKept
  <2> QED
    BY <2>2 DEF Piece
<1>3. \A k \in Nat : k < n => b[k + 2] = Piece("block", Chunk(k))'
  BY <1>2 DEF WroteBlocks
<1> QED
  BY <1>3 DEF WroteBlocks, Preamble

(* A step that writes nothing.                                             *)
LEMMA BodyKept ==
    ASSUME TypeInv, CoverInv, BodyInv, PipeMoves, packer'.body = packer.body,
           packer'.made = packer.made, UNCHANGED <<nextEmit, index>>,
           emitter' # "received" => emitter # "received",
           pc' \in Late => /\ pc' = pc \/ (pc = "commit" /\ pc' = "committing")
                           /\ UNCHANGED <<nextSeq, count>>
    PROVE  BodyInv'
<1>1. PICK b, n : b = packer.body /\ n = nextEmit
  OBVIOUS
<1>2. n \in Nat /\ n <= nextSeq
  BY <1>1 DEF CoverInv
<1>3. b = packer'.body /\ n = nextEmit'
  BY <1>1
<1>4. IndexOK(n) /\ IndexOK(n)'
  BY <1>1 DEF BodyInv, EmitInv, IndexOK
<1>5. packer.made => WroteBlocks(b, n)'
  BY <1>1, <1>2, WroteKept DEF BodyInv, EmitInv
<1>6. EmitInv'
  BY <1>1, <1>3, <1>4, <1>5 DEF BodyInv, EmitInv
<1>7. ASSUME pc' \in Late PROVE CloseInv'
  <2>1. pc \in Late /\ (pc' = pc \/ (pc = "commit" /\ pc' = "committing")) /\ count' = count
        /\ nextSeq' = nextSeq
    BY <1>7 DEF Late
  <2>2. pc \in Late \ {"index"} => WroteIndex(b, n)
    BY <1>1 DEF BodyInv, CloseInv
  <2>3. pc \in {"commit", "committing"} => WroteTrailer(b, n)
    BY <1>1 DEF BodyInv, CloseInv
  <2>4. WroteTrailer(b, n) => WroteTrailer(b, n)'
    BY <2>1 DEF WroteTrailer, Trailer
  <2>5. WroteIndex(b, n) => WroteIndex(b, n)'
    BY DEF WroteIndex
  <2>6. /\ pc = "index" => Len(b) = n + 1
        /\ pc = "trailer" => Len(b) = n + 2
        /\ packer.made /\ n = nextSeq
    BY <1>1, <2>1 DEF BodyInv, CloseInv
  <2> QED
    BY <1>3, <2>1, <2>2, <2>3, <2>4, <2>5, <2>6 DEF CloseInv, Late
<1>8. ASSUME pc' \notin Late PROVE CloseInv'
  BY <1>8 DEF CloseInv, Late
<1> QED
  BY <1>6, <1>7, <1>8 DEF BodyInv

(* ensurePacker writes the preamble.                                       *)
LEMMA PreambleWritten ==
    ASSUME IInv, ContentInv, EnsurePacker, packer'.body = <<Preamble>>, packer'.made,
           UNCHANGED <<nextEmit, index, pc>>
    PROVE  BodyInv'
<1>1. nextEmit = 0 /\ IndexOK(0)
  BY DEF EnsurePacker, ContentInv, BodyInv, EmitInv
<1>2. pc \notin Late
  BY DEF EnsurePacker, IInv, QuietInv
<1>3. PICK b : b = packer'.body
  OBVIOUS
<1>4. Len(b) = 1 /\ b[1] = Preamble
  BY <1>3
<1>5. WroteBlocks(b, 0)'
  BY <1>4 DEF WroteBlocks, Preamble
<1>6. IndexOK(0)'
  BY <1>1 DEF IndexOK
<1>7. nextEmit' = 0
  BY <1>1
<1>8. EmitInv'
  BY <1>3, <1>4, <1>5, <1>6, <1>7 DEF EmitInv
<1>9. CloseInv'
  BY <1>2 DEF CloseInv, Late
<1> QED
  BY <1>8, <1>9 DEF BodyInv

(* emitSealed writes the next block behind the others, and indexes it.     *)
LEMMA BlockWritten ==
    ASSUME IInv, ContentInv, PipeMoves, EmitBlock, NEW b \in Turn,
           packer' = Written(Piece("block", b.recs)),
           index' = Append(index, [at |-> Len(packer.body) + 1, recs |-> b.recs]),
           nextEmit' = nextEmit + 1
    PROVE  BodyInv'
<1>1. TypeInv /\ OrderInv /\ ChunkInv /\ CoverInv /\ EmitInv
  BY DEF IInv, ContentInv, BodyInv
<1>2. b \in pending /\ b.seq = nextEmit /\ b \in PipeBlocks
  BY DEF Turn, PipeBlocks
<1>3. nextEmit \in Nat /\ nextSeq \in Nat /\ nextEmit < nextSeq /\ nextEmit <= nextSeq
  BY <1>1, <1>2, PipeTypes DEF TypeInv, CoverInv
<1>4. emitter # "received" /\ packer.made /\ UNCHANGED <<pc, nextSeq, count>>
  BY DEF EmitBlock, callerVars
<1>5. pc \notin Late
  BY <1>4 DEF IInv, QuietInv
<1>6. PICK n, s, x, e : /\ n = nextEmit /\ s = packer.body /\ x = Piece("block", b.recs)
                        /\ e = [at |-> Len(packer.body) + 1, recs |-> b.recs]
  OBVIOUS
<1>7. s \in Seq(PieceType) /\ x \in PieceType
  BY <1>1, <1>6, TurnType DEF TypeInv, PackerType
<1>8. Len(s) = n + 1 /\ WroteBlocks(s, n)
  BY <1>1, <1>4, <1>6 DEF EmitInv
<1>9. WroteBlocks(s, n)'
  BY <1>1, <1>3, <1>6, <1>8, WroteKept
<1>10. PICK t : t = Append(s, x)
  OBVIOUS
<1>11. packer'.body = t /\ packer'.made
  BY <1>1, <1>4, <1>6, <1>10 DEF Written, TypeInv, PackerType
<1>12. n \in Nat
  BY <1>3, <1>6
<1>13. /\ Len(t) = n + 2 /\ t[n + 2] = x
       /\ \A i \in 1..(n + 1) : t[i] = s[i]
  <2>1. Len(t) = Len(s) + 1 /\ t[Len(s) + 1] = x /\ \A i \in 1..Len(s) : t[i] = s[i]
    BY <1>7, <1>10, AppendProperties
  <2>2. (n + 1) + 1 = n + 2
    BY <1>12
  <2> QED
    BY <1>8, <2>1, <2>2
<1>14. x = Piece("block", Chunk(n))'
  <2>1. b.recs = Chunk(n)
    BY <1>1, <1>2, <1>6 DEF ChunkInv
  <2>2. Chunk(n)' = Chunk(n)
    BY <1>4 DEF Chunk, Limit, Base
  <2> QED
    BY <1>6, <2>1, <2>2 DEF Piece
<1>15. WroteBlocks(t, n + 1)'
  <2>1. s[1] = Preamble /\ \A k \in Nat : k < n => s[k + 2] = Piece("block", Chunk(k))'
    BY <1>9 DEF WroteBlocks, Preamble
  <2>2. ASSUME NEW k \in Nat, k < n + 1 PROVE t[k + 2] = Piece("block", Chunk(k))'
    <3>1. CASE k = n
      BY <1>13, <1>14, <3>1
    <3>2. CASE k # n
      <4>1. k < n /\ k + 2 \in 1..(n + 1)
        BY <1>12, <2>2, <3>2
      <4> QED
        BY <1>13, <2>1, <4>1
    <3> QED
      BY <3>1, <3>2
  <2>3. 1 \in 1..(n + 1) /\ n + 2 >= (n + 1) + 1
    BY <1>12
  <2>4. t[1] = Preamble /\ Len(t) >= (n + 1) + 1
    BY <1>13, <2>1, <2>3
  <2> QED
    BY <2>2, <2>4 DEF WroteBlocks, Preamble
<1>16. IndexOK(n + 1)'
  <2>1. index \in Seq(EntryType) /\ e \in EntryType /\ e.at = n + 2
    <3>1. b.recs \in Recs
      BY <1>1, TurnType
    <3>2. Len(packer.body) + 1 = n + 2
      BY <1>6, <1>8, <1>12
    <3> QED
      BY <1>1, <1>6, <1>12, <3>1, <3>2 DEF TypeInv, EntryType
  <2>2. IndexOK(n)
    BY <1>1, <1>6 DEF EmitInv
  <2>3. index' = Append(index, e)
    BY <1>6
  <2>4. /\ Len(index') = Len(index) + 1 /\ index'[Len(index) + 1] = e
        /\ \A i \in 1..Len(index) : index'[i] = index[i]
    BY <2>1, <2>3, AppendProperties
  <2>5. Len(index) = n /\ \A i \in 1..n : index[i].at = i + 1
    BY <2>2 DEF IndexOK
  <2>6. ASSUME NEW i \in 1..(n + 1) PROVE index'[i].at = i + 1
    <3>1. CASE i = n + 1
      BY <1>12, <2>1, <2>4, <2>5, <3>1
    <3>2. CASE i # n + 1
      <4>1. i \in 1..n
        BY <1>12, <3>2
      <4> QED
        BY <2>4, <2>5, <4>1
    <3> QED
      BY <3>1, <3>2
  <2> QED
    BY <2>4, <2>5, <2>6 DEF IndexOK
<1>17. nextEmit' = n + 1 /\ Len(packer'.body) = nextEmit' + 1
  BY <1>6, <1>11, <1>12, <1>13
<1>18. EmitInv'
  BY <1>11, <1>15, <1>16, <1>17 DEF EmitInv
<1>19. CloseInv'
  BY <1>4, <1>5 DEF CloseInv, Late
<1> QED
  BY <1>18, <1>19 DEF BodyInv

(* A body that goes on holds the same blocks.                              *)
LEMMA BodyPrefix ==
    ASSUME NEW n \in Nat, NEW s, NEW t, WroteBlocks(s, n)', Len(t) >= n + 1,
           \A i \in 1..(n + 1) : t[i] = s[i]
    PROVE  WroteBlocks(t, n)'
<1>1. \A k \in Nat : k < n => s[k + 2] = Piece("block", Chunk(k))'
  BY DEF WroteBlocks
<1>2. s[1] = Preamble
  BY DEF WroteBlocks, Preamble
<1>3. \A k \in Nat : k < n => k + 2 \in 1..(n + 1)
  OBVIOUS
<1>4. 1 \in 1..(n + 1)
  OBVIOUS
<1>5. \A k \in Nat : k < n => t[k + 2] = Piece("block", Chunk(k))'
  BY <1>1, <1>3
<1>6. t[1] = Preamble
  BY <1>2, <1>4
<1> QED
  BY <1>5, <1>6 DEF WroteBlocks, Preamble

(* The block index points at the blocks; it stands behind them.            *)
LEMMA IndexWritten ==
    ASSUME IInv, ContentInv, PipeMoves, pc = "index", pc' = "trailer", emitter' = emitter,
           packer' = [Written(BlockIndex) EXCEPT !.sealed = TRUE],
           UNCHANGED <<nextEmit, index, nextSeq, count>>
    PROVE  BodyInv'
<1>1. TypeInv /\ EmitInv /\ CloseInv /\ CoverInv
  BY DEF IInv, ContentInv, BodyInv
<1>2. PICK n, s, x : n = nextEmit /\ s = packer.body /\ x = BlockIndex
  OBVIOUS
<1>3. /\ n \in Nat /\ n <= nextSeq /\ n = nextSeq /\ packer.made /\ Len(s) = n + 1 /\ WroteBlocks(s, n)
      /\ s \in Seq(PieceType) /\ x \in PieceType /\ IndexOK(n)
  BY <1>1, <1>2, ClosePieces DEF EmitInv, CloseInv, CoverInv, Late, TypeInv, PackerType
<1>4. PICK t : t = Append(s, x)
  OBVIOUS
<1>5. packer'.body = t /\ packer'.made
  BY <1>1, <1>2, <1>3, <1>4 DEF Written, TypeInv, PackerType
<1>6. Len(t) = n + 2 /\ t[n + 2] = x /\ \A i \in 1..(n + 1) : t[i] = s[i]
  <2>1. Len(t) = Len(s) + 1 /\ t[Len(s) + 1] = x /\ \A i \in 1..Len(s) : t[i] = s[i]
    BY <1>3, <1>4, AppendProperties
  <2>2. (n + 1) + 1 = n + 2
    BY <1>3
  <2> QED
    BY <1>3, <2>1, <2>2
<1>7. x = Piece("index", [i \in 1..n |-> i + 1])
  <2>1. DOMAIN index = 1..n /\ \A i \in 1..n : index[i].at = i + 1
    BY <1>1, <1>3 DEF IndexOK, TypeInv
  <2>2. [i \in DOMAIN index |-> index[i].at] = [i \in 1..n |-> i + 1]
    BY <2>1
  <2> QED
    BY <1>2, <2>2 DEF BlockIndex
<1>8. WroteBlocks(t, n)'
  <2>1. WroteBlocks(s, n)'
    BY <1>1, <1>3, WroteKept
  <2>2. Len(t) >= n + 1
    BY <1>3, <1>6
  <2> QED
    BY <1>3, <1>6, <2>1, <2>2, BodyPrefix
<1>9. WroteIndex(t, n)'
  BY <1>3, <1>6, <1>7 DEF WroteIndex
<1>10. IndexOK(n)'
  BY <1>3 DEF IndexOK
<1>11. nextEmit' = n /\ nextSeq' = n
  BY <1>2, <1>3
<1>12. emitter' = "received"
  BY DEF IInv, QuietInv, Late
<1>13. EmitInv'
  BY <1>5, <1>8, <1>10, <1>11, <1>12 DEF EmitInv
<1>14. CloseInv'
  BY <1>5, <1>6, <1>9, <1>11 DEF CloseInv, Late
<1> QED
  BY <1>13, <1>14 DEF BodyInv

(* The trailer stands behind the index.                                    *)
LEMMA TrailerWritten ==
    ASSUME IInv, ContentInv, PipeMoves, pc = "trailer", pc' = "commit", emitter' = emitter,
           packer' = Written(Trailer), UNCHANGED <<nextEmit, index, nextSeq, count>>
    PROVE  BodyInv'
<1>1. TypeInv /\ EmitInv /\ CloseInv /\ CoverInv
  BY DEF IInv, ContentInv, BodyInv
<1>2. PICK n, s, x : n = nextEmit /\ s = packer.body /\ x = Trailer
  OBVIOUS
<1>3. /\ n \in Nat /\ n <= nextSeq /\ n = nextSeq /\ packer.made /\ Len(s) = n + 2 /\ WroteBlocks(s, n)
      /\ s \in Seq(PieceType) /\ x \in PieceType /\ IndexOK(n) /\ WroteIndex(s, n)
  BY <1>1, <1>2, ClosePieces DEF EmitInv, CloseInv, CoverInv, Late, TypeInv, PackerType
<1>4. PICK t : t = Append(s, x)
  OBVIOUS
<1>5. packer'.body = t /\ packer'.made
  BY <1>1, <1>2, <1>3, <1>4 DEF Written, TypeInv, PackerType
<1>6. Len(t) = n + 3 /\ t[n + 3] = x /\ \A i \in 1..(n + 2) : t[i] = s[i]
  <2>1. Len(t) = Len(s) + 1 /\ t[Len(s) + 1] = x /\ \A i \in 1..Len(s) : t[i] = s[i]
    BY <1>3, <1>4, AppendProperties
  <2>2. (n + 2) + 1 = n + 3
    BY <1>3
  <2> QED
    BY <1>3, <2>1, <2>2
<1>7. x = Trailer'
  BY <1>2 DEF Trailer
<1>8. WroteBlocks(t, n)'
  <2>1. WroteBlocks(s, n)'
    BY <1>1, <1>3, WroteKept
  <2>2. \A i \in 1..(n + 1) : t[i] = s[i]
    BY <1>3, <1>6
  <2>3. Len(t) >= n + 1
    BY <1>3, <1>6
  <2> QED
    BY <1>3, <2>1, <2>2, <2>3, BodyPrefix
<1>9. WroteIndex(t, n)'
  <2>1. n + 2 \in 1..(n + 2) /\ n + 3 >= n + 2
    BY <1>3
  <2>2. t[n + 2] = s[n + 2] /\ Len(t) >= n + 2
    BY <1>6, <2>1
  <2> QED
    BY <1>3, <2>2 DEF WroteIndex
<1>10. IndexOK(n)'
  BY <1>3 DEF IndexOK
<1>11. nextEmit' = n /\ nextSeq' = n
  BY <1>2, <1>3
<1>12. emitter' = "received"
  BY DEF IInv, QuietInv, Late
<1>13. EmitInv'
  BY <1>5, <1>8, <1>10, <1>11, <1>12 DEF EmitInv
<1>14. WroteTrailer(t, n)'
  BY <1>6, <1>7 DEF WroteTrailer
<1>15. CloseInv'
  BY <1>5, <1>9, <1>11, <1>14 DEF CloseInv, Late
<1> QED
  BY <1>13, <1>15 DEF BodyInv

(* When the pipeline ended without an error every block was written.       *)
LEMMA AllEmitted ==
    ASSUME IInv, ContentInv, pc = "emitted", emitter = "done", firstErr = "none"
    PROVE  nextEmit = nextSeq
<1>1. StopInv /\ SealInv /\ TurnInv /\ CoverInv /\ TypeInv
  BY DEF IInv, ContentInv
<1>2. AllSealed /\ out = <<>> /\ Turn = {}
  BY <1>1 DEF IInv, QuietInv, StopInv, TurnInv
<1>3. jobs = <<>>
  BY <1>1, <1>2, WorkersAssumption DEF AllSealed, SealInv
<1>4. \A w \in Workers : ~Holds(w)
  BY <1>2 DEF IInv, HolderInv, Holds, AllSealed
<1>5. PipeBlocks = pending
  BY <1>2, <1>3, <1>4 DEF PipeBlocks, Queued, Held, Sealed
<1>6. ~InPipe(nextEmit)
  BY <1>2, <1>5 DEF InPipe, Turn
<1>7. nextEmit \in Nat /\ nextSeq \in Nat /\ nextEmit <= nextSeq
  BY <1>1 DEF CoverInv, TypeInv
<1>8. ~(nextEmit < nextSeq)
  BY <1>1, <1>6, <1>7 DEF CoverInv
<1> QED
  BY <1>7, <1>8

(* The object is written in order.                                         *)
LEMMA BodyStep ==
    ASSUME IInv, ContentInv, [Next]_vars PROVE BodyInv'
<1>0. TypeInv /\ CoverInv /\ BodyInv /\ PipeMoves
  BY PipeStep DEF IInv, ContentInv
<1> USE DEF callerVars, pipeVars, emitVars, errVars, sinkVars, boundVars
<1>1. CASE StartAppend
  <2>1. UNCHANGED <<packer, nextEmit, index, emitter>>
    BY <1>1 DEF StartAppend
  <2>2. pc' \notin Late
    BY <1>1 DEF StartAppend, abortWith, Return, Late
  <2> QED
    BY <1>0, <2>1, <2>2, BodyKept
<1>2. CASE StartClose
  <2>1. /\ packer'.body = packer.body /\ packer'.made = packer.made
        /\ UNCHANGED <<nextEmit, index, nextSeq, count>>
    BY <1>2, <1>0 DEF StartClose
  <2>2. emitter' # "received" => emitter # "received"
    BY <1>2 DEF StartClose
  <2>3. pc' \in Late => pc' = pc \/ (pc = "commit" /\ pc' = "committing")
    BY <1>2, <1>0 DEF StartClose, abortWith, Late
  <2> QED
    BY <1>0, <2>1, <2>2, <2>3, BodyKept
<1>3. CASE StartAbort
  <2>1. /\ packer'.body = packer.body /\ packer'.made = packer.made
        /\ UNCHANGED <<nextEmit, index, nextSeq, count>>
    BY <1>3, <1>0 DEF StartAbort
  <2>2. emitter' # "received" => emitter # "received"
    BY <1>3 DEF StartAbort
  <2>3. pc' \in Late => pc' = pc \/ (pc = "commit" /\ pc' = "committing")
    BY <1>3, <1>0 DEF StartAbort, Late
  <2> QED
    BY <1>0, <2>1, <2>2, <2>3, BodyKept
<1>4. CASE TakeFreeBuffer
  <2>1. UNCHANGED <<packer, nextEmit, index, emitter>>
    BY <1>4 DEF TakeFreeBuffer
  <2>2. pc' \notin Late
    BY <1>4 DEF TakeFreeBuffer, appendCancellation, abortWith, Return, Late
  <2> QED
    BY <1>0, <2>1, <2>2, BodyKept
<1>5. CASE EnqueueActive
  <2>1. UNCHANGED <<packer, nextEmit, index, emitter>>
    BY <1>5 DEF EnqueueActive
  <2>2. pc' \notin Late
    BY <1>5 DEF EnqueueActive, appendCancellation, abortWith, Return, Late
  <2> QED
    BY <1>0, <2>1, <2>2, BodyKept
<1>6. CASE CloseEnqueue
  <2>1. UNCHANGED <<packer, nextEmit, index, emitter>>
    BY <1>6 DEF CloseEnqueue
  <2>2. pc' \notin Late
    BY <1>6 DEF CloseEnqueue, abortWith, Late
  <2> QED
    BY <1>0, <2>1, <2>2, BodyKept
<1>7. CASE WaitWorkers
  <2>1. /\ packer'.body = packer.body /\ packer'.made = packer.made
        /\ UNCHANGED <<nextEmit, index, nextSeq, count>>
    BY <1>7, <1>0 DEF WaitWorkers
  <2>2. emitter' # "received" => emitter # "received"
    BY <1>7 DEF WaitWorkers
  <2>3. pc' \in Late => pc' = pc \/ (pc = "commit" /\ pc' = "committing")
    BY <1>7, <1>0 DEF WaitWorkers, Late
  <2> QED
    BY <1>0, <2>1, <2>2, <2>3, BodyKept
<1>8. CASE WaitEmitter
  <2>1. UNCHANGED <<packer, nextEmit, index, nextSeq, count>> /\ emitter' = "received"
        /\ emitter = "done" /\ pc = "emitted"
    BY <1>8 DEF WaitEmitter
  <2>2. CASE pc' # "index"
    <3>1. pc' \notin Late
      BY <1>8, <2>2 DEF WaitEmitter, abortWith, Late
    <3> QED
      BY <1>0, <2>1, <3>1, BodyKept
  <2>3. CASE pc' = "index"
    <3>1. firstErr = "none" /\ packer.made
      BY <1>8, <2>3 DEF WaitEmitter, abortWith
    <3>2. nextEmit = nextSeq
      BY <2>1, <3>1, AllEmitted
    <3>3. PICK b, n : b = packer.body /\ n = nextEmit
      OBVIOUS
    <3>4. /\ WroteBlocks(b, n) /\ Len(b) = n + 1 /\ IndexOK(n) /\ n \in Nat /\ n <= nextSeq
      BY <1>0, <2>1, <3>1, <3>3 DEF BodyInv, EmitInv, CoverInv
    <3>5. WroteBlocks(b, n)' /\ IndexOK(n)'
      BY <1>0, <2>1, <3>4, WroteKept DEF IndexOK
    <3>6. EmitInv'
      BY <2>1, <3>1, <3>3, <3>5 DEF EmitInv
    <3>7. CloseInv'
      BY <2>1, <2>3, <3>1, <3>2, <3>3, <3>4 DEF CloseInv, Late
    <3> QED
      BY <3>6, <3>7 DEF BodyInv
  <2> QED
    BY <2>2, <2>3
<1>9. CASE CloseWrite
  <2>1. UNCHANGED <<nextEmit, index, nextSeq, count, emitter>>
    BY <1>9 DEF CloseWrite
  <2>2. CASE pc = "index" /\ pc' = "trailer" /\ packer' = [Written(BlockIndex) EXCEPT !.sealed = TRUE]
    BY <1>0, <2>1, <2>2, IndexWritten
  <2>3. CASE pc = "trailer" /\ pc' = "commit" /\ packer' = Written(Trailer)
    BY <1>0, <2>1, <2>3, TrailerWritten
  <2>4. CASE pc' = "abort" /\ packer' \in {packer, [packer EXCEPT !.failed = TRUE]}
    <3>1. packer'.body = packer.body /\ packer'.made = packer.made /\ pc' \notin Late
      BY <1>0, <2>4 DEF TypeInv, PackerType, Late
    <3> QED
      BY <1>0, <2>1, <3>1, BodyKept
  <2> QED
    BY <1>9, <2>2, <2>3, <2>4 DEF CloseWrite, abortWith
<1>10. CASE StartCommit
  <2>1. /\ packer'.body = packer.body /\ packer'.made = packer.made
        /\ UNCHANGED <<nextEmit, index, nextSeq, count>>
    BY <1>10, <1>0 DEF StartCommit
  <2>2. emitter' # "received" => emitter # "received"
    BY <1>10 DEF StartCommit
  <2>3. pc' \in Late => pc' = pc \/ (pc = "commit" /\ pc' = "committing")
    BY <1>10, <1>0 DEF StartCommit, abortWith, Late
  <2> QED
    BY <1>0, <2>1, <2>2, <2>3, BodyKept
<1>11. CASE Complete
  <2>1. /\ packer'.body = packer.body /\ packer'.made = packer.made
        /\ UNCHANGED <<nextEmit, index, nextSeq, count>>
    BY <1>11, <1>0 DEF Complete, TypeInv, PackerType
  <2>2. emitter' # "received" => emitter # "received"
    BY <1>11 DEF Complete
  <2>3. pc' \in Late => pc' = pc \/ (pc = "commit" /\ pc' = "committing")
    BY <1>11, <1>0 DEF Complete, abortWith, Return, Late
  <2> QED
    BY <1>0, <2>1, <2>2, <2>3, BodyKept
<1>12. CASE AbortPacker
  <2>1. /\ packer'.body = packer.body /\ packer'.made = packer.made
        /\ UNCHANGED <<nextEmit, index, nextSeq, count>>
    BY <1>12, <1>0 DEF AbortPacker, packerAbort, TypeInv, PackerType
  <2>2. emitter' # "received" => emitter # "received"
    BY <1>12 DEF AbortPacker
  <2>3. pc' \in Late => pc' = pc \/ (pc = "commit" /\ pc' = "committing")
    BY <1>12, <1>0 DEF AbortPacker, Return, Late
  <2> QED
    BY <1>0, <2>1, <2>2, <2>3, BodyKept
<1>13. ASSUME NEW w \in Workers, Seal(w) PROVE BodyInv'
  <2>1. /\ packer'.body = packer.body /\ packer'.made = packer.made
        /\ UNCHANGED <<nextEmit, index, nextSeq, count>>
    BY <1>13, <1>0 DEF Seal
  <2>2. emitter' # "received" => emitter # "received"
    BY <1>13 DEF Seal
  <2>3. pc' \in Late => pc' = pc \/ (pc = "commit" /\ pc' = "committing")
    BY <1>13, <1>0 DEF Seal, Late
  <2> QED
    BY <1>0, <2>1, <2>2, <2>3, BodyKept
<1>14. ASSUME NEW w \in Workers, SendSealed(w) PROVE BodyInv'
  <2>1. /\ packer'.body = packer.body /\ packer'.made = packer.made
        /\ UNCHANGED <<nextEmit, index, nextSeq, count>>
    BY <1>14, <1>0 DEF SendSealed
  <2>2. emitter' # "received" => emitter # "received"
    BY <1>14 DEF SendSealed
  <2>3. pc' \in Late => pc' = pc \/ (pc = "commit" /\ pc' = "committing")
    BY <1>14, <1>0 DEF SendSealed, Late
  <2> QED
    BY <1>0, <2>1, <2>2, <2>3, BodyKept
<1>15. ASSUME NEW w \in Workers, WorkerExit(w) PROVE BodyInv'
  <2>1. /\ packer'.body = packer.body /\ packer'.made = packer.made
        /\ UNCHANGED <<nextEmit, index, nextSeq, count>>
    BY <1>15, <1>0 DEF WorkerExit
  <2>2. emitter' # "received" => emitter # "received"
    BY <1>15 DEF WorkerExit
  <2>3. pc' \in Late => pc' = pc \/ (pc = "commit" /\ pc' = "committing")
    BY <1>15, <1>0 DEF WorkerExit, Late
  <2> QED
    BY <1>0, <2>1, <2>2, <2>3, BodyKept
<1>16. CASE EmitRecv
  <2>1. /\ packer'.body = packer.body /\ packer'.made = packer.made
        /\ UNCHANGED <<nextEmit, index, nextSeq, count>>
    BY <1>16, <1>0 DEF EmitRecv
  <2>2. emitter' # "received" => emitter # "received"
    BY <1>16 DEF EmitRecv
  <2>3. pc' \in Late => pc' = pc \/ (pc = "commit" /\ pc' = "committing")
    BY <1>16, <1>0 DEF EmitRecv, Late
  <2> QED
    BY <1>0, <2>1, <2>2, <2>3, BodyKept
<1>17. CASE EmitPause
  <2>1. /\ packer'.body = packer.body /\ packer'.made = packer.made
        /\ UNCHANGED <<nextEmit, index, nextSeq, count>>
    BY <1>17, <1>0 DEF EmitPause
  <2>2. emitter' # "received" => emitter # "received"
    BY <1>17 DEF EmitPause
  <2>3. pc' \in Late => pc' = pc \/ (pc = "commit" /\ pc' = "committing")
    BY <1>17, <1>0 DEF EmitPause, Late
  <2> QED
    BY <1>0, <2>1, <2>2, <2>3, BodyKept
<1>18. CASE EnsurePacker
  <2>1. UNCHANGED <<nextEmit, index, nextSeq, count, pc>>
        /\ emitter' # "received" /\ emitter # "received"
    BY <1>18 DEF EnsurePacker, EmitFails
  <2>2. CASE UNCHANGED packer
    BY <1>0, <2>1, <2>2, BodyKept
  <2>3. CASE packer' = [NoPacker EXCEPT !.made = TRUE, !.body = <<Piece("preamble", <<1>>)>>]
    <3>1. packer'.made /\ packer'.body = <<Preamble>>
      BY <2>3 DEF NoPacker, Preamble
    <3> QED
      BY <1>18, <2>1, <3>1, PreambleWritten
  <2> QED
    BY <1>18, <2>2, <2>3 DEF EnsurePacker
<1>19. CASE EmitBlock
  <2>1. UNCHANGED <<nextSeq, count, pc>> /\ emitter' # "received" /\ emitter # "received"
    BY <1>19 DEF EmitBlock, EmitFails
  <2>2. PICK b \in Turn :
          \/ /\ packer' = Written(Piece("block", b.recs)) /\ nextEmit' = nextEmit + 1
             /\ index' = Append(index, [at |-> Len(packer.body) + 1, recs |-> b.recs])
          \/ packer' \in {packer, [packer EXCEPT !.failed = TRUE]} /\ UNCHANGED <<nextEmit, index>>
    BY <1>19 DEF EmitBlock, EmitFails
  <2>3. CASE /\ packer' = Written(Piece("block", b.recs)) /\ nextEmit' = nextEmit + 1
             /\ index' = Append(index, [at |-> Len(packer.body) + 1, recs |-> b.recs])
    BY <1>19, <1>0, <2>3, BlockWritten
  <2>4. CASE packer' \in {packer, [packer EXCEPT !.failed = TRUE]} /\ UNCHANGED <<nextEmit, index>>
    <3>1. packer'.body = packer.body /\ packer'.made = packer.made
      BY <1>0, <2>4 DEF TypeInv, PackerType
    <3> QED
      BY <1>0, <2>1, <2>4, <3>1, BodyKept
  <2> QED
    BY <2>2, <2>3, <2>4
<1>20. CASE EmitEnd
  <2>1. /\ packer'.body = packer.body /\ packer'.made = packer.made
        /\ UNCHANGED <<nextEmit, index, nextSeq, count>>
    BY <1>20, <1>0 DEF EmitEnd
  <2>2. emitter' # "received" => emitter # "received"
    BY <1>20 DEF EmitEnd
  <2>3. pc' \in Late => pc' = pc \/ (pc = "commit" /\ pc' = "committing")
    BY <1>20, <1>0 DEF EmitEnd, Late
  <2> QED
    BY <1>0, <2>1, <2>2, <2>3, BodyKept
<1>21. CASE CloseCancellation
  <2>1. /\ packer'.body = packer.body /\ packer'.made = packer.made
        /\ UNCHANGED <<nextEmit, index, nextSeq, count>>
    BY <1>21, <1>0 DEF CloseCancellation
  <2>2. emitter' # "received" => emitter # "received"
    BY <1>21 DEF CloseCancellation
  <2>3. pc' \in Late => pc' = pc \/ (pc = "commit" /\ pc' = "committing")
    BY <1>21, <1>0 DEF CloseCancellation, Late
  <2> QED
    BY <1>0, <2>1, <2>2, <2>3, BodyKept
<1>22. CASE CancelCall
  <2>1. /\ packer'.body = packer.body /\ packer'.made = packer.made
        /\ UNCHANGED <<nextEmit, index, nextSeq, count>>
    BY <1>22, <1>0 DEF CancelCall
  <2>2. emitter' # "received" => emitter # "received"
    BY <1>22 DEF CancelCall
  <2>3. pc' \in Late => pc' = pc \/ (pc = "commit" /\ pc' = "committing")
    BY <1>22, <1>0 DEF CancelCall, Late
  <2> QED
    BY <1>0, <2>1, <2>2, <2>3, BodyKept
<1>23. CASE FreshContext
  <2>1. /\ packer'.body = packer.body /\ packer'.made = packer.made
        /\ UNCHANGED <<nextEmit, index, nextSeq, count>>
    BY <1>23, <1>0 DEF FreshContext
  <2>2. emitter' # "received" => emitter # "received"
    BY <1>23 DEF FreshContext
  <2>3. pc' \in Late => pc' = pc \/ (pc = "commit" /\ pc' = "committing")
    BY <1>23, <1>0 DEF FreshContext, Late
  <2> QED
    BY <1>0, <2>1, <2>2, <2>3, BodyKept
<1>24. CASE UNCHANGED vars
  <2>1. /\ packer'.body = packer.body /\ packer'.made = packer.made
        /\ UNCHANGED <<nextEmit, index, nextSeq, count>>
    BY <1>24, <1>0 DEF vars
  <2>2. emitter' # "received" => emitter # "received"
    BY <1>24 DEF vars
  <2>3. pc' \in Late => pc' = pc \/ (pc = "commit" /\ pc' = "committing")
    BY <1>24, <1>0 DEF vars, Late
  <2> QED
    BY <1>0, <2>1, <2>2, <2>3, BodyKept
<1> QED
  BY <1>1, <1>2, <1>3, <1>4, <1>5, <1>6, <1>7, <1>8, <1>9, <1>10, <1>11, <1>12, <1>13, <1>14, <1>15, <1>16, <1>17, <1>18, <1>19, <1>20, <1>21, <1>22, <1>23, <1>24
  DEF Next, Caller, Worker, Emitter

(* A writer that has ended accepts no record and stays ended.              *)
Ended == aborted \/ closed
EndKept == Ended => Ended' /\ count' = count

(* Which every step keeps.                                                 *)
LEMMA EndStep ==
    ASSUME IInv, [Next]_vars PROVE EndKept
<1> USE DEF EndKept, Ended, callerVars, pipeVars, emitVars, errVars, sinkVars, boundVars
<1>1. CASE StartAppend
  BY <1>1 DEF StartAppend
<1>2. CASE StartClose
  BY <1>2 DEF StartClose, abortWith
<1>3. CASE StartAbort
  BY <1>3 DEF StartAbort
<1>4. CASE TakeFreeBuffer
  <2>1. ~Ended
    BY <1>4 DEF TakeFreeBuffer, IInv, CallerInv
  <2> QED
    BY <2>1
<1>5. CASE EnqueueActive
  <2>1. ~Ended
    BY <1>5 DEF EnqueueActive, IInv, CallerInv
  <2> QED
    BY <2>1
<1>6. CASE CloseEnqueue
  <2>1. ~Ended
    BY <1>6 DEF CloseEnqueue, IInv, CallerInv
  <2> QED
    BY <2>1
<1>7. CASE WaitWorkers
  <2>1. UNCHANGED <<aborted, closed, count>>
    BY <1>7 DEF WaitWorkers
  <2> QED
    BY <2>1
<1>8. CASE WaitEmitter
  BY <1>8 DEF WaitEmitter, abortWith
<1>9. CASE CloseWrite
  BY <1>9 DEF CloseWrite, abortWith
<1>10. CASE StartCommit
  BY <1>10 DEF StartCommit, abortWith
<1>11. CASE Complete
  BY <1>11 DEF Complete, abortWith
<1>12. CASE AbortPacker
  <2>1. UNCHANGED <<aborted, closed, count>>
    BY <1>12 DEF AbortPacker
  <2> QED
    BY <2>1
<1>13. ASSUME NEW w \in Workers, Seal(w) PROVE EndKept
  <2>1. UNCHANGED <<aborted, closed, count>>
    BY <1>13 DEF Seal
  <2> QED
    BY <2>1
<1>14. ASSUME NEW w \in Workers, SendSealed(w) PROVE EndKept
  <2>1. UNCHANGED <<aborted, closed, count>>
    BY <1>14 DEF SendSealed
  <2> QED
    BY <2>1
<1>15. ASSUME NEW w \in Workers, WorkerExit(w) PROVE EndKept
  <2>1. UNCHANGED <<aborted, closed, count>>
    BY <1>15 DEF WorkerExit
  <2> QED
    BY <2>1
<1>16. CASE EmitRecv
  <2>1. UNCHANGED <<aborted, closed, count>>
    BY <1>16 DEF EmitRecv
  <2> QED
    BY <2>1
<1>17. CASE EmitPause
  <2>1. UNCHANGED <<aborted, closed, count>>
    BY <1>17 DEF EmitPause
  <2> QED
    BY <2>1
<1>18. CASE EnsurePacker
  <2>1. UNCHANGED <<aborted, closed, count>>
    BY <1>18 DEF EnsurePacker
  <2> QED
    BY <2>1
<1>19. CASE EmitBlock
  <2>1. UNCHANGED <<aborted, closed, count>>
    BY <1>19 DEF EmitBlock
  <2> QED
    BY <2>1
<1>20. CASE EmitEnd
  <2>1. UNCHANGED <<aborted, closed, count>>
    BY <1>20 DEF EmitEnd
  <2> QED
    BY <2>1
<1>21. CASE CloseCancellation
  <2>1. UNCHANGED <<aborted, closed, count>>
    BY <1>21 DEF CloseCancellation
  <2> QED
    BY <2>1
<1>22. CASE CancelCall
  <2>1. UNCHANGED <<aborted, closed, count>>
    BY <1>22 DEF CancelCall
  <2> QED
    BY <2>1
<1>23. CASE FreshContext
  <2>1. UNCHANGED <<aborted, closed, count>>
    BY <1>23 DEF FreshContext
  <2> QED
    BY <2>1
<1>24. CASE UNCHANGED vars
  <2>1. UNCHANGED <<aborted, closed, count>>
    BY <1>24 DEF vars
  <2> QED
    BY <2>1
<1> QED
  BY <1>1, <1>2, <1>3, <1>4, <1>5, <1>6, <1>7, <1>8, <1>9, <1>10, <1>11, <1>12, <1>13, <1>14, <1>15, <1>16, <1>17, <1>18, <1>19, <1>20, <1>21, <1>22, <1>23, <1>24
  DEF Next, Caller, Worker, Emitter

(* An object whose records were all accepted stays exact.                  *)
LEMMA ExactKept ==
    ASSUME NEW b, NEW n \in Nat, Exact(b, n), count' = count PROVE Exact(b, n)'
<1>1. \A k : Chunk(k)' = Chunk(k)
  BY DEF Chunk, Limit, Base
<1>2. WroteBlocks(b, n)'
  BY <1>1 DEF Exact, WroteBlocks, Preamble, Piece
<1>3. WroteIndex(b, n)'
  BY DEF Exact, WroteIndex
<1>4. WroteTrailer(b, n)'
  BY DEF Exact, WroteTrailer, Trailer
<1>5. (count <= Base(n))'
  BY DEF Exact, Base
<1> QED
  BY <1>2, <1>3, <1>4, <1>5 DEF Exact

(* What is committed is exact, and stays so.                               *)
LEMMA ObjectStep ==
    ASSUME IInv, ContentInv, [Next]_vars PROVE ObjectInv'
<1>0. TypeInv /\ ObjectInv /\ EndKept
  BY EndStep DEF IInv, ContentInv
<1>1. CASE object' = object
  <2> SUFFICES ASSUME object # <<>> PROVE ObjectInv'
    BY <1>1 DEF ObjectInv
  <2>0. PICK b : b = object[1]
    OBVIOUS
  <2>1. PICK n \in Nat : b = object[1] /\ Exact(b, n)
    BY <1>0, <2>0 DEF ObjectInv
  <2>2. Ended /\ Len(object) = 1 /\ b \in Seq(PieceType)
    BY <1>0, <2>1 DEF ObjectInv, Ended
  <2>3. Ended' /\ Exact(b, n)'
    BY <1>0, <2>1, <2>2, ExactKept DEF EndKept
  <2> QED
    BY <1>1, <2>1, <2>2, <2>3 DEF ObjectInv, Ended
<1>2. CASE object' # object
  <2>1. Complete
    BY <1>2 DEF Next, Caller, Worker, Emitter, vars, StartAppend, StartClose, StartAbort,
       TakeFreeBuffer, EnqueueActive, CloseEnqueue, WaitWorkers, WaitEmitter, CloseWrite,
       StartCommit, AbortPacker, packerAbort, Seal, SendSealed, WorkerExit, EmitRecv, EmitPause,
       EnsurePacker, EmitBlock, EmitEnd, CloseCancellation, CancelCall, FreshContext, sinkVars
  <2>2. object' = <<packer.body>> /\ (aborted' \/ closed') /\ count' = count /\ pc = "committing"
    BY <1>2, <2>1 DEF Complete, abortWith
  <2>3. PICK b, n : b = packer.body /\ n = nextEmit
    OBVIOUS
  <2>4. n \in Nat /\ Exact(b, n)
    BY <2>2, <2>3 DEF ContentInv, CoverInv, BodyInv, EmitInv, CloseInv, ActiveInv, SpillInv, Late, Exact
  <2>5. Exact(b, n)'
    BY <2>2, <2>4, ExactKept
  <2>6. b \in Seq(PieceType)
    BY <1>0, <2>3 DEF TypeInv, PackerType
  <2>7. Len(object') = 1 /\ object'[1] = b
    BY <2>2, <2>3
  <2> QED
    BY <2>2, <2>4, <2>5, <2>6, <2>7 DEF ObjectInv
<1> QED
  BY <1>1, <1>2

-----------------------------------------------------------------------------
(* What an exact object holds                                              *)

(* The records up to block n, and the blocks before it.                    *)
Upto(m) == [i \in 1..m |-> i]
Reached(n) == IF Base(n) <= count THEN Base(n) ELSE count
First(n) == [i \in 1..n |-> Chunk(i - 1)]

(* The records of a block are a sequence.                                  *)
LEMMA ChunkType ==
    ASSUME count \in Nat, NEW n \in Nat PROVE Chunk(n) \in Seq(Nat) /\ Reached(n) \in Nat
<1>1. Base(n) \in Nat /\ Base(n + 1) \in Nat /\ Base(n + 1) = Base(n) + BlockRecords /\ BlockRecords \in Nat
  BY Bases, SizeAssumption
<1>2. Reached(n) \in Nat
  BY <1>1 DEF Reached
<1> DEFINE l == Limit(n) - Base(n)
           m == IF l >= 0 THEN l ELSE 0
<1>3. l \in Int /\ m \in Nat /\ 1..l = 1..m
  BY <1>1 DEF Limit
<1> HIDE DEF l, m
<1>4. [i \in 1..m |-> Base(n) + i] \in Seq(Nat)
  BY <1>1, <1>3
<1>5. Chunk(n) = [i \in 1..m |-> Base(n) + i]
  BY <1>3 DEF Chunk, l
<1> QED
  BY <1>2, <1>4, <1>5

(* Block n goes on where the blocks before it end.                         *)
LEMMA ChunkExtends ==
    ASSUME count \in Nat, NEW n \in Nat
    PROVE  Upto(Reached(n)) \o Chunk(n) = Upto(Reached(n + 1))
<1>1. Base(n) \in Nat /\ Base(n + 1) \in Nat /\ Base(n + 1) = Base(n) + BlockRecords /\ BlockRecords \in Nat
  BY Bases, SizeAssumption
<1>2. Limit(n) = Reached(n + 1) /\ Reached(n) \in Nat /\ Reached(n + 1) \in Nat
  BY <1>1 DEF Limit, Reached
<1>3. CASE Base(n) <= count
  <2>1. PICK p, q : p = Reached(n) /\ q = Limit(n) - Base(n)
    OBVIOUS
  <2>2. p \in Nat /\ q \in Nat /\ p = Base(n) /\ Reached(n + 1) = p + q
    BY <1>1, <1>2, <1>3, <2>1 DEF Reached
  <2>3. PICK s, t, u : s = [i \in 1..p |-> i] /\ t = [i \in 1..q |-> p + i] /\ u = [i \in 1..(p + q) |-> i]
    OBVIOUS
  <2>4. /\ s \in Seq(Nat) /\ Len(s) = p /\ \A i \in 1..p : s[i] = i
        /\ t \in Seq(Nat) /\ Len(t) = q /\ \A i \in 1..q : t[i] = p + i
        /\ u \in Seq(Nat) /\ Len(u) = p + q /\ \A i \in 1..(p + q) : u[i] = i
    BY <2>2, <2>3
  <2>5. s = Upto(Reached(n)) /\ t = Chunk(n) /\ u = Upto(Reached(n + 1))
    BY <2>1, <2>2, <2>3 DEF Upto, Chunk
  <2>6. /\ s \o t \in Seq(Nat) /\ Len(s \o t) = p + q
        /\ \A i \in 1..(p + q) : (s \o t)[i] = IF i <= p THEN s[i] ELSE t[i - p]
    <3>1. s \in Seq(Nat) /\ t \in Seq(Nat) /\ Len(s) = p /\ Len(t) = q
      BY <2>4
    <3>2. /\ s \o t \in Seq(Nat) /\ Len(s \o t) = Len(s) + Len(t)
          /\ \A i \in 1..(Len(s) + Len(t)) :
               (s \o t)[i] = IF i <= Len(s) THEN s[i] ELSE t[i - Len(s)]
      BY <3>1, ConcatProperties
    <3> QED
      BY <3>1, <3>2
  <2>7. ASSUME NEW i \in 1..(p + q) PROVE (s \o t)[i] = u[i]
    <3>1. CASE i <= p
      <4>1. i \in 1..p
        BY <2>2, <3>1
      <4> QED
        BY <2>4, <2>6, <3>1, <4>1
    <3>2. CASE ~(i <= p)
      <4>1. i - p \in 1..q /\ p + (i - p) = i
        BY <2>2, <3>2
      <4> QED
        BY <2>4, <2>6, <3>2, <4>1
    <3> QED
      BY <3>1, <3>2
  <2>8. s \o t = u
    BY <2>4, <2>6, <2>7, SeqEqual
  <2> QED
    BY <2>5, <2>8
<1>4. CASE ~(Base(n) <= count)
  <2>1. Reached(n) = count /\ Reached(n + 1) = count /\ 1..(Limit(n) - Base(n)) = {}
    BY <1>1, <1>2, <1>4 DEF Reached
  <2>2. Chunk(n) = <<>>
    BY <2>1 DEF Chunk
  <2>3. Upto(count) \in Seq(Nat)
    BY DEF Upto
  <2> QED
    BY <2>1, <2>2, <2>3, ConcatEmptySeq
<1> QED
  BY <1>3, <1>4

(* The blocks hold every record once and in order.                         *)
LEMMA BlocksFlatten ==
    ASSUME count \in Nat, NEW n \in Nat
    PROVE  FlattenSeq(First(n)) = Upto(Reached(n)) /\ First(n) \in Seq(Seq(Nat))
<1>0. ASSUME NEW k \in Nat
      PROVE  /\ First(k) \in Seq(Seq(Nat)) /\ Len(First(k)) = k
             /\ \A i \in 1..k : First(k)[i] = Chunk(i - 1)
  <2>1. \A i \in 1..k : i - 1 \in Nat
    OBVIOUS
  <2>2. \A i \in 1..k : Chunk(i - 1) \in Seq(Nat)
    BY <2>1, ChunkType
  <2> QED
    BY <2>2 DEF First
<1> DEFINE T == {k \in Nat : FlattenSeq(First(k)) = Upto(Reached(k))}
<1>1. 0 \in T
  <2>1. First(0) = <<>> /\ Upto(0) = <<>>
    BY DEF First, Upto
  <2>2. Base(0) = 0
    BY Bases
  <2>3. Reached(0) = 0
    BY <2>2 DEF Reached
  <2> QED
    BY <2>1, <2>3, FlattenEmpty
<1>2. ASSUME NEW k \in Nat, k \in T PROVE k + 1 \in T
  <2>1. Chunk(k) \in Seq(Nat) /\ First(k) \in Seq(Seq(Nat)) /\ Len(First(k)) = k
    BY <1>0, ChunkType
  <2>2. First(k + 1) = Append(First(k), Chunk(k))
    <3>0. PICK m \in Nat : m = k + 1
      OBVIOUS
    <3>1. PICK s, t : s = First(m) /\ t = Append(First(k), Chunk(k))
      OBVIOUS
    <3>2. /\ s \in Seq(Seq(Nat)) /\ Len(s) = m
          /\ \A i \in 1..m : s[i] = Chunk(i - 1)
      BY <1>0, <3>1
    <3>3. /\ t \in Seq(Seq(Nat)) /\ Len(t) = k + 1 /\ t[k + 1] = Chunk(k)
          /\ \A i \in 1..k : t[i] = First(k)[i]
      BY <2>1, <3>1, AppendProperties
    <3>4. ASSUME NEW i \in 1..m PROVE s[i] = t[i]
      <4>1. CASE i = k + 1
        <5>1. i - 1 = k
          BY <4>1
        <5> QED
          BY <3>2, <3>3, <4>1, <5>1
      <4>2. CASE i # k + 1
        <5>1. i \in 1..k
          BY <3>0, <4>2
        <5> QED
          BY <1>0, <3>2, <3>3, <5>1
      <4> QED
        BY <4>1, <4>2
    <3>5. s = t
      BY <3>0, <3>2, <3>3, <3>4, SeqEqual
    <3> QED
      BY <3>0, <3>1, <3>5
  <2>3. FlattenSeq(Append(First(k), Chunk(k))) = FlattenSeq(First(k)) \o Chunk(k)
    BY <2>1, FlattenAppend
  <2>4. FlattenSeq(First(k)) \o Chunk(k) = Upto(Reached(k + 1))
    BY <1>2, ChunkExtends
  <2>5. FlattenSeq(First(k + 1)) = Upto(Reached(k + 1))
    BY <2>2, <2>3, <2>4
  <2>6. PICK m \in Nat : m = k + 1
    OBVIOUS
  <2>7. FlattenSeq(First(m)) = Upto(Reached(m))
    BY <2>5, <2>6
  <2> QED
    BY <2>6, <2>7
<1> HIDE DEF T
<1>3. Nat \subseteq T
  BY <1>1, <1>2, NatSetInduction DEF T
<1> QED
  BY <1>0, <1>3 DEF T

(* An exact body is the segment that was appended.                         *)
LEMMA ExactBlocks ==
    ASSUME NEW b \in Seq(PieceType), NEW n \in Nat, WroteBlocks(b, n), Len(b) = n + 3
    PROVE  /\ Blocks(b) \in Seq(PieceType) /\ Len(Blocks(b)) = n
           /\ \A i \in 1..n : Blocks(b)[i] = Piece("block", Chunk(i - 1))
<1>1. Blocks(b) = SubSeq(b, 2, n + 1)
  <2>1. (n + 3) - 2 = n + 1
    OBVIOUS
  <2> QED
    BY <2>1 DEF Blocks
<1>2. PICK m \in Nat : m = n + 1
  OBVIOUS
<1>3. /\ SubSeq(b, 2, m) \in Seq(PieceType)
      /\ Len(SubSeq(b, 2, m)) = n
      /\ \A i \in 1..n : SubSeq(b, 2, m)[i] = b[i + 1]
  <2>1. 2 \in Nat /\ 2 <= m + 1 /\ m <= Len(b) /\ (\A i \in 2..m : i \in 1..Len(b))
    BY <1>2
  <2>2. SubSeq(b, 2, m) = [i \in 1..(1 + m - 2) |-> b[i + 2 - 1]]
    BY <1>2
  <2>3. 1 + m - 2 = n /\ \A i \in 1..n : i + 2 - 1 = i + 1 /\ i + 1 \in 1..Len(b)
    BY <1>2
  <2>4. \A i \in 1..Len(b) : b[i] \in PieceType
    OBVIOUS
  <2>5. \A i \in 1..n : b[i + 1] \in PieceType
    BY <2>3, <2>4
  <2>6. SubSeq(b, 2, m) = [i \in 1..n |-> b[i + 1]]
    BY <2>2, <2>3
  <2> QED
    BY <2>5, <2>6
<1>4. ASSUME NEW i \in 1..n PROVE b[i + 1] = Piece("block", Chunk(i - 1))
  <2>1. i - 1 \in Nat /\ i - 1 < n /\ (i - 1) + 2 = i + 1
    OBVIOUS
  <2> QED
    BY <2>1 DEF WroteBlocks
<1> QED
  BY <1>1, <1>2, <1>3, <1>4

(* An exact body is a preamble, its blocks, an index and a trailer.        *)
LEMMA ExactKinds ==
    ASSUME NEW b \in Seq(PieceType), NEW n \in Nat, Exact(b, n)
    PROVE  Kinds(b) = <<"preamble">> \o [i \in 1..n |-> "block"] \o <<"index", "trailer">>
<1>1. /\ Len(b) = n + 3 /\ b[1].kind = "preamble" /\ b[n + 2].kind = "index"
      /\ b[n + 3].kind = "trailer"
  BY DEF Exact, WroteBlocks, WroteIndex, WroteTrailer, Preamble, Trailer, Piece
<1> DEFINE K == {"preamble", "block", "index", "trailer"}
<1>2. \A k \in Nat : k < n => b[k + 2].kind = "block"
  <2>1. \A k \in Nat : k < n => b[k + 2] = Piece("block", Chunk(k))
    BY DEF Exact, WroteBlocks
  <2>2. \A k : Piece("block", Chunk(k)).kind = "block"
    BY DEF Piece
  <2> QED
    BY <2>1, <2>2
<1>3. PICK p, q, r, x : /\ p = <<"preamble">> /\ q = [i \in 1..n |-> "block"]
                        /\ r = <<"index", "trailer">> /\ x = Kinds(b)
  OBVIOUS
<1>4. p \in Seq(K) /\ Len(p) = 1 /\ p[1] = "preamble"
  <2>1. <<"preamble">> \in Seq(K) /\ Len(<<"preamble">>) = 1 /\ <<"preamble">>[1] = "preamble"
    OBVIOUS
  <2> QED
    BY <1>3, <2>1
<1>5. q \in Seq(K) /\ Len(q) = n /\ \A i \in 1..n : q[i] = "block"
  <2>1. [i \in 1..n |-> "block"] \in [1..n -> K]
    OBVIOUS
  <2> HIDE DEF K
  <2>2. q \in [1..n -> K]
    BY <1>3, <2>1
  <2>3. \A i \in 1..n : q[i] = "block"
    BY <1>3
  <2> QED
    BY <2>2, <2>3
<1>6. r \in Seq(K) /\ Len(r) = 2 /\ r[1] = "index" /\ r[2] = "trailer"
  <2>1. /\ <<"index", "trailer">> \in Seq(K) /\ Len(<<"index", "trailer">>) = 2
        /\ <<"index", "trailer">>[1] = "index" /\ <<"index", "trailer">>[2] = "trailer"
    OBVIOUS
  <2> QED
    BY <1>3, <2>1
<1> HIDE DEF K
<1>7. PICK y, z : y = p \o q /\ z = y \o r
  OBVIOUS
<1>8. /\ y \in Seq(K) /\ Len(y) = n + 1
      /\ \A i \in 1..(n + 1) : y[i] = IF i <= 1 THEN p[i] ELSE q[i - 1]
  <2>1. /\ p \o q \in Seq(K) /\ Len(p \o q) = Len(p) + Len(q)
        /\ \A i \in 1..(Len(p) + Len(q)) :
             (p \o q)[i] = IF i <= Len(p) THEN p[i] ELSE q[i - Len(p)]
    BY <1>4, <1>5, ConcatProperties
  <2>2. Len(p) + Len(q) = n + 1
    BY <1>4, <1>5
  <2> QED
    BY <1>4, <1>7, <2>1, <2>2
<1>9. /\ z \in Seq(K) /\ Len(z) = n + 3
      /\ \A i \in 1..(n + 3) : z[i] = IF i <= n + 1 THEN y[i] ELSE r[i - (n + 1)]
  <2>1. /\ y \o r \in Seq(K) /\ Len(y \o r) = Len(y) + Len(r)
        /\ \A i \in 1..(Len(y) + Len(r)) :
             (y \o r)[i] = IF i <= Len(y) THEN y[i] ELSE r[i - Len(y)]
    BY <1>6, <1>8, ConcatProperties
  <2>2. Len(y) = n + 1 /\ Len(y) + Len(r) = n + 3
    BY <1>6, <1>8
  <2> QED
    BY <1>7, <2>1, <2>2
<1>10. /\ x \in Seq(K) /\ Len(x) = n + 3 /\ \A i \in 1..(n + 3) : x[i] = b[i].kind
  <2>1. DOMAIN b = 1..(n + 3) /\ \A i \in 1..(n + 3) : b[i] \in PieceType
    BY <1>1
  <2>2. x = [i \in 1..(n + 3) |-> b[i].kind]
    BY <1>3, <2>1 DEF Kinds
  <2>3. \A i \in 1..(n + 3) : b[i].kind \in K
    BY <2>1 DEF PieceType, K
  <2> QED
    BY <2>2, <2>3
<1>11. ASSUME NEW i \in 1..(n + 3) PROVE x[i] = z[i]
  <2>1. CASE i = 1
    <3>1. 1 \in 1..(n + 1) /\ 1 <= n + 1
      OBVIOUS
    <3>2. z[1] = y[1] /\ y[1] = p[1]
      BY <1>8, <1>9, <2>1, <3>1
    <3> QED
      BY <1>1, <1>4, <1>10, <2>1, <3>2
  <2>2. CASE i = n + 2
    <3>1. ~(i <= n + 1) /\ i - (n + 1) = 1
      BY <2>2
    <3> QED
      BY <1>1, <1>6, <1>9, <1>10, <2>2, <3>1
  <2>3. CASE i = n + 3
    <3>1. ~(i <= n + 1) /\ i - (n + 1) = 2
      BY <2>3
    <3> QED
      BY <1>1, <1>6, <1>9, <1>10, <2>3, <3>1
  <2>4. CASE i # 1 /\ i # n + 2 /\ i # n + 3
    <3>1. /\ i \in 1..(n + 1) /\ i <= n + 1 /\ ~(i <= 1) /\ i - 1 \in 1..n
          /\ i - 2 \in Nat /\ i - 2 < n /\ (i - 2) + 2 = i
      BY <2>4
    <3>2. z[i] = "block"
      BY <1>5, <1>8, <1>9, <3>1
    <3>3. x[i] = "block"
      BY <1>2, <1>10, <3>1
    <3> QED
      BY <3>2, <3>3
  <2> QED
    BY <2>1, <2>2, <2>3, <2>4
<1>12. x = z
  BY <1>9, <1>10, <1>11, SeqEqual
<1> QED
  BY <1>3, <1>7, <1>12

(* An exact object is the segment that was appended.                       *)
LEMMA ExactIsCommitted == ASSUME IInv, ContentInv PROVE CommittedIsExact
<1> SUFFICES ASSUME object # <<>> PROVE CommittedIsExact
  BY DEF CommittedIsExact
<1>0. count \in Nat
  BY DEF IInv, TypeInv
<1>1. PICK n \in Nat : Exact(object[1], n)
  BY DEF ContentInv, ObjectInv
<1>2. PICK b : b = object[1]
  OBVIOUS
<1>3. b \in Seq(PieceType) /\ Exact(b, n)
  BY <1>1, <1>2 DEF ContentInv, ObjectInv
<1>4. WroteBlocks(b, n) /\ Len(b) = n + 3
  BY <1>3 DEF Exact, WroteTrailer
<1>5. /\ Blocks(b) \in Seq(PieceType) /\ Len(Blocks(b)) = n
      /\ \A i \in 1..n : Blocks(b)[i] = Piece("block", Chunk(i - 1))
  BY <1>3, <1>4, ExactBlocks
<1>6. Records(Blocks(b)) = FlattenSeq(First(n))
  <2>1. PICK s : s = Blocks(b)
    OBVIOUS
  <2>2. DOMAIN s = 1..n
    BY <1>5, <2>1
  <2>3. \A i \in 1..n : s[i].recs = Chunk(i - 1)
    BY <1>5, <2>1 DEF Piece
  <2>4. [i \in DOMAIN s |-> s[i].recs] = First(n)
    BY <2>2, <2>3 DEF First
  <2> QED
    BY <2>1, <2>4 DEF Records
<1>7. Reached(n) = count
  <2>1. Base(n) \in Nat
    BY Bases
  <2> QED
    BY <1>0, <1>3, <2>1 DEF Exact, Reached
<1>8. Records(Blocks(b)) = [i \in 1..count |-> i]
  BY <1>0, <1>6, <1>7, BlocksFlatten DEF Upto
<1>9. Kinds(b) = <<"preamble">> \o [i \in 1..n |-> "block"] \o <<"index", "trailer">>
  BY <1>3, ExactKinds
<1>10. b[n + 2].recs = [i \in 1..n |-> i + 1]
  BY <1>3 DEF Exact, WroteIndex, Piece
<1>11. b[n + 3].recs = <<count>>
  BY <1>3 DEF Exact, WroteTrailer, Trailer, Piece
<1>12. Len(Blocks(b)) = n
  BY <1>5
<1> QED
  BY <1>2, <1>8, <1>9, <1>10, <1>11, <1>12, Zenon DEF CommittedIsExact

(* The content of the pipeline that New builds.                            *)
LEMMA InitContent == ASSUME Init, TypeInv PROVE ContentInv
<1>1. StopInv /\ SealInv /\ TurnInv
  BY WorkersAssumption DEF Init, StopInv, SealInv, TurnInv, Turn
<1>2. Base(0) = 0 /\ nextSeq = 0 /\ nextEmit = 0 /\ count = 0
  BY Bases DEF Init
<1>3. CoverInv
  BY <1>2 DEF CoverInv
<1>4. PipeBlocks = {}
  BY DEF Init, PipeBlocks, Queued, Held, Sealed, Holds
<1>5. ChunkInv
  BY <1>4 DEF ChunkInv
<1>6. FillInv
  <2>1. active[1] = <<>> /\ Len(active[1]) = 0 /\ 0 <= BlockRecords
    BY SizeAssumption DEF Init
  <2>2. Follows(active[1], Base(0))
    BY <2>1 DEF Follows
  <2> QED
    BY <1>2, <2>1, <2>2 DEF FillInv
<1>7. SpillInv
  BY DEF Init, SpillInv, Late
<1>8. EmitInv
  <2>1. ~packer.made /\ index = <<>>
    BY DEF Init, NoPacker
  <2>2. IndexOK(0)
    BY <2>1 DEF IndexOK
  <2> QED
    BY <1>2, <2>1, <2>2 DEF EmitInv
<1>9. CloseInv
  BY DEF Init, CloseInv, Late
<1>10. ObjectInv
  BY DEF Init, ObjectInv
<1> QED
  BY <1>1, <1>3, <1>5, <1>6, <1>7, <1>8, <1>9, <1>10 DEF ContentInv, ActiveInv, BodyInv

-----------------------------------------------------------------------------
(* Results                                                                 *)

(* The pipeline's inductive invariant holds for every number of workers,   *)
(* buffers, records, faults and cancellations.                             *)
THEOREM PipelineInvariant == Spec => []IInv
<1>1. IInv /\ [Next]_vars => IInv'
  BY TypeStep, CallerStep, QuietStep, TxnStep, HolderStep, OrderStep, ApartStep,
     DurableStep, BufferStep DEF IInv
<1> QED
  BY <1>1, InitIInv, PTL DEF Spec

(* Close never denies a durable object: whatever the workers, the emitter  *)
(* and the cancellation of the call recorded before, the error kept with   *)
(* an object that was committed is the unknown outcome.                    *)
THEOREM DurableIsNeverDenied == Spec => []DurableIsNotDenied
<1>1. IInv => DurableIsNotDenied
  BY DEF IInv
<1> QED
  BY <1>1, PipelineInvariant, PTL

(* A call that ended the writer leaves no goroutine and no transaction     *)
(* behind, and until an error every block buffer is accounted for.         *)
THEOREM PipelineLeaksNothing == Spec => []NothingLeaks
<1>1. IInv => NothingLeaks
  BY DEF IInv, NothingLeaks, NoTxnLeak, QuietInv, TxnInv, Over, AllSealed
<1> QED
  BY <1>1, PipelineInvariant, PTL

(* The object that becomes durable is the segment that was appended:       *)
(* preamble, blocks with every accepted record once and in LSN order       *)
(* although any number of workers seal them out of order, an index that    *)
(* points at each block and a trailer with the count; whatever failed or   *)
(* was cancelled, for every number of workers, buffers and records.        *)
THEOREM CommittedStaysExact == Spec => []CommittedIsExact
<1>1. Init => IInv /\ ContentInv
  BY InitIInv, InitContent DEF IInv
<1>2. IInv /\ ContentInv /\ [Next]_vars => ContentInv'
  BY StopStep, SealStep, TurnStep, CoverStep, ChunkStep, ActiveStep, BodyStep, ObjectStep
  DEF ContentInv
<1>3. IInv /\ ContentInv => CommittedIsExact
  BY ExactIsCommitted
<1> QED
  BY <1>1, <1>2, <1>3, PipelineInvariant, PTL DEF Spec
=============================================================================
