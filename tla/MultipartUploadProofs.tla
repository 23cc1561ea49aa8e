----------------------- MODULE MultipartUploadProofs -----------------------
(***************************************************************************)
(* For every provider and every number of clients, workers, buffers,       *)
(* parts, faults, calls and cancellations the upload stream leaks nothing: *)
(* the leased buffers are the active one, the queued ones and those in     *)
(* flight, and a clean abort leaves nothing staged.  And it implements     *)
(* SinkTxn: the object is the bytes written, and verdicts are true.        *)
(***************************************************************************)
EXTENDS MultipartUpload, DataTheorems

Bytes == Seq(Nat)
Job == [number : Nat, bytes : Bytes]
WorkerType == [pc : {"idle", "put", "failed", "done"}, job : Job]
WriterType == [pc : {"idle", "acquire", "enqueue"}, left : Nat, accepted : BOOLEAN]

(* Where a client holds commitMu, and where it runs the abort.             *)
CommitPcs == {"seal", "flush", "wait", "request", "reconcile", "refused"}
AbortPcs == {"discard", "cleanup", "cleanupWait"}
ClientPcs == {"idle", "commitMu", "waitAbort", "abortDone"} \cup CommitPcs \cup AbortPcs

(* The types the argument needs.                                           *)
TypeInv ==
    /\ provider \in Providers /\ finishing \in {"none", "ok", "err"}
    /\ active \in Bytes /\ Len(active) <= PartSize /\ offset \in Nat /\ nextPart \in Nat
    /\ jobs \in Seq(Job)
    /\ worker \in [Workers -> WorkerType]
    /\ writer \in WriterType
    /\ client \in [Clients -> ClientPcs]

(* The mutexes exclude: one commit at a time, and neither a discard nor a  *)
(* seal while a Write runs.                                                *)
LockInv ==
    /\ \A c \in Clients : client[c] \in CommitPcs => commitMu = c
    /\ \A c \in Clients : client[c] = "flush" => writeMu = c
    /\ writer.pc # "idle" => writeMu = "writer"

(* A Write that waits for a buffer has bytes left, and one that waits for  *)
(* the queue has a part to send.                                           *)
WriterInv ==
    /\ writer.pc = "acquire" => writer.left > 0
    /\ writer.pc = "enqueue" => active # <<>>

(* A commit request is not overtaken by an abort; one client runs the      *)
(* abort, in state aborting, and hands over to finishAbort; an upload that *)
(* aborts is stopped, so that no worker starts another part.               *)
AbortInv ==
    /\ state \in Ended => stopped
    /\ \A c \in Clients : client[c] \in {"request", "reconcile", "refused"} => state = "committing"
    /\ \A c \in Clients : client[c] \in AbortPcs => state = "aborting" /\ finishing = "none"
    /\ \A c, d \in Clients : client[c] \in AbortPcs /\ client[d] \in AbortPcs => c = d
    /\ finishing # "none" => state = "aborting"

(* Once a cleanup succeeded nothing is staged and nothing in flight.       *)
Cleaned == provider # "azure" => staged = {} /\ InFlight = {}
StagingInv ==
    /\ finishing = "ok" => Cleaned
    /\ state = "aborted" /\ ~abortErr => Cleaned

(* The inductive invariant.                                                *)
IInv == TypeInv /\ LockInv /\ WriterInv /\ AbortInv /\ StagingInv /\ BuffersConserved

-----------------------------------------------------------------------------
(* Types and locks                                                         *)

(* A writer between two calls, and no job.                                 *)
LEMMA IdleType == Idle \in WriterType /\ NoJob \in Job
BY DEF Idle, NoJob, WriterType, Job, Bytes

(* SendPart moves the active buffer to the end of the queue.               *)
LEMMA SentType ==
    ASSUME TypeInv, SendPart
    PROVE  /\ jobs' \in Seq(Job) /\ Len(jobs') = Len(jobs) + 1
           /\ active' = <<>> /\ active' \in Bytes
           /\ nextPart' \in Nat
<1>1. [number |-> nextPart, bytes |-> active] \in Job
  BY DEF TypeInv, Job
<1>2. jobs' = Append(jobs, [number |-> nextPart, bytes |-> active])
      /\ active' = <<>> /\ nextPart' = nextPart + 1
  BY DEF SendPart
<1>3. jobs \in Seq(Job) /\ nextPart \in Nat
  BY DEF TypeInv
<1> HIDE DEF Job
<1>4. jobs' \in Seq(Job) /\ Len(jobs') = Len(jobs) + 1
  BY <1>1, <1>2, <1>3
<1>5. <<>> \in Bytes
  BY DEF Bytes
<1> QED
  BY <1>2, <1>3, <1>4, <1>5

(* A worker that is given another state and job.                           *)
LEMMA WorkerChange ==
    ASSUME worker \in [Workers -> WorkerType], NEW w \in Workers, NEW r \in WorkerType,
           worker' = [worker EXCEPT ![w] = r]
    PROVE  /\ worker' \in [Workers -> WorkerType]
           /\ worker'[w] = r /\ \A v \in Workers \ {w} : worker'[v] = worker[v]
OBVIOUS

(* The discards of Write, Commit, Abort and the workers.                   *)
LEMMA NoneActive ==
    ASSUME discardAndClose
    PROVE  active' = <<>> /\ active' \in Bytes /\ Len(active') <= PartSize
BY UploadAssumption DEF discardAndClose, Bytes

(* The bytes FillActive adds follow those already there.                   *)
LEMMA FillType ==
    ASSUME TypeInv, FillActive
    PROVE  /\ active' \in Bytes /\ Len(active') <= PartSize /\ offset' \in Nat
           /\ active # <<>> => active' # <<>>
           /\ writer.left > 0 => active' # <<>>
           /\ writer' \in WriterType
           /\ writer'.pc = "idle" \/ (writer'.pc = "enqueue" /\ UNCHANGED writeMu)
           /\ writer'.pc = "idle" => writeMu' = "none"
<1> DEFINE room == PartSize - Len(active)
           n == IF writer.left < room THEN writer.left ELSE room
           new == [i \in 1..n |-> offset + i]
<1>1. /\ active' = active \o new /\ offset' = offset + n
      /\ \/ writer' = [pc |-> "enqueue", left |-> writer.left - n, accepted |-> TRUE]
            /\ UNCHANGED writeMu
         \/ writer' = Idle /\ writeMu' = "none"
  BY DEF FillActive, EndWrite
<1>2. active \in Seq(Nat) /\ offset \in Nat /\ writer.left \in Nat /\ Len(active) \in Nat
  BY DEF TypeInv, WriterType, Bytes
<1>3. room \in Int /\ PartSize \in Nat \ {0} /\ (active = <<>> => room = PartSize)
  BY <1>2, UploadAssumption
<1>4. n \in Int /\ n <= writer.left /\ n <= PartSize - Len(active)
  BY <1>2, <1>3
<1>5. Len(active) <= PartSize
  BY DEF TypeInv
<1>6. n \in Nat
  BY <1>2, <1>3, <1>4, <1>5
<1>7. active = <<>> /\ writer.left > 0 => n > 0
  BY <1>2, <1>3
<1> HIDE DEF n, room
<1>8. new \in Seq(Nat) /\ Len(new) = n
  BY <1>2, <1>6
<1>9. active' \in Seq(Nat) /\ Len(active') = Len(active) + n /\ offset' \in Nat
      /\ Len(active') <= PartSize
  BY <1>1, <1>2, <1>3, <1>4, <1>6, <1>8
<1>10. (active # <<>> => active' # <<>>) /\ (writer.left > 0 => active' # <<>>)
  <2>1. active # <<>> => Len(active) > 0
    BY <1>2
  <2>2. CASE Len(active') > 0
    BY <2>2
  <2> QED
    BY <1>2, <1>6, <1>7, <1>9, <2>1, <2>2
<1>11. writer' \in WriterType /\ writer'.pc \in {"enqueue", "idle"}
  <2>1. writer.left - n \in Nat
    BY <1>2, <1>4, <1>6
  <2>2. [pc |-> "enqueue", left |-> writer.left - n, accepted |-> TRUE] \in WriterType
    BY <2>1 DEF WriterType
  <2>3. Idle \in WriterType /\ Idle.pc = "idle"
    BY IdleType DEF Idle
  <2>4. CASE writer' = Idle
    BY <2>3, <2>4
  <2>5. CASE writer' = [pc |-> "enqueue", left |-> writer.left - n, accepted |-> TRUE]
    BY <2>2, <2>5
  <2> QED
    BY <1>1, <2>4, <2>5
<1>12. writer'.pc = "idle" \/ (writer'.pc = "enqueue" /\ UNCHANGED writeMu)
  BY <1>1 DEF Idle
<1>13. writer'.pc = "idle" => writeMu' = "none"
  BY <1>1
<1> QED
  BY <1>9, <1>10, <1>11, <1>12, <1>13 DEF Bytes

(* Every step keeps the types.                                            *)
LEMMA TypeStep ==
    ASSUME IInv, [Next]_vars PROVE TypeInv'
<1> USE DEF IInv, TypeInv, streamVars, streamRest, lockVars, callVars, providerVars
<1>1. ASSUME NEW n \in WriteSizes, StartWrite(n) PROVE TypeInv'
  <2>1. writer' \in WriterType
    BY <1>1, UploadAssumption DEF StartWrite, WriterType
  <2> QED
    BY <1>1, <2>1 DEF StartWrite
<1>2. CASE FillActive
  BY <1>2, FillType DEF FillActive
<1>3. CASE EnqueuePart
  <2>1. writer' \in WriterType
    <3>1. [writer EXCEPT !.pc = "acquire"] \in WriterType
      BY DEF WriterType
    <3> QED
      BY <1>3, <3>1, IdleType DEF EnqueuePart, EndWrite
  <2>2. jobs' \in Seq(Job) /\ active' = <<>> /\ active' \in Bytes /\ nextPart' \in Nat
    BY <1>3, SentType DEF EnqueuePart
  <2>3. Len(active') <= PartSize
    BY <2>2, UploadAssumption
  <2> QED
    BY <1>3, <2>1, <2>2, <2>3 DEF EnqueuePart
<1>4. CASE WriteFails
  <2>1. active' \in Bytes /\ Len(active') <= PartSize
    BY <1>4, NoneActive DEF WriteFails
  <2> QED
    BY <1>4, <2>1, IdleType DEF WriteFails, EndWrite
<1>5. ASSUME NEW c \in Clients, StartCall(c) PROVE TypeInv'
  BY <1>5 DEF StartCall, ClientPcs, CommitPcs, AbortPcs
<1>6. ASSUME NEW c \in Clients, TakeCommitMu(c) PROVE TypeInv'
  BY <1>6 DEF TakeCommitMu, ClientPcs, CommitPcs, AbortPcs
<1>7. ASSUME NEW c \in Clients, BeginSeal(c) PROVE TypeInv'
  <2>1. active' \in Bytes /\ Len(active') <= PartSize
    BY <1>7, NoneActive DEF BeginSeal
  <2>2. client' \in [Clients -> ClientPcs]
    BY <1>7 DEF BeginSeal, CommitReply, Reply, ClientPcs, CommitPcs
  <2> QED
    BY <1>7, <2>1, <2>2 DEF BeginSeal
<1>8. ASSUME NEW c \in Clients, SealFlush(c) PROVE TypeInv'
  <2>1. active' \in Bytes /\ Len(active') <= PartSize /\ jobs' \in Seq(Job) /\ nextPart' \in Nat
    <3>1. CASE SendPart
      BY <3>1, SentType, UploadAssumption
    <3>2. CASE UNCHANGED <<jobs, active, nextPart>>
      BY <3>2
    <3>3. CASE discardAndClose /\ UNCHANGED <<jobs, nextPart>>
      BY <3>3, NoneActive
    <3> QED
      BY <1>8, <3>1, <3>2, <3>3 DEF SealFlush
  <2>2. client' \in [Clients -> ClientPcs]
    BY <1>8 DEF SealFlush, CommitReply, Reply, ClientPcs, CommitPcs
  <2> QED
    BY <1>8, <2>1, <2>2 DEF SealFlush
<1>9. ASSUME NEW c \in Clients, CommitWait(c) PROVE TypeInv'
  BY <1>9 DEF CommitWait, CommitReply, Reply, ClientPcs, CommitPcs, AbortPcs
<1>10. ASSUME NEW c \in Clients, CommitRequest(c) PROVE TypeInv'
  BY <1>10 DEF CommitRequest, Committed, LookFor, CommitReply, Reply, ClientPcs, CommitPcs, AbortPcs
<1>11. ASSUME NEW c \in Clients, Reconcile(c) PROVE TypeInv'
  BY <1>11 DEF Reconcile, Committed, NotCommitted, CommitReply, Reply, ClientPcs, CommitPcs, AbortPcs
<1>12. ASSUME NEW c \in Clients, StartAbort(c) PROVE TypeInv'
  BY <1>12 DEF StartAbort, ClientPcs, CommitPcs, AbortPcs
<1>13. ASSUME NEW c \in Clients, AbortDiscard(c) PROVE TypeInv'
  <2>1. active' \in Bytes /\ Len(active') <= PartSize
    BY <1>13, NoneActive DEF AbortDiscard
  <2>2. client' \in [Clients -> ClientPcs]
    BY <1>13 DEF AbortDiscard, ClientPcs, AbortPcs
  <2> QED
    BY <1>13, <2>1, <2>2 DEF AbortDiscard
<1>14. ASSUME NEW c \in Clients, StartCleanup(c) PROVE TypeInv'
  BY <1>14 DEF StartCleanup, S3Cleanup, GCSCleanup, AzureCleanup, ClientPcs, CommitPcs, AbortPcs
<1>15. ASSUME NEW c \in Clients, FinishCleanup(c) PROVE TypeInv'
  BY <1>15 DEF FinishCleanup, ClientPcs, CommitPcs, AbortPcs
<1>16. ASSUME NEW c \in Clients, WaitAbort(c) PROVE TypeInv'
  BY <1>16 DEF WaitAbort, Reply, ClientPcs, CommitPcs, AbortPcs
<1>17. ASSUME NEW c \in Clients, CancelCall(c) PROVE TypeInv'
  BY <1>17 DEF CancelCall, ClientPcs, CommitPcs, AbortPcs
<1>18. ASSUME NEW w \in Workers, TakeJob(w) PROVE TypeInv'
  <2>1. Head(jobs) \in Job /\ Tail(jobs) \in Seq(Job)
    BY <1>18 DEF TakeJob
  <2>2. [pc |-> "put", job |-> Head(jobs)] \in WorkerType
    BY <2>1 DEF WorkerType
  <2>3. worker' \in [Workers -> WorkerType]
    BY <1>18, <2>2, WorkerChange DEF TakeJob
  <2> QED
    BY <1>18, <2>1, <2>3 DEF TakeJob
<1>19. ASSUME NEW w \in Workers, PutSucceeds(w) PROVE TypeInv'
  <2>1. \A p \in {"idle", "failed"} : [pc |-> p, job |-> NoJob] \in WorkerType
    BY IdleType DEF WorkerType
  <2>2. worker' \in [Workers -> WorkerType]
    BY <1>19, <2>1, WorkerChange DEF PutSucceeds
  <2> QED
    BY <1>19, <2>2 DEF PutSucceeds
<1>20. ASSUME NEW w \in Workers, PutFails(w) PROVE TypeInv'
  <2>1. \A p \in {"idle", "failed"} : [pc |-> p, job |-> NoJob] \in WorkerType
    BY IdleType DEF WorkerType
  <2>2. worker' \in [Workers -> WorkerType]
    BY <1>20, <2>1, WorkerChange DEF PutFails
  <2> QED
    BY <1>20, <2>2 DEF PutFails
<1>21. ASSUME NEW w \in Workers, WorkerDiscard(w) PROVE TypeInv'
  <2>1. active' \in Bytes /\ Len(active') <= PartSize
    BY <1>21, NoneActive DEF WorkerDiscard
  <2>2. worker' \in [Workers -> WorkerType]
    BY <1>21 DEF WorkerDiscard, WorkerType
  <2> QED
    BY <1>21, <2>1, <2>2 DEF WorkerDiscard
<1>22. ASSUME NEW w \in Workers, WorkerExit(w) PROVE TypeInv'
  <2>1. worker' \in [Workers -> WorkerType]
    BY <1>22 DEF WorkerExit, WorkerType
  <2> QED
    BY <1>22, <2>1 DEF WorkerExit
<1>23. CASE FinishAbort
  BY <1>23 DEF FinishAbort, ClientPcs
<1>24. CASE LateLanding
  BY <1>24 DEF LateLanding
<1>25. CASE UNCHANGED vars
  BY <1>25 DEF vars
<1> QED
  BY <1>1, <1>2, <1>3, <1>4, <1>5, <1>6, <1>7, <1>8, <1>9, <1>10, <1>11, <1>12,
     <1>13, <1>14, <1>15, <1>16, <1>17, <1>18, <1>19, <1>20, <1>21, <1>22, <1>23, <1>24, <1>25
  DEF Next, Writer, Client, Worker

(* A mutex is given up only by its holder.                                *)
LEMMA LockStep ==
    ASSUME IInv, [Next]_vars PROVE LockInv'
<1> USE DEF IInv, TypeInv, LockInv, CommitPcs, streamVars, streamRest, lockVars, callVars, providerVars
<1>1. ASSUME NEW n \in WriteSizes, StartWrite(n) PROVE LockInv'
  BY <1>1, HolderAssumption DEF StartWrite
<1>2. CASE FillActive
  <2>1. writer.pc = "acquire" /\ UNCHANGED <<client, commitMu>>
    BY <1>2 DEF FillActive
  <2> QED
    BY <1>2, <2>1, FillType, HolderAssumption
<1>3. CASE EnqueuePart
  BY <1>3, HolderAssumption DEF EnqueuePart, SendPart, EndWrite, Idle
<1>4. CASE WriteFails
  BY <1>4, HolderAssumption DEF WriteFails, recordFailure, discardAndClose, Release, EndWrite, Idle
<1>5. ASSUME NEW c \in Clients, StartCall(c) PROVE LockInv'
  BY <1>5 DEF StartCall
<1>6. ASSUME NEW c \in Clients, TakeCommitMu(c) PROVE LockInv'
  BY <1>6, HolderAssumption DEF TakeCommitMu
<1>7. ASSUME NEW c \in Clients, BeginSeal(c) PROVE LockInv'
  BY <1>7 DEF BeginSeal, CommitReply, Reply, discardAndClose, Release
<1>8. ASSUME NEW c \in Clients, SealFlush(c) PROVE LockInv'
  BY <1>8, HolderAssumption DEF SealFlush, SendPart, CommitReply, Reply, discardAndClose, Release
<1>9. ASSUME NEW c \in Clients, CommitWait(c) PROVE LockInv'
  BY <1>9 DEF CommitWait, CommitReply, Reply
<1>10. ASSUME NEW c \in Clients, CommitRequest(c) PROVE LockInv'
  BY <1>10 DEF CommitRequest, Committed, LookFor, CommitReply, Reply
<1>11. ASSUME NEW c \in Clients, Reconcile(c) PROVE LockInv'
  BY <1>11 DEF Reconcile, Committed, NotCommitted, CommitReply, Reply
<1>12. ASSUME NEW c \in Clients, StartAbort(c) PROVE LockInv'
  BY <1>12 DEF StartAbort
<1>13. ASSUME NEW c \in Clients, AbortDiscard(c) PROVE LockInv'
  BY <1>13 DEF AbortDiscard, discardAndClose, Release
<1>14. ASSUME NEW c \in Clients, StartCleanup(c) PROVE LockInv'
  BY <1>14 DEF StartCleanup, S3Cleanup, GCSCleanup, AzureCleanup
<1>15. ASSUME NEW c \in Clients, FinishCleanup(c) PROVE LockInv'
  BY <1>15 DEF FinishCleanup
<1>16. ASSUME NEW c \in Clients, WaitAbort(c) PROVE LockInv'
  BY <1>16 DEF WaitAbort, Reply
<1>17. ASSUME NEW c \in Clients, CancelCall(c) PROVE LockInv'
  BY <1>17 DEF CancelCall
<1>18. ASSUME NEW w \in Workers, TakeJob(w) PROVE LockInv'
  BY <1>18 DEF TakeJob, Release
<1>19. ASSUME NEW w \in Workers, PutSucceeds(w) PROVE LockInv'
  BY <1>19 DEF PutSucceeds, recordFailure, Release
<1>20. ASSUME NEW w \in Workers, PutFails(w) PROVE LockInv'
  BY <1>20 DEF PutFails, recordFailure, Release
<1>21. ASSUME NEW w \in Workers, WorkerDiscard(w) PROVE LockInv'
  BY <1>21 DEF WorkerDiscard, discardAndClose, Release
<1>22. ASSUME NEW w \in Workers, WorkerExit(w) PROVE LockInv'
  BY <1>22 DEF WorkerExit
<1>23. CASE FinishAbort
  BY <1>23 DEF FinishAbort
<1>24. CASE LateLanding
  BY <1>24 DEF LateLanding
<1>25. CASE UNCHANGED vars
  BY <1>25 DEF vars
<1> QED
  BY <1>1, <1>2, <1>3, <1>4, <1>5, <1>6, <1>7, <1>8, <1>9, <1>10, <1>11, <1>12,
     <1>13, <1>14, <1>15, <1>16, <1>17, <1>18, <1>19, <1>20, <1>21, <1>22, <1>23, <1>24, <1>25
  DEF Next, Writer, Client, Worker

(* Commit and abort exclude one another through the state.                *)
LEMMA AbortStep ==
    ASSUME IInv, [Next]_vars PROVE AbortInv'
<1> USE DEF IInv, TypeInv, LockInv, AbortInv, CommitPcs, AbortPcs, Live, Ended, streamVars, streamRest, lockVars, callVars, providerVars
<1>1. ASSUME NEW n \in WriteSizes, StartWrite(n) PROVE AbortInv'
  BY <1>1 DEF StartWrite
<1>2. CASE FillActive
  BY <1>2 DEF FillActive, EndWrite, Idle
<1>3. CASE EnqueuePart
  BY <1>3 DEF EnqueuePart, SendPart, EndWrite, Idle
<1>4. CASE WriteFails
  BY <1>4 DEF WriteFails, recordFailure, discardAndClose, Release, EndWrite, Idle
<1>5. ASSUME NEW c \in Clients, StartCall(c) PROVE AbortInv'
  BY <1>5 DEF StartCall
<1>6. ASSUME NEW c \in Clients, TakeCommitMu(c) PROVE AbortInv'
  BY <1>6 DEF TakeCommitMu
<1>7. ASSUME NEW c \in Clients, BeginSeal(c) PROVE AbortInv'
  BY <1>7 DEF BeginSeal, CommitReply, Reply, discardAndClose, Release
<1>8. ASSUME NEW c \in Clients, SealFlush(c) PROVE AbortInv'
  BY <1>8 DEF SealFlush, SendPart, CommitReply, Reply, discardAndClose, Release
<1>9. ASSUME NEW c \in Clients, CommitWait(c) PROVE AbortInv'
  BY <1>9 DEF CommitWait, CommitReply, Reply
<1>10. ASSUME NEW c \in Clients, CommitRequest(c) PROVE AbortInv'
  BY <1>10 DEF CommitRequest, Committed, LookFor, CommitReply, Reply
<1>11. ASSUME NEW c \in Clients, Reconcile(c) PROVE AbortInv'
  BY <1>11 DEF Reconcile, Committed, NotCommitted, CommitReply, Reply
<1>12. ASSUME NEW c \in Clients, StartAbort(c) PROVE AbortInv'
  BY <1>12 DEF StartAbort
<1>13. ASSUME NEW c \in Clients, AbortDiscard(c) PROVE AbortInv'
  BY <1>13 DEF AbortDiscard, discardAndClose, Release
<1>14. ASSUME NEW c \in Clients, StartCleanup(c) PROVE AbortInv'
  BY <1>14 DEF StartCleanup, S3Cleanup, GCSCleanup, AzureCleanup
<1>15. ASSUME NEW c \in Clients, FinishCleanup(c) PROVE AbortInv'
  BY <1>15 DEF FinishCleanup
<1>16. ASSUME NEW c \in Clients, WaitAbort(c) PROVE AbortInv'
  BY <1>16 DEF WaitAbort, Reply
<1>17. ASSUME NEW c \in Clients, CancelCall(c) PROVE AbortInv'
  BY <1>17 DEF CancelCall
<1>18. ASSUME NEW w \in Workers, TakeJob(w) PROVE AbortInv'
  BY <1>18 DEF TakeJob, Release
<1>19. ASSUME NEW w \in Workers, PutSucceeds(w) PROVE AbortInv'
  BY <1>19 DEF PutSucceeds, recordFailure, Release
<1>20. ASSUME NEW w \in Workers, PutFails(w) PROVE AbortInv'
  BY <1>20 DEF PutFails, recordFailure, Release
<1>21. ASSUME NEW w \in Workers, WorkerDiscard(w) PROVE AbortInv'
  BY <1>21 DEF WorkerDiscard, discardAndClose, Release
<1>22. ASSUME NEW w \in Workers, WorkerExit(w) PROVE AbortInv'
  BY <1>22 DEF WorkerExit
<1>23. CASE FinishAbort
  BY <1>23 DEF FinishAbort
<1>24. CASE LateLanding
  BY <1>24 DEF LateLanding
<1>25. CASE UNCHANGED vars
  BY <1>25 DEF vars
<1> QED
  BY <1>1, <1>2, <1>3, <1>4, <1>5, <1>6, <1>7, <1>8, <1>9, <1>10, <1>11, <1>12,
     <1>13, <1>14, <1>15, <1>16, <1>17, <1>18, <1>19, <1>20, <1>21, <1>22, <1>23, <1>24, <1>25
  DEF Next, Writer, Client, Worker

(* Nobody takes the part of a waiting Write away.                         *)
LEMMA WriterStep ==
    ASSUME IInv, [Next]_vars PROVE WriterInv'
<1> USE DEF IInv, TypeInv, LockInv, WriterInv, streamVars, streamRest, lockVars, callVars, providerVars
<1>1. ASSUME NEW n \in WriteSizes, StartWrite(n) PROVE WriterInv'
  BY <1>1, UploadAssumption DEF StartWrite
<1>2. CASE FillActive
  <2>1. writer.pc = "acquire"
    BY <1>2 DEF FillActive
  <2> QED
    BY <1>2, <2>1, FillType
<1>3. CASE EnqueuePart
  <2>1. writer.left \in Nat
    BY DEF WriterType
  <2>2. writer' \in {Idle, [writer EXCEPT !.pc = "acquire"]}
        /\ (writer' = Idle \/ writer.left # 0)
    BY <1>3 DEF EnqueuePart, EndWrite
  <2>3. [writer EXCEPT !.pc = "acquire"].pc = "acquire"
        /\ [writer EXCEPT !.pc = "acquire"].left = writer.left
    BY DEF WriterType
  <2>4. CASE writer' = Idle
    BY <2>4 DEF Idle
  <2>5. CASE writer' = [writer EXCEPT !.pc = "acquire"] /\ writer.left # 0
    BY <2>1, <2>3, <2>5
  <2> QED
    BY <2>2, <2>4, <2>5
<1>4. CASE WriteFails
  BY <1>4 DEF WriteFails, recordFailure, discardAndClose, Release, EndWrite, Idle
<1>5. ASSUME NEW c \in Clients, StartCall(c) PROVE WriterInv'
  BY <1>5 DEF StartCall
<1>6. ASSUME NEW c \in Clients, TakeCommitMu(c) PROVE WriterInv'
  BY <1>6 DEF TakeCommitMu
<1>7. ASSUME NEW c \in Clients, BeginSeal(c) PROVE WriterInv'
  BY <1>7, HolderAssumption DEF BeginSeal, CommitReply, Reply, discardAndClose, Release
<1>8. ASSUME NEW c \in Clients, SealFlush(c) PROVE WriterInv'
  <2>1. writer.pc = "idle" /\ UNCHANGED writer
    BY <1>8, HolderAssumption DEF SealFlush
  <2> QED
    BY <2>1
<1>9. ASSUME NEW c \in Clients, CommitWait(c) PROVE WriterInv'
  BY <1>9 DEF CommitWait, CommitReply, Reply
<1>10. ASSUME NEW c \in Clients, CommitRequest(c) PROVE WriterInv'
  BY <1>10 DEF CommitRequest, Committed, LookFor, CommitReply, Reply
<1>11. ASSUME NEW c \in Clients, Reconcile(c) PROVE WriterInv'
  BY <1>11 DEF Reconcile, Committed, NotCommitted, CommitReply, Reply
<1>12. ASSUME NEW c \in Clients, StartAbort(c) PROVE WriterInv'
  BY <1>12 DEF StartAbort
<1>13. ASSUME NEW c \in Clients, AbortDiscard(c) PROVE WriterInv'
  BY <1>13, HolderAssumption DEF AbortDiscard, discardAndClose, Release
<1>14. ASSUME NEW c \in Clients, StartCleanup(c) PROVE WriterInv'
  BY <1>14 DEF StartCleanup, S3Cleanup, GCSCleanup, AzureCleanup
<1>15. ASSUME NEW c \in Clients, FinishCleanup(c) PROVE WriterInv'
  BY <1>15 DEF FinishCleanup
<1>16. ASSUME NEW c \in Clients, WaitAbort(c) PROVE WriterInv'
  BY <1>16 DEF WaitAbort, Reply
<1>17. ASSUME NEW c \in Clients, CancelCall(c) PROVE WriterInv'
  BY <1>17 DEF CancelCall
<1>18. ASSUME NEW w \in Workers, TakeJob(w) PROVE WriterInv'
  BY <1>18 DEF TakeJob, Release
<1>19. ASSUME NEW w \in Workers, PutSucceeds(w) PROVE WriterInv'
  BY <1>19 DEF PutSucceeds, recordFailure, Release
<1>20. ASSUME NEW w \in Workers, PutFails(w) PROVE WriterInv'
  BY <1>20 DEF PutFails, recordFailure, Release
<1>21. ASSUME NEW w \in Workers, WorkerDiscard(w) PROVE WriterInv'
  BY <1>21, HolderAssumption DEF WorkerDiscard, discardAndClose, Release
<1>22. ASSUME NEW w \in Workers, WorkerExit(w) PROVE WriterInv'
  BY <1>22 DEF WorkerExit
<1>23. CASE FinishAbort
  BY <1>23 DEF FinishAbort
<1>24. CASE LateLanding
  BY <1>24 DEF LateLanding
<1>25. CASE UNCHANGED vars
  BY <1>25 DEF vars
<1> QED
  BY <1>1, <1>2, <1>3, <1>4, <1>5, <1>6, <1>7, <1>8, <1>9, <1>10, <1>11, <1>12,
     <1>13, <1>14, <1>15, <1>16, <1>17, <1>18, <1>19, <1>20, <1>21, <1>22, <1>23, <1>24, <1>25
  DEF Next, Writer, Client, Worker

-----------------------------------------------------------------------------
(* Buffers                                                                 *)

(* What is counted is finite.                                              *)
LEMMA Sizes ==
    ASSUME TypeInv
    PROVE  /\ Len(jobs) \in Nat /\ IsFiniteSet(InFlight) /\ Cardinality(InFlight) \in Nat
<1>1. IsFiniteSet(InFlight)
  BY UploadAssumption, FS_Subset DEF InFlight
<1> QED
  BY <1>1, FS_CardinalityType DEF TypeInv

(* A worker that keeps its place puts as much as before.                   *)
LEMMA SameFlight ==
    ASSUME \A v \in Workers : worker'[v].pc = "put" <=> worker[v].pc = "put"
    PROVE  InFlight' = InFlight
BY DEF InFlight

(* A part leaves the flight.                                               *)
LEMMA Landed ==
    ASSUME TypeInv, NEW w \in Workers, worker[w].pc = "put", worker'[w].pc # "put",
           \A v \in Workers \ {w} : worker'[v] = worker[v]
    PROVE  Cardinality(InFlight') = Cardinality(InFlight) - 1
<1>1. InFlight' = InFlight \ {w} /\ w \in InFlight
  BY DEF InFlight
<1> QED
  BY <1>1, Sizes, FS_RemoveElement

(* No buffer moves.                                                        *)
LEMMA NoneMoved ==
    ASSUME BuffersConserved, UNCHANGED <<leased, active, jobs, worker>>
    PROVE  BuffersConserved'
BY DEF BuffersConserved, InFlight

(* The active buffer goes back to the pool.                                *)
LEMMA Discarded ==
    ASSUME TypeInv, BuffersConserved, discardAndClose, UNCHANGED jobs,
           InFlight' = InFlight
    PROVE  BuffersConserved'
<1>1. active' = <<>> /\ leased' = leased - (IF active # <<>> THEN 1 ELSE 0)
  BY DEF discardAndClose, Release
<1> QED
  BY <1>1, Sizes DEF BuffersConserved

(* The active buffer is queued.                                            *)
LEMMA Queued ==
    ASSUME TypeInv, BuffersConserved, SendPart, active # <<>>, UNCHANGED <<leased, worker>>
    PROVE  BuffersConserved'
<1>1. active' = <<>> /\ Len(jobs') = Len(jobs) + 1
  BY SentType
<1>2. InFlight' = InFlight
  BY DEF InFlight
<1> QED
  BY <1>1, <1>2, Sizes DEF BuffersConserved

(* Every step keeps the account of the pool's buffers.                    *)
LEMMA BufferStep ==
    ASSUME IInv, [Next]_vars PROVE BuffersConserved'
<1> USE DEF IInv, streamVars, streamRest, lockVars, callVars, providerVars
<1>1. ASSUME NEW n \in WriteSizes, StartWrite(n) PROVE BuffersConserved'
  BY <1>1, NoneMoved DEF StartWrite
<1>2. CASE FillActive
  <2>1. /\ active' # <<>> /\ leased' = (IF active = <<>> THEN leased + 1 ELSE leased)
        /\ UNCHANGED <<jobs, worker>>
    BY <1>2, FillType DEF WriterInv, FillActive
  <2>2. InFlight' = InFlight
    BY <2>1 DEF InFlight
  <2> QED
    BY <2>1, <2>2, Sizes DEF BuffersConserved
<1>3. CASE EnqueuePart
  BY <1>3, Queued DEF EnqueuePart, WriterInv
<1>4. CASE WriteFails
  <2>1. UNCHANGED worker /\ UNCHANGED jobs
    BY <1>4 DEF WriteFails
  <2>2. InFlight' = InFlight
    BY <2>1 DEF InFlight
  <2>3. CASE discardAndClose
    BY <2>1, <2>2, <2>3, Discarded
  <2>4. CASE UNCHANGED <<active, leased>>
    BY <2>1, <2>4, NoneMoved
  <2> QED
    BY <1>4, <2>3, <2>4 DEF WriteFails
<1>5. ASSUME NEW c \in Clients, StartCall(c) PROVE BuffersConserved'
  BY <1>5, NoneMoved DEF StartCall
<1>6. ASSUME NEW c \in Clients, TakeCommitMu(c) PROVE BuffersConserved'
  BY <1>6, NoneMoved DEF TakeCommitMu
<1>7. ASSUME NEW c \in Clients, BeginSeal(c) PROVE BuffersConserved'
  <2>1. UNCHANGED worker /\ UNCHANGED jobs
    BY <1>7 DEF BeginSeal
  <2>2. InFlight' = InFlight
    BY <2>1 DEF InFlight
  <2>3. CASE discardAndClose
    BY <2>1, <2>2, <2>3, Discarded
  <2>4. CASE UNCHANGED <<active, leased>>
    BY <2>1, <2>4, NoneMoved
  <2> QED
    BY <1>7, <2>3, <2>4 DEF BeginSeal
<1>8. ASSUME NEW c \in Clients, SealFlush(c) PROVE BuffersConserved'
  <2>1. UNCHANGED worker
    BY <1>8 DEF SealFlush
  <2>2. InFlight' = InFlight
    BY <2>1 DEF InFlight
  <2>3. CASE SendPart /\ active # <<>> /\ UNCHANGED leased
    BY <2>1, <2>3, Queued
  <2>4. CASE UNCHANGED <<jobs, active, leased>>
    BY <2>1, <2>4, NoneMoved
  <2>5. CASE discardAndClose /\ UNCHANGED jobs
    BY <2>2, <2>5, Discarded
  <2> QED
    BY <1>8, <2>3, <2>4, <2>5 DEF SealFlush
<1>9. ASSUME NEW c \in Clients, CommitWait(c) PROVE BuffersConserved'
  BY <1>9, NoneMoved DEF CommitWait
<1>10. ASSUME NEW c \in Clients, CommitRequest(c) PROVE BuffersConserved'
  BY <1>10, NoneMoved DEF CommitRequest
<1>11. ASSUME NEW c \in Clients, Reconcile(c) PROVE BuffersConserved'
  BY <1>11, NoneMoved DEF Reconcile
<1>12. ASSUME NEW c \in Clients, StartAbort(c) PROVE BuffersConserved'
  BY <1>12, NoneMoved DEF StartAbort
<1>13. ASSUME NEW c \in Clients, AbortDiscard(c) PROVE BuffersConserved'
  <2>1. InFlight' = InFlight
    BY <1>13 DEF AbortDiscard, InFlight
  <2> QED
    BY <1>13, <2>1, Discarded DEF AbortDiscard
<1>14. ASSUME NEW c \in Clients, StartCleanup(c) PROVE BuffersConserved'
  BY <1>14, NoneMoved DEF StartCleanup
<1>15. ASSUME NEW c \in Clients, FinishCleanup(c) PROVE BuffersConserved'
  BY <1>15, NoneMoved DEF FinishCleanup
<1>16. ASSUME NEW c \in Clients, WaitAbort(c) PROVE BuffersConserved'
  BY <1>16, NoneMoved DEF WaitAbort
<1>17. ASSUME NEW c \in Clients, CancelCall(c) PROVE BuffersConserved'
  BY <1>17, NoneMoved DEF CancelCall
<1>18. ASSUME NEW w \in Workers, TakeJob(w) PROVE BuffersConserved'
  <2>1. Len(jobs') = Len(jobs) - 1 /\ Len(jobs') \in Nat /\ UNCHANGED active
    BY <1>18 DEF TakeJob, TypeInv
  <2>2. CASE stopped
    <3>1. leased' = leased - 1 /\ UNCHANGED worker
      BY <1>18, <2>2 DEF TakeJob, Release
    <3>2. InFlight' = InFlight
      BY <3>1 DEF InFlight
    <3> QED
      BY <2>1, <3>1, <3>2, Sizes DEF BuffersConserved
  <2>3. CASE ~stopped
    <3>1. UNCHANGED leased
          /\ worker' = [worker EXCEPT ![w] = [pc |-> "put", job |-> Head(jobs)]]
      BY <1>18, <2>3 DEF TakeJob
    <3>2. InFlight' = InFlight \cup {w} /\ w \notin InFlight
      BY <1>18, <3>1 DEF InFlight, TakeJob, TypeInv
    <3>3. Cardinality(InFlight') = Cardinality(InFlight) + 1
      BY <3>2, Sizes, FS_AddElement
    <3>4. UNCHANGED leased
      BY <3>1
    <3> QED
      BY <2>1, <3>3, <3>4, Sizes DEF BuffersConserved
  <2> QED
    BY <2>2, <2>3
<1>19. ASSUME NEW w \in Workers, PutSucceeds(w) PROVE BuffersConserved'
  <2>1. /\ worker[w].pc = "put" /\ worker'[w].pc # "put"
        /\ \A v \in Workers \ {w} : worker'[v] = worker[v]
    BY <1>19 DEF PutSucceeds, TypeInv
  <2>2. Cardinality(InFlight') = Cardinality(InFlight) - 1
    BY <2>1, Landed
  <2>3. leased' = leased - 1 /\ UNCHANGED <<active, jobs>>
    BY <1>19 DEF PutSucceeds, Release
  <2> QED
    BY <2>2, <2>3, Sizes DEF BuffersConserved
<1>20. ASSUME NEW w \in Workers, PutFails(w) PROVE BuffersConserved'
  <2>1. /\ worker[w].pc = "put" /\ worker'[w].pc # "put"
        /\ \A v \in Workers \ {w} : worker'[v] = worker[v]
    BY <1>20 DEF PutFails, TypeInv
  <2>2. Cardinality(InFlight') = Cardinality(InFlight) - 1
    BY <2>1, Landed
  <2>3. leased' = leased - 1 /\ UNCHANGED <<active, jobs>>
    BY <1>20 DEF PutFails, Release
  <2> QED
    BY <2>2, <2>3, Sizes DEF BuffersConserved
<1>21. ASSUME NEW w \in Workers, WorkerDiscard(w) PROVE BuffersConserved'
  <2>1. \A v \in Workers : worker'[v].pc = "put" <=> worker[v].pc = "put"
    BY <1>21 DEF WorkerDiscard, TypeInv, WorkerType
  <2> QED
    BY <1>21, <2>1, SameFlight, Discarded DEF WorkerDiscard
<1>22. ASSUME NEW w \in Workers, WorkerExit(w) PROVE BuffersConserved'
  <2>1. \A v \in Workers : worker'[v].pc = "put" <=> worker[v].pc = "put"
    BY <1>22 DEF WorkerExit, TypeInv, WorkerType
  <2>2. InFlight' = InFlight
    BY <2>1, SameFlight
  <2> QED
    BY <1>22, <2>2 DEF WorkerExit, BuffersConserved
<1>23. CASE FinishAbort
  BY <1>23, NoneMoved DEF FinishAbort
<1>24. CASE LateLanding
  BY <1>24, NoneMoved DEF LateLanding
<1>25. CASE UNCHANGED vars
  BY <1>25, NoneMoved DEF vars
<1> QED
  BY <1>1, <1>2, <1>3, <1>4, <1>5, <1>6, <1>7, <1>8, <1>9, <1>10, <1>11, <1>12,
     <1>13, <1>14, <1>15, <1>16, <1>17, <1>18, <1>19, <1>20, <1>21, <1>22, <1>23, <1>24, <1>25
  DEF Next, Writer, Client, Worker

-----------------------------------------------------------------------------
(* Staging                                                                 *)

(* A request carried out late finds its parts deleted, and a composition   *)
(* of nothing leaves nothing.                                              *)
LEMMA LandedClean ==
    ASSUME provider \in Providers, staged = {}, Parts \subseteq staged, staged' = AfterLanding
    PROVE  staged' = {}
<1>1. Parts = {} /\ Cardinality({}) = 0
  BY FS_EmptySet
<1>2. ~(Cardinality(Parts) > ComposeLimit)
  BY <1>1, UploadAssumption
<1>3. GCSLanding = {} /\ S3Landing = {} /\ AzureLanding = {}
  BY <1>2 DEF GCSLanding, S3Landing, AzureLanding, Composites
<1> QED
  BY <1>3, ProvidersAssumption DEF AfterLanding

(* Nothing is staged again after a clean cleanup.                         *)
LEMMA StagingStep ==
    ASSUME IInv, [Next]_vars PROVE StagingInv'
<1> USE DEF IInv, AbortInv, StagingInv, Cleaned, streamVars, streamRest, lockVars, callVars, providerVars
<1>1. ASSUME NEW n \in WriteSizes, StartWrite(n) PROVE StagingInv'
  BY <1>1 DEF StartWrite, InFlight
<1>2. CASE FillActive
  BY <1>2 DEF FillActive, EndWrite, Idle, InFlight
<1>3. CASE EnqueuePart
  BY <1>3 DEF EnqueuePart, SendPart, EndWrite, Idle, InFlight
<1>4. CASE WriteFails
  BY <1>4 DEF WriteFails, recordFailure, discardAndClose, Release, EndWrite, Idle, InFlight
<1>5. ASSUME NEW c \in Clients, StartCall(c) PROVE StagingInv'
  BY <1>5 DEF StartCall, InFlight
<1>6. ASSUME NEW c \in Clients, TakeCommitMu(c) PROVE StagingInv'
  BY <1>6 DEF TakeCommitMu, InFlight
<1>7. ASSUME NEW c \in Clients, BeginSeal(c) PROVE StagingInv'
  BY <1>7 DEF BeginSeal, CommitReply, Reply, discardAndClose, Release, InFlight
<1>8. ASSUME NEW c \in Clients, SealFlush(c) PROVE StagingInv'
  BY <1>8 DEF SealFlush, SendPart, CommitReply, Reply, discardAndClose, Release, InFlight
<1>9. ASSUME NEW c \in Clients, CommitWait(c) PROVE StagingInv'
  BY <1>9 DEF CommitWait, CommitReply, Reply, InFlight
<1>10. ASSUME NEW c \in Clients, CommitRequest(c) PROVE StagingInv'
  <2>1. state = "committing" /\ state' \in {"committing", "completed"} /\ finishing = "none"
    BY <1>10 DEF CommitRequest, Committed, LookFor, AbortInv
  <2>2. UNCHANGED finishing
    BY <1>10 DEF CommitRequest
  <2> QED
    BY <2>1, <2>2
<1>11. ASSUME NEW c \in Clients, Reconcile(c) PROVE StagingInv'
  BY <1>11 DEF Reconcile, Committed, NotCommitted, CommitReply, Reply, InFlight
<1>12. ASSUME NEW c \in Clients, StartAbort(c) PROVE StagingInv'
  BY <1>12 DEF StartAbort, InFlight
<1>13. ASSUME NEW c \in Clients, AbortDiscard(c) PROVE StagingInv'
  BY <1>13 DEF AbortDiscard, discardAndClose, Release, InFlight
<1>14. ASSUME NEW c \in Clients, StartCleanup(c) PROVE StagingInv'
  BY <1>14 DEF StartCleanup, S3Cleanup, GCSCleanup, AzureCleanup, InFlight
<1>15. ASSUME NEW c \in Clients, FinishCleanup(c) PROVE StagingInv'
  <2>1. state = "aborting" /\ UNCHANGED <<state, provider, worker>>
    BY <1>15 DEF FinishCleanup, AbortInv, AbortPcs
  <2>2. finishing' = "ok" => staged' = {} /\ InFlight = {}
    BY <1>15 DEF FinishCleanup
  <2> QED
    BY <2>1, <2>2 DEF InFlight
<1>16. ASSUME NEW c \in Clients, WaitAbort(c) PROVE StagingInv'
  BY <1>16 DEF WaitAbort, Reply, InFlight
<1>17. ASSUME NEW c \in Clients, CancelCall(c) PROVE StagingInv'
  BY <1>17 DEF CancelCall, InFlight
<1>18. ASSUME NEW w \in Workers, TakeJob(w) PROVE StagingInv'
  <2>1. stopped => UNCHANGED worker
    BY <1>18 DEF TakeJob
  <2>2. UNCHANGED <<state, finishing, abortErr, provider, staged>>
    BY <1>18 DEF TakeJob
  <2>3. stopped => InFlight' = InFlight
    BY <2>1 DEF InFlight
  <2> QED
    BY <2>2, <2>3 DEF Ended
<1>19. ASSUME NEW w \in Workers, PutSucceeds(w) PROVE StagingInv'
  <2>1. InFlight # {} /\ UNCHANGED <<finishing, abortErr, provider>>
    BY <1>19 DEF PutSucceeds, InFlight
  <2>2. state' = "aborted" => state = "aborted"
    BY <1>19 DEF PutSucceeds, recordFailure
  <2> QED
    BY <2>1, <2>2
<1>20. ASSUME NEW w \in Workers, PutFails(w) PROVE StagingInv'
  <2>1. InFlight # {} /\ UNCHANGED <<finishing, abortErr, provider>>
    BY <1>20 DEF PutFails, InFlight
  <2>2. state' = "aborted" => state = "aborted"
    BY <1>20 DEF PutFails, recordFailure
  <2> QED
    BY <2>1, <2>2
<1>21. ASSUME NEW w \in Workers, WorkerDiscard(w) PROVE StagingInv'
  <2>1. \A v \in Workers : worker'[v].pc = "put" <=> worker[v].pc = "put"
    BY <1>21 DEF WorkerDiscard, TypeInv, WorkerType
  <2>2. InFlight' = InFlight
    BY <2>1, SameFlight
  <2> QED
    BY <1>21, <2>2 DEF WorkerDiscard
<1>22. ASSUME NEW w \in Workers, WorkerExit(w) PROVE StagingInv'
  <2>1. \A v \in Workers : worker'[v].pc = "put" <=> worker[v].pc = "put"
    BY <1>22 DEF WorkerExit, TypeInv, WorkerType
  <2>2. InFlight' = InFlight
    BY <2>1, SameFlight
  <2> QED
    BY <1>22, <2>2 DEF WorkerExit
<1>23. CASE FinishAbort
  <2>1. /\ ~abortErr' => finishing = "ok"
        /\ finishing' = "none" /\ UNCHANGED <<provider, staged, worker>>
    BY <1>23 DEF FinishAbort, TypeInv
  <2> QED
    BY <2>1 DEF InFlight
<1>24. CASE LateLanding
  <2>1. UNCHANGED <<state, finishing, abortErr, provider, worker>>
    BY <1>24 DEF LateLanding
  <2>2. provider # "azure" /\ staged = {} => staged' = {}
    BY <1>24, LandedClean DEF LateLanding, TypeInv
  <2> QED
    BY <2>1, <2>2 DEF InFlight
<1>25. CASE UNCHANGED vars
  BY <1>25 DEF vars, InFlight
<1> QED
  BY <1>1, <1>2, <1>3, <1>4, <1>5, <1>6, <1>7, <1>8, <1>9, <1>10, <1>11, <1>12,
     <1>13, <1>14, <1>15, <1>16, <1>17, <1>18, <1>19, <1>20, <1>21, <1>22, <1>23, <1>24, <1>25
  DEF Next, Writer, Client, Worker

-----------------------------------------------------------------------------
(* The initial state                                                       *)

(* The invariant holds of a new upload.                                    *)
LEMMA InitIInv == Init => IInv
<1> SUFFICES ASSUME Init PROVE IInv
  OBVIOUS
<1> USE DEF Init
<1>1. TypeInv
  BY IdleType, UploadAssumption DEF TypeInv, Bytes, WorkerType, ClientPcs
<1>2. LockInv /\ WriterInv /\ AbortInv
  BY DEF LockInv, WriterInv, AbortInv, CommitPcs, AbortPcs, Ended, Idle
<1>3. StagingInv
  BY DEF StagingInv
<1>4. BuffersConserved
  <2>1. InFlight = {} /\ Cardinality({}) = 0
    BY FS_EmptySet DEF InFlight
  <2> QED
    BY <2>1 DEF BuffersConserved
<1> QED
  BY <1>1, <1>2, <1>3, <1>4 DEF IInv

-----------------------------------------------------------------------------
(* The object is the bytes written                                         *)

(* Part n holds the bytes after Base(n): PartSize of them, or those up to  *)
(* the end o of what was written.                                          *)
Base(n) == PartSize * (n - 1)
Limit(n, o) == IF o < Base(n) + PartSize THEN o ELSE Base(n) + PartSize
Chunk(n, o) == [i \in 1..(Limit(n, o) - Base(n)) |-> Base(n) + i]
Part(n, o) == [number |-> n, bytes |-> Chunk(n, o)]
Pieces == {Part(n, offset) : n \in 1..(nextPart - 1)}

(* Nothing will be committed any more.                                     *)
Dead == failed \/ state \in Ended

(* A commit request was sent, or is about to be.                           *)
Sent == object # <<>> \/ late \/ state \in {"committing", "completed", "unknown"}

(* Every part is acknowledged, and the parts hold all that was written.    *)
Complete ==
    /\ jobsClosed /\ AllDone /\ offset <= Base(nextPart)
    /\ Cardinality(receipts) = nextPart - 1

(* While the stream takes bytes the active buffer continues the parts sent;*)
(* a closed stream holds everything in its parts unless it is dead; and a  *)
(* Write, or a Commit that sends the last part, finds the stream not yet   *)
(* closed.                                                                 *)
SourceInv ==
    /\ nextPart >= 1
    /\ ~jobsClosed => offset = Base(nextPart) + Len(active) /\ active = Chunk(nextPart, offset)
    /\ jobsClosed => active = <<>> /\ (Dead \/ offset <= Base(nextPart))
    /\ writer.pc = "enqueue" => Len(active) = PartSize
    /\ writer.pc # "idle" => ~jobsClosed

(* Every part on its way, and every part acknowledged, holds its bytes.    *)
PieceInv ==
    /\ \A i \in 1..Len(jobs) : jobs[i] \in Pieces
    /\ \A w \in Workers : worker[w].pc = "put" => worker[w].job \in Pieces
    /\ receipts \subseteq Pieces

(* What the state says of the stream.                                      *)
States == Live \cup Ended \cup {"failed", "committing", "completed", "unknown"}
PhaseInv ==
    /\ state \in States
    /\ state \in {"open", "sealing"} => ~jobsClosed /\ ~failed
    /\ state = "failed" => failed
    /\ failed => state \in Ended \cup {"failed"}
    /\ \A w \in Workers : worker[w].pc = "failed" => Dead
    /\ \A c \in Clients : client[c] = "abortDone" => state \in Ended
    /\ \A c \in Clients : client[c] = "flush" => ~jobsClosed /\ state # "open"
    /\ \A c \in Clients : client[c] = "wait" => jobsClosed

(* A request is sent for a complete upload only, and a completed one left  *)
(* its object; behind someone else's object nothing lands.                 *)
SentInv ==
    /\ Sent => Complete
    /\ state = "completed" => object # <<>>
    /\ foreign => object = <<>> /\ ~late

(* What callers were told of the object.                                   *)
Unsure == "unknown" \in told
Retried == "retried" \in told
Denied == told \cap {"absent", "aborted"} # {}

(* No object is there or on its way and nobody is in doubt, unless the     *)
(* commit was retried after an unknown outcome.                            *)
Settled == Retried \/ (object = <<>> /\ ~late /\ ~Unsure)

(* The state tells what may be said: a stream that runs or failed is       *)
(* settled, and so is the caller whose request is still to be sent or was  *)
(* refused; an unknown outcome was reported, and an abort remembers it.    *)
(* Only a dead and settled stream was denied.                              *)
VerdictInv ==
    /\ state \in Live \cup {"failed"} \/ failed => Settled
    /\ state = "committing" => Retried \/ ~Unsure
    /\ \A c \in Clients : client[c] \in {"request", "refused"} => Settled
    /\ state = "unknown" => Unsure
    /\ state \in Ended /\ abortUnknown => Unsure
    /\ state \in Ended /\ ~abortUnknown => Settled
    /\ Denied => Dead /\ Settled

TxnInv == SourceInv /\ PieceInv /\ PhaseInv /\ SentInv /\ VerdictInv

(* Where the parts begin.                                                  *)
LEMMA BaseStep ==
    ASSUME NEW n \in Nat, n >= 1
    PROVE  /\ Base(n) \in Nat /\ Base(n + 1) = Base(n) + PartSize
           /\ Base(1) = 0 /\ PartSize \in Nat /\ PartSize > 0
<1>1. PartSize \in Nat /\ PartSize > 0
  BY UploadAssumption
<1>2. PICK m \in Nat : m = n - 1
  OBVIOUS
<1>3. PartSize * m \in Nat /\ PartSize * (m + 1) = PartSize * m + PartSize
  BY <1>1
<1>4. Base(n) = PartSize * m /\ Base(n + 1) = PartSize * (m + 1)
  BY <1>2 DEF Base
<1>5. Base(1) = 0
  BY <1>1 DEF Base
<1> QED
  BY <1>1, <1>3, <1>4, <1>5

(* A part ends where or before a later one begins.                         *)
LEMMA BaseOrder ==
    ASSUME NEW m \in Nat, NEW n \in Nat, m >= 1, m < n
    PROVE  Base(m) + PartSize <= Base(n)
<1>1. PartSize \in Nat
  BY UploadAssumption
<1>2. PICK a, d \in Nat : a = m - 1 /\ n - 1 = a + d + 1
  <2>1. m - 1 \in Nat /\ n - m - 1 \in Nat /\ n - 1 = (m - 1) + (n - m - 1) + 1
    OBVIOUS
  <2> QED
    BY <2>1
<1>3. PartSize * (a + d + 1) = PartSize * a + PartSize * d + PartSize /\ PartSize * d \in Nat
      /\ PartSize * a \in Nat
  BY <1>1
<1>4. Base(m) = PartSize * a /\ Base(n) = PartSize * (a + d + 1)
  BY <1>2 DEF Base
<1> QED
  BY <1>1, <1>3, <1>4

(* A full part holds its bytes whatever is written after it.               *)
LEMMA ChunkFull ==
    ASSUME NEW n \in Nat, n >= 1, NEW o \in Nat, NEW p \in Nat,
           Base(n) + PartSize <= o, o <= p
    PROVE  Chunk(n, o) = Chunk(n, p) /\ Part(n, o) = Part(n, p)
<1>1. Base(n) \in Nat /\ PartSize \in Nat
  BY BaseStep
<1>2. Limit(n, o) = Limit(n, p)
  BY <1>1 DEF Limit
<1> QED
  BY <1>2 DEF Chunk, Part

(* The bytes of a part that is not yet full.                               *)
LEMMA ChunkOpen ==
    ASSUME NEW n \in Nat, n >= 1, NEW k \in Nat, k <= PartSize
    PROVE  Chunk(n, Base(n) + k) = [i \in 1..k |-> Base(n) + i]
<1>1. Base(n) \in Nat /\ PartSize \in Nat
  BY BaseStep
<1>2. Limit(n, Base(n) + k) - Base(n) = k
  BY <1>1 DEF Limit
<1> QED
  BY <1>2 DEF Chunk

(* Counting on: a sequence of successive numbers is continued.             *)
LEMMA CountOn ==
    ASSUME NEW b \in Nat, NEW a \in Nat, NEW m \in Nat
    PROVE  [i \in 1..a |-> b + i] \o [i \in 1..m |-> (b + a) + i] = [i \in 1..(a + m) |-> b + i]
<1> DEFINE s == [i \in 1..a |-> b + i]
           t == [i \in 1..m |-> (b + a) + i]
           u == [i \in 1..(a + m) |-> b + i]
<1>1. s \in Seq(Nat) /\ t \in Seq(Nat) /\ u \in Seq(Nat)
      /\ Len(s) = a /\ Len(t) = m /\ Len(u) = a + m
  OBVIOUS
<1>2. s \o t \in Seq(Nat) /\ Len(s \o t) = a + m
      /\ \A i \in 1..(a + m) : (s \o t)[i] = IF i <= a THEN s[i] ELSE t[i - a]
  BY <1>1, ConcatProperties
<1>3. ASSUME NEW i \in 1..(a + m) PROVE (s \o t)[i] = u[i]
  <2>1. CASE i <= a
    BY <1>2, <2>1
  <2>2. CASE ~(i <= a)
    <3>1. i - a \in 1..m /\ b + a + (i - a) = b + i
      BY <2>2
    <3> QED
      BY <1>2, <2>2, <3>1
  <2> QED
    BY <2>1, <2>2
<1> QED
  BY <1>1, <1>2, <1>3, SeqEqual

(* The bytes a part begins with are written.                               *)
LEMMA ChunkEmpty ==
    ASSUME NEW n \in Nat, n >= 1, NEW o \in Nat, o <= Base(n)
    PROVE  Chunk(n, o) = <<>> /\ Chunk(n, o) \in Seq(Nat)
<1>1. Base(n) \in Nat /\ PartSize \in Nat
  BY BaseStep
<1>2. PICK k \in Int : k = Limit(n, o) - Base(n) /\ k <= 0
  BY <1>1 DEF Limit
<1>3. 1..k = {}
  BY <1>2
<1>4. Chunk(n, o) = [i \in 1..k |-> Base(n) + i]
  BY <1>2 DEF Chunk
<1> QED
  BY <1>3, <1>4

(* The parts of o bytes, put together in the order of their numbers.       *)
Upto(k, o) == IF o < Base(k + 1) THEN o ELSE Base(k + 1)
Chunks(k, o) == [n \in 1..k |-> Chunk(n, o)]

(* The next part.                                                          *)
LEMMA ChunkNext ==
    ASSUME NEW k \in Nat, NEW o \in Nat
    PROVE  /\ Chunk(k + 1, o) \in Seq(Nat) /\ Upto(k, o) \in Nat
           /\ [i \in 1..Upto(k, o) |-> i] \o Chunk(k + 1, o) = [i \in 1..Upto(k + 1, o) |-> i]
<1>1. PICK n \in Nat : n = k + 1 /\ n >= 1
  OBVIOUS
<1>2. Base(n) \in Nat /\ PartSize \in Nat /\ Base(n + 1) = Base(n) + PartSize
  BY <1>1, BaseStep
<1>3. Upto(k, o) = IF o < Base(n) THEN o ELSE Base(n)
  BY <1>1 DEF Upto
<1>4. Upto(k + 1, o) = IF o < Base(n) + PartSize THEN o ELSE Base(n) + PartSize
  BY <1>1, <1>2 DEF Upto
<1>5. CASE o <= Base(n)
  <2>1. Chunk(n, o) = <<>> /\ Chunk(n, o) \in Seq(Nat)
    BY <1>1, <1>5, ChunkEmpty
  <2>2. Upto(k, o) = o /\ Upto(k + 1, o) = o
    BY <1>2, <1>3, <1>4, <1>5
  <2>3. [i \in 1..o |-> i] \in Seq(Nat)
    OBVIOUS
  <2>4. [i \in 1..o |-> i] \o <<>> = [i \in 1..o |-> i]
    BY <2>3, ConcatEmptySeq
  <2> QED
    BY <1>1, <2>1, <2>2, <2>4
<1>6. CASE ~(o <= Base(n))
  <2>1. PICK b, m \in Nat : b = Base(n) /\ m = Limit(n, o) - Base(n)
    BY <1>2, <1>6 DEF Limit
  <2>2. Upto(k, o) = b /\ Upto(k + 1, o) = b + m
    BY <1>2, <1>3, <1>4, <1>6, <2>1 DEF Limit
  <2>3. Chunk(n, o) = [i \in 1..m |-> b + i]
    BY <2>1 DEF Chunk
  <2>4. [i \in 1..b |-> 0 + i] \o [i \in 1..m |-> (0 + b) + i] = [i \in 1..(b + m) |-> 0 + i]
    BY CountOn
  <2>5. [i \in 1..b |-> 0 + i] = [i \in 1..b |-> i]
        /\ [i \in 1..m |-> (0 + b) + i] = [i \in 1..m |-> b + i]
        /\ [i \in 1..(b + m) |-> 0 + i] = [i \in 1..(b + m) |-> i]
    OBVIOUS
  <2>6. [i \in 1..m |-> b + i] \in Seq(Nat)
    OBVIOUS
  <2> QED
    BY <1>1, <2>2, <2>3, <2>4, <2>5, <2>6
<1> QED
  BY <1>5, <1>6

(* All parts together are what was written.                                *)
LEMMA ChunksFlatten ==
    ASSUME NEW o \in Nat, NEW k \in Nat
    PROVE  FlattenSeq(Chunks(k, o)) = [i \in 1..Upto(k, o) |-> i]
<1> DEFINE T == {j \in Nat : FlattenSeq(Chunks(j, o)) = [i \in 1..Upto(j, o) |-> i]}
<1>1. \A j \in Nat : Chunks(j, o) \in Seq(Seq(Nat)) /\ Len(Chunks(j, o)) = j
  <2> SUFFICES ASSUME NEW j \in Nat PROVE Chunks(j, o) \in Seq(Seq(Nat)) /\ Len(Chunks(j, o)) = j
    OBVIOUS
  <2>1. ASSUME NEW n \in 1..j PROVE Chunk(n, o) \in Seq(Nat)
    <3>1. PICK m \in Nat : n = m + 1
      OBVIOUS
    <3> QED
      BY <3>1, ChunkNext
  <2> QED
    BY <2>1 DEF Chunks
<1>2. 0 \in T
  <2>1. Chunks(0, o) = <<>>
    BY <1>1
  <2>2. Base(1) = 0
    BY BaseStep
  <2>3. Upto(0, o) = 0
    BY <2>2 DEF Upto
  <2>4. [i \in 1..0 |-> i] = <<>>
    OBVIOUS
  <2> QED
    BY <2>1, <2>3, <2>4, FlattenEmpty
<1>3. ASSUME NEW j \in Nat, j \in T PROVE j + 1 \in T
  <2>1. Chunk(j + 1, o) \in Seq(Nat)
        /\ [i \in 1..Upto(j, o) |-> i] \o Chunk(j + 1, o) = [i \in 1..Upto(j + 1, o) |-> i]
    BY ChunkNext
  <2>2. Chunks(j + 1, o) = Append(Chunks(j, o), Chunk(j + 1, o))
    <3>1. PICK s \in Seq(Seq(Nat)), e \in Seq(Nat), t \in Seq(Seq(Nat)) :
            s = Chunks(j, o) /\ e = Chunk(j + 1, o) /\ t = Chunks(j + 1, o)
      BY <1>1, <2>1
    <3>2. Len(s) = j /\ Len(t) = j + 1
      BY <1>1, <3>1
    <3>3. /\ Append(s, e) \in Seq(Seq(Nat)) /\ Len(Append(s, e)) = j + 1
          /\ \A i \in 1..j : Append(s, e)[i] = s[i]
          /\ Append(s, e)[j + 1] = e
      BY <3>2, AppendProperties
    <3>4. /\ \A i \in 1..j : s[i] = Chunk(i, o)
          /\ \A i \in 1..(j + 1) : t[i] = Chunk(i, o)
      BY <3>1 DEF Chunks
    <3>5. \A i \in 1..(j + 1) : Append(s, e)[i] = t[i]
      BY <3>1, <3>3, <3>4
    <3>6. Append(s, e) = t
      BY <3>2, <3>3, <3>5, SeqEqual
    <3> QED
      BY <3>1, <3>6
  <2>3. FlattenSeq(Append(Chunks(j, o), Chunk(j + 1, o)))
        = FlattenSeq(Chunks(j, o)) \o Chunk(j + 1, o)
    BY <1>1, <2>1, FlattenAppend, ZenonT(40)
  <2>4. FlattenSeq(Chunks(j, o)) = [i \in 1..Upto(j, o) |-> i]
    BY <1>3
  <2>5. FlattenSeq(Chunks(j + 1, o)) = [i \in 1..Upto(j + 1, o) |-> i]
    BY <2>1, <2>2, <2>3, <2>4, Zenon
  <2>6. j + 1 \in Nat
    OBVIOUS
  <2> QED
    BY <2>5, <2>6, Zenon
<1> HIDE DEF T
<1>4. Nat \subseteq T
  BY <1>2, <1>3, NatSetInduction
<1> QED
  BY <1>4 DEF T

(* As many different parts as there are numbers are all the parts.         *)
LEMMA AllReceived ==
    ASSUME NEW k \in Nat, NEW o \in Nat, NEW R, R \subseteq {Part(n, o) : n \in 1..k},
           Cardinality(R) = k
    PROVE  R = {Part(n, o) : n \in 1..k}
<1> DEFINE S == {Part(n, o) : n \in 1..k}
           f == [n \in 1..k |-> Part(n, o)]
<1>1. IsFiniteSet(1..k) /\ Cardinality(1..k) = k
  BY FS_Interval
<1>2. f \in Surjection(1..k, S)
  BY DEF Surjection
<1>3. IsFiniteSet(S) /\ Cardinality(S) <= k
  BY <1>1, <1>2, FS_Surjection
<1>4. IsFiniteSet(R) /\ Cardinality(R) <= Cardinality(S) /\ (Cardinality(S) = Cardinality(R) => S = R)
  BY <1>3, FS_Subset
<1>5. Cardinality(S) \in Nat
  BY <1>3, FS_CardinalityType
<1> QED
  BY <1>3, <1>4, <1>5

(* A complete upload is put together to what was written.                  *)
LEMMA CompleteIsContent ==
    ASSUME TypeInv, SourceInv, PieceInv, Complete
    PROVE  Assembled = Content
<1>1. PICK k \in Nat : k = nextPart - 1 /\ nextPart = k + 1
  BY DEF TypeInv, SourceInv
<1>2. offset \in Nat /\ offset <= Base(k + 1) /\ Cardinality(receipts) = k
  BY <1>1 DEF TypeInv, Complete
<1>3. Pieces = {Part(n, offset) : n \in 1..k} /\ receipts \subseteq Pieces
  BY <1>1 DEF Pieces, PieceInv
<1>4. receipts = {Part(n, offset) : n \in 1..k}
  BY <1>2, <1>3, AllReceived
<1>5. ASSUME NEW n \in 1..k
      PROVE  (CHOOSE r \in receipts : r.number = n).bytes = Chunk(n, offset)
  <2>1. Part(n, offset) \in receipts /\ Part(n, offset).number = n
    BY <1>4 DEF Part
  <2>2. ASSUME NEW r \in receipts, r.number = n PROVE r = Part(n, offset)
    BY <1>4, <2>2 DEF Part
  <2>3. (CHOOSE r \in receipts : r.number = n) = Part(n, offset)
    BY <2>1, <2>2
  <2>4. Part(n, offset).bytes = Chunk(n, offset)
    BY DEF Part
  <2> QED
    BY <2>3, <2>4, Zenon
<1>6. [n \in 1..k |-> (CHOOSE r \in receipts : r.number = n).bytes] = Chunks(k, offset)
  BY <1>5 DEF Chunks
<1>7. Assembled = FlattenSeq(Chunks(k, offset))
  BY <1>1, <1>6 DEF Assembled
<1>8. Base(k + 1) \in Nat
  BY <1>1, BaseStep
<1>9. Upto(k, offset) = offset
  BY <1>2, <1>8 DEF Upto
<1> QED
  BY <1>2, <1>7, <1>9, ChunksFlatten DEF Content

(* Before a request is sent a Write or a worker may be busy, after it      *)
(* everything is done.                                                     *)
LEMMA BusyNotSent ==
    ASSUME IInv, TxnInv, writer.pc # "idle" \/ ~jobsClosed \/ \E w \in Workers : worker[w].pc # "done"
    PROVE  /\ object = <<>> /\ ~late
           /\ state \notin {"committing", "completed", "unknown"}
<1>1. ~Complete
  BY DEF TxnInv, SourceInv, Complete, AllDone
<1> QED
  BY <1>1 DEF TxnInv, SentInv, Sent

(* A stream that commits is not dead, and its workers are done.            *)
LEMMA CommittingNotDead ==
    ASSUME IInv, TxnInv, state \in {"committing", "completed", "unknown"}
    PROVE  /\ ~failed /\ ~Dead /\ jobsClosed /\ \A w \in Workers : worker[w].pc = "done"
           /\ Complete
<1>1. Complete
  BY DEF TxnInv, SentInv, Sent
<1>2. ~failed /\ ~Dead
  BY DEF TxnInv, PhaseInv, Dead, Ended
<1> QED
  BY <1>1, <1>2 DEF Complete, AllDone

(* Who requests a commit.                                                  *)
LEMMA RequestState ==
    ASSUME IInv, TxnInv, NEW c \in Clients,
           client[c] \in {"request", "reconcile", "refused"}
    PROVE  /\ state = "committing" /\ ~failed /\ ~Dead /\ jobsClosed
           /\ \A w \in Workers : worker[w].pc = "done"
           /\ Complete
<1>1. state = "committing"
  BY DEF IInv, AbortInv
<1> QED
  BY <1>1, CommittingNotDead


(* A request changes the state, where it is answered, and the caller.      *)
LEMMA RequestEffect ==
    ASSUME NEW c \in Clients, CommitRequest(c)
    PROVE  /\ state' \in {state, "completed"} /\ UNCHANGED <<failed, jobsClosed, worker>>
           /\ \E q \in {"idle", "reconcile", "refused"} : client' = [client EXCEPT ![c] = q]
<1> USE DEF streamRest
<1>1. UNCHANGED <<failed, jobsClosed, worker>>
  BY DEF CommitRequest, Committed, LookFor
<1>2. /\ state' \in {state, "completed"}
      /\ \E q \in {"idle", "reconcile", "refused"} : client' = [client EXCEPT ![c] = q]
  BY DEF CommitRequest, Committed, LookFor, CommitReply, Reply
<1> QED
  BY <1>1, <1>2

(* What the look at the object comes to.                                   *)
LEMMA ReconcileCases ==
    ASSUME NEW c \in Clients, Reconcile(c)
    PROVE  \/ Committed(c) /\ object # <<>>
           \/ /\ NotCommitted(c, TRUE) /\ object = <<>>
              /\ foreign \/ client[c] = "refused"
           \/ NotCommitted(c, FALSE)
<1>1. CASE object = <<>> /\ NotCommitted(c, foreign \/ client[c] = "refused")
  <2>1. (foreign \/ client[c] = "refused") \in BOOLEAN
    OBVIOUS
  <2>2. CASE foreign \/ client[c] = "refused"
    BY <1>1, <2>2 DEF NotCommitted
  <2>3. CASE ~(foreign \/ client[c] = "refused")
    BY <1>1, <2>3 DEF NotCommitted
  <2> QED
    BY <2>2, <2>3
<1> QED
  BY <1>1 DEF Reconcile

(* The look at the object settles the state.                               *)
LEMMA ReconcileEffect ==
    ASSUME NEW c \in Clients, Reconcile(c)
    PROVE  /\ UNCHANGED <<jobsClosed, worker>> /\ client' = [client EXCEPT ![c] = "idle"]
           /\ \/ state' = "completed" /\ UNCHANGED failed
              \/ state' = "unknown" /\ ~failed'
              \/ state' = "failed" /\ failed'
<1> USE DEF streamRest
<1>1. UNCHANGED <<jobsClosed, worker>>
  BY DEF Reconcile
<1>2. CASE Committed(c)
  BY <1>1, <1>2 DEF Committed, CommitReply, Reply
<1>3. CASE NotCommitted(c, TRUE)
  BY <1>1, <1>3 DEF NotCommitted, CommitReply, Reply
<1>4. CASE NotCommitted(c, FALSE)
  BY <1>1, <1>4 DEF NotCommitted, CommitReply, Reply
<1> QED
  BY <1>2, <1>3, <1>4, ReconcileCases

(* Every step keeps what the state says.                                   *)
LEMMA PhaseStep ==
    ASSUME IInv, TxnInv, [Next]_vars PROVE PhaseInv'
<1> USE DEF IInv, TypeInv, LockInv, AbortInv, TxnInv, SourceInv, PhaseInv, States, Dead, Ended, Live, CommitPcs, AbortPcs, streamVars, streamRest, lockVars, callVars, providerVars
<1>1. ASSUME NEW n \in WriteSizes, StartWrite(n) PROVE PhaseInv'
  BY <1>1 DEF StartWrite
<1>2. CASE FillActive
  BY <1>2 DEF FillActive, EndWrite, Idle
<1>3. CASE EnqueuePart
  BY <1>3 DEF EnqueuePart, SendPart, EndWrite, Idle
<1>4. CASE WriteFails
  <2>1. state \notin {"committing", "completed", "unknown"}
    BY <1>4, BusyNotSent DEF WriteFails
  <2> QED
    BY <1>4, <2>1, HolderAssumption DEF WriteFails, recordFailure, discardAndClose, Release, EndWrite, Idle
<1>5. ASSUME NEW c \in Clients, StartCall(c) PROVE PhaseInv'
  BY <1>5 DEF StartCall
<1>6. ASSUME NEW c \in Clients, TakeCommitMu(c) PROVE PhaseInv'
  BY <1>6 DEF TakeCommitMu
<1>7. ASSUME NEW c \in Clients, BeginSeal(c) PROVE PhaseInv'
  BY <1>7 DEF BeginSeal, CommitReply, Reply, discardAndClose, Release
<1>8. ASSUME NEW c \in Clients, SealFlush(c) PROVE PhaseInv'
  BY <1>8 DEF SealFlush, SendPart, CommitReply, Reply, discardAndClose, Release
<1>9. ASSUME NEW c \in Clients, CommitWait(c) PROVE PhaseInv'
  BY <1>9 DEF CommitWait, CommitReply, Reply
<1>10. ASSUME NEW c \in Clients, CommitRequest(c) PROVE PhaseInv'
  <2>1. /\ state = "committing" /\ ~failed /\ jobsClosed
        /\ \A w \in Workers : worker[w].pc = "done"
    BY <1>10, RequestState DEF CommitRequest
  <2> QED
    BY <1>10, <2>1, RequestEffect
<1>11. ASSUME NEW c \in Clients, Reconcile(c) PROVE PhaseInv'
  <2>1. /\ state = "committing" /\ ~failed /\ jobsClosed
        /\ \A w \in Workers : worker[w].pc = "done"
    BY <1>11, RequestState DEF Reconcile
  <2> QED
    BY <1>11, <2>1, ReconcileEffect
<1>12. ASSUME NEW c \in Clients, StartAbort(c) PROVE PhaseInv'
  BY <1>12 DEF StartAbort
<1>13. ASSUME NEW c \in Clients, AbortDiscard(c) PROVE PhaseInv'
  BY <1>13, HolderAssumption DEF AbortDiscard, discardAndClose, Release
<1>14. ASSUME NEW c \in Clients, StartCleanup(c) PROVE PhaseInv'
  BY <1>14 DEF StartCleanup, S3Cleanup, GCSCleanup, AzureCleanup
<1>15. ASSUME NEW c \in Clients, FinishCleanup(c) PROVE PhaseInv'
  BY <1>15 DEF FinishCleanup
<1>16. ASSUME NEW c \in Clients, WaitAbort(c) PROVE PhaseInv'
  BY <1>16 DEF WaitAbort, Reply
<1>17. ASSUME NEW c \in Clients, CancelCall(c) PROVE PhaseInv'
  BY <1>17 DEF CancelCall
<1>18. ASSUME NEW w \in Workers, TakeJob(w) PROVE PhaseInv'
  BY <1>18 DEF TakeJob, Release
<1>19. ASSUME NEW w \in Workers, PutSucceeds(w) PROVE PhaseInv'
  <2>1. state \notin {"committing", "completed", "unknown"}
    BY <1>19, BusyNotSent DEF PutSucceeds
  <2> QED
    BY <1>19, <2>1 DEF PutSucceeds, recordFailure, Release
<1>20. ASSUME NEW w \in Workers, PutFails(w) PROVE PhaseInv'
  <2>1. state \notin {"committing", "completed", "unknown"}
    BY <1>20, BusyNotSent DEF PutFails
  <2> QED
    BY <1>20, <2>1 DEF PutFails, recordFailure, Release
<1>21. ASSUME NEW w \in Workers, WorkerDiscard(w) PROVE PhaseInv'
  BY <1>21, HolderAssumption DEF WorkerDiscard, discardAndClose, Release
<1>22. ASSUME NEW w \in Workers, WorkerExit(w) PROVE PhaseInv'
  BY <1>22 DEF WorkerExit
<1>23. CASE FinishAbort
  BY <1>23 DEF FinishAbort
<1>24. CASE LateLanding
  BY <1>24 DEF LateLanding
<1>25. CASE UNCHANGED vars
  BY <1>25 DEF vars
<1> QED
  BY <1>1, <1>2, <1>3, <1>4, <1>5, <1>6, <1>7, <1>8, <1>9, <1>10, <1>11, <1>12,
     <1>13, <1>14, <1>15, <1>16, <1>17, <1>18, <1>19, <1>20, <1>21, <1>22, <1>23, <1>24, <1>25
  DEF Next, Writer, Client, Worker

(* A dead stream stays dead.                                               *)
LEMMA DeadStays ==
    ASSUME IInv, TxnInv, [Next]_vars PROVE (Dead => Dead')
<1> USE DEF IInv, AbortInv, TxnInv, PhaseInv, Dead, Ended, Live, streamVars, streamRest, lockVars, callVars, providerVars
<1>1. ASSUME NEW n \in WriteSizes, StartWrite(n) PROVE (Dead => Dead')
  BY <1>1 DEF StartWrite
<1>2. CASE FillActive
  BY <1>2 DEF FillActive, EndWrite, Idle
<1>3. CASE EnqueuePart
  BY <1>3 DEF EnqueuePart, SendPart, EndWrite, Idle
<1>4. CASE WriteFails
  BY <1>4 DEF WriteFails, recordFailure, discardAndClose, Release, EndWrite, Idle
<1>5. ASSUME NEW c \in Clients, StartCall(c) PROVE (Dead => Dead')
  BY <1>5 DEF StartCall
<1>6. ASSUME NEW c \in Clients, TakeCommitMu(c) PROVE (Dead => Dead')
  BY <1>6 DEF TakeCommitMu
<1>7. ASSUME NEW c \in Clients, BeginSeal(c) PROVE (Dead => Dead')
  BY <1>7 DEF BeginSeal, CommitReply, Reply, discardAndClose, Release
<1>8. ASSUME NEW c \in Clients, SealFlush(c) PROVE (Dead => Dead')
  BY <1>8 DEF SealFlush, SendPart, CommitReply, Reply, discardAndClose, Release
<1>9. ASSUME NEW c \in Clients, CommitWait(c) PROVE (Dead => Dead')
  BY <1>9 DEF CommitWait, CommitReply, Reply
<1>10. ASSUME NEW c \in Clients, CommitRequest(c) PROVE (Dead => Dead')
  BY <1>10, RequestState, RequestEffect DEF CommitRequest
<1>11. ASSUME NEW c \in Clients, Reconcile(c) PROVE (Dead => Dead')
  BY <1>11, RequestState DEF Reconcile
<1>12. ASSUME NEW c \in Clients, StartAbort(c) PROVE (Dead => Dead')
  BY <1>12 DEF StartAbort
<1>13. ASSUME NEW c \in Clients, AbortDiscard(c) PROVE (Dead => Dead')
  BY <1>13 DEF AbortDiscard, discardAndClose, Release
<1>14. ASSUME NEW c \in Clients, StartCleanup(c) PROVE (Dead => Dead')
  BY <1>14 DEF StartCleanup, S3Cleanup, GCSCleanup, AzureCleanup
<1>15. ASSUME NEW c \in Clients, FinishCleanup(c) PROVE (Dead => Dead')
  BY <1>15 DEF FinishCleanup
<1>16. ASSUME NEW c \in Clients, WaitAbort(c) PROVE (Dead => Dead')
  BY <1>16 DEF WaitAbort, Reply
<1>17. ASSUME NEW c \in Clients, CancelCall(c) PROVE (Dead => Dead')
  BY <1>17 DEF CancelCall
<1>18. ASSUME NEW w \in Workers, TakeJob(w) PROVE (Dead => Dead')
  BY <1>18 DEF TakeJob, Release
<1>19. ASSUME NEW w \in Workers, PutSucceeds(w) PROVE (Dead => Dead')
  BY <1>19 DEF PutSucceeds, recordFailure, Release
<1>20. ASSUME NEW w \in Workers, PutFails(w) PROVE (Dead => Dead')
  BY <1>20 DEF PutFails, recordFailure, Release
<1>21. ASSUME NEW w \in Workers, WorkerDiscard(w) PROVE (Dead => Dead')
  BY <1>21 DEF WorkerDiscard, discardAndClose, Release
<1>22. ASSUME NEW w \in Workers, WorkerExit(w) PROVE (Dead => Dead')
  BY <1>22 DEF WorkerExit
<1>23. CASE FinishAbort
  BY <1>23 DEF FinishAbort
<1>24. CASE LateLanding
  BY <1>24 DEF LateLanding
<1>25. CASE UNCHANGED vars
  BY <1>25 DEF vars
<1> QED
  BY <1>1, <1>2, <1>3, <1>4, <1>5, <1>6, <1>7, <1>8, <1>9, <1>10, <1>11, <1>12,
     <1>13, <1>14, <1>15, <1>16, <1>17, <1>18, <1>19, <1>20, <1>21, <1>22, <1>23, <1>24, <1>25
  DEF Next, Writer, Client, Worker

(* The active buffer, given what was written.                              *)
LEMMA ActiveIs ==
    ASSUME TypeInv, SourceInv, ~jobsClosed
    PROVE  /\ nextPart \in Nat /\ nextPart >= 1 /\ Base(nextPart) \in Nat
           /\ Len(active) \in Nat /\ offset = Base(nextPart) + Len(active)
           /\ active = [i \in 1..Len(active) |-> Base(nextPart) + i]
<1>1. nextPart \in Nat /\ nextPart >= 1 /\ active \in Seq(Nat) /\ Len(active) <= PartSize
  BY DEF TypeInv, SourceInv, Bytes
<1>2. Base(nextPart) \in Nat /\ Len(active) \in Nat
  <2>1. Base(nextPart) \in Nat
    BY <1>1, BaseStep
  <2>2. Len(active) \in Nat
    BY <1>1
  <2> QED
    BY <2>1, <2>2
<1>3. offset = Base(nextPart) + Len(active) /\ active = Chunk(nextPart, offset)
  BY DEF SourceInv
<1> QED
  BY <1>1, <1>2, <1>3, ChunkOpen

(* What FillActive adds continues the active buffer.                       *)
LEMMA FillContinues ==
    ASSUME IInv, TxnInv, FillActive
    PROVE  /\ UNCHANGED <<nextPart, jobsClosed>> /\ ~jobsClosed
           /\ offset' = Base(nextPart) + Len(active') /\ offset <= offset' /\ offset' \in Nat
           /\ active' = Chunk(nextPart, offset')
           /\ writer'.pc = "enqueue" => Len(active') = PartSize
<1> DEFINE room == PartSize - Len(active)
           n == IF writer.left < room THEN writer.left ELSE room
           new == [i \in 1..n |-> offset + i]
<1>1. TypeInv /\ SourceInv /\ ~jobsClosed /\ UNCHANGED <<nextPart, jobsClosed>>
  BY DEF IInv, TxnInv, SourceInv, FillActive
<1>2. /\ active' = active \o new /\ offset' = offset + n
      /\ writer'.pc = "enqueue" => n = room
  BY DEF FillActive, EndWrite, Idle
<1>3. PICK a, b \in Nat : a = Len(active) /\ b = Base(nextPart)
  BY <1>1, ActiveIs
<1>4. offset = b + a /\ active = [i \in 1..a |-> b + i] /\ a <= PartSize /\ PartSize \in Nat
      /\ nextPart \in Nat /\ nextPart >= 1 /\ writer.left \in Nat
  BY <1>1, <1>3, ActiveIs, UploadAssumption DEF TypeInv, WriterType
<1>5. PICK m \in Nat : m = n /\ m <= PartSize - a
  BY <1>3, <1>4
<1> HIDE DEF n, room
<1>6. active' = [i \in 1..(a + m) |-> b + i]
  <2>1. [i \in 1..a |-> b + i] \o [i \in 1..m |-> (b + a) + i] = [i \in 1..(a + m) |-> b + i]
    BY CountOn
  <2> QED
    BY <1>2, <1>4, <1>5, <2>1
<1>7. Len(active') = a + m
  BY <1>6
<1>8. Chunk(nextPart, b + (a + m)) = [i \in 1..(a + m) |-> Base(nextPart) + i]
  BY <1>3, <1>4, <1>5, ChunkOpen
<1>9. offset' = b + (a + m)
  BY <1>2, <1>3, <1>4, <1>5
<1>10. n = room => a + m = PartSize
  BY <1>3, <1>4, <1>5 DEF room
<1>11. active' = Chunk(nextPart, offset')
  BY <1>3, <1>6, <1>8, <1>9
<1>12. offset' = Base(nextPart) + Len(active') /\ offset <= offset' /\ offset' \in Nat
  BY <1>3, <1>4, <1>7, <1>9
<1>13. writer'.pc = "enqueue" => Len(active') = PartSize
  BY <1>2, <1>7, <1>10
<1> QED
  BY <1>1, <1>11, <1>12, <1>13

(* After a part was sent the next one is empty.                            *)
LEMMA SentContinues ==
    ASSUME IInv, TxnInv, SendPart, ~jobsClosed, UNCHANGED offset
    PROVE  /\ nextPart' = nextPart + 1 /\ active' = <<>> /\ offset' <= Base(nextPart')
           /\ nextPart' \in Nat /\ nextPart' >= 1 /\ Len(active') = 0
           /\ Len(active) = PartSize => offset' = Base(nextPart') /\ active' = Chunk(nextPart', offset')
<1>1. TypeInv /\ SourceInv
  BY DEF IInv, TxnInv
<1>2. PICK n \in Nat : n = nextPart /\ n >= 1 /\ Base(n) \in Nat /\ Len(active) \in Nat
                       /\ offset = Base(n) + Len(active)
  BY <1>1, ActiveIs
<1>3. nextPart' = n + 1 /\ active' = <<>> /\ offset' = offset /\ Len(active') = 0
  BY <1>2 DEF SendPart
<1>4. Base(n + 1) = Base(n) + PartSize /\ PartSize \in Nat
  BY <1>2, BaseStep
<1>5. Len(active) <= PartSize
  BY <1>1 DEF TypeInv
<1>6. offset <= Base(n + 1) /\ (Len(active) = PartSize => offset = Base(n + 1))
  BY <1>2, <1>4, <1>5
<1>7. PICK k \in Nat : k = n + 1 /\ k >= 1
  BY <1>2
<1>8. offset \in Nat
  BY <1>2
<1>9. Chunk(k, offset) = <<>>
  BY <1>6, <1>7, <1>8, ChunkEmpty
<1> QED
  BY <1>2, <1>3, <1>6, <1>7, <1>9

(* A step that neither writes nor closes.                                  *)
LEMMA SourceSame ==
    ASSUME SourceInv, UNCHANGED <<offset, nextPart, active, jobsClosed, writer>>, Dead => Dead'
    PROVE  SourceInv'
BY DEF SourceInv

(* A discard, of a dead stream.                                            *)
LEMMA SourceDiscarded ==
    ASSUME SourceInv, discardAndClose, Dead', UNCHANGED <<offset, nextPart>>, writer'.pc = "idle"
    PROVE  SourceInv'
BY DEF SourceInv, discardAndClose

(* Every step keeps the bytes of the stream in order.                      *)
LEMMA SourceStep ==
    ASSUME IInv, TxnInv, [Next]_vars PROVE SourceInv'
<1> USE DEF streamVars, streamRest, lockVars, callVars, providerVars
<1>1. ASSUME NEW n \in WriteSizes, StartWrite(n) PROVE SourceInv'
  BY <1>1, DeadStays DEF StartWrite, SourceInv, TxnInv, PhaseInv, Dead
<1>2. CASE FillActive
  <2>1. writer'.pc # "idle" => ~jobsClosed'
    BY <1>2, FillContinues
  <2> QED
    BY <1>2, <2>1, FillContinues DEF SourceInv, TxnInv
<1>3. CASE EnqueuePart
  <2>1. ~jobsClosed /\ Len(active) = PartSize /\ SendPart /\ UNCHANGED <<offset, jobsClosed>>
    BY <1>3 DEF EnqueuePart, TxnInv, SourceInv
  <2>2. /\ nextPart' >= 1 /\ nextPart' \in Nat /\ Len(active') = 0
        /\ offset' = Base(nextPart') /\ active' = Chunk(nextPart', offset')
    BY <2>1, SentContinues
  <2>3. offset' = Base(nextPart') + Len(active')
    <3>1. Base(nextPart') \in Nat
      BY <2>2, BaseStep
    <3> QED
      BY <2>2, <3>1
  <2>4. writer'.pc # "enqueue"
    BY <1>3 DEF EnqueuePart, EndWrite, Idle, IInv, TypeInv, WriterType
  <2> QED
    BY <2>1, <2>2, <2>3, <2>4 DEF SourceInv
<1>4. CASE WriteFails
  <2>1. Dead => Dead'
    BY DeadStays
  <2>2. writer'.pc = "idle" /\ UNCHANGED <<offset, nextPart>>
    BY <1>4 DEF WriteFails, EndWrite, Idle
  <2>3. CASE writer.accepted
    <3>1. discardAndClose /\ recordFailure
      BY <1>4, <2>3 DEF WriteFails
    <3>2. Dead'
      BY <2>1, <3>1 DEF recordFailure, Dead
    <3> QED
      BY <2>2, <3>1, <3>2, SourceDiscarded DEF TxnInv
  <2>4. CASE ~writer.accepted
    BY <1>4, <2>1, <2>2, <2>4 DEF WriteFails, TxnInv, SourceInv
  <2> QED
    BY <2>3, <2>4
<1>5. ASSUME NEW c \in Clients, StartCall(c) PROVE SourceInv'
  BY <1>5, DeadStays, SourceSame DEF StartCall, TxnInv
<1>6. ASSUME NEW c \in Clients, TakeCommitMu(c) PROVE SourceInv'
  BY <1>6, DeadStays, SourceSame DEF TakeCommitMu, TxnInv
<1>7. ASSUME NEW c \in Clients, BeginSeal(c) PROVE SourceInv'
  <2>1. Dead => Dead'
    BY DeadStays
  <2>2. UNCHANGED <<offset, nextPart, writer>>
    BY <1>7 DEF BeginSeal
  <2>3. CASE UNCHANGED <<active, jobsClosed>>
    BY <2>1, <2>2, <2>3, SourceSame DEF TxnInv
  <2>4. CASE state = "failed" /\ discardAndClose
    <3>1. Dead'
      BY <2>1, <2>4 DEF TxnInv, PhaseInv, Dead
    <3>2. writer'.pc = "idle"
      BY <1>7, <2>2 DEF BeginSeal, IInv, LockInv
    <3> QED
      BY <2>2, <2>4, <3>1, <3>2, SourceDiscarded DEF TxnInv
  <2> QED
    BY <1>7, <2>3, <2>4 DEF BeginSeal
<1>8. ASSUME NEW c \in Clients, SealFlush(c) PROVE SourceInv'
  <2>1. Dead => Dead'
    BY DeadStays
  <2>2. UNCHANGED <<offset, writer>> /\ ~jobsClosed /\ writer.pc = "idle"
    BY <1>8, HolderAssumption DEF SealFlush, TxnInv, PhaseInv, IInv, LockInv
  <2>3. CASE active = <<>> /\ UNCHANGED <<jobs, active, nextPart>> /\ jobsClosed'
    <3>1. offset = Base(nextPart)
      BY <2>2, <2>3, ActiveIs DEF TxnInv, IInv
    <3>2. Base(nextPart) \in Nat /\ nextPart >= 1
      BY <2>2, ActiveIs DEF TxnInv, IInv
    <3> QED
      BY <2>2, <2>3, <3>1, <3>2 DEF SourceInv
  <2>4. CASE SendPart /\ jobsClosed'
    BY <2>2, <2>4, SentContinues DEF SourceInv
  <2>5. CASE discardAndClose /\ state \in Ended \cup {"failed"} /\ UNCHANGED nextPart
    <3>1. Dead'
      BY <2>1, <2>5 DEF TxnInv, PhaseInv, Dead
    <3> QED
      BY <2>2, <2>5, <3>1, SourceDiscarded DEF TxnInv
  <2>6. CASE UNCHANGED <<active, jobsClosed, nextPart>>
    BY <2>1, <2>2, <2>6, SourceSame DEF TxnInv
  <2> QED
    BY <1>8, <2>3, <2>4, <2>5, <2>6 DEF SealFlush
<1>9. ASSUME NEW c \in Clients, CommitWait(c) PROVE SourceInv'
  BY <1>9, DeadStays, SourceSame DEF CommitWait, TxnInv
<1>10. ASSUME NEW c \in Clients, CommitRequest(c) PROVE SourceInv'
  BY <1>10, DeadStays, SourceSame DEF CommitRequest, TxnInv
<1>11. ASSUME NEW c \in Clients, Reconcile(c) PROVE SourceInv'
  BY <1>11, DeadStays, SourceSame DEF Reconcile, TxnInv
<1>12. ASSUME NEW c \in Clients, StartAbort(c) PROVE SourceInv'
  BY <1>12, DeadStays, SourceSame DEF StartAbort, TxnInv
<1>13. ASSUME NEW c \in Clients, AbortDiscard(c) PROVE SourceInv'
  <2>1. Dead' /\ discardAndClose /\ UNCHANGED <<offset, nextPart>> /\ writer'.pc = "idle"
    BY <1>13, DeadStays DEF AbortDiscard, IInv, AbortInv, AbortPcs, LockInv, Dead, Ended
  <2> QED
    BY <2>1, SourceDiscarded DEF TxnInv
<1>14. ASSUME NEW c \in Clients, StartCleanup(c) PROVE SourceInv'
  BY <1>14, DeadStays, SourceSame DEF StartCleanup, TxnInv
<1>15. ASSUME NEW c \in Clients, FinishCleanup(c) PROVE SourceInv'
  BY <1>15, DeadStays, SourceSame DEF FinishCleanup, TxnInv
<1>16. ASSUME NEW c \in Clients, WaitAbort(c) PROVE SourceInv'
  BY <1>16, DeadStays, SourceSame DEF WaitAbort, TxnInv
<1>17. ASSUME NEW c \in Clients, CancelCall(c) PROVE SourceInv'
  BY <1>17, DeadStays, SourceSame DEF CancelCall, TxnInv
<1>18. ASSUME NEW w \in Workers, TakeJob(w) PROVE SourceInv'
  BY <1>18, DeadStays, SourceSame DEF TakeJob, TxnInv
<1>19. ASSUME NEW w \in Workers, PutSucceeds(w) PROVE SourceInv'
  BY <1>19, DeadStays, SourceSame DEF PutSucceeds, TxnInv
<1>20. ASSUME NEW w \in Workers, PutFails(w) PROVE SourceInv'
  BY <1>20, DeadStays, SourceSame DEF PutFails, TxnInv
<1>21. ASSUME NEW w \in Workers, WorkerDiscard(w) PROVE SourceInv'
  <2>1. Dead' /\ discardAndClose /\ UNCHANGED <<offset, nextPart>> /\ writer'.pc = "idle"
    BY <1>21, DeadStays DEF WorkerDiscard, IInv, LockInv, TxnInv, PhaseInv
  <2> QED
    BY <2>1, SourceDiscarded DEF TxnInv
<1>22. ASSUME NEW w \in Workers, WorkerExit(w) PROVE SourceInv'
  BY <1>22, DeadStays, SourceSame DEF WorkerExit, TxnInv
<1>23. CASE FinishAbort
  BY <1>23, DeadStays, SourceSame DEF FinishAbort, TxnInv
<1>24. CASE LateLanding
  BY <1>24, DeadStays, SourceSame DEF LateLanding, TxnInv
<1>25. CASE UNCHANGED vars
  BY <1>25, DeadStays, SourceSame DEF vars, TxnInv
<1> QED
  BY <1>1, <1>2, <1>3, <1>4, <1>5, <1>6, <1>7, <1>8, <1>9, <1>10, <1>11, <1>12,
     <1>13, <1>14, <1>15, <1>16, <1>17, <1>18, <1>19, <1>20, <1>21, <1>22, <1>23, <1>24, <1>25
  DEF Next, Writer, Client, Worker

(* A step that moves no part.                                              *)
LEMMA PieceSame ==
    ASSUME PieceInv, UNCHANGED <<offset, nextPart, jobs, worker, receipts>>
    PROVE  PieceInv'
BY DEF PieceInv, Pieces

(* Parts move on: those queued, in flight and acknowledged were so before  *)
(* or are parts.                                                           *)
LEMMA PieceMoves ==
    ASSUME Pieces \subseteq Pieces',
           \A i \in 1..Len(jobs') : jobs'[i] \in Pieces',
           \A w \in Workers : worker'[w].pc = "put" => worker'[w].job \in Pieces',
           receipts' \subseteq Pieces'
    PROVE  PieceInv'
BY DEF PieceInv

(* What is written later belongs to later parts.                           *)
LEMMA FillKeepsPieces ==
    ASSUME IInv, TxnInv, FillActive
    PROVE  Pieces' = Pieces
<1>1. TypeInv /\ SourceInv /\ ~jobsClosed /\ nextPart' = nextPart
      /\ offset <= offset' /\ offset' \in Nat
  BY FillContinues DEF IInv, TxnInv
<1>2. PICK k, o, p \in Nat : k = nextPart /\ o = offset /\ p = offset' /\ k >= 1 /\ o <= p
                             /\ Base(k) <= o
  BY <1>1, ActiveIs DEF TypeInv
<1>3. ASSUME NEW n \in 1..(k - 1) PROVE Part(n, o) = Part(n, p)
  <2>1. n \in Nat /\ n >= 1 /\ n < k
    BY <1>2
  <2>2. Base(n) + PartSize <= Base(k)
    BY <2>1, BaseOrder
  <2>3. Base(n) \in Nat /\ PartSize \in Nat /\ Base(k) \in Nat
    BY <1>2, <2>1, BaseStep
  <2>4. Base(n) + PartSize <= o
    BY <1>2, <2>2, <2>3
  <2> QED
    BY <1>2, <2>1, <2>4, ChunkFull
<1>4. Pieces = {Part(n, o) : n \in 1..(k - 1)} /\ Pieces' = {Part(n, p) : n \in 1..(k - 1)}
  BY <1>1, <1>2 DEF Pieces
<1> QED
  BY <1>3, <1>4

(* A part that is sent holds its bytes.                                    *)
LEMMA SendKeepsPieces ==
    ASSUME IInv, TxnInv, SendPart, ~jobsClosed, UNCHANGED offset
    PROVE  /\ Pieces \subseteq Pieces'
           /\ \A i \in 1..Len(jobs') : jobs'[i] \in Pieces'
<1>1. PICK k, o \in Nat : k = nextPart /\ o = offset /\ k >= 1
  BY DEF IInv, TypeInv, TxnInv, SourceInv
<1>2. Pieces = {Part(n, o) : n \in 1..(k - 1)} /\ Pieces' = {Part(n, o) : n \in 1..k}
  <2>1. nextPart' = k + 1 /\ offset' = o
    BY <1>1 DEF SendPart
  <2>2. (k + 1) - 1 = k
    BY <1>1
  <2> QED
    BY <1>1, <2>1, <2>2 DEF Pieces
<1>3. Pieces \subseteq Pieces' /\ Part(k, o) \in Pieces'
  BY <1>1, <1>2
<1>4. jobs \in Seq(Job) /\ \A i \in 1..Len(jobs) : jobs[i] \in Pieces
  BY DEF IInv, TypeInv, TxnInv, PieceInv
<1>5. [number |-> nextPart, bytes |-> active] = Part(k, o)
  BY <1>1 DEF Part, TxnInv, SourceInv
<1>6. Part(k, o) \in Job
  BY <1>1, <1>5 DEF IInv, TypeInv, Job
<1>7. PICK e \in Job : e = Part(k, o)
  BY <1>6
<1>8. jobs' = Append(jobs, e)
  BY <1>5, <1>7 DEF SendPart
<1> HIDE DEF Job
<1>9. ASSUME NEW i \in 1..Len(jobs') PROVE jobs'[i] \in Pieces'
  <2>1. Len(jobs') = Len(jobs) + 1 /\ Len(jobs) \in Nat
        /\ (i \in 1..Len(jobs) => jobs'[i] = jobs[i]) /\ jobs'[Len(jobs) + 1] = e
    BY <1>4, <1>8, AppendProperties
  <2>2. CASE i \in 1..Len(jobs)
    BY <1>3, <1>4, <2>1, <2>2
  <2>3. CASE i = Len(jobs) + 1
    BY <1>3, <1>7, <2>1, <2>3
  <2> QED
    BY <2>1, <2>2, <2>3
<1> QED
  BY <1>3, <1>9

(* Every step keeps the parts as they were cut.                            *)
LEMMA PieceStep ==
    ASSUME IInv, TxnInv, [Next]_vars PROVE PieceInv'
<1> USE DEF streamVars, streamRest, lockVars, callVars, providerVars
<1>1. ASSUME NEW n \in WriteSizes, StartWrite(n) PROVE PieceInv'
  BY <1>1, PieceSame DEF StartWrite, TxnInv
<1>2. CASE FillActive
  <2>1. Pieces' = Pieces
    BY <1>2, FillKeepsPieces
  <2>2. UNCHANGED <<jobs, worker, receipts>>
    BY <1>2 DEF FillActive
  <2> QED
    BY <2>1, <2>2 DEF TxnInv, PieceInv
<1>3. CASE EnqueuePart
  <2>1. ~jobsClosed /\ SendPart /\ UNCHANGED <<offset, worker, receipts>>
    BY <1>3 DEF EnqueuePart, TxnInv, SourceInv
  <2>2. Pieces \subseteq Pieces' /\ \A i \in 1..Len(jobs') : jobs'[i] \in Pieces'
    BY <2>1, SendKeepsPieces
  <2> QED
    BY <2>1, <2>2, PieceMoves DEF TxnInv, PieceInv
<1>4. CASE WriteFails
  BY <1>4, PieceSame DEF WriteFails, TxnInv
<1>5. ASSUME NEW c \in Clients, StartCall(c) PROVE PieceInv'
  BY <1>5, PieceSame DEF StartCall, TxnInv
<1>6. ASSUME NEW c \in Clients, TakeCommitMu(c) PROVE PieceInv'
  BY <1>6, PieceSame DEF TakeCommitMu, TxnInv
<1>7. ASSUME NEW c \in Clients, BeginSeal(c) PROVE PieceInv'
  BY <1>7, PieceSame DEF BeginSeal, TxnInv
<1>8. ASSUME NEW c \in Clients, SealFlush(c) PROVE PieceInv'
  <2>1. UNCHANGED <<offset, worker, receipts>> /\ ~jobsClosed
    BY <1>8 DEF SealFlush, TxnInv, PhaseInv
  <2>2. CASE SendPart
    <3>1. Pieces \subseteq Pieces' /\ \A i \in 1..Len(jobs') : jobs'[i] \in Pieces'
      BY <2>1, <2>2, SendKeepsPieces
    <3> QED
      BY <2>1, <3>1, PieceMoves DEF TxnInv, PieceInv
  <2>3. CASE UNCHANGED <<jobs, nextPart>>
    BY <2>1, <2>3, PieceSame DEF TxnInv
  <2> QED
    BY <1>8, <2>2, <2>3 DEF SealFlush
<1>9. ASSUME NEW c \in Clients, CommitWait(c) PROVE PieceInv'
  BY <1>9, PieceSame DEF CommitWait, TxnInv
<1>10. ASSUME NEW c \in Clients, CommitRequest(c) PROVE PieceInv'
  BY <1>10, PieceSame DEF CommitRequest, TxnInv
<1>11. ASSUME NEW c \in Clients, Reconcile(c) PROVE PieceInv'
  BY <1>11, PieceSame DEF Reconcile, TxnInv
<1>12. ASSUME NEW c \in Clients, StartAbort(c) PROVE PieceInv'
  BY <1>12, PieceSame DEF StartAbort, TxnInv
<1>13. ASSUME NEW c \in Clients, AbortDiscard(c) PROVE PieceInv'
  BY <1>13, PieceSame DEF AbortDiscard, TxnInv
<1>14. ASSUME NEW c \in Clients, StartCleanup(c) PROVE PieceInv'
  BY <1>14, PieceSame DEF StartCleanup, TxnInv
<1>15. ASSUME NEW c \in Clients, FinishCleanup(c) PROVE PieceInv'
  BY <1>15, PieceSame DEF FinishCleanup, TxnInv
<1>16. ASSUME NEW c \in Clients, WaitAbort(c) PROVE PieceInv'
  BY <1>16, PieceSame DEF WaitAbort, TxnInv
<1>17. ASSUME NEW c \in Clients, CancelCall(c) PROVE PieceInv'
  BY <1>17, PieceSame DEF CancelCall, TxnInv
<1>18. ASSUME NEW w \in Workers, TakeJob(w) PROVE PieceInv'
  <2>1. UNCHANGED <<offset, nextPart, receipts>> /\ Pieces' = Pieces
    BY <1>18 DEF TakeJob, Pieces
  <2>2. jobs \in Seq(Job) /\ jobs # <<>> /\ jobs' = Tail(jobs)
        /\ \A i \in 1..Len(jobs) : jobs[i] \in Pieces
    BY <1>18 DEF TakeJob, IInv, TypeInv, TxnInv, PieceInv
  <2>3. Head(jobs) \in Pieces /\ \A i \in 1..Len(jobs') : jobs'[i] \in Pieces
    <3> HIDE DEF Pieces, Job
    <3>1. Head(jobs) = jobs[1] /\ 1 \in 1..Len(jobs)
      BY <2>2
    <3>2. ASSUME NEW i \in 1..Len(jobs') PROVE jobs'[i] = jobs[i + 1] /\ i + 1 \in 1..Len(jobs)
      BY <2>2
    <3> QED
      BY <2>2, <3>1, <3>2
  <2>4. ASSUME NEW v \in Workers, worker'[v].pc = "put" PROVE worker'[v].job \in Pieces
    <3>1. worker' = worker \/ worker' = [worker EXCEPT ![w] = [pc |-> "put", job |-> Head(jobs)]]
      BY <1>18 DEF TakeJob
    <3>2. worker[v].pc = "put" => worker[v].job \in Pieces
      BY DEF TxnInv, PieceInv
    <3> QED
      BY <2>3, <2>4, <3>1, <3>2 DEF IInv, TypeInv
  <2> QED
    BY <2>1, <2>3, <2>4, PieceMoves DEF TxnInv, PieceInv
<1>19. ASSUME NEW w \in Workers, PutSucceeds(w) PROVE PieceInv'
  <2>1. UNCHANGED <<offset, nextPart, jobs>> /\ Pieces' = Pieces
    BY <1>19 DEF PutSucceeds, Pieces
  <2>2. receipts' \subseteq Pieces
    BY <1>19 DEF PutSucceeds, TxnInv, PieceInv
  <2>3. ASSUME NEW v \in Workers, worker'[v].pc = "put" PROVE worker'[v].job \in Pieces
    <3>1. worker' \in {[worker EXCEPT ![w] = [pc |-> p, job |-> NoJob]] : p \in {"idle", "failed"}}
      BY <1>19 DEF PutSucceeds
    <3> QED
      BY <2>3, <3>1 DEF IInv, TypeInv, TxnInv, PieceInv
  <2> QED
    BY <2>1, <2>2, <2>3, PieceMoves DEF TxnInv, PieceInv
<1>20. ASSUME NEW w \in Workers, PutFails(w) PROVE PieceInv'
  <2>1. UNCHANGED <<offset, nextPart, jobs, receipts>> /\ Pieces' = Pieces
    BY <1>20 DEF PutFails, Pieces
  <2>2. ASSUME NEW v \in Workers, worker'[v].pc = "put" PROVE worker'[v].job \in Pieces
    <3>1. worker' = [worker EXCEPT ![w] = [pc |-> "failed", job |-> NoJob]]
      BY <1>20 DEF PutFails
    <3> QED
      BY <2>2, <3>1 DEF IInv, TypeInv, TxnInv, PieceInv
  <2> QED
    BY <2>1, <2>2, PieceMoves DEF TxnInv, PieceInv
<1>21. ASSUME NEW w \in Workers, WorkerDiscard(w) PROVE PieceInv'
  <2>1. UNCHANGED <<offset, nextPart, jobs, receipts>> /\ Pieces' = Pieces
    BY <1>21 DEF WorkerDiscard, Pieces
  <2>2. ASSUME NEW v \in Workers, worker'[v].pc = "put" PROVE worker'[v].job \in Pieces
    <3>1. worker' = [worker EXCEPT ![w].pc = "idle"]
      BY <1>21 DEF WorkerDiscard
    <3> QED
      BY <2>2, <3>1 DEF IInv, TypeInv, WorkerType, TxnInv, PieceInv
  <2> QED
    BY <2>1, <2>2, PieceMoves DEF TxnInv, PieceInv
<1>22. ASSUME NEW w \in Workers, WorkerExit(w) PROVE PieceInv'
  <2>1. UNCHANGED <<offset, nextPart, jobs, receipts>> /\ Pieces' = Pieces
    BY <1>22 DEF WorkerExit, Pieces
  <2>2. ASSUME NEW v \in Workers, worker'[v].pc = "put" PROVE worker'[v].job \in Pieces
    <3>1. worker' = [worker EXCEPT ![w].pc = "done"]
      BY <1>22 DEF WorkerExit
    <3> QED
      BY <2>2, <3>1 DEF IInv, TypeInv, WorkerType, TxnInv, PieceInv
  <2> QED
    BY <2>1, <2>2, PieceMoves DEF TxnInv, PieceInv
<1>23. CASE FinishAbort
  BY <1>23, PieceSame DEF FinishAbort, TxnInv
<1>24. CASE LateLanding
  BY <1>24, PieceSame DEF LateLanding, TxnInv
<1>25. CASE UNCHANGED vars
  BY <1>25, PieceSame DEF vars, TxnInv
<1> QED
  BY <1>1, <1>2, <1>3, <1>4, <1>5, <1>6, <1>7, <1>8, <1>9, <1>10, <1>11, <1>12,
     <1>13, <1>14, <1>15, <1>16, <1>17, <1>18, <1>19, <1>20, <1>21, <1>22, <1>23, <1>24, <1>25
  DEF Next, Writer, Client, Worker

(* A complete upload stays complete.                                       *)
LEMMA CompleteStays ==
    ASSUME IInv, TxnInv, [Next]_vars PROVE (Complete => Complete')
<1> USE DEF Complete, AllDone, streamVars, streamRest, lockVars, callVars, providerVars
<1>1. ASSUME NEW n \in WriteSizes, StartWrite(n) PROVE (Complete => Complete')
  BY <1>1 DEF StartWrite
<1>2. CASE FillActive
  <2>1. ~jobsClosed
    BY <1>2 DEF FillActive, TxnInv, SourceInv
  <2> QED
    BY <2>1 DEF Complete
<1>3. CASE EnqueuePart
  <2>1. ~jobsClosed
    BY <1>3 DEF EnqueuePart, TxnInv, SourceInv
  <2> QED
    BY <2>1 DEF Complete
<1>4. CASE WriteFails
  <2>1. ~jobsClosed
    BY <1>4 DEF WriteFails, TxnInv, SourceInv
  <2> QED
    BY <2>1 DEF Complete
<1>5. ASSUME NEW c \in Clients, StartCall(c) PROVE (Complete => Complete')
  BY <1>5 DEF StartCall
<1>6. ASSUME NEW c \in Clients, TakeCommitMu(c) PROVE (Complete => Complete')
  BY <1>6 DEF TakeCommitMu
<1>7. ASSUME NEW c \in Clients, BeginSeal(c) PROVE (Complete => Complete')
  BY <1>7 DEF BeginSeal, CommitReply, Reply, discardAndClose, Release
<1>8. ASSUME NEW c \in Clients, SealFlush(c) PROVE (Complete => Complete')
  <2>1. ~jobsClosed
    BY <1>8 DEF SealFlush, TxnInv, PhaseInv
  <2> QED
    BY <2>1 DEF Complete
<1>9. ASSUME NEW c \in Clients, CommitWait(c) PROVE (Complete => Complete')
  BY <1>9 DEF CommitWait, CommitReply, Reply
<1>10. ASSUME NEW c \in Clients, CommitRequest(c) PROVE (Complete => Complete')
  BY <1>10 DEF CommitRequest, Committed, LookFor, CommitReply, Reply
<1>11. ASSUME NEW c \in Clients, Reconcile(c) PROVE (Complete => Complete')
  BY <1>11 DEF Reconcile, Committed, NotCommitted, CommitReply, Reply
<1>12. ASSUME NEW c \in Clients, StartAbort(c) PROVE (Complete => Complete')
  BY <1>12 DEF StartAbort
<1>13. ASSUME NEW c \in Clients, AbortDiscard(c) PROVE (Complete => Complete')
  BY <1>13 DEF AbortDiscard, discardAndClose, Release
<1>14. ASSUME NEW c \in Clients, StartCleanup(c) PROVE (Complete => Complete')
  BY <1>14 DEF StartCleanup, S3Cleanup, GCSCleanup, AzureCleanup
<1>15. ASSUME NEW c \in Clients, FinishCleanup(c) PROVE (Complete => Complete')
  BY <1>15 DEF FinishCleanup
<1>16. ASSUME NEW c \in Clients, WaitAbort(c) PROVE (Complete => Complete')
  BY <1>16 DEF WaitAbort, Reply
<1>17. ASSUME NEW c \in Clients, CancelCall(c) PROVE (Complete => Complete')
  BY <1>17 DEF CancelCall
<1>18. ASSUME NEW w \in Workers, TakeJob(w) PROVE (Complete => Complete')
  <2>1. ~AllDone
    BY <1>18 DEF TakeJob, AllDone
  <2> QED
    BY <2>1 DEF Complete
<1>19. ASSUME NEW w \in Workers, PutSucceeds(w) PROVE (Complete => Complete')
  <2>1. ~AllDone
    BY <1>19 DEF PutSucceeds, AllDone
  <2> QED
    BY <2>1 DEF Complete
<1>20. ASSUME NEW w \in Workers, PutFails(w) PROVE (Complete => Complete')
  <2>1. ~AllDone
    BY <1>20 DEF PutFails, AllDone
  <2> QED
    BY <2>1 DEF Complete
<1>21. ASSUME NEW w \in Workers, WorkerDiscard(w) PROVE (Complete => Complete')
  <2>1. ~AllDone
    BY <1>21 DEF WorkerDiscard, AllDone
  <2> QED
    BY <2>1 DEF Complete
<1>22. ASSUME NEW w \in Workers, WorkerExit(w) PROVE (Complete => Complete')
  <2>1. ~AllDone
    BY <1>22 DEF WorkerExit, AllDone
  <2> QED
    BY <2>1 DEF Complete
<1>23. CASE FinishAbort
  BY <1>23 DEF FinishAbort
<1>24. CASE LateLanding
  BY <1>24 DEF LateLanding
<1>25. CASE UNCHANGED vars
  BY <1>25 DEF vars
<1> QED
  BY <1>1, <1>2, <1>3, <1>4, <1>5, <1>6, <1>7, <1>8, <1>9, <1>10, <1>11, <1>12,
     <1>13, <1>14, <1>15, <1>16, <1>17, <1>18, <1>19, <1>20, <1>21, <1>22, <1>23, <1>24, <1>25
  DEF Next, Writer, Client, Worker

(* Every step keeps what is known of a request sent.                       *)
LEMMA SentStep ==
    ASSUME IInv, TxnInv, [Next]_vars PROVE SentInv'
<1> USE DEF IInv, AbortInv, TxnInv, SentInv, Sent, PhaseInv, States, Ended, Live, streamVars, streamRest, lockVars, callVars, providerVars
<1>1. ASSUME NEW n \in WriteSizes, StartWrite(n) PROVE SentInv'
  BY <1>1, CompleteStays DEF StartWrite
<1>2. CASE FillActive
  <2>1. /\ object = <<>> /\ ~late
        /\ state \notin {"committing", "completed", "unknown"}
    BY <1>2, BusyNotSent DEF FillActive
  <2>2. UNCHANGED <<object, late, foreign>> /\ state' \in {state, "failed"}
    BY <1>2 DEF FillActive, EndWrite, Idle
  <2> QED
    BY <2>1, <2>2
<1>3. CASE EnqueuePart
  <2>1. /\ object = <<>> /\ ~late
        /\ state \notin {"committing", "completed", "unknown"}
    BY <1>3, BusyNotSent DEF EnqueuePart
  <2>2. UNCHANGED <<object, late, foreign>> /\ state' \in {state, "failed"}
    BY <1>3 DEF EnqueuePart, SendPart, EndWrite, Idle
  <2> QED
    BY <2>1, <2>2
<1>4. CASE WriteFails
  <2>1. /\ object = <<>> /\ ~late
        /\ state \notin {"committing", "completed", "unknown"}
    BY <1>4, BusyNotSent DEF WriteFails
  <2>2. UNCHANGED <<object, late, foreign>> /\ state' \in {state, "failed"}
    BY <1>4 DEF WriteFails, recordFailure, discardAndClose, Release, EndWrite, Idle
  <2> QED
    BY <2>1, <2>2
<1>5. ASSUME NEW c \in Clients, StartCall(c) PROVE SentInv'
  BY <1>5, CompleteStays DEF StartCall
<1>6. ASSUME NEW c \in Clients, TakeCommitMu(c) PROVE SentInv'
  BY <1>6, CompleteStays DEF TakeCommitMu
<1>7. ASSUME NEW c \in Clients, BeginSeal(c) PROVE SentInv'
  BY <1>7, CompleteStays DEF BeginSeal, CommitReply, Reply, discardAndClose, Release
<1>8. ASSUME NEW c \in Clients, SealFlush(c) PROVE SentInv'
  BY <1>8, CompleteStays DEF SealFlush, SendPart, CommitReply, Reply, discardAndClose, Release
<1>9. ASSUME NEW c \in Clients, CommitWait(c) PROVE SentInv'
  <2>1. UNCHANGED <<object, late, foreign>> /\ (Complete => Complete')
    BY <1>9, CompleteStays DEF CommitWait
  <2>2. CASE state' = state
    BY <2>1, <2>2
  <2>3. CASE state' = "failed" /\ state \notin Ended /\ (failed \/ Cardinality(receipts) # nextPart - 1)
    <3>1. state \notin {"committing", "completed"}
      BY <2>3, CommittingNotDead DEF Complete
    <3> QED
      BY <2>1, <2>3, <3>1
  <2>4. CASE state' = "committing" /\ AllDone /\ state = "sealed" /\ ~failed
             /\ Cardinality(receipts) = nextPart - 1
    <3>1. jobsClosed /\ offset <= Base(nextPart)
      BY <1>9, <2>4 DEF CommitWait, TxnInv, PhaseInv, SourceInv, Dead, Ended
    <3>2. Complete
      BY <2>4, <3>1 DEF Complete
    <3> QED
      BY <2>1, <2>4, <3>2
  <2> QED
    BY <1>9, <2>2, <2>3, <2>4 DEF CommitWait
<1>10. ASSUME NEW c \in Clients, CommitRequest(c) PROVE SentInv'
  <2>1. state = "committing" /\ Complete'
    BY <1>10, RequestState, CompleteStays DEF CommitRequest
  <2>2. state' \in {"committing", "completed"}
    BY <1>10, <2>1, RequestEffect
  <2>3. state' = "completed" => object' # <<>>
    <3>1. <<Assembled>> # <<>>
      OBVIOUS
    <3> QED
      BY <1>10, <2>1, <3>1 DEF CommitRequest, LookFor
  <2>4. foreign' => object' = <<>> /\ ~late'
    <3>1. UNCHANGED foreign
      BY <1>10 DEF CommitRequest
    <3>2. CASE foreign
      <4>1. UNCHANGED object /\ (late' = late \/ ~late')
        BY <1>10, <3>2 DEF CommitRequest
      <4> QED
        BY <3>2, <4>1
    <3> QED
      BY <3>1, <3>2
  <2> QED
    BY <2>1, <2>2, <2>3, <2>4
<1>11. ASSUME NEW c \in Clients, Reconcile(c) PROVE SentInv'
  <2>1. state = "committing" /\ Complete'
    BY <1>11, RequestState, CompleteStays DEF Reconcile
  <2>2. UNCHANGED <<object, late, foreign>>
    BY <1>11 DEF Reconcile
  <2>3. state' = "completed" => object # <<>>
    BY <1>11, ReconcileCases DEF NotCommitted
  <2> QED
    BY <2>1, <2>2, <2>3
<1>12. ASSUME NEW c \in Clients, StartAbort(c) PROVE SentInv'
  BY <1>12, CompleteStays DEF StartAbort
<1>13. ASSUME NEW c \in Clients, AbortDiscard(c) PROVE SentInv'
  BY <1>13, CompleteStays DEF AbortDiscard, discardAndClose, Release
<1>14. ASSUME NEW c \in Clients, StartCleanup(c) PROVE SentInv'
  BY <1>14, CompleteStays DEF StartCleanup, S3Cleanup, GCSCleanup, AzureCleanup
<1>15. ASSUME NEW c \in Clients, FinishCleanup(c) PROVE SentInv'
  BY <1>15, CompleteStays DEF FinishCleanup
<1>16. ASSUME NEW c \in Clients, WaitAbort(c) PROVE SentInv'
  BY <1>16, CompleteStays DEF WaitAbort, Reply
<1>17. ASSUME NEW c \in Clients, CancelCall(c) PROVE SentInv'
  BY <1>17, CompleteStays DEF CancelCall
<1>18. ASSUME NEW w \in Workers, TakeJob(w) PROVE SentInv'
  <2>1. /\ object = <<>> /\ ~late
        /\ state \notin {"committing", "completed", "unknown"}
    BY <1>18, BusyNotSent DEF TakeJob
  <2>2. UNCHANGED <<object, late, foreign>> /\ state' \in {state, "failed"}
    BY <1>18 DEF TakeJob, Release
  <2> QED
    BY <2>1, <2>2
<1>19. ASSUME NEW w \in Workers, PutSucceeds(w) PROVE SentInv'
  <2>1. /\ object = <<>> /\ ~late
        /\ state \notin {"committing", "completed", "unknown"}
    BY <1>19, BusyNotSent DEF PutSucceeds
  <2>2. UNCHANGED <<object, late, foreign>> /\ state' \in {state, "failed"}
    BY <1>19 DEF PutSucceeds, recordFailure, Release
  <2> QED
    BY <2>1, <2>2
<1>20. ASSUME NEW w \in Workers, PutFails(w) PROVE SentInv'
  <2>1. /\ object = <<>> /\ ~late
        /\ state \notin {"committing", "completed", "unknown"}
    BY <1>20, BusyNotSent DEF PutFails
  <2>2. UNCHANGED <<object, late, foreign>> /\ state' \in {state, "failed"}
    BY <1>20 DEF PutFails, recordFailure, Release
  <2> QED
    BY <2>1, <2>2
<1>21. ASSUME NEW w \in Workers, WorkerDiscard(w) PROVE SentInv'
  <2>1. /\ object = <<>> /\ ~late
        /\ state \notin {"committing", "completed", "unknown"}
    BY <1>21, BusyNotSent DEF WorkerDiscard
  <2>2. UNCHANGED <<object, late, foreign>> /\ state' \in {state, "failed"}
    BY <1>21 DEF WorkerDiscard, discardAndClose, Release
  <2> QED
    BY <2>1, <2>2
<1>22. ASSUME NEW w \in Workers, WorkerExit(w) PROVE SentInv'
  <2>1. /\ object = <<>> /\ ~late
        /\ state \notin {"committing", "completed", "unknown"}
    BY <1>22, BusyNotSent DEF WorkerExit
  <2>2. UNCHANGED <<object, late, foreign>> /\ state' \in {state, "failed"}
    BY <1>22 DEF WorkerExit
  <2> QED
    BY <2>1, <2>2
<1>23. CASE FinishAbort
  BY <1>23, CompleteStays DEF FinishAbort
<1>24. CASE LateLanding
  <2>1. late /\ Complete' /\ UNCHANGED <<state, foreign>> /\ ~late'
    BY <1>24, CompleteStays DEF LateLanding
  <2>2. object' # <<>>
    <3>1. <<Assembled>> # <<>>
      OBVIOUS
    <3> QED
      BY <1>24, <3>1 DEF LateLanding
  <2> QED
    BY <2>1, <2>2
<1>25. CASE UNCHANGED vars
  BY <1>25, CompleteStays DEF vars
<1> QED
  BY <1>1, <1>2, <1>3, <1>4, <1>5, <1>6, <1>7, <1>8, <1>9, <1>10, <1>11, <1>12,
     <1>13, <1>14, <1>15, <1>16, <1>17, <1>18, <1>19, <1>20, <1>21, <1>22, <1>23, <1>24, <1>25
  DEF Next, Writer, Client, Worker

(* A step that tells nothing, or of a commit, and leaves the state.        *)
LEMMA VerdictSame ==
    ASSUME VerdictInv, UNCHANGED <<object, late, state, failed, abortUnknown>>,
           told' \in {told, told \cup {}, told \cup {"committed"}},
           \A d \in Clients : client'[d] \in {"request", "refused"} => client[d] = client'[d]
    PROVE  VerdictInv'
<1>1. /\ (Retried' <=> Retried) /\ (Unsure' <=> Unsure) /\ (Denied' <=> Denied)
      /\ (Settled' <=> Settled) /\ (Dead' <=> Dead)
  BY DEF Retried, Unsure, Denied, Settled, Dead
<1> QED
  BY <1>1 DEF VerdictInv

(* A stream that goes on, or fails.                                        *)
LEMMA VerdictRuns ==
    ASSUME VerdictInv, Dead => Dead', UNCHANGED <<object, late, abortUnknown>>,
           told' \in {told, told \cup {}},
           state \in Live \cup {"failed"}, state' \in Live \cup {"failed"},
           \A d \in Clients : client'[d] \in {"request", "refused"} => client[d] = client'[d]
    PROVE  VerdictInv'
<1>1. (Denied' <=> Denied) /\ (Settled' <=> Settled)
  BY DEF Retried, Unsure, Denied, Settled
<1>2. Settled'
  BY <1>1 DEF VerdictInv
<1> QED
  BY <1>1, <1>2 DEF VerdictInv, Live, Ended

(* A step that denies the object where that is true.                       *)
LEMMA VerdictTold ==
    ASSUME VerdictInv, Dead, Settled, UNCHANGED <<object, late, state, failed, abortUnknown>>,
           told' \in {told \cup {"absent"}, told \cup {"aborted"}},
           \A d \in Clients : client'[d] \in {"request", "refused"} => client[d] = client'[d]
    PROVE  VerdictInv'
<1>1. (Retried' <=> Retried) /\ (Unsure' <=> Unsure) /\ Settled' /\ Dead'
  BY DEF Retried, Unsure, Settled, Dead
<1> QED
  BY <1>1 DEF VerdictInv

(* What an abort reports in the end: nothing new, or a denial that is true.*)
LEMMA OverSays ==
    ASSUME TxnInv, state \in Ended, told' = told \cup AbortVerdict
    PROVE  told' = told \/ (Dead /\ Settled /\ told' = told \cup {"aborted"})
<1>1. CASE abortUnknown
  <2>1. AbortVerdict = {"unknown"}
    BY <1>1 DEF AbortVerdict
  <2>2. "unknown" \in told
    BY <1>1 DEF TxnInv, VerdictInv, Unsure
  <2> QED
    BY <2>1, <2>2
<1>2. CASE ~abortUnknown /\ abortErr
  <2>1. AbortVerdict = {}
    BY <1>2 DEF AbortVerdict
  <2> QED
    BY <2>1
<1>3. CASE ~abortUnknown /\ ~abortErr
  <2>1. AbortVerdict = {"aborted"}
    BY <1>3 DEF AbortVerdict
  <2>2. Dead /\ Settled
    BY <1>3 DEF TxnInv, VerdictInv, Dead
  <2> QED
    BY <2>1, <2>2
<1> QED
  BY <1>1, <1>2, <1>3

(* The report of an abort.                                                 *)
LEMMA VerdictOver ==
    ASSUME TxnInv, state \in Ended, UNCHANGED <<object, late, state, failed, abortUnknown>>,
           told' = told \cup AbortVerdict,
           \A d \in Clients : client'[d] \in {"request", "refused"} => client[d] = client'[d]
    PROVE  VerdictInv'
<1>1. CASE told' = told
  BY <1>1, VerdictSame DEF TxnInv
<1>2. CASE Dead /\ Settled /\ told' = told \cup {"aborted"}
  BY <1>2, VerdictTold DEF TxnInv
<1> QED
  BY <1>1, <1>2, OverSays

(* Every step keeps true what callers were told.                           *)
LEMMA VerdictStep ==
    ASSUME IInv, TxnInv, [Next]_vars PROVE VerdictInv'
<1> USE DEF streamVars, streamRest, lockVars, callVars, providerVars
<1>0. client \in [Clients -> ClientPcs]
  BY DEF IInv, TypeInv
<1> USE <1>0
<1>1. ASSUME NEW n \in WriteSizes, StartWrite(n) PROVE VerdictInv'
  <2>1. UNCHANGED <<object, late, told, state, failed, abortUnknown>>
    BY <1>1 DEF StartWrite
  <2>2. \A d \in Clients : client'[d] \in {"request", "refused"} => client[d] = client'[d]
    BY <1>1 DEF StartWrite
  <2> QED
    BY <2>1, <2>2, VerdictSame DEF TxnInv
<1>2. CASE FillActive
  <2>1. UNCHANGED <<object, late, told, state, failed, abortUnknown>>
    BY <1>2 DEF FillActive
  <2>2. \A d \in Clients : client'[d] \in {"request", "refused"} => client[d] = client'[d]
    BY <1>2 DEF FillActive
  <2> QED
    BY <2>1, <2>2, VerdictSame DEF TxnInv
<1>3. CASE EnqueuePart
  <2>1. UNCHANGED <<object, late, told, state, failed, abortUnknown>>
    BY <1>3 DEF EnqueuePart
  <2>2. \A d \in Clients : client'[d] \in {"request", "refused"} => client[d] = client'[d]
    BY <1>3 DEF EnqueuePart
  <2> QED
    BY <2>1, <2>2, VerdictSame DEF TxnInv
<1>4. CASE WriteFails
  <2>1. state \in Live \cup Ended \cup {"failed"}
    BY <1>4, BusyNotSent DEF WriteFails, TxnInv, PhaseInv, States
  <2>2. UNCHANGED <<object, late, told, client, abortUnknown>>
    BY <1>4 DEF WriteFails
  <2>3. CASE UNCHANGED <<state, failed>>
    BY <2>2, <2>3, VerdictSame DEF TxnInv
  <2>4. CASE state \in Live \cup {"failed"} /\ state' \in Live \cup {"failed"}
    BY <2>2, <2>4, DeadStays, VerdictRuns DEF TxnInv
  <2> QED
    BY <1>4, <2>1, <2>3, <2>4 DEF WriteFails, recordFailure
<1>5. ASSUME NEW c \in Clients, StartCall(c) PROVE VerdictInv'
  <2>1. UNCHANGED <<object, late, told, state, failed, abortUnknown>>
    BY <1>5 DEF StartCall
  <2>2. \A d \in Clients : client'[d] \in {"request", "refused"} => client[d] = client'[d]
    BY <1>5 DEF StartCall
  <2> QED
    BY <2>1, <2>2, VerdictSame DEF TxnInv
<1>6. ASSUME NEW c \in Clients, TakeCommitMu(c) PROVE VerdictInv'
  <2>1. UNCHANGED <<object, late, told, state, failed, abortUnknown>>
    BY <1>6 DEF TakeCommitMu
  <2>2. \A d \in Clients : client'[d] \in {"request", "refused"} => client[d] = client'[d]
    BY <1>6 DEF TakeCommitMu
  <2> QED
    BY <2>1, <2>2, VerdictSame DEF TxnInv
<1>7. ASSUME NEW c \in Clients, BeginSeal(c) PROVE VerdictInv'
  <2>1. UNCHANGED <<object, late, failed, abortUnknown>>
    BY <1>7 DEF BeginSeal
  <2>2. \A d \in Clients : client'[d] \in {"request", "refused"} => client[d] = client'[d]
    BY <1>7 DEF BeginSeal, CommitReply, Reply
  <2>3. CASE UNCHANGED state /\ told' \in {told, told \cup {}, told \cup {"committed"}}
    BY <2>1, <2>2, <2>3, VerdictSame DEF TxnInv
  <2>4. CASE state = "failed" /\ UNCHANGED state /\ told' = told \cup {"absent"}
    <3>1. Dead /\ Settled
      BY <2>4 DEF TxnInv, VerdictInv, PhaseInv, Dead
    <3> QED
      BY <2>1, <2>2, <2>4, <3>1, VerdictTold DEF TxnInv
  <2>5. CASE state \in Live /\ state' \in Live /\ told' \in {told, told \cup {}}
    BY <2>1, <2>2, <2>5, DeadStays, VerdictRuns DEF TxnInv
  <2>6. CASE state = "unknown" /\ state' = "sealed" /\ told' = told \cup {"retried"}
    <3>1. ~Dead /\ ~Denied
      BY <2>6, CommittingNotDead DEF TxnInv, VerdictInv
    <3>2. Retried' /\ ~Denied'
      BY <2>6, <3>1 DEF Retried, Denied
    <3> QED
      BY <2>6, <3>2 DEF VerdictInv, Settled, Ended
  <2> QED
    BY <1>7, <2>3, <2>4, <2>5, <2>6 DEF BeginSeal, CommitReply, Reply, Live
<1>8. ASSUME NEW c \in Clients, SealFlush(c) PROVE VerdictInv'
  <2>1. UNCHANGED <<object, late, failed, abortUnknown>>
    BY <1>8 DEF SealFlush
  <2>2. \A d \in Clients : client'[d] \in {"request", "refused"} => client[d] = client'[d]
    BY <1>8 DEF SealFlush, CommitReply, Reply
  <2>3. CASE UNCHANGED state /\ told' \in {told, told \cup {}}
    BY <2>1, <2>2, <2>3, VerdictSame DEF TxnInv
  <2>4. CASE state = "failed" /\ UNCHANGED state /\ told' = told \cup {"absent"}
    <3>1. Dead /\ Settled
      BY <2>4 DEF TxnInv, VerdictInv, PhaseInv, Dead
    <3> QED
      BY <2>1, <2>2, <2>4, <3>1, VerdictTold DEF TxnInv
  <2>5. CASE state \in Live /\ state' \in Live /\ told' \in {told, told \cup {}}
    BY <2>1, <2>2, <2>5, DeadStays, VerdictRuns DEF TxnInv
  <2> QED
    BY <1>8, <2>3, <2>4, <2>5 DEF SealFlush, CommitReply, Reply, Live
<1>9. ASSUME NEW c \in Clients, CommitWait(c) PROVE VerdictInv'
  <2>1. UNCHANGED <<object, late, abortUnknown>>
    BY <1>9 DEF CommitWait
  <2>2. CASE UNCHANGED <<state, failed>> /\ told' = told \cup {} /\ client' = [client EXCEPT ![c] = "idle"]
    BY <2>1, <2>2, VerdictSame DEF TxnInv
  <2>3. CASE /\ state \notin Ended /\ (failed \/ Cardinality(receipts) # nextPart - 1)
             /\ state' = "failed" /\ failed' /\ told' = told \cup {"absent"}
             /\ client' = [client EXCEPT ![c] = "idle"]
    <3>1. state \in Live \cup {"failed"}
      BY <2>3, CommittingNotDead DEF TxnInv, PhaseInv, States, Complete
    <3>2. Settled /\ Settled' /\ Dead'
      BY <2>1, <2>3, <3>1 DEF TxnInv, VerdictInv, Settled, Retried, Unsure, Dead
    <3> QED
      BY <2>3, <3>2 DEF VerdictInv, Ended
  <2>4. CASE /\ state = "sealed" /\ state' = "committing" /\ UNCHANGED <<failed, told>>
             /\ client' = [client EXCEPT ![c] = "request"]
    <3>1. Settled /\ Settled' /\ (Retried' \/ ~Unsure')
      BY <2>1, <2>4 DEF TxnInv, VerdictInv, Settled, Retried, Unsure, Live
    <3>2. Denied' => Dead'
      BY <2>4, DeadStays DEF TxnInv, VerdictInv, Denied
    <3> QED
      BY <2>4, <3>1, <3>2 DEF VerdictInv, Ended
  <2> QED
    BY <1>9, <2>2, <2>3, <2>4 DEF CommitWait, CommitReply, Reply
<1>10. ASSUME NEW c \in Clients, CommitRequest(c) PROVE VerdictInv'
  <2>1. /\ state = "committing" /\ ~failed /\ ~Denied /\ Settled
        /\ state' \in {"committing", "completed"} /\ ~failed'
    BY <1>10, RequestState, RequestEffect DEF CommitRequest, TxnInv, VerdictInv
  <2>2. told' \in {told, told \cup {"committed"}}
    BY <1>10 DEF CommitRequest, Committed, LookFor, CommitReply, Reply
  <2>3. ~Denied' /\ (Retried' \/ ~Unsure')
    BY <2>1, <2>2 DEF Denied, Retried, Unsure, Settled
  <2>4. client[c] = "request" /\ \A d \in Clients \ {c} : client[d] \notin {"request", "refused"}
    BY <1>10 DEF CommitRequest, IInv, LockInv, CommitPcs
  <2>5. PICK q \in {"idle", "reconcile", "refused"} : client' = [client EXCEPT ![c] = q]
    BY <1>10, RequestEffect
  <2>6. client'[c] = "refused" => Settled'
    <3>1. client'[c] = "refused" => UNCHANGED <<object, late, told>>
      BY <1>10 DEF CommitRequest, Committed, LookFor, CommitReply, Reply
    <3> QED
      BY <2>1, <3>1 DEF Settled, Retried, Unsure
  <2> QED
    BY <2>1, <2>3, <2>4, <2>5, <2>6 DEF VerdictInv, Ended, Live
<1>11. ASSUME NEW c \in Clients, Reconcile(c) PROVE VerdictInv'
  <2>1. state = "committing" /\ ~failed /\ ~Denied /\ (Retried \/ ~Unsure)
    BY <1>11, RequestState DEF Reconcile, TxnInv, VerdictInv
  <2>2. UNCHANGED <<object, late, foreign>>
    BY <1>11 DEF Reconcile
  <2>3. \A d \in Clients : client'[d] \notin {"request", "refused"}
    <3>1. \A d \in Clients \ {c} : client[d] \notin {"request", "refused"}
      BY <1>11 DEF Reconcile, IInv, LockInv, CommitPcs
    <3> QED
      BY <1>11, <3>1, ReconcileEffect
  <2>4. CASE Committed(c)
    <3>1. state' = "completed" /\ ~failed' /\ told' = told \cup {"committed"}
      BY <2>1, <2>4 DEF Committed, CommitReply, Reply
    <3>2. ~Denied'
      BY <2>1, <3>1 DEF Denied
    <3> QED
      BY <2>3, <3>1, <3>2 DEF VerdictInv, Ended, Live
  <2>5. CASE NotCommitted(c, FALSE)
    <3>1. state' = "unknown" /\ ~failed' /\ told' = told \cup {"unknown"}
      BY <2>5 DEF NotCommitted, CommitReply, Reply
    <3>2. ~Denied' /\ Unsure'
      BY <2>1, <3>1 DEF Denied, Unsure
    <3> QED
      BY <2>3, <3>1, <3>2 DEF VerdictInv, Ended, Live
  <2>6. CASE NotCommitted(c, TRUE) /\ object = <<>> /\ (foreign \/ client[c] = "refused")
    <3>1. state' = "failed" /\ failed' /\ told' = told \cup {"absent"}
      BY <2>6 DEF NotCommitted, CommitReply, Reply
    <3>2. Settled
      BY <2>1, <2>6 DEF TxnInv, SentInv, VerdictInv, Settled
    <3>3. Settled' /\ Dead'
      BY <2>2, <3>1, <3>2 DEF Settled, Retried, Unsure, Dead
    <3> QED
      BY <2>3, <3>1, <3>3 DEF VerdictInv, Ended
  <2> QED
    BY <1>11, <2>4, <2>5, <2>6, ReconcileCases
<1>12. ASSUME NEW c \in Clients, StartAbort(c) PROVE VerdictInv'
  <2>1. UNCHANGED <<object, late, failed>>
    BY <1>12 DEF StartAbort
  <2>2. \A d \in Clients : client'[d] \in {"request", "refused"} => client[d] = client'[d]
    BY <1>12 DEF StartAbort
  <2>3. CASE UNCHANGED <<state, told, abortUnknown>>
    BY <2>1, <2>2, <2>3, VerdictSame DEF TxnInv
  <2>4. CASE UNCHANGED <<state, abortUnknown>> /\ state = "aborted" /\ told' = told \cup AbortVerdict
    BY <2>1, <2>2, <2>4, VerdictOver DEF Ended
  <2>5. CASE state \in Live \cup {"failed"} /\ state' = "aborting" /\ ~abortUnknown' /\ UNCHANGED told
    BY <2>1, <2>2, <2>5 DEF TxnInv, VerdictInv, Settled, Retried, Unsure, Denied, Dead, Live, Ended
  <2>6. CASE state = "unknown" /\ state' = "aborting" /\ abortUnknown' /\ UNCHANGED told
    BY <2>1, <2>2, <2>6 DEF TxnInv, VerdictInv, Settled, Retried, Unsure, Denied, Dead, Live, Ended
  <2>7. CASE state = "aborted" /\ state' = "aborting" /\ UNCHANGED <<told, abortUnknown>>
    BY <2>1, <2>2, <2>7 DEF TxnInv, VerdictInv, Settled, Retried, Unsure, Denied, Dead, Live, Ended
  <2> QED
    BY <1>12, <2>3, <2>4, <2>5, <2>6, <2>7 DEF StartAbort, Live
<1>13. ASSUME NEW c \in Clients, AbortDiscard(c) PROVE VerdictInv'
  <2>1. UNCHANGED <<object, late, told, state, failed, abortUnknown>>
    BY <1>13 DEF AbortDiscard
  <2>2. \A d \in Clients : client'[d] \in {"request", "refused"} => client[d] = client'[d]
    BY <1>13 DEF AbortDiscard
  <2> QED
    BY <2>1, <2>2, VerdictSame DEF TxnInv
<1>14. ASSUME NEW c \in Clients, StartCleanup(c) PROVE VerdictInv'
  <2>1. UNCHANGED <<object, late, told, state, failed, abortUnknown>>
    BY <1>14 DEF StartCleanup
  <2>2. \A d \in Clients : client'[d] \in {"request", "refused"} => client[d] = client'[d]
    BY <1>14 DEF StartCleanup, S3Cleanup, GCSCleanup, AzureCleanup
  <2> QED
    BY <2>1, <2>2, VerdictSame DEF TxnInv
<1>15. ASSUME NEW c \in Clients, FinishCleanup(c) PROVE VerdictInv'
  <2>1. UNCHANGED <<object, late, told, state, failed, abortUnknown>>
    BY <1>15 DEF FinishCleanup
  <2>2. \A d \in Clients : client'[d] \in {"request", "refused"} => client[d] = client'[d]
    BY <1>15 DEF FinishCleanup
  <2> QED
    BY <2>1, <2>2, VerdictSame DEF TxnInv
<1>16. ASSUME NEW c \in Clients, WaitAbort(c) PROVE VerdictInv'
  <2>1. UNCHANGED <<object, late, state, failed, abortUnknown>>
    BY <1>16 DEF WaitAbort
  <2>2. \A d \in Clients : client'[d] \in {"request", "refused"} => client[d] = client'[d]
    BY <1>16 DEF WaitAbort, Reply
  <2>3. CASE told' = told \cup {}
    BY <2>1, <2>2, <2>3, VerdictSame DEF TxnInv
  <2>4. CASE client[c] = "abortDone" /\ told' = told \cup AbortVerdict
    <3>1. state \in Ended
      BY <2>4 DEF TxnInv, PhaseInv
    <3> QED
      BY <2>1, <2>2, <2>4, <3>1, VerdictOver
  <2> QED
    BY <1>16, <2>3, <2>4 DEF WaitAbort, Reply
<1>17. ASSUME NEW c \in Clients, CancelCall(c) PROVE VerdictInv'
  <2>1. UNCHANGED <<object, late, told, state, failed, abortUnknown>>
    BY <1>17 DEF CancelCall
  <2>2. \A d \in Clients : client'[d] \in {"request", "refused"} => client[d] = client'[d]
    BY <1>17 DEF CancelCall
  <2> QED
    BY <2>1, <2>2, VerdictSame DEF TxnInv
<1>18. ASSUME NEW w \in Workers, TakeJob(w) PROVE VerdictInv'
  <2>1. UNCHANGED <<object, late, told, state, failed, abortUnknown>>
    BY <1>18 DEF TakeJob
  <2>2. \A d \in Clients : client'[d] \in {"request", "refused"} => client[d] = client'[d]
    BY <1>18 DEF TakeJob
  <2> QED
    BY <2>1, <2>2, VerdictSame DEF TxnInv
<1>19. ASSUME NEW w \in Workers, PutSucceeds(w) PROVE VerdictInv'
  <2>1. state \in Live \cup Ended \cup {"failed"}
    BY <1>19, BusyNotSent DEF PutSucceeds, TxnInv, PhaseInv, States
  <2>2. UNCHANGED <<object, late, told, client, abortUnknown>>
    BY <1>19 DEF PutSucceeds
  <2>3. CASE UNCHANGED <<state, failed>>
    BY <2>2, <2>3, VerdictSame DEF TxnInv
  <2>4. CASE state \in Live \cup {"failed"} /\ state' \in Live \cup {"failed"}
    BY <2>2, <2>4, DeadStays, VerdictRuns DEF TxnInv
  <2> QED
    BY <1>19, <2>1, <2>3, <2>4 DEF PutSucceeds, recordFailure
<1>20. ASSUME NEW w \in Workers, PutFails(w) PROVE VerdictInv'
  <2>1. state \in Live \cup Ended \cup {"failed"}
    BY <1>20, BusyNotSent DEF PutFails, TxnInv, PhaseInv, States
  <2>2. UNCHANGED <<object, late, told, client, abortUnknown>>
    BY <1>20 DEF PutFails
  <2>3. CASE UNCHANGED <<state, failed>>
    BY <2>2, <2>3, VerdictSame DEF TxnInv
  <2>4. CASE state \in Live \cup {"failed"} /\ state' \in Live \cup {"failed"}
    BY <2>2, <2>4, DeadStays, VerdictRuns DEF TxnInv
  <2> QED
    BY <1>20, <2>1, <2>3, <2>4 DEF PutFails, recordFailure
<1>21. ASSUME NEW w \in Workers, WorkerDiscard(w) PROVE VerdictInv'
  <2>1. UNCHANGED <<object, late, told, state, failed, abortUnknown>>
    BY <1>21 DEF WorkerDiscard
  <2>2. \A d \in Clients : client'[d] \in {"request", "refused"} => client[d] = client'[d]
    BY <1>21 DEF WorkerDiscard
  <2> QED
    BY <2>1, <2>2, VerdictSame DEF TxnInv
<1>22. ASSUME NEW w \in Workers, WorkerExit(w) PROVE VerdictInv'
  <2>1. UNCHANGED <<object, late, told, state, failed, abortUnknown>>
    BY <1>22 DEF WorkerExit
  <2>2. \A d \in Clients : client'[d] \in {"request", "refused"} => client[d] = client'[d]
    BY <1>22 DEF WorkerExit
  <2> QED
    BY <2>1, <2>2, VerdictSame DEF TxnInv
<1>23. CASE FinishAbort
  <2>1. UNCHANGED <<object, late, told, failed, abortUnknown>> /\ state = "aborting" /\ state' = "aborted"
    BY <1>23 DEF FinishAbort, IInv, AbortInv
  <2>2. \A d \in Clients : client'[d] \in {"request", "refused"} => client[d] = client'[d]
    BY <1>23 DEF FinishAbort
  <2> QED
    BY <2>1, <2>2 DEF TxnInv, VerdictInv, Settled, Retried, Unsure, Denied, Dead, Live, Ended
<1>24. CASE LateLanding
  <2>1. late /\ UNCHANGED <<told, state, failed, abortUnknown, client>>
    BY <1>24 DEF LateLanding
  <2>2. Settled => Settled'
    BY <2>1 DEF Settled, Retried
  <2>3. (Retried' <=> Retried) /\ (Unsure' <=> Unsure) /\ (Denied' <=> Denied) /\ (Dead' <=> Dead)
    BY <2>1 DEF Retried, Unsure, Denied, Dead
  <2> QED
    BY <2>1, <2>2, <2>3 DEF TxnInv, VerdictInv
<1>25. CASE UNCHANGED vars
  <2>1. UNCHANGED <<object, late, told, state, failed, abortUnknown>>
    BY <1>25 DEF vars
  <2>2. \A d \in Clients : client'[d] \in {"request", "refused"} => client[d] = client'[d]
    BY <1>25 DEF vars
  <2> QED
    BY <2>1, <2>2, VerdictSame DEF TxnInv
<1> QED
  BY <1>1, <1>2, <1>3, <1>4, <1>5, <1>6, <1>7, <1>8, <1>9, <1>10, <1>11, <1>12,
     <1>13, <1>14, <1>15, <1>16, <1>17, <1>18, <1>19, <1>20, <1>21, <1>22, <1>23, <1>24, <1>25
  DEF Next, Writer, Client, Worker

-----------------------------------------------------------------------------
(* The refinement                                                          *)

(* What was written is a beginning of what is written later.               *)
LEMMA CountPrefix ==
    ASSUME NEW o \in Nat, NEW p \in Nat, o < p
    PROVE  /\ Len([i \in 1..p |-> i]) > Len([i \in 1..o |-> i])
           /\ SubSeq([i \in 1..p |-> i], 1, Len([i \in 1..o |-> i])) = [i \in 1..o |-> i]
<1> DEFINE s == [i \in 1..p |-> i]
           t == [i \in 1..o |-> i]
<1>1. s \in Seq(Nat) /\ t \in Seq(Nat) /\ Len(s) = p /\ Len(t) = o
  OBVIOUS
<1>2. \A i \in 1..p : s[i] = i
  OBVIOUS
<1>3. \A i \in 1..o : t[i] = i
  OBVIOUS
<1> HIDE DEF s, t
<1>4. SubSeq(s, 1, o) \in Seq(Nat) /\ Len(SubSeq(s, 1, o)) = o
      /\ \A i \in 1..o : SubSeq(s, 1, o)[i] = s[i]
  BY <1>1
<1>5. \A i \in 1..o : SubSeq(s, 1, o)[i] = t[i]
  BY <1>2, <1>3, <1>4
<1>6. SubSeq(s, 1, o) = t
  BY <1>1, <1>4, <1>5, SeqEqual
<1>7. Len(s) > Len(t) /\ SubSeq(s, 1, Len(t)) = t
  BY <1>1, <1>6
<1> QED
  BY <1>7 DEF s, t

(* What the transaction may do, in the variables of the upload.            *)
TxnStep == [Txn!Next]_(Txn!txnVars)

(* A step the transaction does not see.                                    *)
LEMMA Unseen ==
    ASSUME UNCHANGED <<offset, object>>, told' = told \/ told' = told \cup {} PROVE TxnStep
<1>1. told' = told
  OBVIOUS
<1> QED
  BY <1>1 DEF TxnStep, Txn!txnVars, Content

(* The object is denied.                                                   *)
LEMMA SeenDenial ==
    ASSUME Settled, UNCHANGED <<offset, object>>,
           told' \in {told \cup {"absent"}, told \cup {"aborted"}}
    PROVE  TxnStep
<1>1. Content' = Content
  BY DEF Content
<1>2. Txn!Deny
  BY <1>1 DEF Settled, Retried, Unsure, Txn!Deny, Txn!Retried, Txn!Denials
<1> QED
  BY <1>2 DEF TxnStep, Txn!Next

(* The other verdicts, and a retry.                                        *)
LEMMA SeenVerdict ==
    ASSUME UNCHANGED <<offset, object>>,
           \/ object # <<>> /\ told' = told \cup {"committed"}
           \/ ~Denied /\ told' = told \cup {"unknown"}
           \/ Unsure /\ told' = told \cup {"retried"}
    PROVE  TxnStep
<1>1. Content' = Content
  BY DEF Content
<1>2. Txn!TellCommitted \/ Txn!TellUnknown \/ Txn!Retry
  BY <1>1 DEF Denied, Unsure, Txn!TellCommitted, Txn!TellUnknown, Txn!Retry,
              Txn!NotDenied, Txn!Denials
<1> QED
  BY <1>2 DEF TxnStep, Txn!Next

(* The object appears.                                                     *)
LEMMA SeenLanding ==
    ASSUME IInv, TxnInv, Complete, object = <<>>, Denied => Retried, object' = <<Assembled>>,
           UNCHANGED offset, told' = told \/ told' = told \cup {"committed"}
    PROVE  TxnStep
<1>1. Content' = Content
  BY DEF Content
<1>2. Assembled = Content
  BY CompleteIsContent DEF IInv, TxnInv
<1>3. Txn!NotDenied
  BY DEF Denied, Retried, Txn!NotDenied, Txn!Denials, Txn!Retried
<1> QED
  BY <1>1, <1>2, <1>3 DEF TxnStep, Txn!Next, Txn!Land, Txn!LandAndTell

(* Every step is one of the transaction, or one it does not see.           *)
LEMMA StepIsTxn ==
    ASSUME IInv, TxnInv, [Next]_vars PROVE TxnStep
<1> USE DEF streamVars, streamRest, lockVars, callVars, providerVars
<1>1. ASSUME NEW n \in WriteSizes, StartWrite(n) PROVE TxnStep
  <2>1. UNCHANGED <<offset, object, told>>
    BY <1>1 DEF StartWrite
  <2> QED
    BY <2>1, Unseen
<1>2. CASE FillActive
  <2>1. PICK k, p \in Nat : k = offset /\ p = offset' /\ k <= p
    BY <1>2, FillContinues DEF IInv, TypeInv
  <2>2. object = <<>> /\ UNCHANGED <<object, told>>
    BY <1>2, BusyNotSent DEF FillActive
  <2>3. CASE k = p
    BY <2>1, <2>2, <2>3, Unseen
  <2>4. CASE k < p
    <3>1. Content = [i \in 1..k |-> i] /\ Content' = [i \in 1..p |-> i]
      BY <2>1 DEF Content
    <3>2. Len(Content') > Len(Content) /\ SubSeq(Content', 1, Len(Content)) = Content
      BY <2>4, <3>1, CountPrefix
    <3> QED
      BY <2>2, <3>2 DEF TxnStep, Txn!Next, Txn!Write
  <2> QED
    BY <2>1, <2>3, <2>4
<1>3. CASE EnqueuePart
  <2>1. UNCHANGED <<offset, object, told>>
    BY <1>3 DEF EnqueuePart
  <2> QED
    BY <2>1, Unseen
<1>4. CASE WriteFails
  <2>1. UNCHANGED <<offset, object, told>>
    BY <1>4 DEF WriteFails
  <2> QED
    BY <2>1, Unseen
<1>5. ASSUME NEW c \in Clients, StartCall(c) PROVE TxnStep
  <2>1. UNCHANGED <<offset, object, told>>
    BY <1>5 DEF StartCall
  <2> QED
    BY <2>1, Unseen
<1>6. ASSUME NEW c \in Clients, TakeCommitMu(c) PROVE TxnStep
  <2>1. UNCHANGED <<offset, object, told>>
    BY <1>6 DEF TakeCommitMu
  <2> QED
    BY <2>1, Unseen
<1>7. ASSUME NEW c \in Clients, BeginSeal(c) PROVE TxnStep
  <2>1. UNCHANGED <<offset, object>>
    BY <1>7 DEF BeginSeal
  <2>2. \/ told' = told \/ told' = told \cup {}
        \/ state = "completed" /\ told' = told \cup {"committed"}
        \/ state = "failed" /\ told' = told \cup {"absent"}
        \/ state = "unknown" /\ told' = told \cup {"retried"}
    BY <1>7 DEF BeginSeal, CommitReply, Reply
  <2>3. /\ state = "completed" => object # <<>>
        /\ state = "failed" => Settled
        /\ state = "unknown" => Unsure
    BY DEF TxnInv, SentInv, VerdictInv
  <2> QED
    BY <2>1, <2>2, <2>3, Unseen, SeenVerdict, SeenDenial
<1>8. ASSUME NEW c \in Clients, SealFlush(c) PROVE TxnStep
  <2>1. UNCHANGED <<offset, object>>
    BY <1>8 DEF SealFlush
  <2>2. \/ told' = told \/ told' = told \cup {}
        \/ state = "failed" /\ told' = told \cup {"absent"}
    BY <1>8 DEF SealFlush, CommitReply, Reply
  <2>3. state = "failed" => Settled
    BY DEF TxnInv, VerdictInv
  <2> QED
    BY <2>1, <2>2, <2>3, Unseen, SeenDenial
<1>9. ASSUME NEW c \in Clients, CommitWait(c) PROVE TxnStep
  <2>1. UNCHANGED <<offset, object>>
    BY <1>9 DEF CommitWait
  <2>2. \/ told' = told \/ told' = told \cup {}
        \/ /\ state \notin Ended /\ (failed \/ Cardinality(receipts) # nextPart - 1)
           /\ told' = told \cup {"absent"}
    BY <1>9 DEF CommitWait, CommitReply, Reply
  <2>3. state \notin Ended /\ (failed \/ Cardinality(receipts) # nextPart - 1) => Settled
    BY CommittingNotDead DEF TxnInv, PhaseInv, States, VerdictInv, Complete
  <2> QED
    BY <2>1, <2>2, <2>3, Unseen, SeenDenial
<1>10. ASSUME NEW c \in Clients, CommitRequest(c) PROVE TxnStep
  <2>1. UNCHANGED offset /\ Complete /\ ~Denied
    BY <1>10, RequestState DEF CommitRequest, TxnInv, VerdictInv
  <2>2. \/ object = <<>> /\ object' = <<Assembled>> /\ (told' = told \/ told' = told \cup {"committed"})
        \/ UNCHANGED <<object, told>>
    BY <1>10 DEF CommitRequest, Committed, LookFor, CommitReply, Reply
  <2> QED
    BY <2>1, <2>2, Unseen, SeenLanding
<1>11. ASSUME NEW c \in Clients, Reconcile(c) PROVE TxnStep
  <2>1. UNCHANGED <<offset, object>> /\ ~Denied /\ (Retried \/ ~Unsure)
    BY <1>11, RequestState DEF Reconcile, TxnInv, VerdictInv
  <2>2. CASE Committed(c) /\ object # <<>>
    BY <2>1, <2>2, SeenVerdict DEF Committed, CommitReply, Reply
  <2>3. CASE NotCommitted(c, FALSE)
    BY <2>1, <2>3, SeenVerdict DEF NotCommitted, CommitReply, Reply
  <2>4. CASE NotCommitted(c, TRUE) /\ object = <<>> /\ (foreign \/ client[c] = "refused")
    <3>1. told' = told \cup {"absent"}
      BY <2>4 DEF NotCommitted, CommitReply, Reply
    <3>2. Settled
      BY <2>1, <2>4 DEF TxnInv, SentInv, VerdictInv, Settled
    <3> QED
      BY <2>1, <3>1, <3>2, SeenDenial
  <2> QED
    BY <1>11, <2>2, <2>3, <2>4, ReconcileCases
<1>12. ASSUME NEW c \in Clients, StartAbort(c) PROVE TxnStep
  <2>1. UNCHANGED <<offset, object>>
    BY <1>12 DEF StartAbort
  <2>2. told' = told \/ (state = "aborted" /\ told' = told \cup AbortVerdict)
    BY <1>12 DEF StartAbort
  <2> QED
    BY <2>1, <2>2, OverSays, Unseen, SeenDenial DEF Ended
<1>13. ASSUME NEW c \in Clients, AbortDiscard(c) PROVE TxnStep
  <2>1. UNCHANGED <<offset, object, told>>
    BY <1>13 DEF AbortDiscard
  <2> QED
    BY <2>1, Unseen
<1>14. ASSUME NEW c \in Clients, StartCleanup(c) PROVE TxnStep
  <2>1. UNCHANGED <<offset, object, told>>
    BY <1>14 DEF StartCleanup
  <2> QED
    BY <2>1, Unseen
<1>15. ASSUME NEW c \in Clients, FinishCleanup(c) PROVE TxnStep
  <2>1. UNCHANGED <<offset, object, told>>
    BY <1>15 DEF FinishCleanup
  <2> QED
    BY <2>1, Unseen
<1>16. ASSUME NEW c \in Clients, WaitAbort(c) PROVE TxnStep
  <2>1. UNCHANGED <<offset, object>>
    BY <1>16 DEF WaitAbort
  <2>2. \/ told' = told \cup {}
        \/ client[c] = "abortDone" /\ told' = told \cup AbortVerdict
    BY <1>16 DEF WaitAbort, Reply
  <2>3. client[c] = "abortDone" => state \in Ended
    BY DEF TxnInv, PhaseInv
  <2> QED
    BY <2>1, <2>2, <2>3, OverSays, Unseen, SeenDenial
<1>17. ASSUME NEW c \in Clients, CancelCall(c) PROVE TxnStep
  <2>1. UNCHANGED <<offset, object, told>>
    BY <1>17 DEF CancelCall
  <2> QED
    BY <2>1, Unseen
<1>18. ASSUME NEW w \in Workers, TakeJob(w) PROVE TxnStep
  <2>1. UNCHANGED <<offset, object, told>>
    BY <1>18 DEF TakeJob
  <2> QED
    BY <2>1, Unseen
<1>19. ASSUME NEW w \in Workers, PutSucceeds(w) PROVE TxnStep
  <2>1. UNCHANGED <<offset, object, told>>
    BY <1>19 DEF PutSucceeds
  <2> QED
    BY <2>1, Unseen
<1>20. ASSUME NEW w \in Workers, PutFails(w) PROVE TxnStep
  <2>1. UNCHANGED <<offset, object, told>>
    BY <1>20 DEF PutFails
  <2> QED
    BY <2>1, Unseen
<1>21. ASSUME NEW w \in Workers, WorkerDiscard(w) PROVE TxnStep
  <2>1. UNCHANGED <<offset, object, told>>
    BY <1>21 DEF WorkerDiscard
  <2> QED
    BY <2>1, Unseen
<1>22. ASSUME NEW w \in Workers, WorkerExit(w) PROVE TxnStep
  <2>1. UNCHANGED <<offset, object, told>>
    BY <1>22 DEF WorkerExit
  <2> QED
    BY <2>1, Unseen
<1>23. CASE FinishAbort
  <2>1. UNCHANGED <<offset, object, told>>
    BY <1>23 DEF FinishAbort
  <2> QED
    BY <2>1, Unseen
<1>24. CASE LateLanding
  <2>1. late /\ object = <<>> /\ object' = <<Assembled>> /\ UNCHANGED <<offset, told>>
    BY <1>24 DEF LateLanding
  <2>2. Complete /\ (Denied => Retried)
    BY <2>1 DEF TxnInv, SentInv, Sent, VerdictInv, Settled
  <2> QED
    BY <2>1, <2>2, SeenLanding
<1>25. CASE UNCHANGED vars
  <2>1. UNCHANGED <<offset, object, told>>
    BY <1>25 DEF vars
  <2> QED
    BY <2>1, Unseen
<1> QED
  BY <1>1, <1>2, <1>3, <1>4, <1>5, <1>6, <1>7, <1>8, <1>9, <1>10, <1>11, <1>12,
     <1>13, <1>14, <1>15, <1>16, <1>17, <1>18, <1>19, <1>20, <1>21, <1>22, <1>23, <1>24, <1>25
  DEF Next, Writer, Client, Worker

(* A new upload.                                                           *)
LEMMA InitTxnInv == Init => TxnInv
<1> SUFFICES ASSUME Init PROVE TxnInv
  OBVIOUS
<1>1. Base(1) = 0
  BY BaseStep
<1>2. Chunk(1, 0) = <<>>
  BY <1>1, ChunkEmpty
<1>3. SourceInv
  BY <1>1, <1>2 DEF Init, SourceInv, Idle
<1>4. PieceInv
  BY DEF Init, PieceInv
<1>5. PhaseInv
  BY DEF Init, PhaseInv, States, Live
<1>6. SentInv /\ VerdictInv
  BY DEF Init, SentInv, Sent, VerdictInv, Settled, Unsure, Denied, Live, Ended
<1> QED
  BY <1>3, <1>4, <1>5, <1>6 DEF TxnInv

-----------------------------------------------------------------------------
(* Results                                                                 *)

(* The upload's inductive invariant holds for every provider and every     *)
(* number of clients, workers, parts and faults.                           *)
THEOREM UploadInvariant == Spec => []IInv
<1>1. IInv /\ [Next]_vars => IInv'
  BY TypeStep, LockStep, WriterStep, AbortStep, StagingStep, BufferStep DEF IInv
<1> QED
  BY <1>1, InitIInv, PTL DEF Spec

(* Whoever ends the stream, the writer, a worker, a commit or an abort, no *)
(* pooled buffer is lost or given back twice, and a clean abort leaves no  *)
(* staged part or composite although parts were in flight when it began    *)
(* and a lost commit request may still be carried out.                     *)
THEOREM UploadLeaksNothing == Spec => []NothingLeaks
<1>1. IInv => NothingLeaks
  BY DEF IInv, StagingInv, Cleaned, NothingLeaks, StagingIsCleaned
<1> QED
  BY <1>1, UploadInvariant, PTL

(* The multipart upload keeps the promise of a sink transaction, for every *)
(* provider and any number of clients, workers, parts, faults and          *)
(* cancellations: the object is exactly the bytes written, in their order  *)
(* although workers put the parts in any; a commit reported done is        *)
(* durable; and until Commit is called again after an unknown outcome,     *)
(* whoever reports a definite failure or a clean abort is right for good:  *)
(* no object is there or appears later, from a lost or late request.       *)
THEOREM UploadImplementsTxn == Spec => ImplementsTxn
<1>1. Init => Txn!Init
  <2>1. offset = 0 => Content = <<>>
    BY DEF Content
  <2> QED
    BY <2>1 DEF Init, Txn!Init
<1>2. IInv /\ TxnInv /\ [Next]_vars => TxnInv'
  BY SourceStep, PieceStep, PhaseStep, SentStep, VerdictStep DEF TxnInv
<1>3. IInv /\ TxnInv /\ [Next]_vars => [Txn!Next]_(Txn!txnVars)
  BY StepIsTxn DEF TxnStep
<1> QED
  BY <1>1, <1>2, <1>3, InitTxnInv, UploadInvariant, PTL DEF Spec, ImplementsTxn, Txn!Spec
=============================================================================
