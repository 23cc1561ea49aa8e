------------------------------ MODULE SinkTxn ------------------------------
(***************************************************************************)
(* What a sink transaction promises the segment writer (segwriter.Txn):    *)
(* bytes are appended until the object exists; the object, once durable,   *)
(* holds exactly the bytes appended; a commit is reported done only when   *)
(* the object is durable; and once a caller was told that there is no      *)
(* object, by a definite failure or by a clean abort, none ever appears.   *)
(*                                                                         *)
(* A call may also report an unknown outcome, as long as nobody was told   *)
(* that there is no object; then the object may land at any time, and      *)
(* nobody is told that there is none.  These promises end when the commit  *)
(* is retried after an unknown outcome: the verdicts that follow describe  *)
(* the retry, and do not tell what became of the earlier request.          *)
(***************************************************************************)
EXTENDS Naturals, Sequences

VARIABLES
    content,    \* the bytes accepted
    object,     \* <<>>, or <<the bytes of the durable object>>
    told        \* verdicts given: "committed", "absent", "aborted", "unknown";
                \* and "retried" once the commit was retried after "unknown"

txnVars == <<content, object, told>>

(* The verdicts that deny the object: Commit failed, Abort succeeded.      *)
Denials == {"absent", "aborted"}
Retried == "retried" \in told
NotDenied == Retried \/ told \cap Denials = {}

Init == content = <<>> /\ object = <<>> /\ told = {}

Write ==
    /\ object = <<>>
    /\ Len(content') > Len(content)
    /\ SubSeq(content', 1, Len(content)) = content
    /\ UNCHANGED <<object, told>>

(* The object appears, at once or long after the request was sent.         *)
Land ==
    /\ object = <<>> /\ NotDenied
    /\ object' = <<content>>
    /\ UNCHANGED <<content, told>>

TellCommitted ==
    /\ object # <<>>
    /\ told' = told \cup {"committed"}
    /\ UNCHANGED <<content, object>>

(* The request lands and is answered in one step.                          *)
LandAndTell ==
    /\ object = <<>> /\ NotDenied
    /\ object' = <<content>> /\ told' = told \cup {"committed"}
    /\ UNCHANGED content

Deny ==
    /\ Retried \/ (object = <<>> /\ "unknown" \notin told)
    /\ \E v \in Denials : told' = told \cup {v}
    /\ UNCHANGED <<content, object>>

TellUnknown ==
    /\ NotDenied
    /\ told' = told \cup {"unknown"}
    /\ UNCHANGED <<content, object>>

Retry ==
    /\ "unknown" \in told
    /\ told' = told \cup {"retried"}
    /\ UNCHANGED <<content, object>>

Next ==
    Write \/ Land \/ TellCommitted \/ LandAndTell \/ Deny \/ TellUnknown \/ Retry

Spec == Init /\ [][Next]_txnVars
=============================================================================
