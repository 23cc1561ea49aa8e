----------------------- MODULE RetentionMailboxProofs -----------------------
(***************************************************************************)
(* The mailbox properties for any number of callers, any set of requests    *)
(* and any number of attempts.  A conditional put carries the token of the  *)
(* object its request was compared with, so whenever a token still matches, *)
(* the comparison still stands: that is the inductive invariant.            *)
(***************************************************************************)
EXTENDS RetentionMailbox, TLAPS

\* The object and its history agree.
FileInv ==
  /\ file.token = 0 => file.req = NoRequest
  /\ file.token # 0 => file.req \in stored

\* A put that can still land is newer than what it would replace.
PutInv == \A p \in inflight : p.token = file.token /\ Newer(file.req, p.req)

\* A call is about to put a request that was newer than the object it read.
CallInv ==
  \A c \in Callers :
    /\ call[c].pc \in {"cas", "confirm"} =>
         call[c].req \in Requests /\ call[c].token <= file.token
    /\ call[c].pc = "cas" /\ call[c].token = file.token => Newer(file.req, call[c].req)
    /\ call[c].pc # "done" => call[c].answer = "none"

IInv == TypeOK /\ FileInv /\ PutInv /\ CallInv /\ AcceptedIsKept

-----------------------------------------------------------------------------
\* Newer is a strict order: a request newer than a newer one is newer.
LEMMA NewerTransitive ==
  ASSUME NEW a \in [ver : Nat, before : Nat], NEW b \in [ver : Nat, before : Nat],
         NEW c \in [ver : Nat, before : Nat], Newer(a, b), Newer(b, c)
  PROVE  Newer(a, c)
  BY DEF Newer

\* Requests and the absent one have a version and an LSN.
LEMMA RequestFields ==
  ASSUME NEW r \in Requests \cup {NoRequest}
  PROVE  r \in [ver : Nat, before : Nat] /\ (r \in Requests => r # NoRequest)
  BY MailboxAssumption DEF NoRequest

\* Putting in a request that is newer than the stored one, by whichever call
\* and however late, keeps the invariant of all the others.
LEMMA InstallStep ==
  ASSUME IInv, NEW r \in Requests, Newer(file.req, r), Install(r)
  PROVE  /\ file' \in [token : Nat, req : Requests \cup {NoRequest}]
         /\ inflight' \subseteq [token : Nat, req : Requests]
         /\ stored' \subseteq Requests /\ stored \subseteq stored'
         /\ FileInv' /\ PutInv'
         /\ file'.token = file.token + 1 /\ file'.req = r /\ r \in stored'
         /\ \A a \in Requests : file.req = a \/ Newer(a, file.req) => Newer(a, file'.req)
<1>1. file.req \in [ver : Nat, before : Nat] /\ r \in [ver : Nat, before : Nat]
  BY RequestFields DEF IInv, TypeOK
<1>2. ASSUME NEW a \in Requests, file.req = a \/ Newer(a, file.req)
      PROVE  Newer(a, r)
  BY <1>1, <1>2, RequestFields, NewerTransitive
<1> QED BY <1>2 DEF IInv, TypeOK, Install, FileInv, PutInv

\* A call moves while the object stays: only its own record matters.
LEMMA CallStep ==
  ASSUME IInv, NEW c \in Callers, NEW k, Become(c, k),
         UNCHANGED <<file, stored>>,
         k \in CallType, k.req \in Requests, k.pc # "new",
         k.pc \in {"cas", "confirm"} => k.token <= file.token /\ k.answer = "none",
         k.pc = "cas" /\ k.token = file.token => Newer(file.req, k.req),
         k.answer = "ok" => k.req \in stored /\ file.req = k.req,
         inflight' \subseteq [token : Nat, req : Requests],
         \A p \in inflight' : p.token = file.token /\ Newer(file.req, p.req)
  PROVE  IInv'
<1>1. call' = [call EXCEPT ![c] = k] /\ call'[c] = k /\ \A d \in Callers : d # c => call'[d] = call[d]
  BY DEF Become, IInv, TypeOK
<1>2. TypeOK'
  BY <1>1 DEF IInv, TypeOK
<1>3. FileInv' /\ PutInv'
  BY DEF IInv, FileInv, PutInv
<1>4. CallInv'
  BY <1>1 DEF IInv, CallInv, CallType
<1>5. AcceptedIsKept'
  BY <1>1 DEF IInv, AcceptedIsKept
<1> QED BY <1>2, <1>3, <1>4, <1>5 DEF IInv

\* A put succeeds, for its caller in time or not.
LEMMA PutStep ==
  ASSUME IInv, NEW r \in Requests, Newer(file.req, r), Install(r),
         \/ UNCHANGED call
         \/ \E c \in Callers : /\ call[c].pc = "cas" /\ call[c].req = r
                               /\ Become(c, Return(call[c], "ok"))
  PROVE  IInv'
<1>1. /\ FileInv' /\ PutInv' /\ stored \subseteq stored'
      /\ file'.token = file.token + 1 /\ file'.req = r /\ r \in stored'
      /\ \A a \in Requests : file.req = a \/ Newer(a, file.req) => Newer(a, file'.req)
  BY InstallStep
<1>2. \A c \in Callers :
        \/ call'[c] = call[c]
        \/ call[c].req = r /\ call'[c] = [call[c] EXCEPT !.pc = "done", !.answer = "ok"]
  BY DEF Become, Return, IInv, TypeOK
<1>3. TypeOK'
  <2>1. ASSUME NEW c \in Callers PROVE call'[c] \in CallType
    <3>1. call[c] \in CallType
      BY DEF IInv, TypeOK
    <3> QED BY <1>2, <3>1 DEF CallType
  <2>2. call' = [c \in Callers |-> call'[c]]
    BY DEF Become, IInv, TypeOK
  <2>3. call' \in [Callers -> CallType]
    BY <2>1, <2>2
  <2> QED BY <2>3, InstallStep DEF TypeOK
<1>4. CallInv'
  <2> SUFFICES ASSUME NEW c \in Callers
               PROVE  /\ call'[c].pc \in {"cas", "confirm"} =>
                           call'[c].req \in Requests /\ call'[c].token <= file'.token
                      /\ call'[c].pc = "cas" => call'[c].token # file'.token
                      /\ call'[c].pc # "done" => call'[c].answer = "none"
    BY DEF CallInv
  <2>1. file.token \in Nat /\ call[c].token \in Nat
    BY DEF IInv, TypeOK, CallType
  <2>2. CASE call'[c] = call[c]
    BY <1>1, <2>1, <2>2 DEF IInv, CallInv
  <2>3. CASE call'[c] = [call[c] EXCEPT !.pc = "done", !.answer = "ok"]
    BY <2>3 DEF IInv, TypeOK, CallType
  <2> QED BY <1>2, <2>2, <2>3
<1>5. AcceptedIsKept'
  <2> SUFFICES ASSUME NEW c \in Callers, call'[c].answer = "ok"
               PROVE  /\ call'[c].req \in stored'
                      /\ file'.req = call'[c].req \/ Newer(call'[c].req, file'.req)
    BY DEF AcceptedIsKept
  <2>1. CASE call'[c] = call[c]
    <3>1. call[c].req \in stored /\ (file.req = call[c].req \/ Newer(call[c].req, file.req))
      BY <2>1 DEF IInv, AcceptedIsKept
    <3>2. call[c].req \in Requests
      BY <3>1 DEF IInv, TypeOK
    <3> QED BY <1>1, <2>1, <3>1, <3>2
  <2>2. CASE call[c].req = r /\ call'[c] = [call[c] EXCEPT !.pc = "done", !.answer = "ok"]
    BY <1>1, <2>2 DEF IInv, TypeOK, CallType
  <2> QED BY <1>2, <2>1, <2>2
<1> QED BY <1>1, <1>3, <1>4, <1>5 DEF IInv

\* The invariant holds of an empty mailbox.
LEMMA InitIInv == Init => IInv
BY MailboxAssumption DEF Init, IInv, TypeOK, FileInv, PutInv, CallInv, AcceptedIsKept, NewCall, NoRequest, CallType

\* Comparing a request with the object ends a call correctly.
LEMMA VerdictStep ==
  ASSUME IInv, NEW r \in Requests, file.token # 0, Verdict(file.req, r) = "ok"
  PROVE  r \in stored /\ file.req = r
BY DEF IInv, FileInv, Verdict

\* Every step keeps the invariant.
LEMMA NextIInv ==
  ASSUME IInv, [Next]_vars
  PROVE  IInv'
<1> USE MailboxAssumption
<1>t. /\ file.token \in Nat /\ inflight \subseteq [token : Nat, req : Requests]
      /\ \A c \in Callers : call[c] \in CallType
  BY DEF IInv, TypeOK
<1>f. \A c \in Callers : call[c].pc \in {"cas", "confirm"} =>
          call[c].req \in Requests /\ call[c].answer = "none" /\ call[c].token <= file.token
  BY DEF IInv, CallInv
<1>p. \A p \in inflight : p.token = file.token /\ Newer(file.req, p.req)
  BY DEF IInv, PutInv
<1>z. \A r \in Requests : file.token = 0 => Newer(file.req, r)
  BY DEF IInv, FileInv, NoRequest, Newer
<1>1. CASE UNCHANGED vars
  BY <1>1 DEF vars, IInv, TypeOK, FileInv, PutInv, CallInv, AcceptedIsKept
<1>2. CASE Land
  <2>1. PICK p \in inflight : Install(p.req) /\ UNCHANGED call
    BY <1>2 DEF Land
  <2>2. p.req \in Requests /\ Newer(file.req, p.req)
    BY <1>t, <1>p
  <2> QED BY <2>1, <2>2, PutStep
<1>3. ASSUME NEW c \in Callers, NEW r \in Requests, RequestRetention(c, r)
      PROVE  IInv'
  <2> DEFINE k == [pc |-> "cas", req |-> r, token |-> file.token, attempt |-> 0, failed |-> FALSE,
                   answer |-> "none"]
  <2>0. /\ k \in CallType /\ k.req = r /\ k.answer = "none"
        /\ k.pc = "cas" /\ k.token = file.token
    <3>1. 0 \in 0..Attempts - 1
      BY MailboxAssumption
    <3> QED BY <1>t, <3>1 DEF CallType
  <2> HIDE DEF k
  <2>u. UNCHANGED <<file, inflight, stored>>
    BY <1>3 DEF RequestRetention
  <2>1. CASE Become(c, Return(k, "failed"))
    <3>1. Return(k, "failed") \in CallType
      BY <2>0 DEF Return, CallType
    <3> QED BY <1>p, <1>t, <2>0, <2>u, <2>1, <3>1, CallStep DEF Return, CallType
  <2>2. CASE /\ file.token = 0 \/ Newer(file.req, r)
             /\ Become(c, k)
    <3>1. Newer(file.req, r)
      BY <1>z, <2>2
    <3> QED BY <1>p, <1>t, <2>0, <2>u, <2>2, <3>1, CallStep
  <2>3. CASE /\ file.token # 0
             /\ Become(c, Return(k, Verdict(file.req, r)))
    <3> DEFINE n == Return(k, Verdict(file.req, r))
    <3>1. n \in CallType /\ n.pc = "done" /\ n.req = r /\ n.answer = Verdict(file.req, r)
      BY <2>0 DEF Return, CallType, Verdict
    <3> HIDE DEF n
    <3>2. n.answer = "ok" => n.req \in stored /\ file.req = n.req
      BY <2>3, <3>1, VerdictStep
    <3> QED BY <1>p, <1>t, <2>u, <2>3, <3>1, <3>2, CallStep DEF n
  <2> QED BY <1>3, <2>1, <2>2, <2>3 DEF RequestRetention, k
<1>4. ASSUME NEW c \in Callers, CasSwapped(c)
      PROVE  IInv'
  <2>1. call[c].req \in Requests /\ Newer(file.req, call[c].req)
    BY <1>4 DEF CasSwapped, IInv, CallInv
  <2> QED BY <1>4, <2>1, PutStep DEF CasSwapped
<1>5. ASSUME NEW c \in Callers, NEW k \in CallType, k.req \in Requests, k.pc = "cas",
             k.answer = "none", k.token <= file.token,
             k.token = file.token => Newer(file.req, k.req),
             NextAttempt(c, k), UNCHANGED <<file, stored>>,
             inflight' \subseteq [token : Nat, req : Requests],
             \A p \in inflight' : p.token = file.token /\ Newer(file.req, p.req)
      PROVE  IInv'
  <2>1. CASE Become(c, [k EXCEPT !.pc = "confirm"])
    <3>1. [k EXCEPT !.pc = "confirm"] \in CallType
      BY <1>5 DEF CallType
    <3> QED BY <1>5, <2>1, <3>1, CallStep DEF CallType
  <2>2. CASE k.attempt + 1 # Attempts /\ Become(c, [k EXCEPT !.attempt = @ + 1])
    <3>1. [k EXCEPT !.attempt = @ + 1] \in CallType
      BY <1>5, <2>2 DEF CallType
    <3> QED BY <1>5, <2>2, <3>1, CallStep DEF CallType
  <2>3. CASE Become(c, Return(k, "indeterminate"))
    <3>1. Return(k, "indeterminate") \in CallType
      BY <1>5 DEF CallType, Return
    <3> QED BY <1>5, <2>3, <3>1, CallStep DEF CallType, Return
  <2> QED BY <1>5, <2>1, <2>2, <2>3 DEF NextAttempt
<1>6. ASSUME NEW c \in Callers, CasConflict(c)
      PROVE  IInv'
  <2> DEFINE k == call[c]
  <2>0. k \in CallType /\ k.pc = "cas" /\ k.req \in Requests /\ k.answer = "none"
    BY <1>6, <1>t, <1>f DEF CasConflict
  <2>1. CASE Become(c, Return(k, "failed"))
    <3>1. Return(k, "failed") \in CallType
      BY <2>0 DEF Return, CallType
    <3> QED BY <1>6, <1>p, <1>t, <2>0, <2>1, <3>1, CallStep DEF CasConflict, Return, CallType
  <2>2. CASE file.token # 0 /\ Become(c, Return(k, Verdict(file.req, k.req)))
    <3>1. Return(k, Verdict(file.req, k.req)) \in CallType
      BY <2>0 DEF Return, CallType, Verdict
    <3> QED BY <1>6, <1>p, <1>t, <2>0, <2>2, <3>1, CallStep, VerdictStep DEF CasConflict, Return, CallType
  <2>3. CASE /\ Newer(file.req, k.req)
             /\ NextAttempt(c, [k EXCEPT !.token = file.token, !.failed = FALSE])
    <3> DEFINE n == [k EXCEPT !.token = file.token, !.failed = FALSE]
    <3>1. /\ n \in CallType /\ n.req = k.req /\ n.pc = "cas" /\ n.answer = "none"
          /\ n.token = file.token
      BY <1>t, <2>0 DEF CallType
    <3>2. NextAttempt(c, n) /\ Newer(file.req, n.req)
      BY <2>3, <3>1
    <3>3. UNCHANGED <<file, inflight, stored>>
      BY <1>6 DEF CasConflict
    <3> HIDE DEF n
    <3>4. n.token <= file.token /\ n.req \in Requests
      BY <1>t, <2>0, <3>1
    <3> QED BY <1>5, <1>p, <1>t, <3>1, <3>2, <3>3, <3>4
  <2> QED BY <1>6, <2>1, <2>2, <2>3 DEF CasConflict
<1>7. ASSUME NEW c \in Callers, CasError(c)
      PROVE  IInv'
  <2> DEFINE n == [call[c] EXCEPT !.failed = TRUE]
  <2>0. call[c] \in CallType /\ call[c].pc = "cas" /\ call[c].req \in Requests /\ call[c].answer = "none"
    BY <1>7, <1>t, <1>f DEF CasError
  <2>1. /\ n \in CallType /\ n.req = call[c].req /\ n.pc = "cas" /\ n.answer = "none"
        /\ n.token = call[c].token
    BY <2>0 DEF CallType
  <2>2. n.token <= file.token /\ (n.token = file.token => Newer(file.req, n.req))
    BY <2>0, <2>1, <1>f DEF IInv, CallInv
  <2>3. /\ inflight' \subseteq [token : Nat, req : Requests]
        /\ \A p \in inflight' : p.token = file.token /\ Newer(file.req, p.req)
    BY <1>7, <1>t, <1>p, <2>0, <2>1, <2>2 DEF CasError
  <2>4. NextAttempt(c, n) /\ UNCHANGED <<file, stored>>
    BY <1>7 DEF CasError
  <2> HIDE DEF n
  <2> QED BY <1>5, <2>0, <2>1, <2>2, <2>3, <2>4
<1>8. ASSUME NEW c \in Callers, Confirm(c)
      PROVE  IInv'
  <2> DEFINE k == call[c]
  <2>0. k \in CallType /\ k.req \in Requests
    BY <1>8, <1>t, <1>f DEF Confirm
  <2>1. CASE \E a \in {"indeterminate", "failed", "conflict"} : Become(c, Return(k, a))
    <3>1. PICK a \in {"indeterminate", "failed", "conflict"} : Become(c, Return(k, a))
      BY <2>1
    <3>2. Return(k, a) \in CallType
      BY <2>0 DEF Return, CallType
    <3> QED BY <1>8, <1>p, <1>t, <2>0, <3>1, <3>2, CallStep DEF Confirm, Return, CallType
  <2>2. CASE file.token # 0 /\ Become(c, Return(k, Verdict(file.req, k.req)))
    <3>1. Return(k, Verdict(file.req, k.req)) \in CallType
      BY <2>0 DEF Return, CallType, Verdict
    <3> QED BY <1>8, <1>p, <1>t, <2>0, <2>2, <3>1, CallStep, VerdictStep DEF Confirm, Return, CallType
  <2> QED BY <1>8, <2>1, <2>2 DEF Confirm
<1> QED BY <1>1, <1>2, <1>3, <1>4, <1>6, <1>7, <1>8 DEF Next

\* Only a put moves the object, and it carries a newer request.
LEMMA AdvanceStep ==
  ASSUME IInv, [Next]_vars
  PROVE  [\E r \in Requests : Newer(file.req, r) /\ file'.req = r]_file
<1>1. CASE Land
  BY <1>1 DEF Land, Install, IInv, PutInv, TypeOK
<1>2. ASSUME NEW c \in Callers, CasSwapped(c)
      PROVE  \E r \in Requests : Newer(file.req, r) /\ file'.req = r
  BY <1>2 DEF CasSwapped, Install, IInv, CallInv
<1>3. CASE UNCHANGED file
  BY <1>3
<1> QED BY <1>1, <1>2, <1>3 DEF Next, vars, RequestRetention, CasConflict, CasError, Confirm

-----------------------------------------------------------------------------
\* The inductive invariant holds of every run.
LEMMA IInvAlways == Spec => []IInv
BY InitIInv, NextIInv, PTL DEF Spec

\* A request that RequestRetention accepted is in the mailbox until a newer,
\* at least as far-reaching one replaces it, for any number of racing callers.
THEOREM MailboxKeepsAccepted == Spec => []AcceptedIsKept
<1>1. IInv => AcceptedIsKept
  BY DEF IInv
<1> QED BY <1>1, IInvAlways, PTL

\* The mailbox object only moves to newer versions that remove no less: what
\* CatalogSession assumes of it, from the conditional puts of retention.go.
THEOREM MailboxOnlyAdvances == Spec => MailboxAdvances
BY IInvAlways, AdvanceStep, PTL DEF Spec, MailboxAdvances
=============================================================================
