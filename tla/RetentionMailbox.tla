-------------------------- MODULE RetentionMailbox --------------------------
(***************************************************************************)
(* Catalog.RequestRetention (internal/catalog/blob/retention.go): operators *)
(* that race to put a retention request into the one mailbox object of a    *)
(* partition.  CatalogSession takes the mailbox as an object that only      *)
(* moves to newer versions (its action RequestRetention); here that is      *)
(* shown of the conditional puts, retries and late requests that move it.   *)
(* The object store is the one CatalogSession describes.                    *)
(***************************************************************************)
EXTENDS Naturals, FiniteSets

CONSTANTS
  Callers,    \* calls of RequestRetention, one each
  Requests,   \* the requests they may make: records [ver, before]
  Attempts    \* WriterCommitMaxAttempts

ASSUME MailboxAssumption ==
  /\ Requests \subseteq [ver : Nat \ {0}, before : Nat]
  /\ Attempts \in Nat \ {0}

VARIABLES
  file,      \* the object: its token (0: absent) and decoded request
  inflight,  \* conditional puts answered with an error that may still land
  call,      \* the calls
  stored     \* history: every request the object ever held

vars == <<file, inflight, call, stored>>

\* The absent object.
NoRequest == [ver |-> 0, before |-> 0]

NewCall == [pc |-> "new", req |-> NoRequest, token |-> 0, attempt |-> 0, failed |-> FALSE,
            answer |-> "none"]

Init ==
  /\ file = [token |-> 0, req |-> NoRequest]
  /\ inflight = {}
  /\ call = [c \in Callers |-> NewCall]
  /\ stored = {}

-----------------------------------------------------------------------------
\* compareRetentionRequest lets the put go ahead.
Newer(current, r) == r.ver > current.ver /\ r.before >= current.before

\* What it answers when it does not.
Verdict(current, r) == IF current = r THEN "ok" ELSE "regression"

Return(k, answer) == [k EXCEPT !.pc = "done", !.answer = answer]

Become(c, k) == call' = [call EXCEPT ![c] = k]

Install(r) ==
  /\ file' = [token |-> file.token + 1, req |-> r]
  /\ inflight' = {}
  /\ stored' = stored \cup {r}

\* loadRetentionFile and the first comparison.
RequestRetention(c, r) ==
  LET k == [pc |-> "cas", req |-> r, token |-> file.token, attempt |-> 0, failed |-> FALSE,
            answer |-> "none"]
  IN  /\ call[c].pc = "new"
      /\ \/ Become(c, Return(k, "failed"))                      \* Get failed
         \/ /\ file.token = 0 \/ Newer(file.req, r)
            /\ Become(c, k)
         \/ /\ file.token # 0 /\ ~Newer(file.req, r)
            /\ Become(c, Return(k, Verdict(file.req, r)))
      /\ UNCHANGED <<file, inflight, stored>>

\* The end of an attempt: the last look, another attempt, or the context
\* ended during the backoff.
NextAttempt(c, k) ==
  IF k.attempt + 1 = Attempts THEN Become(c, [k EXCEPT !.pc = "confirm"])
  ELSE \/ Become(c, [k EXCEPT !.attempt = @ + 1])
       \/ Become(c, Return(k, "indeterminate"))

CasSwapped(c) ==
  /\ call[c].pc = "cas" /\ call[c].token = file.token
  /\ Install(call[c].req)
  /\ Become(c, Return(call[c], "ok"))

CasConflictMutant(c) ==
  /\ call[c].pc = "cas" /\ file.token # 0
  /\ NextAttempt(c, [call[c] EXCEPT !.token = file.token, !.failed = FALSE])
  /\ UNCHANGED <<file, inflight, stored>>

\* Refused: the object that is there decides, and is the base of a retry.
\* Without one the answer has no body to decode.
CasConflict(c) ==
  LET k == call[c]
  IN  /\ k.pc = "cas"
      /\ \/ file.token = 0 /\ Become(c, Return(k, "failed"))
         \/ /\ file.token # 0 /\ ~Newer(file.req, k.req)
            /\ Become(c, Return(k, Verdict(file.req, k.req)))
         \/ /\ file.token # 0 /\ Newer(file.req, k.req)
            /\ NextAttempt(c, [k EXCEPT !.token = file.token, !.failed = FALSE])
      /\ UNCHANGED <<file, inflight, stored>>

CasError(c) ==
  LET k == call[c]
  IN  /\ k.pc = "cas"
      /\ inflight' = IF k.token = file.token
                     THEN inflight \cup {[token |-> k.token, req |-> k.req]} ELSE inflight
      /\ NextAttempt(c, [k EXCEPT !.failed = TRUE])
      /\ UNCHANGED <<file, stored>>

ConfirmMutant(c) ==
  LET k == call[c]
  IN  /\ k.pc = "confirm"
      /\ Become(c, Return(k, IF k.failed THEN "ok" ELSE "conflict"))
      /\ UNCHANGED <<file, inflight, stored>>

\* The look at the object after the last attempt.
Confirm(c) ==
  LET k == call[c]
  IN  /\ k.pc = "confirm"
      /\ \/ Become(c, Return(k, "indeterminate"))               \* Get failed
         \/ /\ file.token # 0 /\ ~Newer(file.req, k.req)
            /\ Become(c, Return(k, Verdict(file.req, k.req)))
         \/ /\ file.token = 0 \/ Newer(file.req, k.req)
            /\ Become(c, Return(k, IF k.failed THEN "failed" ELSE "conflict"))
      /\ UNCHANGED <<file, inflight, stored>>

\* A put whose caller was told of an error reaches the store after all.
Land ==
  \E p \in inflight :
    /\ p.token = file.token
    /\ Install(p.req)
    /\ UNCHANGED call

Next ==
  \/ Land
  \/ \E c \in Callers :
       \/ \E r \in Requests : RequestRetention(c, r)
       \/ CasSwapped(c) \/ CasConflict(c) \/ CasError(c) \/ Confirm(c)

Spec == Init /\ [][Next]_vars

-----------------------------------------------------------------------------
CallType ==
  [pc : {"new", "cas", "confirm", "done"}, req : Requests \cup {NoRequest},
   token : Nat, attempt : 0..Attempts - 1, failed : BOOLEAN,
   answer : {"none", "ok", "regression", "conflict", "failed", "indeterminate"}]

\* Every variable has its type.
TypeOK ==
  /\ file \in [token : Nat, req : Requests \cup {NoRequest}]
  /\ inflight \subseteq [token : Nat, req : Requests]
  /\ call \in [Callers -> CallType]
  /\ stored \subseteq Requests

\* The mailbox is what CatalogSession takes it for: it moves by one request,
\* to a newer version that removes no less, also when the put that moves it
\* was retried, was based on a stale read or comes late.
MailboxAdvances ==
  [][\E r \in Requests : Newer(file.req, r) /\ file'.req = r]_file

\* RequestRetention answers success only for a request that is in the
\* mailbox or that a newer one, at least as far-reaching, has replaced.
AcceptedIsKept ==
  \A c \in Callers :
    call[c].answer = "ok" =>
      /\ call[c].req \in stored
      /\ file.req = call[c].req \/ Newer(call[c].req, file.req)
=============================================================================
