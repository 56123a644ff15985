---------------------------- MODULE HttpRequest ----------------------------
(***************************************************************************)
(* One request on its way through the service: middleware, parsing, the    *)
(* calls of its operation, and the status its outcome is turned into,      *)
(* while other requests change the newsletter it is about.                 *)
(*                                                                         *)
(*   internal/handler/http.go           Routes, classifyError, decodeJSON  *)
(*   internal/handler/middleware.go     withAuth, validate                 *)
(*   internal/handler/drafts.go, send.go, unsubscribe.go                   *)
(*   internal/service/newsletter.go, send_orchestrator.go                  *)
(*   internal/infrastructure/nats/      what the clients report            *)
(*   pkg/errors/                                                           *)
(*                                                                         *)
(* An error is the set of the kinds in its chain: errors.Is and errors.As  *)
(* see every one that was wrapped, and none that was folded into a text.   *)
(* The statements of the row are those of NewsletterLifecycle, each in one *)
(* step here.                                                              *)
(***************************************************************************)
EXTENDS Integers

CONSTANTS
  AuthSettings,   \* values of REQUIRE_USER_AUTH
  MaxVersion      \* a bound on the versions of the row

ASSUME HttpRequestAssumption ==
  /\ AuthSettings \subseteq BOOLEAN
  /\ MaxVersion \in Nat \ {0}

VARIABLES
  required,   \* REQUIRE_USER_AUTH
  letter,     \* the newsletter: its status and version
  call,       \* the request, and the error it met
  did         \* what it did, and what happened to the newsletter meanwhile

requestVars == <<required, letter, call, did>>

(***************************************************************************)
(* The routes, and what the handler and the service check of a request     *)
(* before anything else; a fault somewhere else is not noticed.            *)
(***************************************************************************)
Checked ==
  [create |-> {"body", "fields"}, list |-> {"status"}, get |-> {"uid"},
   update |-> {"uid", "ifMatch", "body", "fields"}, delete |-> {"uid"},
   send |-> {"uid", "ifMatch"}, count |-> {"body", "fields"},
   test |-> {"body", "fields"}, analytics |-> {"uid"},
   unsubscribe |-> {"token"}, probe |-> {}]
Routes == DOMAIN Checked
Faults == {"none"} \cup UNION {Checked[o] : o \in Routes}

WithoutAuth == {"unsubscribe", "probe"}        \* a probe is HEAD unsubscribe
AboutRow == {"get", "update", "delete", "send", "analytics"}
Writers == {"create", "update", "delete", "send", "unsubscribe"}

(***************************************************************************)
(* classifyError: the first kind of this list that is in the chain.        *)
(***************************************************************************)
ClassifyErrorButGateway(e) ==
  IF "ServiceUnavailable" \in e THEN 502 ELSE 500
ClassifyError(e) ==
  IF      "authError" \in e          THEN 401
  ELSE IF "ErrNotFound" \in e        THEN 404
  ELSE IF "ErrVersionMismatch" \in e THEN 412
  ELSE IF "ErrAlreadySent" \in e     THEN 409
  ELSE IF "ErrInvalidRequest" \in e  THEN 400
  ELSE IF "ServiceUnavailable" \in e THEN 503
  ELSE IF "NotFound" \in e           THEN 404
  ELSE IF "Validation" \in e         THEN 400
  ELSE IF "Conflict" \in e           THEN 409
  ELSE 500

(***************************************************************************)
(* What the services that are asked may answer with: a request that failed *)
(* or timed out, a reply that cannot be read, nothing found.               *)
(***************************************************************************)
DatabaseFails   == {"other"}
RequestFails    == {"ServiceUnavailable", "other"}
Malformed       == {"Unexpected", "other"}
CommitteeErrors == {RequestFails, Malformed, {"NotFound"}}
UserErrors      == {RequestFails, Malformed, {"NotFound"}}
EmailErrors     == {RequestFails, Malformed}

FoldedButWrapped(e) == {"Unexpected"} \cup e
Folded(e) == {"Unexpected"}

RequestInit ==
  /\ required \in AuthSettings
  /\ letter = [status |-> "draft", version |-> 1]
  /\ call = [pc |-> "idle", op |-> "get", bearer |-> "none", fault |-> "none",
             ifMatch |-> 0, ours |-> TRUE, user |-> FALSE, seen |-> 0,
             err |-> {}, status |-> 0]
  /\ did = [wrote |-> FALSE, mailed |-> FALSE, named |-> FALSE,
            unnamed |-> FALSE, raced |-> FALSE]

-----------------------------------------------------------------------------
(***************************************************************************)
(* Other requests edit, send and delete the newsletter; one that read it   *)
(* as a draft deletes it though it has been sent since.                    *)
(***************************************************************************)
OthersChange ==
  /\ letter.status # "deleted"
  /\ call.status = 0
  /\ \/ letter.status = "draft" /\ letter.version < MaxVersion
        /\ \E s \in {"draft", "sent"} :
             letter' = [status |-> s, version |-> letter.version + 1]
     \/ letter' = [letter EXCEPT !.status = "deleted"]
  /\ did' = [did EXCEPT !.raced = call.pc # "idle"]
  /\ UNCHANGED <<required, call>>

-----------------------------------------------------------------------------
Step(l) == call' = [call EXCEPT !.pc = l]
Fail(e) == call' = [call EXCEPT !.pc = "error", !.err = e]
Succeed == call' = [call EXCEPT !.pc = "done", !.status = 200]

Receive(o, b, f, v, mine) ==
  /\ call.pc = "idle"
  /\ call' = [call EXCEPT !.pc = "auth", !.op = o, !.bearer = b, !.fault = f,
                          !.ifMatch = v, !.ours = mine]
  /\ UNCHANGED <<required, letter, did>>

(***************************************************************************)
(* withAuth.  Without REQUIRE_USER_AUTH a token that does not hold is as   *)
(* good as none.                                                           *)
(***************************************************************************)
WithAuth ==
  /\ call.pc = "auth"
  /\ \/ call.op \in WithoutAuth /\ Step("parse")
     \/ /\ call.op \notin WithoutAuth
        /\ required => call.bearer = "valid"
        /\ call' = [call EXCEPT !.pc = "parse", !.user = call.bearer = "valid"]
     \/ /\ call.op \notin WithoutAuth
        /\ required /\ call.bearer # "valid"
        /\ Fail({"authError"})
  /\ UNCHANGED <<required, letter, did>>

FirstStep == [o \in Routes |->
  CASE o \in AboutRow -> "load"
    [] o = "count"    -> "resolve"
    [] o = "test"     -> "sender"
    [] OTHER          -> "statement"]

Parse ==
  /\ call.pc = "parse"
  /\ \/ call.fault \in Checked[call.op] /\ Fail({"ErrInvalidRequest"})
     \/ /\ call.fault \notin Checked[call.op]
        /\ IF call.op = "probe" THEN Succeed ELSE Step(FirstStep[call.op])
  /\ UNCHANGED <<required, letter, did>>

(***************************************************************************)
(* repo.Get, and the checks on what it returned.                           *)
(***************************************************************************)
LoadRefusal ==
  IF letter.status = "deleted" \/ ~ call.ours THEN {"ErrNotFound"}
  ELSE IF call.op \in {"get", "analytics"} THEN {}
  ELSE IF letter.status = "sent" THEN {"ErrAlreadySent"}
  ELSE IF call.op = "send" /\ call.ifMatch \notin {0, letter.version}
    THEN {"ErrVersionMismatch"} ELSE {}

Load ==
  /\ call.pc = "load"
  /\ \/ Fail(DatabaseFails)
     \/ LoadRefusal # {} /\ Fail(LoadRefusal)
     \/ LoadRefusal = {} /\ call.op = "get" /\ Succeed
     \/ /\ LoadRefusal = {} /\ call.op = "send"
        /\ call' = [call EXCEPT !.pc = "resolve", !.seen = letter.version]
     \/ LoadRefusal = {} /\ call.op \notin {"get", "send"} /\ Step("statement")
  /\ UNCHANGED <<required, letter, did>>

(***************************************************************************)
(* The statement of every operation but a send: it may be carried out and  *)
(* its result lost.  repo.Analytics looks for the row once more, and then  *)
(* only reads.                                                             *)
(***************************************************************************)
Misses ==
  \/ call.op \in {"update", "delete", "analytics"} /\ letter.status = "deleted"
  \/ call.op = "update" /\ letter.version # call.ifMatch

MissError == IF letter.status = "deleted" THEN {"ErrNotFound"}
             ELSE {"ErrVersionMismatch"}

Written ==
  CASE call.op = "update" -> [letter EXCEPT !.version = @ + 1]
    [] call.op = "delete" -> [letter EXCEPT !.status = "deleted"]
    [] OTHER              -> letter

Statement ==
  /\ call.pc = "statement"
  /\ \/ Fail(DatabaseFails) /\ UNCHANGED <<letter, did>>
     \/ Misses /\ Fail(MissError) /\ UNCHANGED <<letter, did>>
     \/ /\ ~ Misses
        /\ letter' = Written
        /\ did' = [did EXCEPT !.wrote = call.op \in Writers]
        /\ Succeed \/ Fail(DatabaseFails)
  /\ UNCHANGED required

(***************************************************************************)
(* resolveRecipients wraps what the first committee that failed reported;  *)
(* the opt-outs come from the database.                                    *)
(***************************************************************************)
ResolveRecipients ==
  /\ call.pc = "resolve"
  /\ \/ \E e \in CommitteeErrors \cup {DatabaseFails} : Fail(e)
     \/ IF call.op = "count" THEN Succeed ELSE Step("sender")
  /\ UNCHANGED <<required, letter, did>>

(***************************************************************************)
(* resolveSenderName: no name without a user (authentication off), with a  *)
(* blank principal, or if nothing is left of what the auth service says;   *)
(* the mail then goes out under the name of the project.  A lookup that    *)
(* fails, is not wired, or gives a name that cannot be parsed, is an error.*)
(***************************************************************************)
ResolveSenderName ==
  /\ call.pc = "sender"
  /\ \/ /\ Step("mail")
        /\ \E known \in {FALSE, call.user} : did' = [did EXCEPT !.named = known]
     \/ /\ call.user
        /\ Fail({"Unexpected"}) \/ \E e \in UserErrors : Fail(Folded(e))
        /\ did' = [did EXCEPT !.unnamed = TRUE]
  /\ UNCHANGED <<required, letter>>

(***************************************************************************)
(* A mail that was reported as failed may have gone out all the same, and  *)
(* with the fan-out disabled one that was reported as sent has not.  A     *)
(* test send wraps the error; a send counts failures, and says only that   *)
(* it reached nobody.                                                      *)
(***************************************************************************)
TestSend ==
  /\ call.pc = "mail" /\ call.op = "test"
  /\ Succeed \/ \E e \in EmailErrors : Fail(e)
  /\ \E out \in BOOLEAN : did' = [did EXCEPT !.mailed = out]
  /\ UNCHANGED <<required, letter>>

NobodyReachedButWrapped(e) == {"other"} \cup e
NobodyReached(e) == {"other"}

FanOut ==
  /\ call.pc = "mail" /\ call.op = "send"
  /\ Step("mark") \/ \E e \in EmailErrors : Fail(NobodyReached(e))
  /\ \E out \in BOOLEAN : did' = [did EXCEPT !.mailed = out]
  /\ UNCHANGED <<required, letter>>

MarkSentMiss ==
  IF letter.status = "sent" THEN {"ErrAlreadySent"} ELSE MissError

MarkSent ==
  /\ call.pc = "mark"
  /\ \/ Fail(DatabaseFails) /\ UNCHANGED <<letter, did>>
     \/ /\ letter = [status |-> "draft", version |-> call.seen]
        /\ letter' = [status |-> "sent", version |-> call.seen + 1]
        /\ did' = [did EXCEPT !.wrote = TRUE]
        /\ Succeed \/ Fail(DatabaseFails)
     \/ /\ letter # [status |-> "draft", version |-> call.seen]
        /\ Fail(MarkSentMiss)
        /\ UNCHANGED <<letter, did>>
  /\ UNCHANGED required

WriteError ==
  /\ call.pc = "error"
  /\ call' = [call EXCEPT !.pc = "done", !.status =
       IF call.op = "unsubscribe" /\ "ErrInvalidRequest" \notin call.err THEN 500
       ELSE ClassifyError(call.err)]
  /\ UNCHANGED <<required, letter, did>>

RequestNext ==
  \/ \E o \in Routes, b \in {"none", "invalid", "valid"}, f \in Faults,
        v \in 0 .. MaxVersion, mine \in BOOLEAN : Receive(o, b, f, v, mine)
  \/ OthersChange
  \/ WithAuth \/ Parse \/ Load \/ Statement \/ ResolveRecipients
  \/ ResolveSenderName \/ TestSend \/ FanOut \/ MarkSent \/ WriteError

RequestSpec == RequestInit /\ [][RequestNext]_requestVars

-----------------------------------------------------------------------------
Letters == [status : {"draft", "sent", "deleted"}, version : 1 .. MaxVersion + 1]
Kinds == {"authError", "ErrNotFound", "ErrVersionMismatch", "ErrAlreadySent",
          "ErrInvalidRequest", "ServiceUnavailable", "NotFound", "Unexpected", "other"}
Calls ==
  [pc : {"idle", "auth", "parse", "load", "statement", "resolve", "sender", "mail",
         "mark", "error", "done"},
   op : Routes, bearer : {"none", "invalid", "valid"}, fault : Faults,
   ifMatch : 0 .. MaxVersion, ours : BOOLEAN, user : BOOLEAN, seen : 0 .. MaxVersion,
   err : SUBSET Kinds, status : {0, 200, 400, 401, 404, 409, 412, 500, 503}]
Doings == [wrote : BOOLEAN, mailed : BOOLEAN, named : BOOLEAN, unnamed : BOOLEAN,
           raced : BOOLEAN]

RequestTypeOK ==
  required \in BOOLEAN /\ letter \in Letters /\ call \in Calls /\ did \in Doings

(***************************************************************************)
(* A client may believe the status it gets.  A success did what was asked; *)
(* no other status but 500 hides a write; after 400, 401 and 503 no mail   *)
(* of a send is under way, so trying again mails nobody twice; and 404,    *)
(* 409 or 412 for a send that had mailed tells of a change others made     *)
(* since it began.                                                         *)
(***************************************************************************)
StatusIsTrue ==
  /\ call.status = 200 /\ call.op \in Writers => did.wrote
  /\ call.status \in {400, 401, 404, 409, 412, 503} => ~ did.wrote
  /\ call.status \in {400, 401, 503} /\ call.op = "send" => ~ did.mailed
  /\ call.status \in {404, 409, 412} /\ did.mailed => did.raced

(***************************************************************************)
(* Where users have to sign in, every mail comes of the request of one who *)
(* did, whatever a token was worth elsewhere; nobody's name is on a mail   *)
(* but that of the user who signed in (it may have none: a blank name      *)
(* falls back to the project's, send_orchestrator_test.go:462); and a name *)
(* that cannot be found out is trouble of the service, not of the request  *)
(* ("they asked to send a newsletter, not to look up a user",              *)
(* send_orchestrator.go:524-525): it ends in 500 and has mailed nobody.    *)
(***************************************************************************)
SenderIsKnown ==
  /\ did.mailed => (required \/ did.named => call.user)
  /\ did.unnamed => ~ did.mailed /\ call.status \in {0, 500}
=============================================================================
