------------------------ MODULE NewsletterLifecycle ------------------------
(***************************************************************************)
(* The life of newsletter rows under concurrent HTTP requests.             *)
(*                                                                         *)
(* Every repository call is one SQL statement and no call opens a          *)
(* transaction around two of them, so a request is a sequence of atomic    *)
(* statements between which any other request, in this process or in       *)
(* another replica, may run.  A request reads the row (repo.Get), decides  *)
(* on that snapshot, and later writes; a send resolves its audience and    *)
(* mails it between the read and the write.                                *)
(*                                                                         *)
(*   internal/service/newsletter.go         CreateDraft, UpdateDraft,      *)
(*                                          DeleteDraft                    *)
(*   internal/service/send_orchestrator.go  SendNewsletter                 *)
(*   internal/repository/postgres.go        the statements                 *)
(*   internal/handler/{drafts,send}.go      the handlers and If-Match      *)
(***************************************************************************)
EXTENDS Integers, FiniteSets

CONSTANTS
  Newsletters,    \* ids drafts are created under (uuid, never reused)
  Requests,       \* update, delete and send requests, each made once
  Recipients,     \* addresses the committees of a draft may resolve to
  Projects,       \* project_uid values
  Contents,       \* subject, body, reply address and committees of a draft
  Guesses,        \* If-Match values a client may send without having been
                  \* shown them in an ETag
  FanoutEnabled,  \* SEND_FANOUT_ENABLED
  None            \* NULL

ASSUME ConstantsAssumption ==
  /\ IsFiniteSet(Recipients)
  /\ Guesses \subseteq Int
  /\ FanoutEnabled \in BOOLEAN
  /\ None \notin Requests

VARIABLES
  row,        \* row[n]: the row of table newsletters with id n
  pc,         \* pc[r]: the next step of request r, or how it ended
  op,         \* op[r]: what the client of r asked for
  draft,      \* draft[r]: the row as r read it with repo.Get
  audience,   \* audience[r]: the recipients a send resolved
  pending,    \* pending[r]: those the fan-out has not settled
  reported,   \* reported[r]: those the fan-out counted as sent
  accepted    \* accepted[r]: those whose message, under the group_id minted
              \* by r, the email service accepted

mailVars == <<audience, pending, reported, accepted>>
vars == <<row, pc, op, draft, mailVars>>

(***************************************************************************)
(* A group_id is a fresh uuid per send, so a send's identity stands for    *)
(* it.  A row whose status is "none" or "deleted" is not in the table: its *)
(* other columns are kept only so that properties can speak of a row after *)
(* it is gone, and no step below reads them.                               *)
(***************************************************************************)
Row == [status : {"none", "draft", "sent", "deleted"}, version : Nat,
        project : Projects \cup {None}, content : Contents \cup {None},
        groupId : Requests \cup {None}, total : Nat]

Blank == [status |-> "none", version |-> 0, project |-> None,
          content |-> None, groupId |-> None, total |-> 0]

Op == [kind : {"none", "update", "delete", "send"},
       id : Newsletters \cup {None}, project : Projects \cup {None},
       ifMatch : Int, content : Contents \cup {None}]

NoOp == [kind |-> "none", id |-> None, project |-> None,
         ifMatch |-> 0, content |-> None]

Answers == {"ok",                 \* 2xx, the write was committed
            "lost",               \* committed, but the client saw no 2xx
            "not_found",          \* 404
            "already_sent",       \* 409
            "version_mismatch",   \* 412
            "send_failed",        \* 500, no recipient was delivered to
            "aborted"}            \* crash, disconnect or a failing dependency

Steps == {"load", "update", "classify_update", "delete", "resolve",
          "fanout", "classify_send"}

Exists(n) == row[n].status \in {"draft", "sent"}

Committed(r) == pc[r] \in {"ok", "lost"}

(***************************************************************************)
(* The version a committed write was based on.                             *)
(***************************************************************************)
Base(r) == IF op[r].kind = "update" THEN op[r].ifMatch ELSE draft[r].version

Goto(r, label) == pc' = [pc EXCEPT ![r] = label]

Init ==
  /\ row = [n \in Newsletters |-> Blank]
  /\ pc = [r \in Requests |-> "idle"]
  /\ op = [r \in Requests |-> NoOp]
  /\ draft = [r \in Requests |-> Blank]
  /\ audience = [r \in Requests |-> {}]
  /\ pending = [r \in Requests |-> {}]
  /\ reported = [r \in Requests |-> {}]
  /\ accepted = [r \in Requests |-> {}]

-----------------------------------------------------------------------------
(***************************************************************************)
(* Requests arrive.  The handler parses If-Match before the service reads  *)
(* anything, so the version a client sends was shown to it in an earlier   *)
(* ETag, unless the client made it up.                                     *)
(***************************************************************************)
CreateDraft(n, p, c) ==
  /\ row[n].status = "none"
  /\ row' = [row EXCEPT ![n] =
               [status |-> "draft", version |-> 1, project |-> p,
                content |-> c, groupId |-> None, total |-> 0]]
  /\ UNCHANGED <<pc, op, draft, mailVars>>

IfMatchHeaders(n) == (1 .. row[n].version) \cup Guesses

Submit(r, k, n, p, v, c) ==
  /\ pc[r] = "idle"
  /\ row[n].status # "none"
  /\ op' = [op EXCEPT ![r] = [kind |-> k, id |-> n, project |-> p,
                              ifMatch |-> v, content |-> c]]
  /\ Goto(r, "load")
  /\ UNCHANGED <<row, draft, mailVars>>

SubmitUpdate(r, n, p, v, c) == Submit(r, "update", n, p, v, c)

SubmitDelete(r, n, p) == Submit(r, "delete", n, p, 0, None)

SubmitSend(r, n, p, v) == Submit(r, "send", n, p, v, None)

-----------------------------------------------------------------------------
(***************************************************************************)
(* repo.Get and the checks on what it returned.                            *)
(*                                                                         *)
(* Here and below, an operator named ...Without... or ...But... is a form  *)
(* the operator after it must not have: no step uses it, it serves to see  *)
(* which property the gate or assignment upholds.                          *)
(***************************************************************************)
MissingWithoutProject(r) == ~ Exists(op[r].id)
Missing(r) ==
  \/ ~ Exists(op[r].id)
  \/ row[op[r].id].project # op[r].project

(***************************************************************************)
(* Only a send compares If-Match with the row it read, and 0 means "any".  *)
(***************************************************************************)
StaleSend(r) ==
  /\ op[r].kind = "send"
  /\ op[r].ifMatch # 0
  /\ row[op[r].id].version # op[r].ifMatch

LoadRefused(r) ==
  /\ pc[r] = "load"
  /\ \/ /\ Missing(r)
        /\ Goto(r, "not_found")
     \/ /\ ~ Missing(r)
        /\ row[op[r].id].status = "sent"
        /\ Goto(r, "already_sent")
     \/ /\ ~ Missing(r)
        /\ row[op[r].id].status = "draft"
        /\ StaleSend(r)
        /\ Goto(r, "version_mismatch")
  /\ UNCHANGED <<row, op, draft, mailVars>>

LoadAccepted(r) ==
  /\ pc[r] = "load"
  /\ ~ Missing(r)
  /\ row[op[r].id].status = "draft"
  /\ ~ StaleSend(r)
  /\ draft' = [draft EXCEPT ![r] = row[op[r].id]]
  /\ \/ op[r].kind = "update" /\ Goto(r, "update")
     \/ op[r].kind = "delete" /\ Goto(r, "delete")
     \/ op[r].kind = "send" /\ Goto(r, "resolve")
  /\ UNCHANGED <<row, op, mailVars>>

-----------------------------------------------------------------------------
(***************************************************************************)
(* The UPDATE of an edit is gated on id and the client's version only: the *)
(* status was checked on the snapshot.  Its miss is classified by a second *)
(* statement.                                                              *)
(***************************************************************************)
UpdateHitsWithoutVersion(r) == Exists(op[r].id)
UpdateHits(r) ==
  /\ Exists(op[r].id)
  /\ row[op[r].id].version = op[r].ifMatch

UpdatedRow(r) ==
  [row[op[r].id] EXCEPT !.content = op[r].content, !.project = draft[r].project,
                        !.version = @ + 1]

UpdateStatement(r) ==
  /\ pc[r] = "update"
  /\ \/ /\ UpdateHits(r)
        /\ row' = [row EXCEPT ![op[r].id] = UpdatedRow(r)]
        /\ \E a \in {"ok", "lost"} : Goto(r, a)
     \/ /\ ~ UpdateHits(r)
        /\ Goto(r, "classify_update")
        /\ UNCHANGED row
  /\ UNCHANGED <<op, draft, mailVars>>

ClassifyUpdateMiss(r) ==
  /\ pc[r] = "classify_update"
  /\ Goto(r, IF Exists(op[r].id) THEN "version_mismatch" ELSE "not_found")
  /\ UNCHANGED <<row, op, draft, mailVars>>

(***************************************************************************)
(* The DELETE is gated on the id alone.                                    *)
(***************************************************************************)
DeleteStatement(r) ==
  /\ pc[r] = "delete"
  /\ \/ /\ Exists(op[r].id)
        /\ row' = [row EXCEPT ![op[r].id] = [@ EXCEPT !.status = "deleted"]]
        /\ \E a \in {"ok", "lost"} : Goto(r, a)
     \/ /\ ~ Exists(op[r].id)
        /\ Goto(r, "not_found")
        /\ UNCHANGED row
  /\ UNCHANGED <<op, draft, mailVars>>

-----------------------------------------------------------------------------
(***************************************************************************)
(* A send.  Committee membership and opt-outs are outside this module: the *)
(* audience is any set of recipients.  The fan-out is the one of           *)
(* Delivery.tla: the email service accepts messages, and the sender counts *)
(* each recipient once.  A message counted as failed (a timed out request) *)
(* may be accepted all the same, even after the request ended.  With       *)
(* fan-out disabled everybody is counted as sent and nothing is mailed.    *)
(***************************************************************************)
ResolveRecipients(r) ==
  /\ pc[r] = "resolve"
  /\ \E A \in SUBSET Recipients :
        /\ audience' = [audience EXCEPT ![r] = A]
        /\ pending' = [pending EXCEPT ![r] = A]
  /\ Goto(r, "fanout")
  /\ UNCHANGED <<row, op, draft, reported, accepted>>

EmailServiceAccepts(r, m) ==
  /\ FanoutEnabled
  /\ m \in audience[r] \ accepted[r]
  /\ pc[r] = "fanout" \/ m \notin pending[r]
  /\ accepted' = [accepted EXCEPT ![r] = @ \cup {m}]
  /\ UNCHANGED <<row, pc, op, draft, audience, pending, reported>>

SettleSentButUnchecked(r, m) ==
  /\ pc[r] = "fanout"
  /\ m \in pending[r]
  /\ pending' = [pending EXCEPT ![r] = @ \ {m}]
  /\ reported' = [reported EXCEPT ![r] = @ \cup {m}]
  /\ UNCHANGED <<row, pc, op, draft, audience, accepted>>
SettleSent(r, m) ==
  /\ pc[r] = "fanout"
  /\ m \in pending[r]
  /\ FanoutEnabled => m \in accepted[r]
  /\ pending' = [pending EXCEPT ![r] = @ \ {m}]
  /\ reported' = [reported EXCEPT ![r] = @ \cup {m}]
  /\ UNCHANGED <<row, pc, op, draft, audience, accepted>>

SettleFailedWithoutTimeout(r, m) ==
  /\ pc[r] = "fanout"
  /\ FanoutEnabled
  /\ m \in pending[r] \cap accepted[r]
  /\ pending' = [pending EXCEPT ![r] = @ \ {m}]
  /\ UNCHANGED <<row, pc, op, draft, audience, reported, accepted>>
SettleFailed(r, m) ==
  /\ pc[r] = "fanout"
  /\ FanoutEnabled
  /\ m \in pending[r]
  /\ pending' = [pending EXCEPT ![r] = @ \ {m}]
  /\ UNCHANGED <<row, pc, op, draft, audience, reported, accepted>>

NobodyReached(r) == reported[r] = {} /\ audience[r] # {}

GiveUp(r) ==
  /\ pc[r] = "fanout"
  /\ pending[r] = {}
  /\ NobodyReached(r)
  /\ Goto(r, "send_failed")
  /\ UNCHANGED <<row, op, draft, mailVars>>

(***************************************************************************)
(* The UPDATE of repo.MarkSent is gated on id, on the version the send     *)
(* read, and on the status.                                                *)
(***************************************************************************)
MarkSentHitsWithoutVersion(r) == row[op[r].id].status = "draft"
MarkSentHitsWithoutGates(r) == Exists(op[r].id)
MarkSentHits(r) ==
  /\ row[op[r].id].status = "draft"
  /\ row[op[r].id].version = draft[r].version

SentRowWithoutNewVersion(r) ==
  [row[op[r].id] EXCEPT !.status = "sent", !.groupId = r,
                        !.total = Cardinality(audience[r])]
SentRow(r) ==
  [row[op[r].id] EXCEPT !.status = "sent", !.groupId = r,
                        !.total = Cardinality(audience[r]),
                        !.version = @ + 1]

MarkSent(r) ==
  /\ pc[r] = "fanout"
  /\ pending[r] = {}
  /\ ~ NobodyReached(r)
  /\ \/ /\ MarkSentHits(r)
        /\ row' = [row EXCEPT ![op[r].id] = SentRow(r)]
        /\ \E a \in {"ok", "lost"} : Goto(r, a)
     \/ /\ ~ MarkSentHits(r)
        /\ Goto(r, "classify_send")
        /\ UNCHANGED row
  /\ UNCHANGED <<op, draft, mailVars>>

MarkSentMissWithoutMismatch(r) ==
  IF Exists(op[r].id) THEN "already_sent" ELSE "not_found"
MarkSentMiss(r) ==
  IF row[op[r].id].status = "sent" THEN "already_sent"
  ELSE IF Exists(op[r].id) THEN "version_mismatch" ELSE "not_found"

ClassifyMarkSentMiss(r) ==
  /\ pc[r] = "classify_send"
  /\ Goto(r, MarkSentMiss(r))
  /\ UNCHANGED <<row, op, draft, mailVars>>

(***************************************************************************)
(* Between any two steps the request may end without a further statement:  *)
(* the process dies, the client disconnects (its context cancels every     *)
(* later call), or the database, the committee service or the auth service *)
(* answers with an error.  What was written or mailed stays.               *)
(***************************************************************************)
Abort(r) ==
  /\ pc[r] \in Steps
  /\ Goto(r, "aborted")
  /\ UNCHANGED <<row, op, draft, mailVars>>

-----------------------------------------------------------------------------
Arrive(r) ==
  \E n \in Newsletters, p \in Projects :
    \/ \E v \in IfMatchHeaders(n), c \in Contents : SubmitUpdate(r, n, p, v, c)
    \/ SubmitDelete(r, n, p)
    \/ \E v \in IfMatchHeaders(n) : SubmitSend(r, n, p, v)

(***************************************************************************)
(* What the goroutine of r does once r has arrived.                        *)
(***************************************************************************)
Handle(r) ==
  \/ LoadRefused(r)
  \/ LoadAccepted(r)
  \/ UpdateStatement(r)
  \/ ClassifyUpdateMiss(r)
  \/ DeleteStatement(r)
  \/ ResolveRecipients(r)
  \/ \E m \in Recipients : SettleSent(r, m) \/ SettleFailed(r, m)
  \/ GiveUp(r)
  \/ MarkSent(r)
  \/ ClassifyMarkSentMiss(r)

Next ==
  \/ \E n \in Newsletters, p \in Projects, c \in Contents : CreateDraft(n, p, c)
  \/ \E r \in Requests :
        \/ Arrive(r)
        \/ Handle(r)
        \/ \E m \in Recipients : EmailServiceAccepts(r, m)
        \/ Abort(r)

Spec == Init /\ [][Next]_vars

(***************************************************************************)
(* A request goroutine keeps running, and each of its calls is bounded: a  *)
(* NATS request times out, a statement returns or fails.  Nothing is       *)
(* assumed of clients, of the email service or of crashes.                 *)
(***************************************************************************)
FairSpec == Spec /\ \A r \in Requests : WF_vars(Handle(r))

-----------------------------------------------------------------------------
TypeOK ==
  /\ row \in [Newsletters -> Row]
  /\ pc \in [Requests -> {"idle"} \cup Steps \cup Answers]
  /\ op \in [Requests -> Op]
  /\ draft \in [Requests -> Row]
  /\ audience \in [Requests -> SUBSET Recipients]
  /\ pending \in [Requests -> SUBSET Recipients]
  /\ reported \in [Requests -> SUBSET Recipients]
  /\ accepted \in [Requests -> SUBSET Recipients]

(***************************************************************************)
(* What a sent row records is a fan-out that really happened: its group_id *)
(* is that of a finished send of this newsletter, the mails of that group  *)
(* carried exactly the content the row still shows, its total is the size  *)
(* of the audience they went to, and if there was an audience then someone *)
(* got the mail.  An edit that commits while the fan-out runs must make    *)
(* MarkSent miss (newsletter.go UpdateDraft against send_orchestrator.go   *)
(* SendNewsletter).                                                        *)
(***************************************************************************)
SentMatchesMail ==
  \A n \in Newsletters : row[n].status = "sent" =>
    \E r \in Requests :
      /\ row[n].groupId = r
      /\ op[r].kind = "send" /\ op[r].id = n /\ Committed(r)
      /\ draft[r].content = row[n].content
      /\ pending[r] = {}
      /\ row[n].total = Cardinality(audience[r])
      /\ FanoutEnabled /\ audience[r] # {} => accepted[r] # {}

(***************************************************************************)
(* No lost update: two writes that committed on the same newsletter were   *)
(* based on different versions, whatever the two requests had read before  *)
(* (the version gates of repo.Update and repo.MarkSent).                   *)
(***************************************************************************)
Writes(r, n) == /\ Committed(r)
                /\ op[r].kind \in {"update", "send"}
                /\ op[r].id = n

OneWriterPerVersion ==
  \A n \in Newsletters : \A r, s \in Requests :
    Writes(r, n) /\ Writes(s, n) /\ r # s => Base(r) # Base(s)

(***************************************************************************)
(* However many sends of a newsletter run side by side, in however many    *)
(* replicas, one at most gets its MarkSent committed.                      *)
(***************************************************************************)
OneSendCommits ==
  \A r, s \in Requests :
    /\ op[r].kind = "send" /\ op[s].kind = "send" /\ op[r].id = op[s].id
    /\ Committed(r) /\ Committed(s)
    => r = s

(***************************************************************************)
(* A request only ever writes a row of the project in its path, although   *)
(* no statement is gated on the project: it was checked on the snapshot.   *)
(***************************************************************************)
WritesStayInProject ==
  \A r \in Requests : Committed(r) => row[op[r].id].project = op[r].project

(***************************************************************************)
(* A refusal tells the client the truth about the row, although it is      *)
(* worked out by a statement that runs after the one that missed: 409 only *)
(* if some send of the newsletter committed, 412 only if the row has moved *)
(* past the version the request stands on, 404 only if the row is gone or  *)
(* is another project's.                                                   *)
(***************************************************************************)
ClientVersion(r) ==
  IF op[r].kind = "send" /\ op[r].ifMatch = 0 THEN draft[r].version
  ELSE op[r].ifMatch

RefusalsAreTrue ==
  \A r \in Requests : LET x == row[op[r].id] IN
    /\ pc[r] = "already_sent" => x.groupId # None
    /\ pc[r] = "version_mismatch" => x.version > ClientVersion(r)
    /\ pc[r] = "not_found" => x.status = "deleted" \/ x.project # op[r].project

(***************************************************************************)
(* Every request that arrives is answered or dies; none waits forever for  *)
(* another one.                                                            *)
(***************************************************************************)
EveryRequestEnds ==
  \A r \in Requests : pc[r] = "load" ~> pc[r] \in Answers

(***************************************************************************)
(* Clients that do not invent version numbers; 0 is not a version.         *)
(***************************************************************************)
HonestClients == Guesses \subseteq {0}

(***************************************************************************)
(* The rows, as clients see them, behave like the atomic object of         *)
(* NewsletterContract.tla, except that a sent row may still be deleted.    *)
(***************************************************************************)
Kept == INSTANCE NewsletterContract
  WITH Sends <- Requests, Totals <- 0 .. Cardinality(Recipients),
       SentRowsDeletable <- TRUE

KeepsContract == Kept!Spec

(***************************************************************************)
(* The documented contract: "Sent newsletters cannot be updated, deleted,  *)
(* or sent again" (docs/newsletter-service-contract.md:79).                *)
(***************************************************************************)
Documented == INSTANCE NewsletterContract
  WITH Sends <- Requests, Totals <- 0 .. Cardinality(Recipients),
       SentRowsDeletable <- FALSE

KeepsDocumentedContract == Documented!Spec

(***************************************************************************)
(* "the row stays a draft so the operator can retry without emails ever    *)
(* having gone out" (send_orchestrator.go:193-194).                        *)
(***************************************************************************)
FailedSendMailedNobody ==
  \A r \in Requests : pc[r] = "send_failed" => accepted[r] = {}

(***************************************************************************)
(* Each send runs the fan-out Delivery.tla describes.                      *)
(***************************************************************************)
FanOutOf(r) == INSTANCE Delivery
  WITH audience <- audience[r], pending <- pending[r],
       reported <- reported[r], accepted <- accepted[r]

SendsDeliver ==
  /\ \A r \in Requests : FanOutOf(r)!Init
  /\ [][\A r \in Requests :
          FanOutOf(r)!Next \/ UNCHANGED FanOutOf(r)!vars]_mailVars
=============================================================================
