------------------------ MODULE RecipientResolution ------------------------
(***************************************************************************)
(* One call of SendOrchestrator.resolveRecipients                          *)
(* (internal/service/send_orchestrator.go) and what surrounds it: an       *)
(* errgroup with one lookup per committee, each a NATS request to          *)
(* committee-service, then the opt-outs of the project read from Postgres, *)
(* then the merge, then the fan-out of the send.  Rosters change,          *)
(* recipients follow their unsubscribe link and the client may leave at    *)
(* any moment.                                                             *)
(*                                                                         *)
(* The merge is one step here; RecipientMerge is its loop, and the step is *)
(* what AudienceIsExact says of that loop.  Addresses are normalised.      *)
(*                                                                         *)
(* An operator named ...Without... or ...But... is a form the operator     *)
(* after it must not have: no step uses it.                                *)
(***************************************************************************)
EXTENDS FiniteSets

CONSTANTS
  Committees,
  Addresses,
  Projects,
  Wirings      \* whether the orchestrator has an UnsubscribeService, or may

ASSUME ResolutionAssumption == Wirings \subseteq BOOLEAN

VARIABLES
  wired,       \* o.unsub is there
  stage,       \* where the calling goroutine is
  project,     \* the project of the call
  asked,       \* the committees of the call
  gone,        \* the client has left: ctx is done
  lookup,      \* lookup[c]: where the goroutine of committee c is
  outcome,     \* outcome[c]: what ListMembers returned to it
  err,         \* the error of the errgroup, then of the call
  answer,      \* answer[c]: the kind of reply committee-service sent
  listed,      \* listed[c]: the members in that reply
  excluded,    \* what listUnsubscribed returned
  audience,    \* what the call returned
  mailed,      \* the addresses the fan-out has asked the email service for
  roster,      \* roster[c]: the members of committee c
  optOuts,     \* the rows of newsletter_unsubscribes
  told,        \* who has seen the page that confirms an opt-out
  optedBefore, \* history: the opt-outs when the call began
  ever,        \* history: <<c, e>> with e in roster[c] at some moment of the call
  always       \* history: <<c, e>> with e in roster[c] throughout the call

call == <<wired, project, asked>>
lookups == <<lookup, outcome, answer, listed>>
result == <<excluded, audience, mailed>>
database == <<optOuts, told>>
history == <<optedBefore, ever, always>>
vars == <<call, stage, gone, lookups, err, result, roster, database, history>>

Listings == {l \in Committees \X Addresses : l[2] \in roster[l[1]]}

Init ==
  /\ wired \in Wirings
  /\ stage = "idle"
  /\ project \in Projects
  /\ asked = {}
  /\ gone = FALSE
  /\ lookup = [c \in Committees |-> "none"]
  /\ outcome = [c \in Committees |-> "none"]
  /\ err = "none"
  /\ answer = [c \in Committees |-> "none"]
  /\ listed = [c \in Committees |-> {}]
  /\ excluded = {}
  /\ audience = {}
  /\ mailed = {}
  /\ roster \in [Committees -> SUBSET Addresses]
  /\ optOuts \in SUBSET (Projects \X Addresses)
  /\ told = {}
  /\ optedBefore = {}
  /\ ever = {}
  /\ always = {}

-----------------------------------------------------------------------------
(***************************************************************************)
(* The calling goroutine.  validateCommitteeUIDs wants one committee at    *)
(* least; the draft lists none twice.                                      *)
(***************************************************************************)
Call(cs) ==
  /\ stage = "idle"
  /\ cs # {}
  /\ stage' = "lookups"
  /\ asked' = cs
  /\ lookup' = [c \in Committees |-> IF c \in cs THEN "spawned" ELSE "none"]
  /\ optedBefore' = {e \in Addresses : <<project, e>> \in optOuts}
  /\ ever' = Listings
  /\ always' = Listings
  /\ UNCHANGED <<wired, project, gone, outcome, answer, listed, err, result,
                 roster, database>>

WaitIsOverWithoutAll == \E c \in asked : lookup[c] = "ended"
WaitIsOver == \A c \in asked : lookup[c] = "ended"

Wait ==
  /\ stage = "lookups"
  /\ WaitIsOver
  /\ stage' = IF err = "none" THEN "opt_outs" ELSE "failed"
  /\ UNCHANGED <<call, gone, lookups, err, result, roster, database, history>>

OptedOut == {e \in Addresses : <<project, e>> \in optOuts}

(***************************************************************************)
(* One SELECT under the context of the request.                            *)
(***************************************************************************)
ListUnsubscribed ==
  /\ stage = "opt_outs"
  /\ \/ wired /\ ~ gone /\ excluded' = OptedOut
     \/ ~ wired /\ excluded' = {}
  /\ stage' = "merge"
  /\ UNCHANGED <<call, gone, lookups, err, audience, mailed, roster, database,
                 history>>

ListUnsubscribedFails ==
  /\ stage = "opt_outs"
  /\ wired
  /\ stage' = "failed"
  /\ err' = "opt_outs"
  /\ UNCHANGED <<call, gone, lookups, result, roster, database, history>>

MergedButUnfiltered == UNION {listed[c] : c \in asked}
Merged == (UNION {listed[c] : c \in asked}) \ excluded

Merge ==
  /\ stage = "merge"
  /\ stage' = "resolved"
  /\ audience' = Merged
  /\ UNCHANGED <<call, gone, lookups, err, excluded, mailed, roster, database,
                 history>>

-----------------------------------------------------------------------------
(***************************************************************************)
(* ListMembers, in the goroutine of committee c.  The first error is the   *)
(* group's, and it cancels the context the other lookups run under.        *)
(***************************************************************************)
GroupDone == gone \/ err # "none"

FirstErrorButSwallowed(why) == UNCHANGED err
FirstErrorButLast(why) == err' = why
FirstError(why) == err' = IF err = "none" THEN why ELSE err

LookupFails(c, at, why) ==
  /\ lookup[c] = at
  /\ lookup' = [lookup EXCEPT ![c] = "ended"]
  /\ outcome' = [outcome EXCEPT ![c] = why]
  /\ FirstError(why)
  /\ UNCHANGED <<call, stage, gone, answer, listed, result, roster, database,
                 history>>

Publish(c) ==
  /\ lookup[c] = "spawned"
  /\ ~ GroupDone
  /\ lookup' = [lookup EXCEPT ![c] = "waiting"]
  /\ UNCHANGED <<call, stage, gone, outcome, answer, listed, err, result, roster,
                 database, history>>

PublishFails(c) == LookupFails(c, "spawned", "unavailable")

RequestCancelled(c) ==
  GroupDone /\ \E at \in {"spawned", "waiting"} : LookupFails(c, at, "cancelled")

RequestTimesOutWithoutClock(c) ==
  gone /\ LookupFails(c, "waiting", "unavailable")
RequestTimesOut(c) == LookupFails(c, "waiting", "unavailable")

ReplyIsEmpty(c) == answer[c] = "empty" /\ LookupFails(c, "waiting", "not_found")

ReplyIsMalformed(c) ==
  answer[c] = "malformed" /\ LookupFails(c, "waiting", "unexpected")

ReplyListsMembers(c) ==
  /\ lookup[c] = "waiting"
  /\ answer[c] = "members"
  /\ lookup' = [lookup EXCEPT ![c] = "ended"]
  /\ outcome' = [outcome EXCEPT ![c] = "ok"]
  /\ UNCHANGED <<call, stage, gone, answer, listed, err, result, roster, database,
                 history>>

-----------------------------------------------------------------------------
(***************************************************************************)
(* The fan-out of the send that asked.                                     *)
(***************************************************************************)
Mail(e) ==
  /\ stage = "resolved"
  /\ ~ gone
  /\ e \in audience \ mailed
  /\ mailed' = mailed \cup {e}
  /\ UNCHANGED <<call, stage, gone, lookups, err, excluded, audience, roster,
                 database, history>>

(***************************************************************************)
(* A recipient follows the link of any earlier newsletter: the row is      *)
(* inserted or already there, then the page confirms.  An insert whose     *)
(* result is lost leaves a row and no page.                                *)
(***************************************************************************)
CreateUnsubscribe(p, e) ==
  /\ wired
  /\ optOuts' = optOuts \cup {<<p, e>>}
  /\ UNCHANGED <<call, stage, gone, lookups, err, result, roster, told, history>>

ConfirmUnsubscribe(p, e) ==
  /\ wired
  /\ <<p, e>> \in optOuts
  /\ told' = told \cup {<<p, e>>}
  /\ UNCHANGED <<call, stage, gone, lookups, err, result, roster, optOuts, history>>

ClientLeaves ==
  /\ stage # "idle"
  /\ gone' = TRUE
  /\ UNCHANGED <<call, stage, lookups, err, result, roster, database, history>>

(***************************************************************************)
(* committee-service: members come and go, and a request is answered from  *)
(* the roster as it is at that moment, by no bytes or by something else.   *)
(***************************************************************************)
InCall == stage \in {"lookups", "opt_outs", "merge"}

RosterChanges(c, e) ==
  /\ roster' = [roster EXCEPT ![c] = IF e \in @ THEN @ \ {e} ELSE @ \cup {e}]
  /\ IF InCall
       THEN /\ ever' = ever \cup {<<c, e>>}
            /\ always' = always \ {<<c, e>>}
       ELSE UNCHANGED <<ever, always>>
  /\ UNCHANGED <<call, stage, gone, lookups, err, result, database, optedBefore>>

CommitteeServiceAnswers(c) ==
  /\ lookup[c] = "waiting"
  /\ answer[c] = "none"
  /\ \/ /\ answer' = [answer EXCEPT ![c] = "members"]
        /\ listed' = [listed EXCEPT ![c] = roster[c]]
     \/ /\ \E kind \in {"empty", "malformed"} : answer' = [answer EXCEPT ![c] = kind]
        /\ UNCHANGED listed
  /\ UNCHANGED <<call, stage, gone, lookup, outcome, err, result, roster, database,
                 history>>

-----------------------------------------------------------------------------
Caller == Wait \/ ListUnsubscribed \/ ListUnsubscribedFails \/ Merge

Lookup(c) ==
  \/ Publish(c)
  \/ PublishFails(c)
  \/ RequestCancelled(c)
  \/ RequestTimesOut(c)
  \/ ReplyIsEmpty(c)
  \/ ReplyIsMalformed(c)
  \/ ReplyListsMembers(c)

Environment ==
  \/ ClientLeaves
  \/ \E p \in Projects, e \in Addresses :
       CreateUnsubscribe(p, e) \/ ConfirmUnsubscribe(p, e)
  \/ \E c \in Committees, e \in Addresses : RosterChanges(c, e)
  \/ \E c \in Committees : CommitteeServiceAnswers(c)

Next ==
  \/ \E cs \in SUBSET Committees : Call(cs)
  \/ Caller
  \/ \E c \in Committees : Lookup(c)
  \/ \E e \in Addresses : Mail(e)
  \/ Environment

Spec == Init /\ [][Next]_vars

(***************************************************************************)
(* Goroutines run, a request ends by its timeout at the latest, and so     *)
(* does a statement.  Nothing is asked of committee-service, of the client *)
(* or of the recipients.                                                   *)
(***************************************************************************)
FairSpec ==
  /\ Spec
  /\ WF_vars(Caller)
  /\ \A c \in Committees : WF_vars(Lookup(c))

-----------------------------------------------------------------------------
Causes == {"none", "unavailable", "cancelled", "not_found", "unexpected"}

TypeOK ==
  /\ wired \in BOOLEAN
  /\ stage \in {"idle", "lookups", "opt_outs", "merge", "resolved", "failed"}
  /\ project \in Projects
  /\ asked \in SUBSET Committees
  /\ gone \in BOOLEAN
  /\ lookup \in [Committees -> {"none", "spawned", "waiting", "ended"}]
  /\ outcome \in [Committees -> Causes \cup {"ok"}]
  /\ err \in Causes \cup {"opt_outs"}
  /\ answer \in [Committees -> {"none", "members", "empty", "malformed"}]
  /\ listed \in [Committees -> SUBSET Addresses]
  /\ excluded \in SUBSET Addresses
  /\ audience \in SUBSET Addresses
  /\ mailed \in SUBSET Addresses
  /\ roster \in [Committees -> SUBSET Addresses]
  /\ optOuts \in SUBSET (Projects \X Addresses)
  /\ told \in SUBSET optOuts
  /\ optedBefore \in SUBSET Addresses
  /\ ever \in SUBSET (Committees \X Addresses)
  /\ always \in SUBSET ever

(***************************************************************************)
(* Nobody is forgotten: whoever is a member of a committee of the draft    *)
(* throughout the resolution, and has not opted out of this project, is in *)
(* the audience.  In particular one failed lookup fails the send instead   *)
(* of leaving its committee out, and an opt-out is good for one project.   *)
(***************************************************************************)
NobodyForgotten ==
  stage = "resolved" =>
    \A c \in asked, e \in Addresses :
      <<c, e>> \in always /\ <<project, e>> \notin optOuts => e \in audience

(***************************************************************************)
(* Nobody is mailed unasked: everybody in the audience was a member of a   *)
(* committee of the draft during the resolution, and had not opted out of  *)
(* the project before it began.                                            *)
(***************************************************************************)
NobodyUnasked ==
  stage = "resolved" =>
    \A e \in audience :
      /\ \E c \in asked : <<c, e>> \in ever
      /\ wired => e \notin optedBefore

(***************************************************************************)
(* The caller is told why resolution failed.  That a lookup was cancelled  *)
(* because another one had failed is no reason: only the client's leaving  *)
(* is.                                                                     *)
(***************************************************************************)
CauseIsReported == err = "cancelled" => gone

(***************************************************************************)
(* The results are read, and the call ends, when no lookup runs any more.  *)
(***************************************************************************)
NothingAskedAfterWait ==
  stage \in {"opt_outs", "merge", "resolved", "failed"} =>
    \A c \in Committees : lookup[c] \in {"none", "ended"}

(***************************************************************************)
(* A call ends, though committee-service may be silent.                    *)
(***************************************************************************)
ResolutionEnds == stage = "lookups" ~> stage \in {"resolved", "failed"}
=============================================================================
