--------------------- MODULE RecipientResolution_proofs ---------------------
(***************************************************************************)
(* What a resolution promises, for any set of committees, addresses and    *)
(* projects, and whatever fails, leaves or changes while it runs.          *)
(*                                                                         *)
(* NobodyForgotten and NobodyUnasked speak of the end of a call; the       *)
(* invariant says how each stage gets there: a reply lists whoever was a   *)
(* member throughout and nobody who never was (RepliesAreTimely), the      *)
(* group has no error only if every lookup that ended has such a reply     *)
(* (NoErrorMeansReplies), the opt-outs read contain those from before the  *)
(* call and are all recorded (OptOutsAreTimely).                           *)
(***************************************************************************)
EXTENDS RecipientResolution, TLAPS

Fresh ==
  stage = "idle" =>
    err = "none" /\ \A c \in Committees : lookup[c] = "none"

AskedOnly ==
  \A c \in Committees : (lookup[c] = "none") <=> (c \notin asked)

UnaskedUnanswered ==
  \A c \in Committees : lookup[c] \in {"none", "spawned"} => answer[c] = "none"

HistoryBrackets == InCall => always \subseteq Listings /\ Listings \subseteq ever

RepliesAreTimely ==
  \A c \in Committees : answer[c] = "members" =>
    \A e \in Addresses :
      /\ <<c, e>> \in always => e \in listed[c]
      /\ e \in listed[c] => <<c, e>> \in ever

NoErrorMeansReplies ==
  err = "none" =>
    \A c \in Committees : lookup[c] = "ended" => answer[c] = "members"

PastWaitNoError == stage \in {"opt_outs", "merge", "resolved"} => err = "none"

OptOutsAreTimely ==
  /\ optedBefore \subseteq OptedOut
  /\ stage \in {"merge", "resolved"} =>
       excluded \subseteq OptedOut /\ (wired => optedBefore \subseteq excluded)

AudienceIsMerged == stage = "resolved" => audience = Merged

IInv ==
  /\ TypeOK
  /\ Fresh
  /\ AskedOnly
  /\ UnaskedUnanswered
  /\ HistoryBrackets
  /\ RepliesAreTimely
  /\ NoErrorMeansReplies
  /\ PastWaitNoError
  /\ NothingAskedAfterWait
  /\ OptOutsAreTimely
  /\ AudienceIsMerged
  /\ CauseIsReported

-----------------------------------------------------------------------------
(* The program starts well typed. *)
LEMMA TypeInit == Init => TypeOK
  BY ResolutionAssumption DEF Init, TypeOK, Causes

(* The call begins with the types kept. *)
LEMMA CallTypes ==
  ASSUME TypeOK, NEW cs \in SUBSET Committees, Call(cs)
  PROVE  TypeOK'
  BY DEF TypeOK, Call, Causes, Listings, result, database

(* The caller's steps after the lookups keep the types. *)
LEMMA CallerTypes ==
  ASSUME TypeOK, Caller
  PROVE  TypeOK'
<1>1. CASE Wait
  BY <1>1 DEF TypeOK, Wait, Causes, call, lookups, result, database, history
<1>2. CASE ListUnsubscribed
  BY <1>2 DEF TypeOK, ListUnsubscribed, OptedOut, Causes, call, lookups, database, history
<1>3. CASE ListUnsubscribedFails
  BY <1>3 DEF TypeOK, ListUnsubscribedFails, Causes, call, lookups, result, database, history
<1>4. CASE Merge
  BY <1>4 DEF TypeOK, Merge, Merged, Causes, call, lookups, database, history
<1> QED BY <1>1, <1>2, <1>3, <1>4 DEF Caller

(* A lookup that fails keeps the types, whatever its error. *)
LEMMA LookupFailsTypes ==
  ASSUME TypeOK, NEW c \in Committees, NEW at, NEW why \in Causes \ {"none"},
         LookupFails(c, at, why)
  PROVE  TypeOK'
  BY DEF TypeOK, LookupFails, FirstError, Causes, call, result, database, history

(* Every step of a lookup either fails it or is one of two others. *)
LEMMA LookupCases ==
  ASSUME NEW c \in Committees, Lookup(c)
  PROVE  \/ Publish(c)
         \/ ReplyListsMembers(c)
         \/ \E at \in {"spawned", "waiting"}, why \in Causes \ {"none"} :
              (why = "cancelled" => GroupDone) /\ LookupFails(c, at, why)
  BY DEF Lookup, PublishFails, RequestCancelled, RequestTimesOut, ReplyIsEmpty,
         ReplyIsMalformed, Causes

(* A lookup keeps the types. *)
LEMMA LookupTypes ==
  ASSUME TypeOK, NEW c \in Committees, Lookup(c)
  PROVE  TypeOK'
<1>1. CASE Publish(c)
  BY <1>1 DEF TypeOK, Publish, Causes, call, result, database, history
<1>2. CASE ReplyListsMembers(c)
  BY <1>2 DEF TypeOK, ReplyListsMembers, Causes, call, result, database, history
<1> QED BY <1>1, <1>2, LookupCases, LookupFailsTypes

(* A recipient's click keeps the types. *)
LEMMA ClickTypes ==
  ASSUME TypeOK, NEW p \in Projects, NEW e \in Addresses,
         CreateUnsubscribe(p, e) \/ ConfirmUnsubscribe(p, e)
  PROVE  TypeOK'
<1>1. CASE CreateUnsubscribe(p, e)
  BY <1>1 DEF TypeOK, CreateUnsubscribe, Causes, call, lookups, result, history
<1>2. CASE ConfirmUnsubscribe(p, e)
  BY <1>2 DEF TypeOK, ConfirmUnsubscribe, Causes, call, lookups, result, history
<1> QED BY <1>1, <1>2

(* The client, committee-service and the fan-out keep the types. *)
LEMMA EnvironmentTypes ==
  ASSUME TypeOK, Environment \/ \E e \in Addresses : Mail(e)
  PROVE  TypeOK'
<1>1. ASSUME NEW e \in Addresses, Mail(e) PROVE TypeOK'
  BY <1>1 DEF TypeOK, Mail, Causes, call, lookups, database, history
<1>2. CASE ClientLeaves
  BY <1>2 DEF TypeOK, ClientLeaves, Causes, call, lookups, result, database, history
<1>3. ASSUME NEW c \in Committees, NEW e \in Addresses, RosterChanges(c, e)
      PROVE  TypeOK'
  BY <1>3 DEF TypeOK, RosterChanges, Causes, call, lookups, result, database
<1>4. ASSUME NEW c \in Committees, CommitteeServiceAnswers(c) PROVE TypeOK'
  BY <1>4 DEF TypeOK, CommitteeServiceAnswers, Causes, call, result, database, history
<1> QED BY <1>1, <1>2, <1>3, <1>4, ClickTypes DEF Environment

(* So TypeOK is inductive. *)
LEMMA TypeStep == TypeOK /\ [Next]_vars => TypeOK'
<1> SUFFICES ASSUME TypeOK, [Next]_vars PROVE TypeOK'
  OBVIOUS
<1>1. CASE UNCHANGED vars
  BY <1>1 DEF TypeOK, vars, call, lookups, result, database, history
<1> QED BY <1>1, CallTypes, CallerTypes, LookupTypes, EnvironmentTypes DEF Next

(* The program starts in a state of the invariant. *)
LEMMA InitHolds == Init => IInv
<1> SUFFICES ASSUME Init PROVE IInv
  OBVIOUS
<1>1. TypeOK
  BY TypeInit
<1>2. Fresh /\ AskedOnly /\ UnaskedUnanswered /\ HistoryBrackets
  BY DEF Init, Fresh, AskedOnly, UnaskedUnanswered, HistoryBrackets, InCall
<1>3. RepliesAreTimely /\ NoErrorMeansReplies /\ PastWaitNoError /\ NothingAskedAfterWait
  BY DEF Init, RepliesAreTimely, NoErrorMeansReplies, PastWaitNoError, NothingAskedAfterWait
<1>4. OptOutsAreTimely /\ AudienceIsMerged /\ CauseIsReported
  BY DEF Init, OptOutsAreTimely, AudienceIsMerged, CauseIsReported
<1> QED BY <1>1, <1>2, <1>3, <1>4 DEF IInv

(* The call begins: no lookup has an answer, and the history is reset. *)
LEMMA CallStep ==
  ASSUME IInv, NEW cs \in SUBSET Committees, Call(cs)
  PROVE  IInv'
<1> USE DEF IInv
<1>1. TypeOK'
  BY CallTypes
<1>2. Fresh' /\ AskedOnly' /\ PastWaitNoError' /\ NothingAskedAfterWait' /\ AudienceIsMerged'
  BY DEF Call, Fresh, AskedOnly, PastWaitNoError, NothingAskedAfterWait, AudienceIsMerged, TypeOK
<1>3. \A c \in Committees : answer'[c] = "none" /\ lookup'[c] # "ended"
  BY DEF Call, Fresh, UnaskedUnanswered, TypeOK
<1>4. UnaskedUnanswered' /\ RepliesAreTimely' /\ NoErrorMeansReplies'
  BY <1>3 DEF UnaskedUnanswered, RepliesAreTimely, NoErrorMeansReplies
<1>5. HistoryBrackets'
  BY DEF Call, HistoryBrackets, Listings
<1>6. OptOutsAreTimely' /\ CauseIsReported'
  BY DEF Call, OptOutsAreTimely, OptedOut, CauseIsReported, database, TypeOK
<1> QED BY <1>1, <1>2, <1>4, <1>5, <1>6

(* The caller's other steps touch neither lookups nor history: what the    *)
(* invariant says of those is kept.                                        *)
LEMMA LookupsKept ==
  ASSUME IInv, stage \in {"lookups", "opt_outs", "merge"}, stage' # "idle",
         UNCHANGED <<call, lookups, roster, history>>,
         err' = "none" => err = "none"
  PROVE  /\ Fresh' /\ AskedOnly' /\ UnaskedUnanswered' /\ HistoryBrackets'
         /\ RepliesAreTimely' /\ NoErrorMeansReplies'
<1> USE DEF IInv, call, lookups, history
<1>1. Fresh' /\ AskedOnly' /\ UnaskedUnanswered'
  BY DEF Fresh, AskedOnly, UnaskedUnanswered
<1>2. HistoryBrackets'
  BY DEF HistoryBrackets, InCall, Listings
<1>3. RepliesAreTimely' /\ NoErrorMeansReplies'
  BY DEF RepliesAreTimely, NoErrorMeansReplies
<1> QED BY <1>1, <1>2, <1>3

(* Wait returns the group's error, or the way is free for the opt-outs. *)
LEMMA WaitStep ==
  ASSUME IInv, Wait
  PROVE  IInv'
<1> USE DEF IInv
<1>1. TypeOK'
  BY CallerTypes DEF Caller
<1>2. /\ Fresh' /\ AskedOnly' /\ UnaskedUnanswered' /\ HistoryBrackets'
      /\ RepliesAreTimely' /\ NoErrorMeansReplies'
  BY LookupsKept DEF Wait
<1>3. NothingAskedAfterWait'
  BY DEF Wait, WaitIsOver, NothingAskedAfterWait, AskedOnly, lookups, call
<1>4. PastWaitNoError' /\ AudienceIsMerged' /\ CauseIsReported'
  BY DEF Wait, PastWaitNoError, AudienceIsMerged, CauseIsReported
<1>5. OptOutsAreTimely'
  BY DEF Wait, OptOutsAreTimely, OptedOut, call, result, database, history
<1> QED BY <1>1, <1>2, <1>3, <1>4, <1>5

(* The opt-outs read are recorded ones, and all that are older than the    *)
(* call are among them.                                                    *)
LEMMA OptOutsStep ==
  ASSUME IInv, ListUnsubscribed \/ ListUnsubscribedFails
  PROVE  IInv'
<1> USE DEF IInv
<1>1. TypeOK'
  BY CallerTypes DEF Caller
<1>2. /\ Fresh' /\ AskedOnly' /\ UnaskedUnanswered' /\ HistoryBrackets'
      /\ RepliesAreTimely' /\ NoErrorMeansReplies'
  BY LookupsKept DEF ListUnsubscribed, ListUnsubscribedFails
<1>3. PastWaitNoError' /\ NothingAskedAfterWait' /\ AudienceIsMerged' /\ CauseIsReported'
  BY DEF ListUnsubscribed, ListUnsubscribedFails, PastWaitNoError, NothingAskedAfterWait,
         AudienceIsMerged, CauseIsReported, lookups
<1>4. OptOutsAreTimely'
  <2>1. CASE ListUnsubscribed
    BY <2>1 DEF ListUnsubscribed, OptOutsAreTimely, OptedOut, call, database, history, TypeOK
  <2>2. CASE ListUnsubscribedFails
    BY <2>2 DEF ListUnsubscribedFails, OptOutsAreTimely, OptedOut, call, database, history
  <2> QED BY <2>1, <2>2
<1> QED BY <1>1, <1>2, <1>3, <1>4

(* The merge produces the audience it is meant to. *)
LEMMA MergeStep ==
  ASSUME IInv, Merge
  PROVE  IInv'
<1> USE DEF IInv
<1>1. TypeOK'
  BY CallerTypes DEF Caller
<1>2. /\ Fresh' /\ AskedOnly' /\ UnaskedUnanswered' /\ HistoryBrackets'
      /\ RepliesAreTimely' /\ NoErrorMeansReplies'
  BY LookupsKept DEF Merge
<1>3. PastWaitNoError' /\ NothingAskedAfterWait' /\ CauseIsReported'
  BY DEF Merge, PastWaitNoError, NothingAskedAfterWait, CauseIsReported, lookups
<1>4. AudienceIsMerged'
  BY DEF Merge, AudienceIsMerged, Merged, lookups, call
<1>5. OptOutsAreTimely'
  BY DEF Merge, OptOutsAreTimely, OptedOut, call, database, history
<1> QED BY <1>1, <1>2, <1>3, <1>4, <1>5

-----------------------------------------------------------------------------
(* A goroutine that is still at work belongs to a call that still waits. *)
LEMMA BusyMeansWaiting ==
  ASSUME IInv, NEW c \in Committees, lookup[c] \in {"spawned", "waiting"}
  PROVE  stage = "lookups"
  BY DEF IInv, Fresh, NothingAskedAfterWait, TypeOK

(* While the lookups run, the later parts of the invariant are idle. *)
LEMMA LaterPartsIdle ==
  ASSUME IInv, stage = "lookups",
         UNCHANGED <<call, stage, result, database, history>>
  PROVE  /\ Fresh' /\ PastWaitNoError' /\ NothingAskedAfterWait' /\ OptOutsAreTimely'
         /\ AudienceIsMerged'
  BY DEF IInv, Fresh, PastWaitNoError, NothingAskedAfterWait, OptOutsAreTimely, OptedOut,
         AudienceIsMerged, call, database, history

(* A request goes out unanswered. *)
LEMMA PublishStep ==
  ASSUME IInv, NEW c \in Committees, Publish(c)
  PROVE  IInv'
<1> USE DEF IInv
<1>1. TypeOK'
  BY LookupTypes DEF Lookup
<1>2. stage = "lookups"
  BY BusyMeansWaiting DEF Publish
<1>3. /\ Fresh' /\ PastWaitNoError' /\ NothingAskedAfterWait' /\ OptOutsAreTimely'
      /\ AudienceIsMerged'
  BY <1>2, LaterPartsIdle DEF Publish
<1>4. AskedOnly' /\ UnaskedUnanswered' /\ NoErrorMeansReplies'
  BY DEF Publish, AskedOnly, UnaskedUnanswered, NoErrorMeansReplies, TypeOK, call
<1>5. HistoryBrackets' /\ RepliesAreTimely' /\ CauseIsReported'
  BY DEF Publish, HistoryBrackets, InCall, Listings, RepliesAreTimely, CauseIsReported, history
<1> QED BY <1>1, <1>3, <1>4, <1>5

(* A failed lookup leaves an error behind, its own or an earlier one; it   *)
(* is "cancelled" only if the client has left.                             *)
LEMMA LookupFailsStep ==
  ASSUME IInv, NEW c \in Committees, NEW at \in {"spawned", "waiting"},
         NEW why \in Causes \ {"none"},
         why = "cancelled" => GroupDone,
         LookupFails(c, at, why)
  PROVE  IInv'
<1> USE DEF IInv
<1>1. TypeOK'
  BY LookupFailsTypes
<1>2. stage = "lookups"
  BY BusyMeansWaiting DEF LookupFails
<1>3. /\ Fresh' /\ PastWaitNoError' /\ NothingAskedAfterWait' /\ OptOutsAreTimely'
      /\ AudienceIsMerged'
  BY <1>2, LaterPartsIdle DEF LookupFails
<1>4. AskedOnly' /\ UnaskedUnanswered'
  BY DEF LookupFails, AskedOnly, UnaskedUnanswered, TypeOK, call
<1>5. NoErrorMeansReplies'
  BY DEF LookupFails, FirstError, NoErrorMeansReplies
<1>6. HistoryBrackets' /\ RepliesAreTimely'
  BY DEF LookupFails, HistoryBrackets, InCall, Listings, RepliesAreTimely, history
<1>7. CauseIsReported'
  BY DEF LookupFails, FirstError, GroupDone, CauseIsReported
<1> QED BY <1>1, <1>3, <1>4, <1>5, <1>6, <1>7

(* A lookup that ends well has its members. *)
LEMMA ReplyStep ==
  ASSUME IInv, NEW c \in Committees, ReplyListsMembers(c)
  PROVE  IInv'
<1> USE DEF IInv
<1>1. TypeOK'
  BY LookupTypes DEF Lookup
<1>2. stage = "lookups"
  BY BusyMeansWaiting DEF ReplyListsMembers
<1>3. /\ Fresh' /\ PastWaitNoError' /\ NothingAskedAfterWait' /\ OptOutsAreTimely'
      /\ AudienceIsMerged'
  BY <1>2, LaterPartsIdle DEF ReplyListsMembers
<1>4. AskedOnly' /\ UnaskedUnanswered' /\ NoErrorMeansReplies'
  BY DEF ReplyListsMembers, AskedOnly, UnaskedUnanswered, NoErrorMeansReplies, TypeOK, call
<1>5. HistoryBrackets' /\ RepliesAreTimely' /\ CauseIsReported'
  BY DEF ReplyListsMembers, HistoryBrackets, InCall, Listings, RepliesAreTimely,
         CauseIsReported, history
<1> QED BY <1>1, <1>3, <1>4, <1>5

(* committee-service answers from a roster the history brackets. *)
LEMMA AnswerStep ==
  ASSUME IInv, NEW c \in Committees, CommitteeServiceAnswers(c)
  PROVE  IInv'
<1> USE DEF IInv
<1>1. TypeOK'
  BY EnvironmentTypes DEF Environment
<1>2. stage = "lookups"
  BY BusyMeansWaiting DEF CommitteeServiceAnswers
<1>3. /\ Fresh' /\ PastWaitNoError' /\ NothingAskedAfterWait' /\ OptOutsAreTimely'
      /\ AudienceIsMerged'
  BY <1>2, LaterPartsIdle DEF CommitteeServiceAnswers
<1>4. AskedOnly' /\ UnaskedUnanswered' /\ NoErrorMeansReplies'
  BY DEF CommitteeServiceAnswers, AskedOnly, UnaskedUnanswered, NoErrorMeansReplies,
         TypeOK, call
<1>5. HistoryBrackets' /\ CauseIsReported'
  BY DEF CommitteeServiceAnswers, HistoryBrackets, InCall, Listings, CauseIsReported, history
<1>6. RepliesAreTimely'
  <2>1. \A e \in Addresses :
          /\ <<c, e>> \in always => e \in roster[c]
          /\ e \in roster[c] => <<c, e>> \in ever
    BY <1>2 DEF HistoryBrackets, InCall, Listings
  <2>2. \A d \in Committees \ {c} : answer'[d] = answer[d] /\ listed'[d] = listed[d]
    BY DEF CommitteeServiceAnswers, TypeOK
  <2>3. answer'[c] = "members" => listed'[c] = roster[c]
    BY DEF CommitteeServiceAnswers, TypeOK
  <2>4. UNCHANGED history
    BY DEF CommitteeServiceAnswers
  <2> QED BY <2>1, <2>2, <2>3, <2>4 DEF RepliesAreTimely, history
<1> QED BY <1>1, <1>3, <1>4, <1>5, <1>6

-----------------------------------------------------------------------------
(* Members come and go: the history still brackets rosters and replies. *)
LEMMA RosterStep ==
  ASSUME IInv, NEW c \in Committees, NEW e \in Addresses, RosterChanges(c, e)
  PROVE  IInv'
<1> USE DEF IInv
<1>1. TypeOK'
  BY EnvironmentTypes DEF Environment
<1>2. /\ Fresh' /\ AskedOnly' /\ UnaskedUnanswered' /\ NoErrorMeansReplies'
      /\ PastWaitNoError' /\ NothingAskedAfterWait' /\ CauseIsReported'
  BY DEF RosterChanges, Fresh, AskedOnly, UnaskedUnanswered, NoErrorMeansReplies,
         PastWaitNoError, NothingAskedAfterWait, CauseIsReported, call, lookups
<1>3. OptOutsAreTimely' /\ AudienceIsMerged'
  BY DEF RosterChanges, OptOutsAreTimely, OptedOut, AudienceIsMerged, Merged, call, lookups,
         result, database
<1>4. always' \subseteq always /\ ever \subseteq ever'
  BY DEF RosterChanges
<1>5. RepliesAreTimely'
  BY <1>4 DEF RosterChanges, RepliesAreTimely, lookups
<1>6. HistoryBrackets'
  <2> SUFFICES ASSUME InCall
               PROVE  always' \subseteq Listings' /\ Listings' \subseteq ever'
    BY DEF RosterChanges, HistoryBrackets, InCall
  <2>1. ever' = ever \cup {<<c, e>>} /\ always' = always \ {<<c, e>>}
    BY DEF RosterChanges
  <2>2. always \subseteq Listings /\ Listings \subseteq ever
    BY DEF HistoryBrackets
  <2>3. \A l \in Committees \X Addresses :
          l # <<c, e>> => (l \in Listings' <=> l \in Listings)
    <3> SUFFICES ASSUME NEW l \in Committees \X Addresses, l # <<c, e>>
                 PROVE  l[2] \in roster'[l[1]] <=> l[2] \in roster[l[1]]
      BY DEF Listings
    <3>1. CASE l[1] = c
      BY <3>1 DEF RosterChanges, TypeOK
    <3>2. CASE l[1] # c
      BY <3>2 DEF RosterChanges, TypeOK
    <3> QED BY <3>1, <3>2
  <2>4. Listings' \subseteq Committees \X Addresses /\ always \subseteq Committees \X Addresses
    BY DEF Listings, TypeOK
  <2> QED BY <2>1, <2>2, <2>3, <2>4
<1> QED BY <1>1, <1>2, <1>3, <1>5, <1>6

(* Opt-outs are only ever added, so those read stay recorded. *)
LEMMA ClickStep ==
  ASSUME IInv, NEW p \in Projects, NEW e \in Addresses,
         CreateUnsubscribe(p, e) \/ ConfirmUnsubscribe(p, e)
  PROVE  IInv'
<1> USE DEF IInv
<1>1. TypeOK'
  BY ClickTypes
<1>2. /\ UNCHANGED <<call, stage, gone, lookups, err, result, roster, history>>
      /\ optOuts \subseteq optOuts'
  BY DEF CreateUnsubscribe, ConfirmUnsubscribe
<1>3. /\ Fresh' /\ AskedOnly' /\ UnaskedUnanswered' /\ NoErrorMeansReplies'
      /\ PastWaitNoError' /\ NothingAskedAfterWait' /\ CauseIsReported'
  BY <1>2 DEF Fresh, AskedOnly, UnaskedUnanswered, NoErrorMeansReplies,
         PastWaitNoError, NothingAskedAfterWait, CauseIsReported, call, lookups
<1>4. HistoryBrackets' /\ RepliesAreTimely' /\ AudienceIsMerged'
  BY <1>2 DEF HistoryBrackets, InCall, Listings, RepliesAreTimely, AudienceIsMerged, Merged,
         call, lookups, result, history
<1>5. OptOutsAreTimely'
  BY <1>2 DEF OptOutsAreTimely, OptedOut, call, result, history
<1> QED BY <1>1, <1>3, <1>4, <1>5

(* The fan-out and the client's leaving touch nothing the call worked out. *)
LEMMA OutsideStep ==
  ASSUME IInv, ClientLeaves \/ \E e \in Addresses : Mail(e)
  PROVE  IInv'
<1> USE DEF IInv
<1>1. TypeOK'
  BY EnvironmentTypes DEF Environment
<1>2. /\ UNCHANGED <<call, stage, lookups, err, excluded, audience, roster, database, history>>
      /\ gone => gone'
  BY DEF ClientLeaves, Mail, result
<1>3. /\ Fresh' /\ AskedOnly' /\ UnaskedUnanswered' /\ NoErrorMeansReplies'
      /\ PastWaitNoError' /\ NothingAskedAfterWait' /\ CauseIsReported'
  BY <1>2 DEF Fresh, AskedOnly, UnaskedUnanswered, NoErrorMeansReplies,
         PastWaitNoError, NothingAskedAfterWait, CauseIsReported, call, lookups
<1>4. HistoryBrackets' /\ RepliesAreTimely' /\ AudienceIsMerged'
  BY <1>2 DEF HistoryBrackets, InCall, Listings, RepliesAreTimely, AudienceIsMerged, Merged,
         call, lookups, history
<1>5. OptOutsAreTimely'
  BY <1>2 DEF OptOutsAreTimely, OptedOut, call, database, history
<1> QED BY <1>1, <1>3, <1>4, <1>5

(* Every step keeps the invariant. *)
LEMMA InductiveStep == IInv /\ [Next]_vars => IInv'
<1> SUFFICES ASSUME IInv, [Next]_vars PROVE IInv'
  OBVIOUS
<1>1. CASE UNCHANGED vars
  <2>1. /\ UNCHANGED <<call, stage, gone, lookups, err, result, roster, database, history>>
        /\ TypeOK'
    BY <1>1, TypeStep DEF vars, IInv
  <2> QED BY <2>1 DEF IInv, Fresh, AskedOnly, UnaskedUnanswered, HistoryBrackets, InCall,
             Listings, RepliesAreTimely, NoErrorMeansReplies, PastWaitNoError,
             NothingAskedAfterWait, OptOutsAreTimely, OptedOut, AudienceIsMerged, Merged,
             CauseIsReported, call, lookups, result, database, history
<1>2. CASE Caller
  BY <1>2, WaitStep, OptOutsStep, MergeStep DEF Caller
<1>3. ASSUME NEW c \in Committees, Lookup(c) PROVE IInv'
  BY <1>3, LookupCases, PublishStep, ReplyStep, LookupFailsStep
<1>4. CASE Environment
  BY <1>4, OutsideStep, ClickStep, RosterStep, AnswerStep DEF Environment
<1> QED BY <1>1, <1>2, <1>3, <1>4, CallStep, OutsideStep DEF Next

(* The invariant holds of every run. *)
LEMMA AlwaysIInv == Spec => []IInv
  BY InitHolds, InductiveStep, PTL DEF Spec

(* What the invariant says of a resolved call is what the properties ask. *)
LEMMA ResolvedIsRight == IInv => NobodyForgotten /\ NobodyUnasked
<1> SUFFICES ASSUME IInv, stage = "resolved" PROVE NobodyForgotten /\ NobodyUnasked
  BY DEF NobodyForgotten, NobodyUnasked
<1> USE DEF IInv
<1>1. asked \subseteq Committees
  BY DEF TypeOK
<1>2. \A c \in asked : answer[c] = "members"
  BY <1>1 DEF PastWaitNoError, NothingAskedAfterWait, AskedOnly, NoErrorMeansReplies
<1>3. audience = (UNION {listed[c] : c \in asked}) \ excluded
  BY DEF AudienceIsMerged, Merged
<1> DEFINE InReply(e) == \E c \in asked : e \in listed[c]
<1>a. \A e : e \in audience <=> InReply(e) /\ e \notin excluded
  BY <1>3
<1>4. NobodyForgotten
  <2> SUFFICES ASSUME NEW c \in asked, NEW e \in Addresses,
                      <<c, e>> \in always, <<project, e>> \notin optOuts
               PROVE  e \in audience
    BY DEF NobodyForgotten
  <2>1. e \in listed[c]
    BY <1>1, <1>2 DEF RepliesAreTimely
  <2>2. e \notin excluded
    BY DEF OptOutsAreTimely, OptedOut
  <2> QED BY <1>a, <2>1, <2>2
<1>5. NobodyUnasked
  <2> SUFFICES ASSUME NEW e \in audience
               PROVE  /\ \E c \in asked : <<c, e>> \in ever
                      /\ wired => e \notin optedBefore
    BY DEF NobodyUnasked
  <2>1. PICK c \in asked : e \in listed[c]
    BY <1>a
  <2>2. e \in Addresses /\ <<c, e>> \in ever
    BY <1>1, <1>2, <2>1 DEF RepliesAreTimely, TypeOK
  <2>3. wired => e \notin optedBefore
    BY <1>a DEF OptOutsAreTimely
  <2> QED BY <2>2, <2>3
<1> QED BY <1>4, <1>5

-----------------------------------------------------------------------------
(***************************************************************************)
(* The resolution is well typed; only recorded opt-outs are confirmed.     *)
(***************************************************************************)
THEOREM ResolutionTypeCorrect == Spec => []TypeOK
  BY TypeInit, TypeStep, PTL DEF Spec

(***************************************************************************)
(* A member of a committee of the draft who has not opted out of the       *)
(* project is in the audience, or there is no audience at all.             *)
(***************************************************************************)
THEOREM AudienceIsComplete == Spec => []NobodyForgotten
  BY AlwaysIInv, ResolvedIsRight, PTL

(***************************************************************************)
(* Nobody is in the audience who was in no committee of the draft, or who  *)
(* had opted out before the call.                                          *)
(***************************************************************************)
THEOREM AudienceIsSolicited == Spec => []NobodyUnasked
  BY AlwaysIInv, ResolvedIsRight, PTL

(***************************************************************************)
(* The error a caller sees is the first one, not the cancellation it       *)
(* caused in other lookups.                                                *)
(***************************************************************************)
THEOREM FirstCauseReported == Spec => []CauseIsReported
<1>1. IInv => CauseIsReported
  BY DEF IInv
<1> QED BY <1>1, AlwaysIInv, PTL

(***************************************************************************)
(* No lookup runs once the group has been waited for, so the results are   *)
(* read by one goroutine.                                                  *)
(***************************************************************************)
THEOREM NoLookupLeft == Spec => []NothingAskedAfterWait
<1>1. IInv => NothingAskedAfterWait
  BY DEF IInv
<1> QED BY <1>1, AlwaysIInv, PTL
=============================================================================
