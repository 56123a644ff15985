----------------------------- MODULE Analytics ------------------------------
(***************************************************************************)
(* The analytics of one newsletter, put together from up to seven reads.   *)
(*                                                                         *)
(* AnalyticsService.Get reads the row; repo.Analytics reads it again and   *)
(* aggregates newsletter_opens by two statements, in no transaction; for a *)
(* sent newsletter the email service is asked twice, once for totals and   *)
(* once for a record per mail, and what it says is laid over the rest.     *)
(* Meanwhile mails are accepted, delivered and opened, and the newsletter  *)
(* may be sent or deleted.                                                 *)
(*                                                                         *)
(*   internal/service/analytics.go            Get, aggregatePerRecipient   *)
(*   internal/handler/analytics.go            GetAnalytics                 *)
(*   internal/repository/postgres.go          Analytics                    *)
(*   internal/infrastructure/nats/email_dispatcher.go  the two calls       *)
(*                                                                         *)
(* Left out: LastEventAt, and what the answer copies from the row.         *)
(***************************************************************************)
EXTENDS Integers, FiniteSets, FiniteSetsExt

CONSTANTS
  Recipients,     \* the audience of the newsletter
  Projects,       \* project_uid values; the newsletter is Home's
  Home,
  Days,           \* the clock runs from day 1 to Days
  MaxEvents,      \* openings the email service may see of one mail
  Wires           \* the shapes of a status record: "list", "flat" or "last"

ASSUME AnalyticsAssumption ==
  /\ IsFiniteSet(Recipients)
  /\ Home \in Projects
  /\ Days \in Nat \ {0} /\ MaxEvents \in Nat
  /\ Wires \subseteq {"list", "flat", "last"}

VARIABLES
  row,        \* status and total_recipients of the newsletter
  today,      \* the current day
  opens,      \* newsletter_opens: pairs of a hash and a day
  mail,       \* mail[r]: what became of the mail to r
  events,     \* events[r][d]: openings of it the email service saw on day d
  pc,         \* the request: its next step, or how it ended
  first,      \* the row as its service read it
  got,        \* the answer, as far as it is worked out
  start       \* what the email service knew when it began

worldVars == <<row, today, opens, mail, events>>
readVars == <<pc, first, got, start>>
vars == <<worldVars, readVars>>

Clock == 1 .. Days
Sum(f, S) == MapThenSumSet(LAMBDA x : f[x], S)

(***************************************************************************)
(* What the email service knows of the group.                              *)
(***************************************************************************)
Accepted == {r \in Recipients : mail[r] # "none"}
InState(s) == {r \in Recipients : mail[r] = s}
OpenedBy(r) == Sum(events[r], Clock)
Figures == [sent      |-> Cardinality(Accepted),
            delivered |-> Cardinality(InState("delivered")),
            failed    |-> Cardinality(InState("failed")),
            opened    |-> Sum([r \in Recipients |-> OpenedBy(r)], Recipients),
            unique    |-> Cardinality({r \in Recipients : OpenedBy(r) > 0})]
NoFigures == [sent |-> 0, delivered |-> 0, failed |-> 0, opened |-> 0, unique |-> 0]

EmptyChart == [d \in Clock |-> 0]
NoAnswer == [source |-> "none", total |-> 0, delivered |-> 0, failed |-> 0,
             opens |-> 0, unique |-> 0, chart |-> EmptyChart, rate |-> <<0, 0>>]

Exists == row.status # "deleted"

Init ==
  /\ row = [status |-> "draft", total |-> 0]
  /\ today = 1
  /\ opens = {}
  /\ mail = [r \in Recipients |-> "none"]
  /\ events = [r \in Recipients |-> EmptyChart]
  /\ pc = "idle"
  /\ first = row
  /\ got = NoAnswer
  /\ start = NoFigures

-----------------------------------------------------------------------------
(***************************************************************************)
(* The world.  The row may be marked sent with no mail accepted (nobody to *)
(* write to, fan-out switched off), and a mail whose request timed out may *)
(* be accepted after it.                                                   *)
(***************************************************************************)
NextDay ==
  /\ today < Days
  /\ today' = today + 1
  /\ UNCHANGED <<row, opens, mail, events, readVars>>

MarkSent ==
  /\ row.status = "draft"
  /\ row' = [status |-> "sent", total |-> Cardinality(Recipients)]
  /\ UNCHANGED <<today, opens, mail, events, readVars>>

(***************************************************************************)
(* The service deletes a newsletter it read as a draft, by its id alone:   *)
(* every row was a draft once, and by now it may be sent.                  *)
(***************************************************************************)
DeleteNewsletter ==
  /\ Exists
  /\ row' = [row EXCEPT !.status = "deleted"]
  /\ opens' = {}
  /\ UNCHANGED <<today, mail, events, readVars>>

OpenRecorded(r) ==
  /\ Exists
  /\ opens' = opens \cup {<<r, today>>}
  /\ UNCHANGED <<row, today, mail, events, readVars>>

MailProgress(r, s) ==
  /\ \/ mail[r] = "none" /\ s = "accepted"
     \/ mail[r] = "accepted" /\ s \in {"delivered", "failed"}
  /\ mail' = [mail EXCEPT ![r] = s]
  /\ UNCHANGED <<row, today, opens, events, readVars>>

MailOpened(r) ==
  /\ mail[r] = "delivered"
  /\ OpenedBy(r) < MaxEvents
  /\ events' = [events EXCEPT ![r][today] = @ + 1]
  /\ UNCHANGED <<row, today, opens, mail, readVars>>

-----------------------------------------------------------------------------
(***************************************************************************)
(* The request.                                                            *)
(***************************************************************************)
Step(l) == pc' = l

GetAnalytics ==
  /\ pc = "idle"
  /\ start' = Figures
  /\ Step("get")
  /\ UNCHANGED <<worldVars, first, got>>

GetRow(p) ==
  /\ pc = "get"
  /\ first' = row
  /\ Step(IF Exists /\ p = Home THEN "row" ELSE "not_found")
  /\ UNCHANGED <<worldVars, got, start>>

RepoGetRow ==
  /\ pc = "row"
  /\ got' = [got EXCEPT !.source = "local", !.total = row.total,
                        !.delivered = row.total]
  /\ Step(IF Exists THEN "aggregate" ELSE "not_found")
  /\ UNCHANGED <<worldVars, first, start>>

Openers == {o[1] : o \in opens}
RatioButUnguarded(u, n) == <<u, n>>
Ratio(u, n) == IF n > 0 THEN <<u, n>> ELSE <<0, 0>>

AggregateOpens ==
  /\ pc = "aggregate"
  /\ got' = [got EXCEPT !.opens = Cardinality(opens),
                        !.unique = Cardinality(Openers),
                        !.rate = Ratio(Cardinality(Openers), got.total)]
  /\ Step("daily")
  /\ UNCHANGED <<worldVars, first, start>>

AggregateDays ==
  /\ pc = "daily"
  /\ got' = [got EXCEPT !.chart =
               [d \in Clock |-> Cardinality({o \in opens : o[2] = d})]]
  /\ Step(IF first.status = "sent" THEN "engagement" ELSE "answered")
  /\ UNCHANGED <<worldVars, first, start>>

DatabaseFails ==
  /\ pc \in {"get", "row", "aggregate", "daily"}
  /\ Step("failed")
  /\ UNCHANGED <<worldVars, first, got, start>>

(***************************************************************************)
(* GetEngagement.  An empty reply means "no data yet": zeros.              *)
(***************************************************************************)
OverlayButReplaces(f) ==
  [got EXCEPT !.source = "engagement", !.failed = f.failed,
     !.total = IF f.sent > 0 THEN f.sent ELSE @,
     !.delivered = IF f.sent > 0 THEN f.delivered ELSE @,
     !.opens = f.opened]
Overlay(f) ==
  [got EXCEPT !.source = "engagement", !.failed = f.failed,
     !.total = IF f.sent > 0 THEN f.sent ELSE @,
     !.delivered = IF f.sent > 0 THEN f.delivered ELSE @,
     !.opens = IF f.opened > @ THEN f.opened ELSE @]

GetEngagement ==
  /\ pc = "engagement"
  /\ \/ Step("answered") /\ UNCHANGED got                       \* it failed
     \/ /\ \E f \in {Figures, NoFigures} : got' = Overlay(f)
        /\ Step("status")
  /\ UNCHANGED <<worldVars, first, start>>

(***************************************************************************)
(* GetStatusByGroupID.  toPortRecord makes one list of openings of what a  *)
(* record carries: the list itself, one opening (an older service), or no  *)
(* more than the time of the last one.                                     *)
(***************************************************************************)
Only(d) == [x \in Clock |-> IF x = d THEN 1 ELSE 0]
OpenDays(r) == {d \in Clock : events[r][d] > 0}

RecordOf(r, wire) ==
  IF wire = "list" \/ OpenDays(r) = {} THEN {events[r]}
  ELSE IF wire = "flat" THEN {Only(d) : d \in OpenDays(r)}
  ELSE {Only(Max(OpenDays(r)))}

Records(wire) ==
  {rec \in [Accepted -> UNION {RecordOf(r, wire) : r \in Accepted}] :
     \A r \in Accepted : rec[r] \in RecordOf(r, wire)}

(***************************************************************************)
(* aggregatePerRecipient, and the rate.                                    *)
(***************************************************************************)
RecordUniqueButEvents(rec) ==
  Sum([r \in DOMAIN rec |-> Sum(rec[r], Clock)], DOMAIN rec)
RecordUnique(rec) ==
  Cardinality({r \in DOMAIN rec : \E d \in Clock : rec[r][d] > 0})

RecordChartButLocal(rec) == got.chart
RecordChart(rec) ==
  [d \in Clock |-> Sum([r \in DOMAIN rec |-> rec[r][d]], DOMAIN rec)]

Denominator(g) == IF g.total > 0 THEN g.total ELSE first.total
RatedButDelivered(g) == [g EXCEPT !.rate = <<g.unique, g.delivered>>]
Rated(g) ==
  IF Denominator(g) > 0 THEN [g EXCEPT !.rate = Ratio(g.unique, Denominator(g))]
  ELSE g

GetStatusByGroupID ==
  /\ pc = "status"
  /\ \/ got' = Rated(got)                     \* it failed, or has no records yet
     \/ /\ Accepted # {}
        /\ \E w \in Wires : \E rec \in Records(w) :
             got' = Rated([got EXCEPT !.source = "records",
                                      !.unique = RecordUnique(rec),
                                      !.chart = RecordChart(rec)])
  /\ Step("answered")
  /\ UNCHANGED <<worldVars, first, start>>

-----------------------------------------------------------------------------
(***************************************************************************)
(* The world is followed until the request has ended.                      *)
(***************************************************************************)
Ended == pc \in {"answered", "not_found", "failed"}

World ==
  /\ ~ Ended
  /\ \/ NextDay \/ MarkSent \/ DeleteNewsletter
     \/ \E r \in Recipients :
          \/ OpenRecorded(r)
          \/ \E s \in {"accepted", "delivered", "failed"} : MailProgress(r, s)
          \/ MailOpened(r)

Request ==
  \/ GetAnalytics
  \/ \E p \in Projects : GetRow(p)
  \/ RepoGetRow \/ AggregateOpens \/ AggregateDays \/ DatabaseFails
  \/ GetEngagement \/ GetStatusByGroupID

Next == World \/ Request

Spec == Init /\ [][Next]_vars

-----------------------------------------------------------------------------
Rows == [status : {"draft", "sent", "deleted"}, total : Nat]
Answers == [source : {"none", "local", "engagement", "records"},
            total : Nat, delivered : Nat, failed : Nat, opens : Nat, unique : Nat,
            chart : [Clock -> Nat], rate : {<<0, 0>>} \cup (Nat \X (Nat \ {0}))]

TypeOK ==
  /\ row \in Rows /\ first \in Rows
  /\ today \in Clock
  /\ opens \subseteq Recipients \X Clock
  /\ mail \in [Recipients -> {"none", "accepted", "delivered", "failed"}]
  /\ events \in [Recipients -> [Clock -> 0 .. MaxEvents]]
  /\ pc \in {"idle", "get", "row", "aggregate", "daily", "engagement", "status",
             "answered", "not_found", "failed"}
  /\ got \in Answers
  /\ start \in [sent : Nat, delivered : Nat, failed : Nat, opened : Nat, unique : Nat]

(***************************************************************************)
(* What an answer says of failures and of distinct openers was true at     *)
(* some time between the request and its answer, or there was no data yet, *)
(* whatever changed between the two calls to the email service.            *)
(***************************************************************************)
FiguresWereTrue ==
  pc = "answered" =>
    /\ got.source \in {"engagement", "records"} =>
         got.failed \in {0} \cup (start.failed .. Figures.failed)
    /\ got.source = "records" =>
         got.unique \in start.unique .. Figures.unique

(***************************************************************************)
(* Every opener an answer counts has an opening in the daily series of the *)
(* same answer, also when opens are recorded between the two aggregates,   *)
(* and for each shape of record the email service sends.  One thing breaks *)
(* it: a delete of the newsletter, whose opens go with it.  Such an answer *)
(* may count openers in a series that is all zeros, unless the records of  *)
(* the email service replaced both.                                        *)
(***************************************************************************)
Uncharted == got.unique > Sum(got.chart, Clock)

OpenersAreCharted ==
  pc = "answered" /\ Uncharted =>
    ~ Exists /\ got.source # "records" /\ got.chart = EmptyChart

(***************************************************************************)
(* An answer that has to do without the records, because the newsletter is *)
(* a draft or either call to the email service failed, adds up though its  *)
(* figures come from the row, from the table and from the totals: no more  *)
(* openers than openings, and no more deliveries and failures than mails.  *)
(***************************************************************************)
HalfAnswersAddUp ==
  pc = "answered" /\ got.source # "records" =>
    /\ got.unique <= got.opens
    /\ got.delivered + got.failed <= got.total

(***************************************************************************)
(* With the records, the openers come from one call and the mails they are *)
(* divided by from another: an open rate above 1 means that the email      *)
(* service accepted a mail while the request ran.  Nothing is said of an   *)
(* answer without the records: its openers are those of the table, and the *)
(* mails the email service counts may be fewer.                            *)
(***************************************************************************)
RateIsARate ==
  pc = "answered" /\ got.source = "records" /\ got.rate[1] > got.rate[2] =>
    Figures.sent > start.sent
=============================================================================
