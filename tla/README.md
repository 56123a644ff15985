# TLA+ model of the LFX newsletter service

These modules model the service in this repository: a Go HTTP API over one
PostgreSQL table of newsletters (plus opt-outs and opens), which mails
newsletters through an email service reached over NATS. They are checked with
TLC on small instances, and the theorems are proved with TLAPS for every value
of the constants. Paths below are relative to the repository root; `PROJECT.json`
maps every definition to the lines it models.

## 1. The system

| component | state it keeps | operations | interacts with |
|---|---|---|---|
| newsletter lifecycle (`internal/service/newsletter.go`, `send_orchestrator.go`, `internal/repository/postgres.go`, `internal/handler/drafts.go`, `send.go`) | table `newsletters`: status, version, project, content, group_id, total_recipients | create, update, delete, send; get, list | PostgreSQL: each repository call is one statement, there are no transactions around two; calls recipient resolution and the fan-out |
| send fan-out (`SendOrchestrator.fanOut`, `EmailDispatcher.SendEmail`, `Client.Request`) | a buffered channel, a WaitGroup, two counters and a list of failures, per call | one worker per recipient, at most `SEND_CONCURRENCY` at a time | email service over NATS request/reply; the request context |
| recipient resolution (`resolveRecipients`, `CommitteeClient`) | none; reads committees and opt-outs | parallel lookups (errgroup), opt-out filter, deduplication | committee service over NATS, table of opt-outs |
| unsubscribe (`service/unsubscribe.go`, `handler/unsubscribe.go`) | table of opt-outs | signed link, record an opt-out | read by recipient resolution |
| open tracking (`handler/open.go`, `service/newsletter.go`, `repository/postgres.go`, `schema.sql`) | table `newsletter_opens`: one row per recipient and hour | the pixel handler | read by the analytics; rows go with their newsletter |
| analytics (`service/analytics.go`, `handler/analytics.go`) | none | overlay of the email service's numbers over local ones | four reads of the database, two requests to the email service |
| list (`handler/list.go`, `service/newsletter.go`, `repository/postgres.go`) | none; a page token is all that connects two pages | keyset pages over `updated_at` and id | table `newsletters` |
| routing, authentication, error mapping (`handler/http.go`, `middleware.go`, `pkg/errors`) | none | per request | all of the above |
| schema bootstrap (`internal/schema`) | the schema, an advisory lock | apply at start | every replica at its start |
| NATS clients (`internal/infrastructure/nats`) | a connection | request with a timeout (`NATS_TIMEOUT`) | external services |
| rendering (`service/render/email_chrome.go`) | none | passes over the authored HTML; footer; text counterpart | called by send and test send; its envelope is shared by the workers of a fan-out |
| process (`cmd/newsletter-api`), telemetry providers (`observability/otel.go`) | what has been opened so far, per pod | start, serve, drain, close | PostgreSQL, NATS, signals, the HTTP server |
| health probes, logging | none | | |
| agentic pull request pipeline (`.github`) | labels and a commit status of a pull request | review, apply the verdict, gate | GitHub, asynchronously |
| Helm chart, image builds | declarative | | |

What is hard to get right here, and hard to test:

* A request decides on a row it read earlier. Between its read and its write
  any other request may commit, in this process or in another replica. A send
  holds such a snapshot for as long as it takes to mail its audience.
* The three writes are gated differently: an edit on id and the client's
  version, MarkSent on id, version and status, a delete on the id alone. What
  the gates exclude has to follow from all of them together.
* A write that misses is explained to the client by a second statement.
* NATS requests time out, while the email service may still do the work.
* A process may die, or its client may leave, between any two of these steps.
* The fan-out mixes a semaphore, a WaitGroup, a mutex and a context that may be
  cancelled while slots are free.
* Reads that make one answer, or one list, are made one after the other while
  what they read moves: pages of a list, the sources of the analytics.
* A pod may fail or hang at any step of its start, next to others that do the
  same, and is stopped with sends in flight.
* The kind of an error decides the status a client gets, and whether it was
  kept in the chain or folded into a text is decided far from there.
* Rendering is several regular-expression passes, each over what the one before
  it wrote.

What makes each component correct, and where it stands:

* *Lifecycle*: no lost update; one send commits per newsletter; a sent row shows
  what was mailed; a request touches its own project only; refusals are true;
  every request ends. Modelled, checked, safety proved.
* *Fan-out*: bounded pool, exact accounting, nothing left running, it returns.
  Modelled, checked, safety proved.
* *Recipient resolution and unsubscribe*: everyone or nobody is resolved, no
  address twice, nobody who had opted out before; the first cause of a failure
  is the one reported; a resolution ends. Modelled, checked, safety proved.
* *Open tracking*: only a hit of a recipient is recorded, and the insert of one is
  accepted. Modelled, checked; the first is proved, the second does not hold with
  the table `schema.sql` creates (section 3).
* *Analytics*: what an answer says was true at some moment of the request, and
  its parts fit together although they come from different reads, of which any may
  fail and between which the newsletter may go. Modelled, checked, proved.
* *List*: who follows the tokens gets every row that was left alone, none twice,
  and reaches an end. Modelled, checked, proved.
* *Process and schema bootstrap*: one pod applies the schema at a time, none
  waits for ever, none serves without tables; newsletters leave with an opt-out
  link; a stop cuts no send within its grace, and comes to an end. Modelled, checked, safety proved.
* *Routing, authentication, error mapping*: a client may believe its status.
  Whose name a mail may bear. Modelled, checked, proved.
* *Rendering*: each recipient's mail carries its own opt-out link; styles and
  links survive the passes. Modelled, checked, proved.
* *Pipeline, chart, health probes, logging*: not modelled (section 5).

`PROJECT.json` lists every component with its status, and the hazards of the
code, each at the line where it bites, with the properties that cover it.

## 2. The modules

| module | what it is |
|---|---|
| `NewsletterContract` | abstract: a newsletter as an atomic object (create, edit, send, remove) |
| `Delivery` | abstract: what the fan-out of one send promises |
| `NewsletterLifecycle` | the lifecycle as interleaved SQL statements and mail; implements `NewsletterContract`, and contains one `Delivery` per send |
| `MCNewsletterLifecycle` | the symmetry set for TLC |
| `FanOut` | the goroutines of one `fanOut` call; implements `Delivery` |
| `RecipientResolution` | one `resolveRecipients` call: the errgroup of committee lookups, the opt-out query, the merge as one step; unsubscribes, moving rosters and a client that may leave around it |
| `RecipientMerge` | the loop of that merge, turn by turn |
| `MCRecipientMerge` | an instance of spellings and addresses |
| `OpenTracking` | the hits of a newsletter's tracking pixel and the table of opens |
| `NewsletterList` | a client that pages through a project's newsletters while they are written |
| `MCTables` | these two in one run, each on its own |
| `Analytics` | one analytics request, the sources it reads and what happens to them meanwhile |
| `ServiceProcess` | the pods of a deployment, from telemetry to exit, with sends in flight |
| `MCServiceProcess` | the environments of its instance |
| `HttpRequest` | one request on its way to its status |
| `MailContent` | what the rendering passes and the workers make of an authored block |
| `MCRequests` | these two in one run, each on its own |
| `NewsletterLifecycle_proofs`, `FanOut_proofs`, `RecipientResolution_proofs`, `RecipientMerge_proofs`, `ServiceProcess_proofs` | theorems and their proofs |
| `MCTables_proofs`, `MCRequests_proofs`, `Analytics_proofs` | the same for `OpenTracking` with `NewsletterList`, for `HttpRequest` with `MailContent`, and for `Analytics` |

The composition: `NewsletterLifecycle` models a fan-out by the actions of
`Delivery` (checked by `SendsDeliver`), and `FanOut` shows that the goroutines
implement `Delivery` (`ImplementsDelivery`, proved as `DeliveryImplemented`).
So the lifecycle need not contain goroutines, and the fan-out need not contain
rows. In the same way the lifecycle's `ResolveRecipients` takes any audience,
`RecipientResolution` says which audiences a call can produce, and its step
`Merge` is what `AudienceIsExact` proves of the loop in `RecipientMerge`.

The other modules each cut the same operations down to what their question
needs. `HttpRequest` has the statements of a send as single steps, since it asks
what becomes of their errors; `ServiceProcess` has of a send the statement, the
mails and the statement, since it asks what a stop takes from it;
`MailContent` has one block, since it asks what the passes do to its elements.

### NewsletterLifecycle

`row[n]` is the row with id `n`. `pc[r]` is the next step of request `r`, or the
answer it ended with; `op[r]` what its client asked for; `draft[r]` the snapshot
`repo.Get` gave it; `audience`, `pending`, `reported` and `accepted` its mail.

| action | code |
|---|---|
| `CreateDraft` | `NewsletterService.CreateDraft`: one INSERT |
| `SubmitUpdate`, `SubmitDelete`, `SubmitSend` | the handlers, up to the call of the service; `IfMatchHeaders` is `requireIfMatch` |
| `LoadRefused`, `LoadAccepted` | `repo.Get` and the checks on project, status and (for a send) version |
| `UpdateStatement`, `ClassifyUpdateMiss` | `repo.Update`, `classifyMissing` |
| `DeleteStatement` | `repo.Delete` |
| `ResolveRecipients` | `resolveRecipients`, up to the fan-out; any audience |
| `SettleSent`, `SettleFailed`, `EmailServiceAccepts` | the fan-out, as in `Delivery` |
| `GiveUp` | the refusal of a send that reached nobody |
| `MarkSent`, `ClassifyMarkSentMiss` | `repo.MarkSent`, `classifyMarkSentMiss` |
| `Abort` | a crash, a client that left, a dependency that failed: any step before the last statement |

An action is one SQL statement with the Go code up to the next one. Statements
on one row are atomic and ordered (PostgreSQL locks the row and re-evaluates
the WHERE clause), so this is the coarsest grain that keeps every interleaving.
A commit whose answer is lost ends in `"lost"` and is a commit all the same.
Rows of status `"deleted"` are not in the table; their last columns are kept so
that properties can speak of them.

### FanOut

`phase`, `next` and `total` are the calling goroutine; `slots` the tokens in the
channel, `wg` the WaitGroup, `worker[i]` where the goroutine of recipient `i`
is, `wire[i]` what became of its request, `outcome[i]` what `SendEmail`
returned, `sent`, `failed` and `failures` the results, `cancelled` the context.
`Spawn` and `SkipCancelled` are the two branches of the `select`; both are
enabled when a slot is free and the context is done. The steps of a worker are
those another goroutine can observe: publish, return, count (one step, under
the mutex), release the slot, leave the WaitGroup.

### RecipientResolution and RecipientMerge

`stage` is the calling goroutine, `lookup[c]` the goroutine of committee `c`,
`answer[c]` and `listed[c]` the reply committee-service gave it, `outcome[c]`
what `ListMembers` returned, `err` the error of the errgroup and then of the
call, `gone` the context of the request, `optOuts` the rows of
`newsletter_unsubscribes`. `ever`, `always` and `optedBefore` are history: who
was listed at some moment of the call, throughout it, and who had opted out when
it began.

| action | code |
|---|---|
| `Call` | `validateCommitteeUIDs` passed; one goroutine per committee |
| `Publish`, `PublishFails`, `RequestCancelled`, `RequestTimesOut` | `Client.Request` under the group's context |
| `ReplyIsEmpty`, `ReplyIsMalformed`, `ReplyListsMembers` | the rest of `ListMembers` |
| `FirstError` in `LookupFails` | `errgroup`: the first error is kept and cancels the others |
| `Wait`, `ListUnsubscribed`, `ListUnsubscribedFails`, `Merge` | `g.Wait`, `listUnsubscribed`, the loop |
| `Mail` | the fan-out of the send that asked |
| `CreateUnsubscribe`, `ConfirmUnsubscribe` | the insert, then the page of the unsubscribe handler |

A client error is always a service-unavailable error in the code, whatever ended
the request; the model keeps `"cancelled"` and `"unavailable"` apart because
`CauseIsReported` is about the difference. `RecipientMerge` has one action per
path through the loop's body; lowercasing, trimming and the test for an "@" are
the function `normal` from spellings to addresses.

### OpenTracking

`hit[q]` is one request of the pixel, `opens` the table as pairs of a hash and an
hour, `shape` how the table keeps such pairs apart, `exists` whether the
newsletter is still there.

| action | code |
|---|---|
| `OpenPixel`, `PixelLookup` | the handler up to its own lookup, which compares the project if it succeeds |
| `RecordOpenWithHash` | the service: the newsletter once more, the shape of the hash |
| `RecordOpen` | the insert; under the shape `"index"` PostgreSQL refuses it |
| `DeleteNewsletter`, `Tick` | a delete and its cascade; the clock |

### NewsletterList

`table[i]` is a row with its `updated_at`, `walk` a client with its next token,
`returned` what it got; `settled` is history: the rows that matched when it
began and were left alone since. `ListAll` is the statement with its order, its
cursor and the extra row it reads; `TakePage` with `ListNewsletters` or
`NextPage` is a request; `CreateRow`, `EditRow`, `SendRow`, `DeleteRow` are the
writers, each of which stamps the row. Several rows may be written at one
moment, which is what the id in the cursor is for.

### Analytics

`row`, `opens`, `mail` and `events` are the world (a newsletter, its opens, what
the email service knows), `got` the answer so far, `first` the row as the
service read it; `start` is history.

| action | code |
|---|---|
| `GetAnalytics`, `GetRow` | the handler; `AnalyticsService.Get` reads the row |
| `RepoGetRow`, `AggregateOpens`, `AggregateDays` | the three statements of `repo.Analytics` |
| `GetEngagement` | the first request to the email service and `Overlay` |
| `GetStatusByGroupID` | the second, with `toPortRecord` (`RecordOf`), `aggregatePerRecipient` (`RecordUnique`, `RecordChart`) and the rate |
| `DatabaseFails` | an error of any of the reads |
| `MarkSent`, `DeleteNewsletter`, `OpenRecorded`, `MailProgress`, `MailOpened`, `NextDay` | the world |

`DeleteNewsletter` takes a sent row too: the status is checked on a snapshot and
the statement deletes by id alone (`newsletter.go:264`, `postgres.go:171-174`).
So a newsletter may go between two reads of one request. `OpenersAreCharted` says
what an answer is like then: it may count openers in a series that is all zeros.
`OpenRecorded` is an insert that is kept; with the table of `schema.sql` there
are none (`opens_lost`), and every answer is one of those with an empty table.

### ServiceProcess

`pod[p]` is where a pod is in `run`, what it has open (`up`), what it ever had
(`ran`), and how often each telemetry provider was shut down; `owner` who holds
the advisory lock; `req[q]` a send, its pod, and the footer of the mails that went
out: a link to opt out by, or the text that asks for a reply.

| action | code |
|---|---|
| `NewResourceFails`, `StartProvider`, `HandleErr` | `SetupOTelSDKWithConfig` |
| `LoadConfig` | `AppConfigFromEnv`, which refuses an empty base URL (`Missing`) |
| `OpenPool`, `AdvisoryLock`, `LockTimeout`, `ApplyScript`, `ConnectNATS`, `NewAuthValidator` | `InitInfrastructure` with `schema.Apply` |
| `NotifySignals`, `Quit`, `ServerError` | the rest of `run` up to `srv.Shutdown` |
| `Drained`, `GraceExpires` | `srv.Shutdown` returns because nothing is in flight, or because its context is over |
| `CloseNATS`, `CloseSQL`, `ClosePool`, `Flush` | the deferred calls |
| `Killed` | a signal before `signal.Notify`, SIGKILL, a crash |
| `Arrive`, `ReadDone`, `Mail`, `MarkSent`, `MarkDone` | a send; its `Footer` follows `UnsubscribeService.Enabled`, which has trimmed the base URL's slashes |

### HttpRequest

`letter` is the newsletter, `call` the request with its route, what is wrong with
it and the error it met, `did` what it has done. An error is the set of the kinds
in its chain, so `fmt.Errorf("...: %w", err)` keeps the set and folding an
error's text into a new one does not. `Receive`, `WithAuth`, `Parse`, `Load`,
`Statement`, `ResolveRecipients`, `ResolveSenderName`, `TestSend`, `FanOut`,
`MarkSent` and `WriteError` are the stations; `Checked` says what each handler
looks at; `ClassifyError` is `classifyError` with `classifyAuthError`.
`OthersChange` is everybody else, a delete that takes a sent row included. A
signed-in user may have no name: `ResolveSenderName` then goes on without one,
and the mail bears the project's (`did.named` is FALSE).

### MailContent

`body` is an authored block: a paragraph or list item, perhaps a wrapper, perhaps
a link; with or without style attributes, in double or single quotes. Of link
addresses only quoted ones are in the model. `InlineBodyStyles`,
`ConvertStandaloneCtas` and `PreserveLinkDestinations` are the passes as functions
on blocks. `Render` makes the envelope, `Personalise` a worker's copy of it with
its recipient's link, `Hand` the call of the email service.

### A naming convention

An operator named `...Without...` or `...But...` is what the operator after it
must not be: the same gate with a conjunct missing, say. No step uses it. They
document which gate upholds which property: putting one in the place of its
neighbour makes TLC report that property, for the pairs listed as `mutants` in
`PROJECT.json`.

## 3. What TLC checks

| run | bounds | shows |
|---|---|---|
| `lifecycle_safety` | 1 newsletter, 3 requests, 1 recipient, 2 projects, 2 contents, If-Match 0 | `SentMatchesMail`, `OneWriterPerVersion`, `OneSendCommits`, `WritesStayInProject`, `RefusalsAreTrue`; `KeepsContract`: every change of a row is a step of the atomic object |
| `lifecycle_delivery` | 2 requests, 2 recipients, 1 project, 2 contents, If-Match 0 | `SendsDeliver`: every send is a `Delivery`, also a partial one; `EveryRequestEnds` |
| `fanout` | 4 recipients, 2 slots, every wiring | `InFlightIsBounded`, `ResultsAddUp`, `NothingRunsAfterReturn`, `ImplementsDelivery`, `FanOutReturns` |
| `resolution` | 2 committees, 1 address, 2 projects, with and without an unsubscribe service | `NobodyForgotten`, `NobodyUnasked`, `CauseIsReported`, `NothingAskedAfterWait`, `ResolutionEnds` |
| `recipient_merge` | every list of up to 4 members, 4 spellings, 2 addresses, 2 names, any opt-outs | `AudienceIsExact`, `NobodyTwice`, `FirstListingWins` |
| `tables` | 3 hits of 2 recipients in 2 hours on 2 projects; 3 rows, 3 moments, pages of 1, 2 and the default | `TypeOK`; `EveryRowOnce`, `PagesRunOut` |
| `analytics` | 2 recipients, 2 days, 2 openings a mail, 3 wire formats, 2 projects | `TypeOK`, `FiguresWereTrue`, `OpenersAreCharted`, `HalfAnswersAddUp`, `RateIsARate` |
| `process` | 2 pods, 2 sends, 9 environments | `OneScriptAtATime`, `ServesOnlyWhenReady`, `CutOnlyWhenLate`, `ProvidersStopped`, `WaitsEnd` |
| `requests` | 1 request of any of 11 routes, versions up to 2; every block of up to three elements, 2 recipients | `TypeOK`; `StatusIsTrue`, `SenderIsKnown`; `OwnOptOut`, `OneStyle`, `LinksSurvive` |

Why these bounds. A statement names one id and every property speaks of one
newsletter at a time, so requests on different rows share nothing: one
newsletter is enough. Three requests give every pair of writers a third one
that moves the row between them, or that explains a miss. Two recipients
separate "all", "some" and "none" reached. Four recipients on two slots let the
loop block, be released and be cancelled with slots free and slots taken. Two
committees are enough for one lookup to fail while another runs and for an
address to move from one to the other; a resolution treats each address on its
own, so one is enough there, and `RecipientMerge` has the two that can be
confused. Three hits are two of one recipient in one hour or in two, and one of
somebody else. Three rows on pages of one give a first, a middle and a last
page, at three moments a row may be behind the cursor, on its moment or ahead
of it. A second day separates the days of a chart, a second opening an opener
from an opening. Two pods are one that holds the lock and one that waits for it;
a restarted pod is a new one, and nothing of a pod that has ended is left for a
third. A block of three elements has each place that the passes tell apart
(outer, wrapper, link). What is said of one newsletter, one request or one block
speaks of each of several, which share nothing that is not in the model. Where a
safety property is proved as well (section 4) it holds for all sizes. Versions
need no bound: requests are finitely many and each commits once. Deadlock is not checked: once every request has been answered, or
fanOut has returned, an answer has been given, or every pod is gone, the model
rightly stops.

Symmetry is used in the safety runs of the lifecycle only. There, clients name
versions they were shown or 0, which switches a send's version check off; that
the version gates exclude lost updates and second commits of a send whatever
clients name is proved (`NoLostUpdate`, `SentOnce`).

Fairness. `FairSpec` of the lifecycle gives each request weak fairness of its
own next step: a goroutine keeps running, a statement returns or fails, and a
NATS request ends at its timeout (`Client.Request` puts the client's
timeout on every request). `FairSpec` of `FanOut` gives it to the
caller and to each worker, `FairSpec` of `RecipientResolution` to the caller and
to each lookup. `FairSpec` of `ServiceProcess` gives it to the timeout of the lock
(`SET LOCAL statement_timeout`), to each pod's steps from `srv.Shutdown` to its exit (the main
goroutine and its deadlines) and to the end of a statement on a pooled
connection; a pod that starts may hang for ever, also while it holds the lock,
and the mails of a send may take longer than anybody waits. Nothing is assumed
of clients, of committee-service or of the email service (they may never
answer), or of crashes.

### Disagreements between the code and its documentation

Each of these runs checks one property that states what a document or comment
says, and TLC finds a behaviour of the code that does not satisfy it.

| run | the code | the text |
|---|---|---|
| `sent_deleted` | a delete that read a draft deletes the row after a send committed | docs: "Sent newsletters cannot be updated, deleted, or sent again." |
| `failed_but_mailed` | a send whose requests all timed out fails, though the mail may have gone out | comment: "without emails ever having gone out" |
| `opens_lost` | the insert of an open names a unique index as a constraint, which PostgreSQL refuses: no open is ever recorded (`repository/postgres.go:230`, `schema.sql:123`) | comment: repeat hits "collapse to a no-op", "without losing unique-open counts" |

The first is why `NewsletterContract` has the parameter `SentRowsDeletable`:
the code implements the contract with it TRUE, and not with it FALSE. The last is
why `OpenTracking` has the parameter `Shapes`: `"index"` is what `schema.sql`
creates, `"constraint"` what the statement takes for granted. That the hourly
bound loses no opener is a question only under the second, where the insert is a
set union; no property is made of it.

Others were met on the way, and are stated here without a run of their own:

* A base URL of nothing but slashes passes the start (`config.go:126` asks whether
  it is empty) and counts as missing for a send (`unsubscribe.go:49`, 57-59 trim
  it first): newsletters then ask for a reply with UNSUBSCRIBE where fan-out was
  to require a link (`docs/service-helm-chart.md:39`). `ServesOnlyWhenReady`
  excepts exactly this.
* A user whose name is blank mails under the project's name
  (`send_orchestrator.go:543-546`, asserted at `send_orchestrator_test.go:462`),
  though the comment at 518-523 lists a missing display name among the reasons to
  refuse; `SenderIsKnown` says that nobody *else's* name is on the mail.
* Mail goes out at least once and not at most once. A send that died, or whose
  client left, between its mails and MarkSent leaves a draft, and a retry mails
  everybody again under a new group id (`send_orchestrator.go:207`). Nothing in
  the code prevents it, so no property claims it; the hazard is listed.
* A delete between the two aggregates of `repo.Analytics` gives an answer with
  openers and a daily series of zeros (`postgres.go:252`, 264);
  `OpenersAreCharted` says that nothing else does. When the second request to the
  email service fails, the openers are the table's and the mails they are divided
  by the service's (`analytics.go:77-95`), so the rate of such an answer may exceed
  one; `HalfAnswersAddUp` says what still holds of it, `RateIsARate` leaves it out.
* A send that passed its checks goes on mailing after another one committed; only
  its MarkSent is refused (`send_orchestrator.go:189`;
  `docs/newsletter-service-contract.md:79`).
* A send reads the opt-outs once, before it mails, so somebody whose opt-out was
  confirmed meanwhile is mailed (`send_orchestrator.go:362`; the page at
  `handler/unsubscribe.go:60`).
* A reply of no bytes fails a resolution as not found (`committee_client.go:50`),
  where the comment above (39-40) says that it is an empty slice.
* A link in a paragraph wrapped in `<strong>` or `<b>` never becomes a button:
  `standaloneCtaRe` wants wrappers without attributes, and `inlineBodyStyles` has
  just given these one (`email_chrome.go:159`, against the comment at 162-165).
* The text part ends an address at the first quote of either kind, so one with an
  apostrophe is cut (`email_chrome.go:178`, against 180-183); `LinksSurvive`
  excepts it. A link styled in single quotes leaves with two style attributes
  when it becomes a button (`email_chrome.go:160`); `OneStyle` excepts it.
* Analytics of a newsletter the email service has no figures for report every
  recipient as delivered (`postgres.go:287`), which `analytics.go:41-43` does not
  say. Unique opens come from the records of the second request
  (`analytics.go:89-104`) and not from the summary, as
  `email_dispatcher.go:155-156` has it. When the second request counts more than
  the first, `TotalOpens` is below the sum of its own chart.
* `IsReady` is "Used by the /readyz handler" (`client.go:75-77`), which asks the
  database alone (`health.go`).
* A listener that fails ends the process with status 0 (`main.go:101-112`); a
  failure in the middle of `InitInfrastructure` leaves what was opened to the end
  of the process, since `Shutdown` is deferred after it (`main.go:76-79`); a
  signal before `signal.Notify` (`main.go:96`) ends it without any deferred call.

## 4. What is proved

Assumptions are those the modules declare: `ConstantsAssumption` (recipients are
finitely many, guessed versions are integers, `None` is not a request),
`FanOutAssumption` (a natural number of recipients, at least one slot),
`ResolutionAssumption` (a wiring is a Boolean), `MergeAssumption` (every
spelling becomes an address or none), `ServiceProcessAssumption` (there is a
pod, and a deployment is a well-formed environment), `OpenTrackingAssumption`
and `NewsletterListAssumption` (the newsletter's own path is one of the paths;
there are an hour and a moment; ids are finitely many natural numbers, limits
are integers, and the default page is no larger than the largest),
`HttpRequestAssumption` (there is a version, and authentication is on or off)
and `AnalyticsAssumption` (recipients are finitely many, the newsletter's
project is one, there is a day, and the wire formats are the three). Some theorems carry
`HonestClients` as a hypothesis: clients name versions they were shown, or 0. Without it they do not hold: an edit that read a draft and names the
*next* version changes the row a concurrent send has just produced, because
`repo.Update` is gated on the version and not on the status.

`NewsletterLifecycle_proofs`:

| theorem | states |
|---|---|
| `TypeCorrect` | `Spec => []TypeOK` |
| `NoLostUpdate` | `Spec => []OneWriterPerVersion` |
| `SentOnce` | `Spec => []OneSendCommits` |
| `ProjectIsolation` | `Spec => []WritesStayInProject` |
| `SentRowsAreHonest` | `HonestClients /\ Spec => []SentMatchesMail` |
| `RefusalsTellTheTruth` | `HonestClients /\ Spec => []RefusalsAreTrue` |
| `ContractKept` | `HonestClients /\ Spec => KeepsContract` (refinement) |
| `EverySendDelivers` | `FanoutEnabled /\ Spec => SendsDeliver` (refinement) |

None of these is inductive alone. All of them stand on `Core`: types; requests
are for newsletters that exist or existed (`RealRequests`); a request is only at
steps of its kind (`KnownSteps`); and what a snapshot is worth later
(`Snapshots`): its version is at most the row's, its project is the row's, and
if the versions are equal then so is the content and the row is not sent. The
last part is the heart of the argument: an unchanged version means an unchanged
draft, which is what MarkSent's gate relies on. On top of it,

* `NamedVersions`: an honest client's version is at most the one its request
  read, so an edit that hits has hit a draft (`HonestEditsHitDrafts`);
* `Writers`: a committed write stands on a version below the row's, so no later
  write can stand on it (`NoLostUpdate`);
* `SendsAreFinal`: a row whose send committed is sent or deleted for good, so
  no second MarkSent can hit (`SentOnce`);
* `ReportedAreAccepted`: whoever is counted as sent was accepted, so a send that
  was not refused mailed somebody;
* `SentHaveGroup` and `MissesAreReal`: a statement that missed had a reason that
  lasts until the second statement explains it.

`FanOut_proofs`, from the invariant `Inv` (types; the loop has handled exactly the
recipients before `next`; `slots`, `wg`, `sent` and `failed` are the
cardinalities of the sets they count; a worker that was told yes has a message
that was accepted):

| theorem | states |
|---|---|
| `FanOutTypeCorrect` | `Spec => []TypeOK` |
| `PoolBounded` | `Spec => []InFlightIsBounded` |
| `NoStragglers` | `Spec => []NothingRunsAfterReturn` |
| `ResultsCount` | `Spec => []ResultsAddUp` |
| `DeliveryImplemented` | `Spec => ImplementsDelivery` (refinement; `ImplementsDelivery` speaks of the calls that have a dispatcher wired) |

`RecipientResolution_proofs`, from the invariant `IInv`: while a call runs, its
history brackets the rosters (`HistoryBrackets`), so a reply lists whoever was a
member throughout and nobody who never was (`RepliesAreTimely`); as long as the
group has no error, every lookup that ended has such a reply
(`NoErrorMeansReplies`); the opt-outs read are recorded ones and contain those
from before the call (`OptOutsAreTimely`), as opt-outs are only added:

| theorem | states |
|---|---|
| `ResolutionTypeCorrect` | `Spec => []TypeOK` |
| `AudienceIsComplete` | `Spec => []NobodyForgotten` |
| `AudienceIsSolicited` | `Spec => []NobodyUnasked` |
| `FirstCauseReported` | `Spec => []CauseIsReported` |
| `NoLookupLeft` | `Spec => []NothingAskedAfterWait` |

`RecipientMerge_proofs`, from the loop invariant `IInv`: `seen` is what the
members passed so far normalise to, the audience so far is `seen` without the
opted-out addresses, and each of its entries is the first member listed under
its address. The two of them need each other: an entry is new because `seen`
holds every address before it.

| theorem | states |
|---|---|
| `MergeTypeCorrect` | `Spec => []TypeOK` |
| `AudienceCorrect` | `Spec => []AudienceIsExact` |
| `MailedOnce` | `Spec => []NobodyTwice` |
| `GreetedByFirstListing` | `Spec => []FirstListingWins` |

`ServiceProcess_proofs`, from the invariant `Inv`: the pods that run the script
are those that hold the lock (`LockInv`); where a pod is in `run` says what it
has open and that configuration and tables are there (`ReadyInv`); a send in
flight is on a pod that serves, or on one whose grace is over, and its mails have
the footer its deployment's base URL gives them (`RequestInv`);
until a process ends, the providers that ran in it run and none was shut down
(`ProviderInv`). `CutOnlyWhenLate` is not inductive alone: that a missing
connection means a late pod is `ReadyInv` and `RequestInv` together.

| theorem | states |
|---|---|
| `TypeCorrect` | `Spec => []TypeOK` |
| `ScriptsTakeTurns` | `Spec => []OneScriptAtATime` |
| `PodsServeReady` | `Spec => []ServesOnlyWhenReady` |
| `GraceIsGiven` | `Spec => []CutOnlyWhenLate` |
| `TelemetryIsStopped` | `Spec => []ProvidersStopped` |

`MCTables_proofs`, from one invariant for each of the two modules that run side
by side. `OpensInv`: only a hit with a hash gets to the insert (`HashInv`), which
is what keeps the table well typed. `ListInv`: nothing is
stamped later than now (`TimesInv`); while a client holds a token, what it got
does not come before the cursor and what it is owed is either among that or
still after it (`WalkInv`). A writer stamps a row with the present moment, which is
not after the cursor unless the cursor stands on that very moment, so it can
take a row away from the client but not give it one twice. That a page is the
beginning of what is left needs the order of its rows: `Ordered` is *a* sorted
sequence of a finite set, and `RowsCanBeSorted` that there is one.

| theorem | states |
|---|---|
| `RowsAreListedOnce` | `ListSpec => []EveryRowOnce` |
| `TokensEnd` | `ListSpec => PagesRunOut` (an action property) |
| `TypeCorrect`, `TablesAreRight` | the types, and all of these of both side by side |

`MCRequests_proofs`, from `RequestInv` and `MailInv`. `RequestInv` says which
operations get to which station and that nothing is written before the end
(`PlaceInv`); that a name is that of the user who signed in (`NameInv`); that a send that has read the
newsletter finds it unchanged or was overtaken (`RaceInv`); and which kinds an
error may have after a write, after a name that was not found and after mail
(`ErrorInv`), which is what `ClassifyError` makes the status of. `MailInv` says
that the envelope stays what was rendered and every copy is the envelope with
its own reader's link in it: a worker that wrote into what others share would
break it.

| theorem | states |
|---|---|
| `StatusesAreTrue` | `RequestSpec => []StatusIsTrue` |
| `SendersAreKnown` | `RequestSpec => []SenderIsKnown` |
| `OptOutsAreOwn` | `MailSpec => []OwnOptOut` |
| `ElementsHaveOneStyle` | `MailSpec => []OneStyle` |
| `LinksAreKept` | `MailSpec => []LinksSurvive` |
| `TypeCorrect` | `Spec => []TypeOK`, of both side by side |

`Analytics_proofs`, from `AnalyticsInv`: a sent newsletter counts its audience,
only delivered mails have been opened, and no open outlives its newsletter
(`WorldInv`); the email service's figures are no lower than when the request began
(`FiguresGrow`); a newsletter read as sent never becomes a draft, and the mails an
answer counts are the audience or no fewer than were accepted at its beginning
(`ReadInv`); between the two aggregates the openers counted are still in the
table, or the newsletter is gone (`ChartInv`); and the two halves of an answer fit
each other at each step of putting it together (`HalfInv`). `RateIsARate` needs the last
two of `FiguresGrow` and `ReadInv` together: a rate divides the openers of one
call by the mails of another, earlier one.

| theorem | states |
|---|---|
| `TypeCorrect` | `Spec => []TypeOK` |
| `FiguresAreTrue` | `Spec => []FiguresWereTrue` |
| `ChartsAreComplete` | `Spec => []OpenersAreCharted` |
| `HalvesAddUp` | `Spec => []HalfAnswersAddUp` |
| `RatesAreRates` | `Spec => []RateIsARate` |

What these proofs need of finite data they get without the library's induction
theorems, which take an operator as a parameter and cannot be used here: a set of
subsets of a finite set has a smallest member (`SmallestSubset`, from
well-foundedness), so whatever one removal refutes holds of every finite set.
On that stand the sorted sequences of `MCTables_proofs`, the sums of
`Analytics_proofs` (`SumsExist` and `SumsAgree`: the library's fold is the one
function that satisfies its recursion; `SumOfSome`, `SummandIsBounded`,
`PositiveSum`), and `CoverIsBounded`: sets that are bounded one by one cover no
more than the sum of the bounds, which is why a daily series has an opening for
every opener.

Every invariant and every safety action property of a passing run is a theorem.
Type correctness is one for every module; where it is the only statement of what
an answer may contain, a run checks it as well.

Only model-checked: the liveness properties (`EveryRequestEnds`,
`FanOutReturns`, `ResolutionEnds`, `WaitsEnd`), which need fairness and ENABLED,
beyond this prover's reach. That the step `Merge` is the loop is by reading
`AudienceIsExact` beside `Merged`, not by a refinement theorem.

## 5. What is not modelled

* What a field may contain: `HttpRequest` has requests with and without each fault
  a handler or service looks for, not the texts that have it.
* In rendering: fonts, colours, headings, white space, escaping, and links whose
  address is not in quotes. In analytics:
  `LastEventAt`. In lists: the columns.
* A preview may name a committee twice, which asks twice; drafts cannot, and
  `RecipientResolution` does not.
* The token of an unsubscribe link: a pure check, after which the opt-out of a
  recipient is recorded.
* The project's name in a mail: one NATS request whose failure is replaced by a
  label (`ProjectClient`). `GetStatusByEmailID` and `Slug` are called by nothing.
* Reconnection inside the NATS library, the pool inside pgx, the HTTP server
  inside net/http: external; the modules have what the code sees of them.
* Health probes, request ids, logging: nothing of the service depends on them.
* The agentic pull request pipeline (`.github`): workflows and shell around
  GitHub's API. What can happen between two of its reads, and what is run again
  afterwards, is decided by GitHub; a model would be made of assumptions about
  GitHub. Its hazard is listed without a property.
* Helm chart and image builds: declarative.
* In the lifecycle a process is not an entity: a crash is `Abort` of the requests
  it was handling, since nothing else of a process outlives a request. The
  process itself is `ServiceProcess`.

## 6. Plan

Done: every module of section 2, its runs and the proofs of its safety
properties. Left:

1. `Merged` of `RecipientResolution` from the loop of `RecipientMerge`, as a theorem.
2. Step properties beside the invariants where a step says more than a state, and
   their proofs: a pod's start and stop, a hit that is refused.

No module that has theorems, or is used by one, declares a RECURSIVE operator;
sequences are folded with the community modules instead.
