--------------------------- MODULE ServiceProcess ---------------------------
(***************************************************************************)
(* The life of the pods of one deployment: telemetry, configuration, pool, *)
(* schema, NATS and authentication are brought up one after the other; a   *)
(* signal or a failing listener brings them down in the reverse order,     *)
(* once the requests in flight have ended or their grace is over.          *)
(*                                                                         *)
(*   cmd/newsletter-api/main.go                      run                   *)
(*   cmd/newsletter-api/service/config.go            AppConfigFromEnv      *)
(*   cmd/newsletter-api/service/implementations.go   InitInfrastructure,   *)
(*                                                   Shutdown              *)
(*   internal/infrastructure/observability/otel.go                         *)
(*   internal/schema/schema.go                       Apply                 *)
(*   internal/infrastructure/nats/client.go                                *)
(*   internal/service/unsubscribe.go                 Enabled               *)
(*                                                                         *)
(* The requests are sends, cut down to what holds a resource or needs the  *)
(* configuration: a statement, the mails and how their readers opt out,    *)
(* the statement that marks the row.                                       *)
(***************************************************************************)
EXTENDS Naturals, FiniteSets

CONSTANTS
  Pods,           \* pods of a rollout; a restarted pod is a new one
  Requests,       \* sends
  Environments    \* what the deployment may set, see EnvironmentType

Exporters == {"traces", "metrics", "logs"}
Before(k) == CASE k = "traces"  -> {}
               [] k = "metrics" -> {"traces"}
               [] k = "logs"    -> {"traces", "metrics"}

\* The base of the opt-out links, blanks trimmed: "slashes" is one that is
\* not empty and has nothing left once its trailing slashes are trimmed.
EnvironmentType ==
  [exporters : [Exporters -> {"", "none", "otlp"}],
   database : {"url", "parts", ""}, authRequired : BOOLEAN, jwks : BOOLEAN,
   audience : BOOLEAN, local : BOOLEAN,
   fanout : BOOLEAN, secret : BOOLEAN, base : {"url", "slashes", ""}]

ASSUME ServiceProcessAssumption ==
  /\ Pods # {}
  /\ Environments \subseteq EnvironmentType
  /\ Environments # {}

VARIABLES
  env,        \* the environment variables of the deployment
  pod,        \* pod[p]: where it is, what it runs, what it ran, how it stopped
  owner,      \* pods whose transaction holds the advisory lock
  tables,     \* the schema is committed
  req         \* req[q]: a send, its pod, and the footer of the mails that went out

vars == <<env, pod, owner, tables, req>>

Init ==
  /\ env \in Environments
  /\ pod = [p \in Pods |-> [pc |-> "telemetry", up |-> {}, ran |-> {},
                            stops |-> [k \in Exporters |-> 0], late |-> FALSE]]
  /\ owner = {}
  /\ tables = FALSE
  /\ req = [q \in Requests |-> [pc |-> "none", pod |-> CHOOSE p \in Pods : TRUE,
                                footer |-> "none"]]

-----------------------------------------------------------------------------
At(p, l) == pod[p].pc = l
Up(p, r) == r \in pod[p].up
Go(p, l) == pod' = [pod EXCEPT ![p].pc = l]
GoUp(p, R, l) == pod' = [pod EXCEPT ![p].pc = l, ![p].up = @ \cup R,
                                    ![p].ran = @ \cup R]
GoDown(p, r, l) == pod' = [pod EXCEPT ![p].pc = l, ![p].up = @ \ {r}]

Statement == {"reading", "marking"}         \* a connection of the pool is held
InFlight == Statement \cup {"mailing", "mailed"}
Held(p, S) == {q \in Requests : req[q].pod = p /\ req[q].pc \in S}

(***************************************************************************)
(* The end of the process takes with it what is still in flight.           *)
(***************************************************************************)
Lose(p) == req' = [q \in Requests |-> IF q \in Held(p, InFlight)
                                      THEN [req[q] EXCEPT !.pc = "lost"] ELSE req[q]]

-----------------------------------------------------------------------------
(***************************************************************************)
(* SetupOTelSDKWithConfig: the wanted providers in turn.  When one cannot  *)
(* be built those before it are shut down and run returns, before its      *)
(* deferred calls are set up.                                              *)
(***************************************************************************)
WantedExporters == {k \in Exporters : env.exporters[k] \notin {"", "none"}}

StopProviders(p, l) ==
  pod' = [pod EXCEPT ![p].pc = l, ![p].up = @ \ Exporters,
            ![p].stops = [k \in Exporters |-> @[k] + (IF Up(p, k) THEN 1 ELSE 0)]]

HandleErrWithoutShutdown(p) == Go(p, "exited")
HandleErr(p) == StopProviders(p, "exited")

StartProvider(p, k) ==
  /\ At(p, "telemetry")
  /\ k \in WantedExporters /\ ~ Up(p, k)
  /\ Before(k) \cap WantedExporters \subseteq pod[p].up
  /\ GoUp(p, {k}, "telemetry") \/ HandleErr(p)
  /\ UNCHANGED <<env, owner, tables, req>>

NewResourceFails(p) ==
  /\ At(p, "telemetry") /\ pod[p].ran = {}
  /\ HandleErr(p)
  /\ UNCHANGED <<env, owner, tables, req>>

(***************************************************************************)
(* AppConfigFromEnv, and the checks of InitInfrastructure that depend on   *)
(* the environment alone.                                                  *)
(***************************************************************************)
Missing ==
  \/ env.database = ""
  \/ env.authRequired /\ ~ (env.jwks /\ env.audience)
  \/ env.fanout /\ (~ env.secret \/ env.base = "")

LoadConfig(p) ==
  /\ At(p, "telemetry") /\ WantedExporters \subseteq pod[p].up
  /\ Go(p, IF Missing THEN "flush" ELSE "pool")
  /\ UNCHANGED <<env, owner, tables, req>>

OpenPool(p) ==
  /\ At(p, "pool")
  /\ GoUp(p, {"pool", "sql"}, "lock") \/ Go(p, "flush")
  /\ UNCHANGED <<env, owner, tables, req>>

(***************************************************************************)
(* schema.Apply.  Every statement, that of the lock too, fails at the      *)
(* latest after 60 s; between its statements a pod may hang for good.      *)
(***************************************************************************)
AdvisoryLockSkipped(p) ==
  /\ At(p, "lock")
  /\ owner' = owner \cup {p}
  /\ Go(p, "script")
  /\ UNCHANGED <<env, tables, req>>
AdvisoryLock(p) ==
  /\ At(p, "lock") /\ owner = {}
  /\ owner' = {p}
  /\ Go(p, "script")
  /\ UNCHANGED <<env, tables, req>>

LockTimeout(p) ==
  /\ At(p, "lock")
  /\ Go(p, "flush")
  /\ UNCHANGED <<env, owner, tables, req>>

ApplyScriptWithoutCommit(p) ==
  /\ At(p, "script")
  /\ owner' = owner \ {p}
  /\ Go(p, "nats")
  /\ UNCHANGED <<env, tables, req>>
ApplyScript(p) ==
  /\ At(p, "script")
  /\ owner' = owner \ {p}
  /\ \/ tables' = TRUE /\ Go(p, "nats")
     \/ Go(p, "flush") /\ UNCHANGED tables          \* rolled back
  /\ UNCHANGED <<env, req>>

(***************************************************************************)
(* nats.Connect retries in the background: it fails only for what cannot   *)
(* be a server.                                                            *)
(***************************************************************************)
ConnectNATS(p) ==
  /\ At(p, "nats")
  /\ GoUp(p, {"nats"}, "auth") \/ Go(p, "flush")
  /\ UNCHANGED <<env, owner, tables, req>>

NewAuthValidator(p) ==
  /\ At(p, "auth")
  /\ \/ env.jwks /\ (Go(p, "listen") \/ Go(p, "flush"))
     \/ ~ env.jwks /\ Go(p, IF env.local /\ ~ env.authRequired
                            THEN "listen" ELSE "flush")
  /\ UNCHANGED <<env, owner, tables, req>>

-----------------------------------------------------------------------------
(***************************************************************************)
(* Until signal.Notify, already with the listener started, a signal kills  *)
(* the process and nothing deferred runs; a crash does so at any time.     *)
(***************************************************************************)
NotifySignals(p) ==
  /\ At(p, "listen")
  /\ Go(p, "serve")
  /\ UNCHANGED <<env, owner, tables, req>>

Gone == {"exited", "killed"}

Killed(p) ==
  /\ pod[p].pc \notin Gone
  /\ pod' = [pod EXCEPT ![p].pc = "killed", ![p].up = {}]
  /\ owner' = owner \ {p}
  /\ Lose(p)
  /\ UNCHANGED <<env, tables>>

Quit(p) ==
  /\ At(p, "serve")
  /\ Go(p, "drain")
  /\ UNCHANGED <<env, owner, tables, req>>

ServerErrorButReturns(p) ==
  /\ At(p, "serve")
  /\ Go(p, "close")
  /\ UNCHANGED <<env, owner, tables, req>>
ServerError(p) ==
  /\ At(p, "serve")
  /\ Go(p, "drain")
  /\ UNCHANGED <<env, owner, tables, req>>

(***************************************************************************)
(* srv.Shutdown, then the deferred calls: NATS, the two handles of the     *)
(* database (the pool waits for its connections), telemetry.               *)
(***************************************************************************)
Drained(p) ==
  /\ At(p, "drain") /\ Held(p, InFlight) = {}
  /\ Go(p, "close")
  /\ UNCHANGED <<env, owner, tables, req>>

GraceUnbounded(p) == FALSE
GraceExpires(p) ==
  /\ At(p, "drain") /\ Held(p, InFlight) # {}
  /\ pod' = [pod EXCEPT ![p].pc = "close", ![p].late = TRUE]
  /\ UNCHANGED <<env, owner, tables, req>>

CloseNATS(p) ==
  /\ At(p, "close")
  /\ GoDown(p, "nats", "close_sql")
  /\ UNCHANGED <<env, owner, tables, req>>

CloseSQL(p) ==
  /\ At(p, "close_sql")
  /\ GoDown(p, "sql", "close_pool")
  /\ UNCHANGED <<env, owner, tables, req>>

ClosePool(p) ==
  /\ At(p, "close_pool") /\ Held(p, Statement) = {}
  /\ GoDown(p, "pool", "flush")
  /\ UNCHANGED <<env, owner, tables, req>>

Flush(p) ==
  /\ At(p, "flush")
  /\ StopProviders(p, "exited")
  /\ Lose(p)
  /\ UNCHANGED <<env, owner, tables>>

-----------------------------------------------------------------------------
(***************************************************************************)
(* A send on a pod that listens.                                           *)
(***************************************************************************)
To(q, l) == req' = [req EXCEPT ![q].pc = l]

Arrive(q, p) ==
  /\ req[q].pc = "none"
  /\ pod[p].pc \in {"listen", "serve"}
  /\ req' = [req EXCEPT ![q].pc = "reading", ![q].pod = p]
  /\ UNCHANGED <<env, pod, owner, tables>>

ReadDone(q) ==
  /\ req[q].pc = "reading"
  /\ To(q, "mailing")
  /\ UNCHANGED <<env, pod, owner, tables>>

(***************************************************************************)
(* UnsubscribeService.Enabled, and what a send does when it is not: the    *)
(* footer asks for a reply with UNSUBSCRIBE instead.                       *)
(***************************************************************************)
Enabled == env.secret /\ env.base = "url"
Footer == IF Enabled THEN "link" ELSE "reply"

Mail(q) ==
  /\ req[q].pc = "mailing"
  /\ \/ ~ env.fanout /\ To(q, "mailed")
     \/ /\ env.fanout /\ Up(req[q].pod, "nats")
        /\ req' = [req EXCEPT ![q].pc = "mailed", ![q].footer = Footer]
     \/ /\ env.fanout /\ ~ Up(req[q].pod, "nats")
        /\ \E f \in {"none", Footer} :           \* while the connection drains
             req' = [req EXCEPT ![q].pc = "cut", ![q].footer = f]
  /\ UNCHANGED <<env, pod, owner, tables>>

MarkSent(q) ==
  /\ req[q].pc = "mailed"
  /\ To(q, IF Up(req[q].pod, "sql") THEN "marking" ELSE "cut")
  /\ UNCHANGED <<env, pod, owner, tables>>

MarkDone(q) ==
  /\ req[q].pc = "marking"
  /\ To(q, "answered")
  /\ UNCHANGED <<env, pod, owner, tables>>

StatementDone(q) == ReadDone(q) \/ MarkDone(q)

-----------------------------------------------------------------------------
Startup(p) ==
  \/ \E k \in Exporters : StartProvider(p, k)
  \/ NewResourceFails(p) \/ LoadConfig(p) \/ OpenPool(p)
  \/ AdvisoryLock(p) \/ LockTimeout(p) \/ ApplyScript(p)
  \/ ConnectNATS(p) \/ NewAuthValidator(p) \/ NotifySignals(p)

Teardown(p) ==
  \/ Drained(p) \/ GraceExpires(p)
  \/ CloseNATS(p) \/ CloseSQL(p) \/ ClosePool(p) \/ Flush(p)

Next ==
  \/ \E p \in Pods : \/ Startup(p) \/ Teardown(p)
                     \/ Quit(p) \/ ServerError(p) \/ Killed(p)
                     \/ \E q \in Requests : Arrive(q, p)
  \/ \E q \in Requests : StatementDone(q) \/ Mail(q) \/ MarkSent(q)

(***************************************************************************)
(* The timers go off, the main goroutine runs, a statement ends; a pod     *)
(* that starts may hang, and a send's mails may take longer than anybody   *)
(* waits.                                                                  *)
(***************************************************************************)
Fairness ==
  /\ \A p \in Pods : WF_vars(LockTimeout(p)) /\ WF_vars(Teardown(p))
  /\ \A q \in Requests : WF_vars(StatementDone(q))

Spec == Init /\ [][Next]_vars
FairSpec == Spec /\ Fairness

-----------------------------------------------------------------------------
TypeOK ==
  /\ env \in Environments
  /\ pod \in [Pods -> [pc : {"telemetry", "pool", "lock", "script", "nats", "auth",
                             "listen", "serve", "drain", "close", "close_sql",
                             "close_pool", "flush"} \cup Gone,
                       up : SUBSET (Exporters \cup {"pool", "sql", "nats"}),
                       ran : SUBSET (Exporters \cup {"pool", "sql", "nats"}),
                       stops : [Exporters -> 0 .. 1], late : BOOLEAN]]
  /\ owner \subseteq Pods
  /\ tables \in BOOLEAN
  /\ req \in [Requests -> [pc : InFlight \cup {"none", "answered", "cut", "lost"},
                           pod : Pods, footer : {"none", "link", "reply"}]]

(***************************************************************************)
(* The script runs in one pod at a time: "concurrent pod startups don't    *)
(* race on CREATE statements" (schema.go:25-26).                           *)
(***************************************************************************)
OneScriptAtATime == Cardinality({p \in Pods : At(p, "script")}) <= 1

(***************************************************************************)
(* What a pod of the deployment serves it can serve, whichever pod applied *)
(* the schema, gave up, hung or was killed: a request never meets a        *)
(* database without the tables.  And the two checks of the opt-out links   *)
(* fit each other, the one that refuses the start (config.go:123-128) and  *)
(* the one by which a send leaves them out (unsubscribe.go:57-59): a       *)
(* newsletter that leaves has one, but for a base that is nothing but      *)
(* slashes, which only the second refuses.                                 *)
(***************************************************************************)
ServesOnlyWhenReady ==
  /\ (\E q \in Requests : req[q].pc # "none") => tables
  /\ (\E q \in Requests : req[q].footer = "reply") => env.secret /\ env.base = "slashes"

(***************************************************************************)
(* A send on a pod that is stopped is answered: its dependencies are not   *)
(* closed under it and its mails do not go out unmarked, unless it is      *)
(* still running when the grace is over or the process is killed.          *)
(***************************************************************************)
CutOnlyWhenLate ==
  \A q \in Requests :
    req[q].pc \in {"cut", "lost"} =>
      pod[req[q].pod].late \/ At(req[q].pod, "killed")

(***************************************************************************)
(* Of a process that ended by itself, at whatever step of its start or its *)
(* stop, no telemetry provider is left running and each that ran was shut  *)
(* down once.                                                              *)
(***************************************************************************)
ProvidersStopped ==
  \A p \in Pods : At(p, "exited") =>
    \A k \in Exporters : /\ ~ Up(p, k)
                         /\ pod[p].stops[k] = (IF k \in pod[p].ran THEN 1 ELSE 0)

(***************************************************************************)
(* No pod waits for ever: one that is told to stop, or whose listener      *)
(* failed, ends, however long the sends in flight take; and one that       *)
(* starts gets past the lock or gives up, since otherwise "a hung peer pod *)
(* would stall every subsequent rollout" (schema.go:35).                   *)
(***************************************************************************)
WaitsEnd ==
  \A p \in Pods : /\ At(p, "drain") ~> pod[p].pc \in Gone
                  /\ At(p, "lock") ~> ~ At(p, "lock")
=============================================================================
