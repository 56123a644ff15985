------------------------------- MODULE FanOut -------------------------------
(***************************************************************************)
(* The goroutines of one call of SendOrchestrator.fanOut                   *)
(* (internal/service/send_orchestrator.go): a loop that takes a slot of a  *)
(* buffered channel per recipient, a worker per slot that asks the email   *)
(* service over NATS and counts the outcome under a mutex, a WaitGroup the *)
(* caller waits on, and a request context that may be cancelled at any     *)
(* time.                                                                   *)
(*                                                                         *)
(* An operator named ...Without... or ...But... is a form the operator     *)
(* after it must not have: no step uses it.                                *)
(***************************************************************************)
EXTENDS Integers, FiniteSets

CONSTANTS
  MaxRecipients,   \* the longest audience
  Concurrency,     \* SEND_CONCURRENCY, the capacity of the channel
  Modes            \* how the orchestrator may be wired

ASSUME FanOutAssumption ==
  /\ MaxRecipients \in Nat
  /\ Concurrency \in Nat \ {0}
  /\ Modes \subseteq {"dispatch", "no_dispatcher", "disabled"}

VARIABLES
  mode,       \* dispatcher present and SEND_FANOUT_ENABLED, or not
  phase,      \* where the calling goroutine is
  total,      \* len(recipients)
  next,       \* the recipient the loop is at
  slots,      \* how many tokens the channel sem holds
  wg,         \* the counter of the WaitGroup
  worker,     \* worker[i]: where the goroutine of recipient i is
  outcome,    \* outcome[i]: what SendEmail returned to it
  wire,       \* wire[i]: what became of its NATS request
  sent,       \* the two counters and the failures fanOut returns
  failed,
  failures,
  cancelled   \* ctx is done

call == <<mode, phase, total>>
results == <<sent, failed, failures>>
vars == <<call, next, slots, wg, worker, outcome, wire, results, cancelled>>

Indices == 1 .. MaxRecipients

Init ==
  /\ mode \in Modes
  /\ phase = "idle"
  /\ total = 0
  /\ next = 1
  /\ slots = 0
  /\ wg = 0
  /\ worker = [i \in Indices |-> "none"]
  /\ outcome = [i \in Indices |-> "none"]
  /\ wire = [i \in Indices |-> "none"]
  /\ sent = 0
  /\ failed = 0
  /\ failures = {}
  /\ cancelled = FALSE

-----------------------------------------------------------------------------
(***************************************************************************)
(* The calling goroutine.                                                  *)
(***************************************************************************)
Call(k) ==
  /\ phase = "idle"
  /\ total' = k
  /\ \/ k = 0 /\ phase' = "returned" /\ UNCHANGED sent
     \/ k > 0 /\ mode = "disabled" /\ phase' = "returned" /\ sent' = k
     \/ k > 0 /\ mode # "disabled" /\ phase' = "loop" /\ UNCHANGED sent
  /\ UNCHANGED <<mode, next, slots, wg, worker, outcome, wire, failed,
                 failures, cancelled>>

(***************************************************************************)
(* The select: a free slot and a done context are both ready to be chosen, *)
(* and when both are the choice is Go's.                                   *)
(***************************************************************************)
SlotFreeButOneMore == slots <= Concurrency
SlotFree == slots < Concurrency

TakeSlot == slots' = slots + 1

Spawn ==
  /\ phase = "loop"
  /\ next <= total
  /\ SlotFree
  /\ TakeSlot
  /\ wg' = wg + 1
  /\ worker' = [worker EXCEPT ![next] = "spawned"]
  /\ next' = next + 1
  /\ UNCHANGED <<call, outcome, wire, results, cancelled>>

FailWithoutCounting(i) == failures' = failures \cup {i} /\ UNCHANGED failed
Fail(i) == failures' = failures \cup {i} /\ failed' = failed + 1

SkipCancelled ==
  /\ phase = "loop"
  /\ next <= total
  /\ cancelled
  /\ Fail(next)
  /\ worker' = [worker EXCEPT ![next] = "skipped"]
  /\ next' = next + 1
  /\ UNCHANGED <<call, slots, wg, outcome, wire, sent, cancelled>>

WaitIsOverWithoutWorkers == slots = 0
WaitIsOver == wg = 0

Return ==
  /\ phase = "loop"
  /\ next > total
  /\ WaitIsOver
  /\ phase' = "returned"
  /\ UNCHANGED <<mode, total, next, slots, wg, worker, outcome, wire, results,
                 cancelled>>

-----------------------------------------------------------------------------
(***************************************************************************)
(* SendEmail, in the worker of recipient i.  It refuses a context that is  *)
(* already done, otherwise it publishes and waits for the reply, at most   *)
(* until its own timeout or the end of the context.  An error says nothing *)
(* about what the email service did with the message.                      *)
(***************************************************************************)
Publish(i) ==
  /\ mode = "dispatch"
  /\ ~ cancelled
  /\ worker[i] = "spawned"
  /\ worker' = [worker EXCEPT ![i] = "waiting"]
  /\ wire' = [wire EXCEPT ![i] = "published"]
  /\ UNCHANGED <<call, next, slots, wg, outcome, results, cancelled>>

SendEmailReturns(i, at, result) ==
  /\ worker[i] = at
  /\ worker' = [worker EXCEPT ![i] = "answered"]
  /\ outcome' = [outcome EXCEPT ![i] = result]
  /\ UNCHANGED <<call, next, slots, wg, wire, results, cancelled>>

NoDispatcher(i) == mode = "no_dispatcher" /\ SendEmailReturns(i, "spawned", "ok")

PublishFails(i) == mode = "dispatch" /\ SendEmailReturns(i, "spawned", "error")

ReplyOk(i) == wire[i] = "accepted" /\ SendEmailReturns(i, "waiting", "ok")

RequestEndsButUnnoticed(i) == SendEmailReturns(i, "waiting", "ok")
RequestEndsWithoutTimeout(i) ==
  cancelled /\ SendEmailReturns(i, "waiting", "error")
RequestEnds(i) == SendEmailReturns(i, "waiting", "error")

(***************************************************************************)
(* The worker counts under the mutex; the deferred calls then run last in, *)
(* first out: the slot, then wg.Done.                                      *)
(***************************************************************************)
Count(i) ==
  /\ worker[i] = "answered"
  /\ worker' = [worker EXCEPT ![i] = "counted"]
  /\ \/ outcome[i] = "ok" /\ sent' = sent + 1 /\ UNCHANGED <<failed, failures>>
     \/ outcome[i] = "error" /\ Fail(i) /\ UNCHANGED sent
  /\ UNCHANGED <<call, next, slots, wg, outcome, wire, cancelled>>

ReleaseSlot(i) ==
  /\ worker[i] = "counted"
  /\ worker' = [worker EXCEPT ![i] = "released"]
  /\ slots' = slots - 1
  /\ UNCHANGED <<call, next, wg, outcome, wire, results, cancelled>>

Done(i) ==
  /\ worker[i] = "released"
  /\ worker' = [worker EXCEPT ![i] = "finished"]
  /\ wg' = wg - 1
  /\ UNCHANGED <<call, next, slots, outcome, wire, results, cancelled>>

-----------------------------------------------------------------------------
(***************************************************************************)
(* The email service, whenever it gets to the message, and the client.     *)
(***************************************************************************)
EmailServiceAccepts(i) ==
  /\ wire[i] = "published"
  /\ wire' = [wire EXCEPT ![i] = "accepted"]
  /\ UNCHANGED <<call, next, slots, wg, worker, outcome, results, cancelled>>

Cancel ==
  /\ ~ cancelled
  /\ cancelled' = TRUE
  /\ UNCHANGED <<call, next, slots, wg, worker, outcome, wire, results>>

-----------------------------------------------------------------------------
Caller == Spawn \/ SkipCancelled \/ Return

Worker(i) ==
  \/ NoDispatcher(i)
  \/ Publish(i)
  \/ PublishFails(i)
  \/ ReplyOk(i)
  \/ RequestEnds(i)
  \/ Count(i)
  \/ ReleaseSlot(i)
  \/ Done(i)

Next ==
  \/ \E k \in 0 .. MaxRecipients : Call(k)
  \/ Caller
  \/ \E i \in Indices : Worker(i) \/ EmailServiceAccepts(i)
  \/ Cancel

Spec == Init /\ [][Next]_vars

(***************************************************************************)
(* Goroutines keep running and a NATS request ends at its timeout, whether *)
(* the email service answers or not.                                       *)
(***************************************************************************)
FairSpec ==
  /\ Spec
  /\ WF_vars(Caller)
  /\ \A i \in Indices : WF_vars(Worker(i))

-----------------------------------------------------------------------------
TypeOK ==
  /\ mode \in Modes
  /\ phase \in {"idle", "loop", "returned"}
  /\ total \in 0 .. MaxRecipients
  /\ next \in 1 .. MaxRecipients + 1
  /\ slots \in Nat
  /\ wg \in Nat
  /\ worker \in [Indices -> {"none", "skipped", "spawned", "waiting",
                             "answered", "counted", "released", "finished"}]
  /\ outcome \in [Indices -> {"none", "ok", "error"}]
  /\ wire \in [Indices -> {"none", "published", "accepted"}]
  /\ sent \in Nat
  /\ failed \in Nat
  /\ failures \in SUBSET Indices
  /\ cancelled \in BOOLEAN

Settled(i) == worker[i] \in {"skipped", "counted", "released", "finished"}
Holders == {i \in Indices : worker[i] \in {"spawned", "waiting", "answered",
                                           "counted"}}

(***************************************************************************)
(* SEND_CONCURRENCY bounds the requests the email service has to serve for *)
(* one send at a time, those the caller has given up on left aside.        *)
(***************************************************************************)
InFlightIsBounded ==
  Cardinality({i \in Indices : worker[i] = "waiting"}) <= Concurrency

(***************************************************************************)
(* What fanOut returns accounts for every recipient once: sent plus failed *)
(* is the size of the audience, exactly the failed ones are listed, and a  *)
(* recipient is not listed exactly if the email service said yes to it.    *)
(***************************************************************************)
Succeeded == {i \in Indices : outcome[i] = "ok"}

ResultsAddUp ==
  phase = "returned" =>
    /\ sent + failed = total
    /\ failed = Cardinality(failures)
    /\ mode # "disabled" => failures = (1 .. total) \ Succeeded

(***************************************************************************)
(* No worker outlives the call: the counters SendNewsletter decides on are *)
(* not written again, nor is a slot still held.                            *)
(***************************************************************************)
NothingRunsAfterReturn ==
  phase = "returned" =>
    \A i \in Indices : worker[i] \in {"none", "skipped", "finished"}

(***************************************************************************)
(* fanOut comes back, even if the email service never answers.             *)
(***************************************************************************)
FanOutReturns == phase = "loop" ~> phase = "returned"

(***************************************************************************)
(* With a dispatcher wired, the fan-out delivers as Delivery.tla says.     *)
(***************************************************************************)
Wired == mode = "dispatch"

Promise == INSTANCE Delivery WITH
  Recipients <- Indices,
  audience <- 1 .. total,
  pending <- {i \in 1 .. total : ~ Settled(i)},
  reported <- {i \in Indices : Settled(i) /\ outcome[i] = "ok"},
  accepted <- {i \in Indices : wire[i] = "accepted"}

ImplementsDelivery ==
  /\ Promise!Init
  /\ [][Wired => Promise!Next]_(Promise!vars)
=============================================================================
