---------------------------- MODULE FanOut_proofs ----------------------------
(***************************************************************************)
(* Proofs about FanOut, for audiences and pools of every size.             *)
(***************************************************************************)
EXTENDS FanOut, FiniteSetTheorems, TLAPS

-----------------------------------------------------------------------------
(***************************************************************************)
(* Recipients whose goroutine the WaitGroup still counts, those the email  *)
(* service said yes to, and those that were skipped or failed.             *)
(***************************************************************************)
Running == {i \in Indices : worker[i] \in {"spawned", "waiting", "answered",
                                           "counted", "released"}}
Delivered == {i \in Indices : Settled(i) /\ outcome[i] = "ok"}
Undelivered == {i \in Indices : \/ worker[i] = "skipped"
                                \/ Settled(i) /\ outcome[i] = "error"}

(***************************************************************************)
(* The loop has handled exactly the recipients before next, and it has     *)
(* handled them all when the call returns.                                 *)
(***************************************************************************)
Progress ==
  /\ next <= total + 1
  /\ \A i \in Indices : worker[i] = "none" <=> i >= next
  /\ \A i \in Indices :
       outcome[i] # "none" <=>
         worker[i] \in {"answered", "counted", "released", "finished"}
  /\ phase = "idle" => total = 0
  /\ phase = "loop" => mode # "disabled"
  /\ mode = "disabled" => next = 1
  /\ phase = "returned" /\ mode # "disabled" => next = total + 1 /\ wg = 0

(***************************************************************************)
(* The channel, the WaitGroup and the two counters count these sets.       *)
(***************************************************************************)
Counting ==
  /\ slots = Cardinality(Holders) /\ slots <= Concurrency
  /\ wg = Cardinality(Running)
  /\ failures = Undelivered /\ failed = Cardinality(failures)
  /\ mode # "disabled" => sent = Cardinality(Delivered)
  /\ mode = "disabled" => sent = IF phase = "returned" THEN total ELSE 0

(***************************************************************************)
(* With a dispatcher, a request is on the wire once its worker has got     *)
(* past SendEmail's check of the context, and the email service accepted   *)
(* it if the worker was told so.                                           *)
(***************************************************************************)
Replies ==
  /\ \A i \in Indices :
       wire[i] # "none" => worker[i] \notin {"none", "skipped", "spawned"}
  /\ mode = "dispatch" =>
       \A i \in Indices : outcome[i] = "ok" => wire[i] = "accepted"

Inv == TypeOK /\ Progress /\ Counting /\ Replies

-----------------------------------------------------------------------------
(***************************************************************************)
(* Sets of recipients are finite.                                          *)
(***************************************************************************)
LEMMA FiniteIndices ==
  ASSUME NEW S \in SUBSET Indices
  PROVE  IsFiniteSet(S) /\ Cardinality(S) \in Nat
<1>1. IsFiniteSet(Indices)
  BY FanOutAssumption, FS_Interval DEF Indices
<1>2. IsFiniteSet(S)
  BY <1>1, FS_Subset
<1>3. QED
  BY <1>2, FS_CardinalityType

(***************************************************************************)
(* A recipient that enters or leaves such a set changes its size by one.   *)
(***************************************************************************)
LEMMA OneMore ==
  ASSUME NEW S \in SUBSET Indices, NEW T, NEW i, i \notin S, T = S \cup {i}
  PROVE  Cardinality(T) = Cardinality(S) + 1
BY FiniteIndices, FS_AddElement

(***************************************************************************)
(* ... and leaving makes it one smaller.                                   *)
(***************************************************************************)
LEMMA OneLess ==
  ASSUME NEW S \in SUBSET Indices, NEW T, NEW i \in S, T = S \ {i}
  PROVE  Cardinality(T) = Cardinality(S) - 1 /\ Cardinality(S) > 0
<1>1. Cardinality(T) = Cardinality(S) - 1
  BY FiniteIndices, FS_RemoveElement
<1>2. Cardinality(T) \in Nat /\ Cardinality(S) \in Nat
  BY FiniteIndices
<1>3. QED
  BY <1>1, <1>2

(***************************************************************************)
(* Before the call nothing is counted.                                     *)
(***************************************************************************)
LEMMA InvInit == Init => Inv
<1> SUFFICES ASSUME Init PROVE Inv
  OBVIOUS
<1>1. TypeOK
  <2>1. total \in 0 .. MaxRecipients /\ next \in 1 .. MaxRecipients + 1
    BY FanOutAssumption DEF Init
  <2>2. QED
    BY <2>1 DEF Init, TypeOK
<1>2. Progress
  BY FanOutAssumption DEF Init, Progress, Indices
<1>3. /\ Holders = {} /\ Running = {} /\ Undelivered = {} /\ Delivered = {}
  BY DEF Init, Holders, Running, Undelivered, Delivered, Settled
<1>4. Counting
  BY <1>3, FS_EmptySet, FanOutAssumption DEF Init, Counting
<1>5. Replies
  BY DEF Init, Replies
<1>6. QED
  BY <1>1, <1>2, <1>4, <1>5 DEF Inv

(***************************************************************************)
(* The steps of the calling goroutine.                                     *)
(***************************************************************************)
LEMMA CallStep ==
  ASSUME Inv, NEW k \in 0 .. MaxRecipients, Call(k)
  PROVE  Inv'
<1> USE DEF Inv
<1>1. TypeOK'
  BY FanOutAssumption DEF TypeOK, Call, Indices
<1>2. next = 1 /\ \A i \in Indices : worker[i] = "none"
  BY FanOutAssumption DEF Progress, Call, TypeOK, Indices
<1>3. Running = {} /\ Delivered = {}
  BY <1>2 DEF Running, Delivered, Settled
<1>4. wg = 0 /\ (mode # "disabled" => sent = 0)
  BY <1>3, FS_EmptySet DEF Counting
<1>5. Progress'
  BY <1>1, <1>2, <1>4 DEF Progress, Call, TypeOK, Indices
<1>6. /\ Holders' = Holders /\ Running' = Running
      /\ Delivered' = Delivered /\ Undelivered' = Undelivered
  BY DEF Call, Holders, Running, Delivered, Undelivered, Settled
<1>7. Counting'
  BY <1>6, <1>3, FS_EmptySet DEF Counting, Call
<1>8. Replies'
  BY DEF Replies, Call
<1>9. QED
  BY <1>1, <1>5, <1>7, <1>8

(***************************************************************************)
(* A spawned worker holds a slot and is counted by the WaitGroup.          *)
(***************************************************************************)
LEMMA SpawnStep ==
  ASSUME Inv, Spawn
  PROVE  Inv'
<1> USE DEF Inv
<1>1. next \in Indices /\ worker[next] = "none" /\ outcome[next] = "none"
  BY FanOutAssumption DEF Spawn, TypeOK, Progress, Indices
<1>2. /\ Holders' = Holders \cup {next} /\ next \notin Holders
      /\ Running' = Running \cup {next} /\ next \notin Running
      /\ Delivered' = Delivered /\ Undelivered' = Undelivered
  BY <1>1 DEF Spawn, TypeOK, Holders, Running, Delivered, Undelivered, Settled
<1>3. /\ Cardinality(Holders') = slots + 1
      /\ Cardinality(Running') = wg + 1
  BY <1>2, OneMore DEF Counting, Holders, Running
<1>4. TypeOK'
  BY <1>1, FanOutAssumption DEF TypeOK, Spawn, TakeSlot, Indices, call, results
<1>5. Progress'
  BY <1>1, <1>4 DEF Progress, Spawn, TypeOK, Indices, call
<1>6. Counting'
  BY <1>2, <1>3, FanOutAssumption
  DEF Counting, Spawn, TakeSlot, SlotFree, call, results, TypeOK
<1>7. Replies'
  BY <1>1 DEF Replies, Spawn, TypeOK, call
<1>8. QED
  BY <1>4, <1>5, <1>6, <1>7

(***************************************************************************)
(* A skipped recipient is counted as failed by the caller itself.          *)
(***************************************************************************)
LEMMA SkipStep ==
  ASSUME Inv, SkipCancelled
  PROVE  Inv'
<1> USE DEF Inv
<1>1. next \in Indices /\ worker[next] = "none" /\ outcome[next] = "none"
  BY FanOutAssumption DEF SkipCancelled, TypeOK, Progress, Indices
<1>2. /\ Holders' = Holders /\ Running' = Running /\ Delivered' = Delivered
      /\ Undelivered' = Undelivered \cup {next} /\ next \notin Undelivered
  BY <1>1
  DEF SkipCancelled, TypeOK, Holders, Running, Delivered, Undelivered, Settled
<1>3. Cardinality(Undelivered') = failed + 1
  BY <1>2, OneMore DEF Counting, Undelivered
<1>4. TypeOK'
  BY <1>1, FanOutAssumption DEF TypeOK, SkipCancelled, Fail, Indices, call
<1>5. Progress'
  BY <1>1, <1>4 DEF Progress, SkipCancelled, TypeOK, Indices, call
<1>6. Counting'
  BY <1>2, <1>3 DEF Counting, SkipCancelled, Fail, call
<1>7. Replies'
  BY <1>1 DEF Replies, SkipCancelled, TypeOK, call
<1>8. QED
  BY <1>4, <1>5, <1>6, <1>7

(***************************************************************************)
(* The caller returns when the WaitGroup counts nobody.                    *)
(***************************************************************************)
LEMMA ReturnStep ==
  ASSUME Inv, Return
  PROVE  Inv'
<1> USE DEF Inv
<1>1. TypeOK'
  BY DEF TypeOK, Return, results
<1>2. Progress'
  BY DEF Progress, Return, WaitIsOver, TypeOK
<1>3. /\ Holders' = Holders /\ Running' = Running
      /\ Delivered' = Delivered /\ Undelivered' = Undelivered
  BY DEF Return, Holders, Running, Delivered, Undelivered, Settled
<1>4. Counting'
  BY <1>3 DEF Counting, Return, results, Progress
<1>5. Replies'
  BY DEF Replies, Return
<1>6. QED
  BY <1>1, <1>2, <1>4, <1>5

(***************************************************************************)
(* A step that only moves a worker between two points at which it holds    *)
(* its slot and is not settled changes no count.                           *)
(***************************************************************************)
LEMMA StillHolding ==
  ASSUME Inv, NEW i \in Indices, worker[i] \in {"spawned", "waiting"},
         NEW at \in {"waiting", "answered"},
         worker' = [worker EXCEPT ![i] = at],
         \A j \in Indices : j # i => outcome'[j] = outcome[j],
         UNCHANGED <<call, next, slots, wg, results>>
  PROVE  Counting'
<1>1. /\ Holders' = Holders /\ Running' = Running
  BY DEF Inv, TypeOK, Holders, Running
<1>2. Delivered' = Delivered /\ Undelivered' = Undelivered
  BY DEF Inv, TypeOK, Delivered, Undelivered, Settled
<1>3. QED
  BY <1>1, <1>2 DEF Inv, Counting, call, results

(***************************************************************************)
(* Publishing moves a worker and puts a request on the wire.               *)
(***************************************************************************)
LEMMA PublishStep ==
  ASSUME Inv, NEW i \in Indices, Publish(i)
  PROVE  Inv'
<1>1. TypeOK'
  BY DEF Inv, TypeOK, Publish, call, results
<1>2. Progress'
  BY DEF Inv, TypeOK, Progress, Publish, call
<1>3. Counting'
  BY StillHolding DEF Publish
<1>4. Replies'
  BY DEF Inv, TypeOK, Progress, Replies, Publish, call
<1>5. QED
  BY <1>1, <1>2, <1>3, <1>4 DEF Inv

(***************************************************************************)
(* SendEmail returns, with a yes only if one was given.                    *)
(***************************************************************************)
LEMMA SendEmailStep ==
  ASSUME Inv, NEW i \in Indices, NEW at \in {"spawned", "waiting"},
         NEW result \in {"ok", "error"}, SendEmailReturns(i, at, result),
         mode = "dispatch" /\ result = "ok" => wire[i] = "accepted"
  PROVE  Inv'
<1>1. TypeOK'
  BY DEF Inv, TypeOK, SendEmailReturns, call, results
<1>2. Progress'
  BY DEF Inv, TypeOK, Progress, SendEmailReturns, call
<1>3. Counting'
  <2>1. \A j \in Indices : j # i => outcome'[j] = outcome[j]
    BY DEF Inv, TypeOK, SendEmailReturns
  <2>2. QED
    BY <2>1, StillHolding DEF SendEmailReturns
<1>4. Replies'
  BY DEF Inv, TypeOK, Replies, SendEmailReturns, call
<1>5. QED
  BY <1>1, <1>2, <1>3, <1>4 DEF Inv

(***************************************************************************)
(* The worker counts, gives its slot back and leaves the WaitGroup.        *)
(***************************************************************************)
LEMMA CountStep ==
  ASSUME Inv, NEW i \in Indices, Count(i)
  PROVE  Inv'
<1> USE DEF Inv
<1>1. worker[i] = "answered" /\ mode # "disabled"
  BY FanOutAssumption DEF Count, Progress, TypeOK, Indices
<1>2. Holders' = Holders /\ Running' = Running
  BY <1>1 DEF Count, TypeOK, Holders, Running
<1>3. CASE outcome[i] = "ok" /\ sent' = sent + 1 /\ UNCHANGED <<failed, failures>>
  <2>1. /\ Delivered' = Delivered \cup {i} /\ i \notin Delivered
        /\ Undelivered' = Undelivered
    BY <1>1, <1>3 DEF Count, TypeOK, Delivered, Undelivered, Settled
  <2>2. Cardinality(Delivered') = sent + 1
    BY <1>1, <2>1, OneMore DEF Counting, Delivered
  <2>3. TypeOK'
    BY <1>3 DEF TypeOK, Count, call
  <2>4. Counting'
    BY <1>1, <1>2, <1>3, <2>1, <2>2 DEF Counting, Count, call
  <2>5. QED
    BY <2>3, <2>4, <1>1 DEF Progress, Replies, Count, TypeOK, call
<1>4. CASE outcome[i] = "error" /\ Fail(i) /\ UNCHANGED sent
  <2>1. /\ Undelivered' = Undelivered \cup {i} /\ i \notin Undelivered
        /\ Delivered' = Delivered
    BY <1>1, <1>4 DEF Count, TypeOK, Delivered, Undelivered, Settled
  <2>2. Cardinality(Undelivered') = failed + 1
    BY <2>1, OneMore DEF Counting, Undelivered
  <2>3. TypeOK'
    BY <1>4 DEF TypeOK, Count, Fail, call
  <2>4. Counting'
    BY <1>1, <1>2, <1>4, <2>1, <2>2 DEF Counting, Count, Fail, call
  <2>5. QED
    BY <2>3, <2>4, <1>1 DEF Progress, Replies, Count, TypeOK, call
<1>5. QED
  BY <1>3, <1>4 DEF Count

(***************************************************************************)
(* The slot given back was one that is held.                               *)
(***************************************************************************)
LEMMA ReleaseStep ==
  ASSUME Inv, NEW i \in Indices, ReleaseSlot(i)
  PROVE  Inv'
<1> USE DEF Inv
<1>1. /\ Holders' = Holders \ {i} /\ i \in Holders
      /\ Running' = Running /\ Delivered' = Delivered /\ Undelivered' = Undelivered
  BY DEF ReleaseSlot, TypeOK, Holders, Running, Delivered, Undelivered, Settled
<1>2. Cardinality(Holders') = slots - 1 /\ slots > 0
  BY <1>1, OneLess DEF Counting, Holders
<1>3. TypeOK'
  BY <1>2 DEF TypeOK, ReleaseSlot, call, results
<1>4. Counting'
  BY <1>1, <1>2, FanOutAssumption DEF Counting, ReleaseSlot, TypeOK, call, results
<1>5. QED
  BY <1>3, <1>4 DEF Progress, Replies, ReleaseSlot, TypeOK, call

(***************************************************************************)
(* wg.Done is called by a worker the WaitGroup counts.                     *)
(***************************************************************************)
LEMMA DoneStep ==
  ASSUME Inv, NEW i \in Indices, Done(i)
  PROVE  Inv'
<1> USE DEF Inv
<1>1. /\ Running' = Running \ {i} /\ i \in Running
      /\ Holders' = Holders /\ Delivered' = Delivered /\ Undelivered' = Undelivered
  BY DEF Done, TypeOK, Holders, Running, Delivered, Undelivered, Settled
<1>2. Cardinality(Running') = wg - 1 /\ wg > 0
  BY <1>1, OneLess DEF Counting, Running
<1>3. TypeOK'
  BY <1>2 DEF TypeOK, Done, call, results
<1>4. Progress'
  BY <1>2 DEF Progress, Done, TypeOK, call
<1>5. Counting'
  BY <1>1, <1>2 DEF Counting, Done, call, results
<1>6. QED
  BY <1>3, <1>4, <1>5 DEF Replies, Done, TypeOK, call

(***************************************************************************)
(* The email service, a cancelled context and a stutter count nothing.     *)
(***************************************************************************)
LEMMA OutsideStep ==
  ASSUME Inv,
         \/ \E i \in Indices : EmailServiceAccepts(i)
         \/ Cancel
         \/ UNCHANGED vars
  PROVE  Inv'
<1>1. UNCHANGED <<call, next, slots, wg, worker, outcome, results>>
  BY DEF EmailServiceAccepts, Cancel, vars
<1>2. /\ Holders' = Holders /\ Running' = Running
      /\ Delivered' = Delivered /\ Undelivered' = Undelivered
  BY <1>1 DEF Holders, Running, Delivered, Undelivered, Settled
<1>3. Progress' /\ Counting'
  BY <1>1, <1>2 DEF Inv, Progress, Counting, call, results
<1>4. TypeOK' /\ Replies'
  BY <1>1 DEF Inv, TypeOK, Replies, EmailServiceAccepts, Cancel, vars, call, results
<1>5. QED
  BY <1>3, <1>4 DEF Inv

(***************************************************************************)
(* Every step keeps the invariant.                                         *)
(***************************************************************************)
LEMMA InvStep == Inv /\ [Next]_vars => Inv'
<1> SUFFICES ASSUME Inv, [Next]_vars PROVE Inv'
  OBVIOUS
<1>1. ASSUME NEW k \in 0 .. MaxRecipients, Call(k) PROVE Inv'
  BY <1>1, CallStep
<1>2. CASE Caller
  BY <1>2, SpawnStep, SkipStep, ReturnStep DEF Caller
<1>3. ASSUME NEW i \in Indices, Worker(i) PROVE Inv'
  <2>1. CASE NoDispatcher(i)
    BY <2>1, SendEmailStep DEF NoDispatcher
  <2>2. CASE Publish(i)
    BY <2>2, PublishStep
  <2>3. CASE PublishFails(i)
    BY <2>3, SendEmailStep DEF PublishFails
  <2>4. CASE ReplyOk(i)
    BY <2>4, SendEmailStep DEF ReplyOk
  <2>5. CASE RequestEnds(i)
    BY <2>5, SendEmailStep DEF RequestEnds
  <2>6. CASE Count(i)
    BY <2>6, CountStep
  <2>7. CASE ReleaseSlot(i)
    BY <2>7, ReleaseStep
  <2>8. CASE Done(i)
    BY <2>8, DoneStep
  <2>9. QED
    BY <1>3, <2>1, <2>2, <2>3, <2>4, <2>5, <2>6, <2>7, <2>8 DEF Worker
<1>4. CASE (\E i \in Indices : EmailServiceAccepts(i)) \/ Cancel \/ UNCHANGED vars
  BY <1>4, OutsideStep
<1>5. QED
  BY <1>1, <1>2, <1>3, <1>4 DEF Next

(***************************************************************************)
(* The invariant holds in every reachable state.                           *)
(***************************************************************************)
LEMMA InvHolds == Spec => []Inv
<1>1. QED
  BY InvInit, InvStep, PTL DEF Spec

-----------------------------------------------------------------------------
(***************************************************************************)
(* The variables of the fan-out keep their types: in particular neither    *)
(* the channel's nor the WaitGroup's count ever goes below zero.           *)
(***************************************************************************)
THEOREM FanOutTypeCorrect == Spec => []TypeOK
<1>1. Inv => TypeOK
  BY DEF Inv
<1>2. QED
  BY <1>1, InvHolds, PTL

(***************************************************************************)
(* At most SEND_CONCURRENCY requests of a send are waited for, whatever    *)
(* the length of the audience.                                             *)
(***************************************************************************)
THEOREM PoolBounded == Spec => []InFlightIsBounded
<1>1. Inv => InFlightIsBounded
  <2> SUFFICES ASSUME Inv PROVE InFlightIsBounded
    OBVIOUS
  <2> DEFINE Waiting == {i \in Indices : worker[i] = "waiting"}
  <2>1. Holders \in SUBSET Indices /\ Waiting \in SUBSET Holders
    BY DEF Holders
  <2>2. IsFiniteSet(Holders)
    BY <2>1, FiniteIndices
  <2>3. Cardinality(Waiting) <= Cardinality(Holders)
    BY <2>1, <2>2, FS_Subset
  <2>4. Cardinality(Waiting) \in Nat /\ Cardinality(Holders) \in Nat
    BY <2>1, FiniteIndices
  <2>5. Cardinality(Waiting) <= Concurrency
    BY <2>3, <2>4, FanOutAssumption DEF Inv, Counting
  <2>6. QED
    BY <2>5 DEF InFlightIsBounded
<1>2. QED
  BY <1>1, InvHolds, PTL

(***************************************************************************)
(* When fanOut returns, no goroutine of it is left that could still write  *)
(* the counters the caller reads.                                          *)
(***************************************************************************)
THEOREM NoStragglers == Spec => []NothingRunsAfterReturn
<1>1. Inv => NothingRunsAfterReturn
  <2> SUFFICES ASSUME Inv, phase = "returned", NEW i \in Indices
               PROVE  worker[i] \in {"none", "skipped", "finished"}
    BY DEF NothingRunsAfterReturn
  <2>1. CASE mode = "disabled"
    BY <2>1 DEF Inv, Progress, Indices
  <2>2. CASE mode # "disabled"
    <3>1. Cardinality(Running) = 0
      BY <2>2 DEF Inv, Progress, Counting
    <3>2. Running \in SUBSET Indices
      BY DEF Running
    <3>3. Running = {}
      BY <3>1, <3>2, FiniteIndices, FS_EmptySet
    <3>4. QED
      BY <3>3 DEF Running, Inv, TypeOK
  <2>3. QED
    BY <2>1, <2>2
<1>2. QED
  BY <1>1, InvHolds, PTL

(***************************************************************************)
(* What fanOut returns accounts for every recipient of the audience        *)
(* exactly once, for every audience, every pool and every moment at which  *)
(* the context may be cancelled.                                           *)
(***************************************************************************)
THEOREM ResultsCount == Spec => []ResultsAddUp
<1>1. Inv /\ NothingRunsAfterReturn => ResultsAddUp
  <2> SUFFICES ASSUME Inv, NothingRunsAfterReturn, phase = "returned"
               PROVE  /\ sent + failed = total
                      /\ failed = Cardinality(failures)
                      /\ mode # "disabled" => failures = (1 .. total) \ Succeeded
    BY DEF ResultsAddUp
  <2>1. CASE mode = "disabled"
    <3>1. Undelivered = {}
      BY <2>1, FanOutAssumption
      DEF Inv, TypeOK, Progress, Undelivered, Settled, Indices
    <3>2. QED
      BY <2>1, <3>1, FS_EmptySet DEF Inv, TypeOK, Counting
  <2>2. CASE mode # "disabled"
    <3>1. /\ Delivered \in SUBSET Indices
          /\ Undelivered \in SUBSET Indices
      BY DEF Delivered, Undelivered
    <3>2. Undelivered = (1 .. total) \ Delivered
      BY <2>2, FanOutAssumption
      DEF Inv, TypeOK, Progress, NothingRunsAfterReturn, Delivered,
          Undelivered, Settled, Indices
    <3>3. Delivered = (1 .. total) \cap Succeeded
      BY <2>2, FanOutAssumption
      DEF Inv, TypeOK, Progress, NothingRunsAfterReturn, Delivered,
          Succeeded, Settled, Indices
    <3>4. Cardinality(Delivered \cup Undelivered)
            = Cardinality(Delivered) + Cardinality(Undelivered)
      <4>1. Delivered \cap Undelivered = {}
        BY <3>2
      <4>2. /\ IsFiniteSet(Delivered) /\ Cardinality(Delivered) \in Nat
            /\ IsFiniteSet(Undelivered) /\ Cardinality(Undelivered) \in Nat
        BY <3>1, FiniteIndices
      <4>3. Cardinality(Delivered \cup Undelivered)
              = Cardinality(Delivered) + Cardinality(Undelivered)
                - Cardinality(Delivered \cap Undelivered)
        BY <4>2, FS_Union
      <4>4. Cardinality(Delivered \cap Undelivered) = 0
        BY <4>1, FS_EmptySet
      <4>5. QED
        BY <4>2, <4>3, <4>4
    <3>5. Delivered \cup Undelivered = 1 .. total
      BY <3>2, <3>3
    <3>6. Cardinality(1 .. total) = total
      BY FS_Interval DEF Inv, TypeOK
    <3>7. sent + failed = total
      BY <2>2, <3>4, <3>5, <3>6 DEF Inv, Counting
    <3>8. QED
      BY <2>2, <3>2, <3>3, <3>7 DEF Inv, Counting
  <2>3. QED
    BY <2>1, <2>2
<1>2. QED
  BY <1>1, InvHolds, NoStragglers, PTL

-----------------------------------------------------------------------------
(***************************************************************************)
(* The fan-out as the caller sees it (the refinement mapping of Promise).  *)
(***************************************************************************)
Pending == {i \in 1 .. total : ~ Settled(i)}
Reported == {i \in Indices : Settled(i) /\ outcome[i] = "ok"}
Accepted == {i \in Indices : wire[i] = "accepted"}

(***************************************************************************)
(* Steps inside the goroutines are invisible to the caller.                *)
(***************************************************************************)
LEMMA InvisibleStep ==
  ASSUME UNCHANGED <<total, Pending, Reported, Accepted>>
  PROVE  [Promise!Next]_(Promise!vars)
BY DEF Promise!vars, Pending, Reported, Accepted

(***************************************************************************)
(* Handing the audience over is Begin, skipping a recipient or counting an *)
(* error is SettleFailed, counting a success is SettleSent.                *)
(***************************************************************************)
LEMMA CallDelivers ==
  ASSUME Inv, Wired, NEW k \in 0 .. MaxRecipients, Call(k)
  PROVE  [Promise!Next]_(Promise!vars)
<1>1. total = 0 /\ next = 1 /\ \A i \in Indices : worker[i] = "none"
  BY FanOutAssumption DEF Inv, Call, TypeOK, Progress, Indices
<1>2. total' = k /\ UNCHANGED <<worker, outcome, wire>>
  BY DEF Call
<1>3. Reported' = Reported /\ Accepted' = Accepted
  BY <1>2 DEF Reported, Accepted, Settled
<1>4. 1 .. total = {} /\ 1 .. k \in SUBSET Indices
  BY <1>1, FanOutAssumption DEF Indices
<1>5. Pending' = 1 .. k
  BY <1>1, <1>2, <1>4 DEF Pending, Settled
<1>6. Promise!Begin
  BY <1>2, <1>3, <1>4, <1>5 DEF Promise!Begin, Pending, Reported, Accepted
<1>7. QED
  BY <1>6 DEF Promise!Next

(***************************************************************************)
(* A skipped recipient is settled as failed.                               *)
(***************************************************************************)
LEMMA SkipDelivers ==
  ASSUME Inv, SkipCancelled
  PROVE  [Promise!Next]_(Promise!vars)
<1>1. next \in Indices /\ next \in 1 .. total /\ worker[next] = "none"
  BY FanOutAssumption DEF Inv, SkipCancelled, TypeOK, Progress, Indices
<1>2. outcome[next] = "none" /\ UNCHANGED <<total, outcome, wire>>
  BY <1>1 DEF Inv, SkipCancelled, TypeOK, Progress, call
<1>3. next \in Pending /\ Pending' = Pending \ {next}
  BY <1>1, <1>2, FanOutAssumption
  DEF Inv, SkipCancelled, TypeOK, Pending, Settled, Indices
<1>4. Reported' = Reported /\ Accepted' = Accepted
  BY <1>1, <1>2 DEF Inv, SkipCancelled, TypeOK, Reported, Accepted, Settled
<1>5. Promise!SettleFailed(next)
  BY <1>2, <1>3, <1>4 DEF Promise!SettleFailed, Pending, Reported, Accepted
<1>6. QED
  BY <1>1, <1>5 DEF Promise!Next

(***************************************************************************)
(* A counted recipient is settled as its outcome says.                     *)
(***************************************************************************)
LEMMA CountDelivers ==
  ASSUME Inv, Wired, NEW i \in Indices, Count(i)
  PROVE  [Promise!Next]_(Promise!vars)
<1>1. worker[i] = "answered" /\ i \in 1 .. total
  BY FanOutAssumption DEF Inv, Count, TypeOK, Progress, Indices
<1>2. UNCHANGED <<total, outcome, wire>> /\ worker' = [worker EXCEPT ![i] = "counted"]
  BY DEF Count, call
<1>3. i \in Pending /\ Pending' = Pending \ {i}
  BY <1>1, <1>2, FanOutAssumption DEF Inv, TypeOK, Pending, Settled, Indices
<1>4. Accepted' = Accepted
  BY <1>2 DEF Accepted
<1>5. CASE outcome[i] = "ok"
  <2>1. Reported' = Reported \cup {i}
    BY <1>1, <1>2, <1>5 DEF Inv, TypeOK, Reported, Settled
  <2>2. i \in Accepted
    BY <1>5 DEF Inv, TypeOK, Replies, Accepted, Wired
  <2>3. Promise!SettleSent(i)
    BY <1>2, <1>3, <1>4, <2>1, <2>2
    DEF Promise!SettleSent, Pending, Reported, Accepted
  <2>4. QED
    BY <2>3 DEF Promise!Next
<1>6. CASE outcome[i] = "error"
  <2>1. Reported' = Reported
    BY <1>1, <1>2, <1>6 DEF Inv, TypeOK, Reported, Settled
  <2>2. Promise!SettleFailed(i)
    BY <1>2, <1>3, <1>4, <2>1
    DEF Promise!SettleFailed, Pending, Reported, Accepted
  <2>3. QED
    BY <2>2 DEF Promise!Next
<1>7. QED
  BY <1>5, <1>6 DEF Count

(***************************************************************************)
(* The email service accepting a message is Accept.                        *)
(***************************************************************************)
LEMMA AcceptDelivers ==
  ASSUME Inv, NEW i \in Indices, EmailServiceAccepts(i)
  PROVE  [Promise!Next]_(Promise!vars)
<1>1. i \in 1 .. total
  BY FanOutAssumption
  DEF Inv, EmailServiceAccepts, TypeOK, Progress, Replies, Indices
<1>2. UNCHANGED <<total, worker, outcome>>
  BY DEF EmailServiceAccepts, call
<1>3. Pending' = Pending /\ Reported' = Reported
  BY <1>2 DEF Pending, Reported, Settled
<1>4. i \notin Accepted /\ Accepted' = Accepted \cup {i}
  BY DEF Inv, EmailServiceAccepts, TypeOK, Accepted
<1>5. Promise!Accept(i)
  BY <1>1, <1>2, <1>3, <1>4 DEF Promise!Accept, Pending, Reported, Accepted
<1>6. QED
  BY <1>5 DEF Promise!Next

(***************************************************************************)
(* Every other step of a worker or of the caller moves a recipient between *)
(* two points that are both settled or both not.                           *)
(***************************************************************************)
LEMMA HiddenMove ==
  ASSUME Inv, NEW i \in Indices, NEW to,
         worker' = [worker EXCEPT ![i] = to],
         UNCHANGED <<total, wire>>,
         \A j \in Indices : j # i => outcome'[j] = outcome[j],
         \/ /\ worker[i] \in {"none", "spawned", "waiting"}
            /\ to \in {"spawned", "waiting", "answered"}
         \/ /\ worker[i] \in {"counted", "released"}
            /\ to \in {"released", "finished"}
            /\ UNCHANGED outcome
  PROVE  [Promise!Next]_(Promise!vars)
<1>1. Pending' = Pending
  BY FanOutAssumption DEF Inv, TypeOK, Pending, Settled, Indices
<1>2. Reported' = Reported
  BY DEF Inv, TypeOK, Reported, Settled
<1>3. QED
  BY <1>1, <1>2, InvisibleStep DEF Accepted

(***************************************************************************)
(* The caller does not see SendEmail return before it is counted.          *)
(***************************************************************************)
LEMMA SendEmailHidden ==
  ASSUME Inv, NEW i \in Indices, NEW at \in {"spawned", "waiting"}, NEW result,
         SendEmailReturns(i, at, result)
  PROVE  [Promise!Next]_(Promise!vars)
<1>1. \A j \in Indices : j # i => outcome'[j] = outcome[j]
  BY DEF Inv, TypeOK, SendEmailReturns
<1>2. QED
  BY <1>1, HiddenMove DEF SendEmailReturns, call

(***************************************************************************)
(* What a worker does is a step of Delivery or invisible.                  *)
(***************************************************************************)
LEMMA WorkerDelivers ==
  ASSUME Inv, Wired, NEW i \in Indices, Worker(i)
  PROVE  [Promise!Next]_(Promise!vars)
<1>1. CASE NoDispatcher(i) \/ PublishFails(i) \/ ReplyOk(i) \/ RequestEnds(i)
  BY <1>1, SendEmailHidden DEF NoDispatcher, PublishFails, ReplyOk, RequestEnds
<1>2. CASE Publish(i)
  <2>1. Accepted' = Accepted
    BY <1>2 DEF Inv, TypeOK, Progress, Replies, Publish, Accepted
  <2>2. UNCHANGED <<total, outcome>>
    BY <1>2 DEF Publish, call
  <2>3. Pending' = Pending /\ Reported' = Reported
    BY <1>2, <2>2, FanOutAssumption
    DEF Inv, TypeOK, Publish, Pending, Reported, Settled, Indices
  <2>4. QED
    BY <2>1, <2>2, <2>3, InvisibleStep
<1>3. CASE Count(i)
  BY <1>3, CountDelivers
<1>4. CASE ReleaseSlot(i)
  BY <1>4, HiddenMove DEF ReleaseSlot, call
<1>5. CASE Done(i)
  BY <1>5, HiddenMove DEF Done, call
<1>6. QED
  BY <1>1, <1>2, <1>3, <1>4, <1>5 DEF Worker

(***************************************************************************)
(* What the loop and the wait do is a step of Delivery or invisible.       *)
(***************************************************************************)
LEMMA CallerDelivers ==
  ASSUME Inv, Caller
  PROVE  [Promise!Next]_(Promise!vars)
<1>1. CASE Spawn
  <2>1. next \in Indices /\ worker[next] = "none"
    BY <1>1, FanOutAssumption DEF Inv, Spawn, TypeOK, Progress, Indices
  <2>2. QED
    BY <1>1, <2>1, HiddenMove DEF Spawn, call
<1>2. CASE SkipCancelled
  BY <1>2, SkipDelivers
<1>3. CASE Return
  BY <1>3, InvisibleStep DEF Return, Pending, Reported, Accepted, Settled
<1>4. QED
  BY <1>1, <1>2, <1>3 DEF Caller

(***************************************************************************)
(* With a dispatcher wired, the goroutines of fanOut implement Delivery,   *)
(* for every audience and every pool: each recipient is settled once, and  *)
(* whoever is counted as sent was accepted by the email service, though    *)
(* requests time out and the context may be cancelled.                     *)
(***************************************************************************)
THEOREM DeliveryImplemented == Spec => ImplementsDelivery
<1>1. Init => Promise!Init
  BY DEF Init, Promise!Init, Settled
<1>2. Inv /\ [Next]_vars => [Wired => Promise!Next]_(Promise!vars)
  <2> SUFFICES ASSUME Wired, Inv, [Next]_vars
               PROVE  [Promise!Next]_(Promise!vars)
    OBVIOUS
  <2>1. ASSUME NEW k \in 0 .. MaxRecipients, Call(k)
        PROVE  [Promise!Next]_(Promise!vars)
    BY <2>1, CallDelivers
  <2>2. CASE Caller
    BY <2>2, CallerDelivers
  <2>3. ASSUME NEW i \in Indices, Worker(i) \/ EmailServiceAccepts(i)
        PROVE  [Promise!Next]_(Promise!vars)
    BY <2>3, WorkerDelivers, AcceptDelivers
  <2>4. CASE Cancel \/ UNCHANGED vars
    BY <2>4, InvisibleStep
    DEF Cancel, vars, call, Pending, Reported, Accepted, Settled
  <2>5. QED
    BY <2>1, <2>2, <2>3, <2>4 DEF Next
<1>3. QED
  BY <1>1, <1>2, InvInit, InvStep, PTL DEF ImplementsDelivery, Spec
=============================================================================
