----------------------- MODULE ServiceProcess_proofs -----------------------
(***************************************************************************)
(* Proofs about ServiceProcess, for rollouts of any number of pods, any    *)
(* number of sends and any set of deployments.                             *)
(***************************************************************************)
EXTENDS ServiceProcess, FiniteSetTheorems, TLAPS

-----------------------------------------------------------------------------
(***************************************************************************)
(* A pod that accepts requests, or waits for those it accepted; the rest   *)
(* of its stop, while it is still a process; the steps after the script.   *)
(***************************************************************************)
Serving == {"listen", "serve", "drain"}
Closing == {"close", "close_sql", "close_pool", "flush"}
Applied == {"nats", "auth"} \cup Serving \cup (Closing \ {"flush"})

(***************************************************************************)
(* The pods that run the script are those that hold the lock, and they are *)
(* at most one.                                                            *)
(***************************************************************************)
LockInv ==
  /\ owner = {p \in Pods : At(p, "script")}
  /\ \A p1, p2 \in owner : p1 = p2

(***************************************************************************)
(* A pod past its configuration has one that is complete, a pod past the   *)
(* script has the tables, and a pod that serves has its connections.       *)
(***************************************************************************)
Ready(p) ==
  /\ pod[p].pc \in {"pool", "lock", "script"} \cup Applied => ~ Missing
  /\ pod[p].pc \in Applied => tables
  /\ pod[p].pc \in {"lock", "script", "nats", "auth"} \cup Serving => Up(p, "sql")
  /\ pod[p].pc \in {"auth"} \cup Serving => Up(p, "nats")
ReadyInv == \A p \in Pods : Ready(p)

(***************************************************************************)
(* A send came to a deployment that was ready, and its mails have the      *)
(* footer of the deployment; while it is in flight its pod serves, or has  *)
(* stopped waiting for it.                                                 *)
(***************************************************************************)
Awaited(p) == \/ pod[p].pc \in Serving
              \/ pod[p].late /\ pod[p].pc \in Closing
Sound(q) ==
  /\ req[q].pc # "none" => tables /\ ~ Missing
  /\ req[q].footer # "none" => req[q].pc # "none" /\ env.fanout
  /\ req[q].footer = "reply" => ~ Enabled
  /\ req[q].pc \in InFlight => Awaited(req[q].pod)
RequestInv == \A q \in Requests : Sound(q)

(***************************************************************************)
(* Until it ends, the providers that ran in a process run, none was shut   *)
(* down; a process that ended by itself shut down exactly those.           *)
(***************************************************************************)
Provided(p) ==
  \A k \in Exporters :
    /\ pod[p].pc # "exited" => pod[p].stops[k] = 0
    /\ pod[p].pc \notin Gone => (Up(p, k) <=> k \in pod[p].ran)
    /\ pod[p].pc = "exited" => /\ ~ Up(p, k)
                               /\ pod[p].stops[k] = (IF k \in pod[p].ran THEN 1 ELSE 0)
ProviderInv == \A p \in Pods : Provided(p)

Inv == /\ TypeOK /\ LockInv /\ ReadyInv
       /\ RequestInv /\ CutOnlyWhenLate /\ ProviderInv

-----------------------------------------------------------------------------
(***************************************************************************)
(* What TypeOK says of one pod, and a step that moves pod p to l and       *)
(* leaves the other pods where they are.                                   *)
(***************************************************************************)
Places == {"telemetry", "pool", "lock", "script", "nats", "auth", "listen",
           "serve", "drain", "close", "close_sql", "close_pool", "flush"} \cup Gone
Resources == Exporters \cup {"pool", "sql", "nats"}
PodType == [pc : Places, up : SUBSET Resources, ran : SUBSET Resources,
            stops : [Exporters -> 0 .. 1], late : BOOLEAN]

Moves(p, l) ==
  /\ pod' \in [Pods -> PodType]
  /\ pod'[p].pc = l
  /\ \A p2 \in Pods \ {p} : pod'[p2] = pod[p2]
Keeps(p) == /\ pod'[p].ran = pod[p].ran /\ pod'[p].stops = pod[p].stops
            /\ pod'[p].late = pod[p].late

(***************************************************************************)
(* What the operators the actions are written with do to the pods.         *)
(***************************************************************************)
LEMMA GoMoves ==
  ASSUME TypeOK, NEW p \in Pods, NEW l \in Places, Go(p, l)
  PROVE  Moves(p, l) /\ Keeps(p) /\ pod'[p].up = pod[p].up
<1>1. pod \in [Pods -> PodType]
  BY DEF TypeOK, PodType, Places, Resources
<1>2. pod' = [pod EXCEPT ![p] = [pod[p] EXCEPT !.pc = l]]
  BY DEF Go
<1>3. [pod[p] EXCEPT !.pc = l] \in PodType
  BY <1>1 DEF PodType
<1>4. QED
  BY <1>1, <1>2, <1>3 DEF Moves, Keeps, PodType

(***************************************************************************)
(* GoUp: the resources are held and have been.                             *)
(***************************************************************************)
LEMMA GoUpMoves ==
  ASSUME TypeOK, NEW p \in Pods, NEW l \in Places, NEW R \in SUBSET Resources,
         GoUp(p, R, l)
  PROVE  /\ Moves(p, l)
         /\ pod'[p].up = pod[p].up \cup R /\ pod'[p].ran = pod[p].ran \cup R
         /\ pod'[p].stops = pod[p].stops /\ pod'[p].late = pod[p].late
<1>1. pod \in [Pods -> PodType]
  BY DEF TypeOK, PodType, Places, Resources
<1> DEFINE r == [pod[p] EXCEPT !.pc = l, !.up = @ \cup R, !.ran = @ \cup R]
<1>2. pod' = [pod EXCEPT ![p] = r]
  BY <1>1 DEF GoUp, PodType
<1>3. r \in PodType
  BY <1>1 DEF PodType
<1>4. /\ r.pc = l /\ r.up = pod[p].up \cup R /\ r.ran = pod[p].ran \cup R
      /\ r.stops = pod[p].stops /\ r.late = pod[p].late
  BY <1>1 DEF PodType
<1> HIDE DEF r
<1>5. QED
  BY <1>1, <1>2, <1>3, <1>4 DEF Moves

(***************************************************************************)
(* GoDown: one resource is given up.                                       *)
(***************************************************************************)
LEMMA GoDownMoves ==
  ASSUME TypeOK, NEW p \in Pods, NEW l \in Places, NEW x, GoDown(p, x, l)
  PROVE  Moves(p, l) /\ Keeps(p) /\ pod'[p].up = pod[p].up \ {x}
<1>1. pod \in [Pods -> PodType]
  BY DEF TypeOK, PodType, Places, Resources
<1> DEFINE r == [pod[p] EXCEPT !.pc = l, !.up = @ \ {x}]
<1>2. pod' = [pod EXCEPT ![p] = r]
  BY <1>1 DEF GoDown, PodType
<1>3. r \in PodType
  BY <1>1 DEF PodType
<1>4. /\ r.pc = l /\ r.up = pod[p].up \ {x} /\ r.ran = pod[p].ran
      /\ r.stops = pod[p].stops /\ r.late = pod[p].late
  BY <1>1 DEF PodType
<1> HIDE DEF r
<1>5. QED
  BY <1>1, <1>2, <1>3, <1>4 DEF Moves, Keeps

(***************************************************************************)
(* StopProviders: from a running process, each provider that ran is shut   *)
(* down once.                                                              *)
(***************************************************************************)
LEMMA StopMoves ==
  ASSUME TypeOK, ProviderInv, NEW p \in Pods, pod[p].pc \notin Gone,
         StopProviders(p, "exited")
  PROVE  /\ Moves(p, "exited")
         /\ pod'[p].up = pod[p].up \ Exporters
         /\ pod'[p].ran = pod[p].ran /\ pod'[p].late = pod[p].late
         /\ \A k \in Exporters :
              pod'[p].stops[k] = (IF k \in pod[p].ran THEN 1 ELSE 0)
<1>1. pod \in [Pods -> PodType]
  BY DEF TypeOK, PodType, Places, Resources
<1> DEFINE st == [k \in Exporters |-> pod[p].stops[k] + (IF Up(p, k) THEN 1 ELSE 0)]
           r == [pod[p] EXCEPT !.pc = "exited", !.up = @ \ Exporters, !.stops = st]
<1>2. \A k \in Exporters : st[k] = (IF k \in pod[p].ran THEN 1 ELSE 0)
  BY DEF ProviderInv, Provided, Gone
<1>3. st \in [Exporters -> 0 .. 1]
  BY <1>2
<1>4. pod' = [pod EXCEPT ![p] = r]
  BY <1>1 DEF StopProviders, PodType
<1> HIDE DEF st
<1>5. r \in PodType
  BY <1>1, <1>3 DEF PodType, Places, Gone
<1>6. /\ r.pc = "exited" /\ r.up = pod[p].up \ Exporters /\ r.ran = pod[p].ran
      /\ r.stops = st /\ r.late = pod[p].late
  BY <1>1 DEF PodType
<1> HIDE DEF r
<1>7. QED
  BY <1>1, <1>2, <1>4, <1>5, <1>6 DEF Moves

(***************************************************************************)
(* A kill takes the resources and nothing else.                            *)
(***************************************************************************)
LEMMA KilledMoves ==
  ASSUME TypeOK, NEW p \in Pods, Killed(p)
  PROVE  Moves(p, "killed") /\ Keeps(p) /\ pod'[p].up = {}
<1>1. pod \in [Pods -> PodType]
  BY DEF TypeOK, PodType, Places, Resources
<1> DEFINE r == [pod[p] EXCEPT !.pc = "killed", !.up = {}]
<1>2. pod' = [pod EXCEPT ![p] = r]
  BY <1>1 DEF Killed, PodType
<1>3. r \in PodType
  BY <1>1 DEF PodType, Places, Gone
<1>4. /\ r.pc = "killed" /\ r.up = {} /\ r.ran = pod[p].ran
      /\ r.stops = pod[p].stops /\ r.late = pod[p].late
  BY <1>1 DEF PodType
<1> HIDE DEF r
<1>5. QED
  BY <1>1, <1>2, <1>3, <1>4 DEF Moves, Keeps

(***************************************************************************)
(* The grace is over: the pod is late and closes.                          *)
(***************************************************************************)
LEMMA GraceMoves ==
  ASSUME TypeOK, NEW p \in Pods, GraceExpires(p)
  PROVE  /\ Moves(p, "close") /\ pod'[p].late
         /\ pod'[p].up = pod[p].up /\ pod'[p].ran = pod[p].ran
         /\ pod'[p].stops = pod[p].stops
<1>1. pod \in [Pods -> PodType]
  BY DEF TypeOK, PodType, Places, Resources
<1> DEFINE r == [pod[p] EXCEPT !.pc = "close", !.late = TRUE]
<1>2. pod' = [pod EXCEPT ![p] = r]
  BY <1>1 DEF GraceExpires, PodType
<1>3. r \in PodType
  BY <1>1 DEF PodType, Places
<1>4. /\ r.pc = "close" /\ r.up = pod[p].up /\ r.ran = pod[p].ran
      /\ r.stops = pod[p].stops /\ r.late = TRUE
  BY <1>1 DEF PodType
<1> HIDE DEF r
<1>5. QED
  BY <1>1, <1>2, <1>3, <1>4 DEF Moves

-----------------------------------------------------------------------------
(***************************************************************************)
(* What TypeOK says of one send.                                           *)
(***************************************************************************)
RequestType == [pc : InFlight \cup {"none", "answered", "cut", "lost"},
                pod : Pods, footer : {"none", "link", "reply"}]

(***************************************************************************)
(* Lose: a send in flight is lost with its pod, the others are as before.  *)
(***************************************************************************)
LEMMA LoseMoves ==
  ASSUME TypeOK, NEW p \in Pods, Lose(p)
  PROVE  /\ req' \in [Requests -> RequestType]
         /\ \A q \in Requests :
              /\ req'[q].pod = req[q].pod /\ req'[q].footer = req[q].footer
              /\ req'[q].pc = (IF req[q].pod = p /\ req[q].pc \in InFlight
                               THEN "lost" ELSE req[q].pc)
<1>1. req \in [Requests -> RequestType]
  BY DEF TypeOK, RequestType
<1> DEFINE r(q) == [req[q] EXCEPT !.pc = "lost"]
<1>2. \A q \in Requests : /\ r(q) \in RequestType /\ r(q).pc = "lost"
                          /\ r(q).pod = req[q].pod /\ r(q).footer = req[q].footer
  BY <1>1 DEF RequestType
<1>3. req' = [q \in Requests |-> IF q \in Held(p, InFlight) THEN r(q) ELSE req[q]]
  BY DEF Lose
<1> HIDE DEF r
<1>4. QED
  BY <1>1, <1>2, <1>3 DEF Held

-----------------------------------------------------------------------------
(***************************************************************************)
(* The steps of a pod other than a request's arrival.                      *)
(***************************************************************************)
PodStep(p) == Startup(p) \/ Teardown(p) \/ Quit(p) \/ ServerError(p) \/ Killed(p)

(***************************************************************************)
(* No other pod moves, and nothing that was set is unset.                  *)
(***************************************************************************)
LEMMA PodFrame ==
  ASSUME Inv, NEW p \in Pods, PodStep(p)
  PROVE  /\ \E l \in Places : Moves(p, l)
         /\ pod[p].pc \notin Gone
         /\ env' = env /\ owner' \subseteq Pods /\ tables' \in BOOLEAN
         /\ tables => tables'
         /\ pod[p].late => pod'[p].late
         /\ req' = req \/ Lose(p)
<1> USE DEF Inv, Places, Gone, Resources, At, Keeps
<1>0. env \in Environments /\ owner \subseteq Pods /\ tables \in BOOLEAN
  BY DEF TypeOK
<1>1. CASE \E k \in Exporters : StartProvider(p, k)
  BY <1>0, <1>1, GoUpMoves, StopMoves DEF StartProvider, HandleErr
<1>2. CASE NewResourceFails(p)
  BY <1>0, <1>2, StopMoves DEF NewResourceFails, HandleErr
<1>3. CASE LoadConfig(p)
  BY <1>0, <1>3, GoMoves DEF LoadConfig
<1>4. CASE OpenPool(p)
  BY <1>0, <1>4, GoMoves, GoUpMoves DEF OpenPool
<1>5. CASE AdvisoryLock(p)
  BY <1>0, <1>5, GoMoves DEF AdvisoryLock
<1>6. CASE LockTimeout(p)
  BY <1>0, <1>6, GoMoves DEF LockTimeout
<1>7. CASE ApplyScript(p)
  BY <1>0, <1>7, GoMoves DEF ApplyScript
<1>8. CASE ConnectNATS(p)
  BY <1>0, <1>8, GoMoves, GoUpMoves DEF ConnectNATS
<1>9. CASE NewAuthValidator(p)
  BY <1>0, <1>9, GoMoves DEF NewAuthValidator
<1>10. CASE NotifySignals(p)
  BY <1>0, <1>10, GoMoves DEF NotifySignals
<1>11. CASE Drained(p)
  BY <1>0, <1>11, GoMoves DEF Drained
<1>12. CASE GraceExpires(p)
  BY <1>0, <1>12, GraceMoves DEF GraceExpires
<1>13. CASE CloseNATS(p)
  BY <1>0, <1>13, GoDownMoves DEF CloseNATS
<1>14. CASE CloseSQL(p)
  BY <1>0, <1>14, GoDownMoves DEF CloseSQL
<1>15. CASE ClosePool(p)
  BY <1>0, <1>15, GoDownMoves DEF ClosePool
<1>16. CASE Flush(p)
  BY <1>0, <1>16, StopMoves DEF Flush
<1>17. CASE Quit(p)
  BY <1>0, <1>17, GoMoves DEF Quit
<1>18. CASE ServerError(p)
  BY <1>0, <1>18, GoMoves DEF ServerError
<1>19. CASE Killed(p)
  BY <1>0, <1>19, KilledMoves DEF Killed
<1>20. QED
  BY <1>1, <1>2, <1>3, <1>4, <1>5, <1>6, <1>7, <1>8, <1>9, <1>10,
     <1>11, <1>12, <1>13, <1>14, <1>15, <1>16, <1>17, <1>18, <1>19
  DEF PodStep, Startup, Teardown

(***************************************************************************)
(* Types are kept by the steps of a pod.                                   *)
(***************************************************************************)
LEMMA TypePod ==
  ASSUME Inv, NEW p \in Pods, PodStep(p)
  PROVE  TypeOK'
BY PodFrame, LoseMoves
   DEF Inv, TypeOK, Moves, PodType, RequestType, Places, Resources

(***************************************************************************)
(* The lock is taken when nobody has it, and given up with the script or   *)
(* the process.                                                            *)
(***************************************************************************)
LEMMA LockPod ==
  ASSUME Inv, NEW p \in Pods, PodStep(p)
  PROVE  LockInv'
<1> USE DEF Inv, LockInv, At, Moves, Places, Gone, Resources
<1>1. CASE \E k \in Exporters : StartProvider(p, k)
  BY <1>1, GoUpMoves, StopMoves DEF StartProvider, HandleErr
<1>2. CASE NewResourceFails(p)
  BY <1>2, StopMoves DEF NewResourceFails, HandleErr
<1>3. CASE LoadConfig(p)
  BY <1>3, GoMoves DEF LoadConfig
<1>4. CASE OpenPool(p)
  BY <1>4, GoMoves, GoUpMoves DEF OpenPool
<1>5. CASE AdvisoryLock(p)
  BY <1>5, GoMoves DEF AdvisoryLock
<1>6. CASE LockTimeout(p)
  BY <1>6, GoMoves DEF LockTimeout
<1>7. CASE ApplyScript(p)
  BY <1>7, GoMoves DEF ApplyScript
<1>8. CASE ConnectNATS(p)
  BY <1>8, GoMoves, GoUpMoves DEF ConnectNATS
<1>9. CASE NewAuthValidator(p)
  BY <1>9, GoMoves DEF NewAuthValidator
<1>10. CASE NotifySignals(p)
  BY <1>10, GoMoves DEF NotifySignals
<1>11. CASE Drained(p)
  BY <1>11, GoMoves DEF Drained
<1>12. CASE GraceExpires(p)
  BY <1>12, GraceMoves DEF GraceExpires
<1>13. CASE CloseNATS(p)
  BY <1>13, GoDownMoves DEF CloseNATS
<1>14. CASE CloseSQL(p)
  BY <1>14, GoDownMoves DEF CloseSQL
<1>15. CASE ClosePool(p)
  BY <1>15, GoDownMoves DEF ClosePool
<1>16. CASE Flush(p)
  BY <1>16, StopMoves DEF Flush
<1>17. CASE Quit(p)
  BY <1>17, GoMoves DEF Quit
<1>18. CASE ServerError(p)
  BY <1>18, GoMoves DEF ServerError
<1>19. CASE Killed(p)
  BY <1>19, KilledMoves DEF Killed
<1>20. QED
  BY <1>1, <1>2, <1>3, <1>4, <1>5, <1>6, <1>7, <1>8, <1>9, <1>10,
     <1>11, <1>12, <1>13, <1>14, <1>15, <1>16, <1>17, <1>18, <1>19
  DEF PodStep, Startup, Teardown

(***************************************************************************)
(* A pod goes on only with what the next step takes for granted.           *)
(***************************************************************************)
LEMMA ReadyPod ==
  ASSUME Inv, NEW p \in Pods, PodStep(p)
  PROVE  ReadyInv'
<1>0. Ready(p)
  BY DEF Inv, ReadyInv
<1>a. ASSUME NEW p2 \in Pods \ {p}  PROVE Ready(p2)'
  BY <1>a, PodFrame DEF Inv, ReadyInv, Ready, Missing, Up, Moves
<1>b. Ready(p)'
  <2> USE DEF Inv, Ready, Missing, At, Up, Moves, Applied, Serving, Closing,
              Places, Gone, Resources, Exporters
  <2>1. CASE \E k \in Exporters : StartProvider(p, k)
    <3>1. pod'[p].pc \in {"telemetry", "exited"}
      BY <2>1, GoUpMoves, StopMoves DEF StartProvider, HandleErr
    <3>2. QED
      BY <3>1
  <2>2. CASE NewResourceFails(p)
    BY <1>0, <2>2, StopMoves DEF NewResourceFails, HandleErr
  <2>3. CASE LoadConfig(p)
    <3>1. env' = env /\ pod'[p].pc = IF Missing THEN "flush" ELSE "pool"
      BY <2>3, GoMoves DEF LoadConfig
    <3>2. QED
      BY <3>1
  <2>4. CASE OpenPool(p)
    <3>0. env' = env /\ ~ Missing
      BY <1>0, <2>4 DEF OpenPool
    <3>1. CASE GoUp(p, {"pool", "sql"}, "lock")
      <4>1. pod'[p].pc = "lock" /\ "sql" \in pod'[p].up
        BY <3>1, GoUpMoves
      <4>2. QED
        BY <3>0, <4>1
    <3>2. CASE Go(p, "flush")
      <4>1. pod'[p].pc = "flush"
        BY <3>2, GoMoves
      <4>2. QED
        BY <4>1
    <3>3. QED
      BY <2>4, <3>1, <3>2 DEF OpenPool
  <2>5. CASE AdvisoryLock(p)
    <3>1. /\ env' = env /\ ~ Missing
          /\ pod'[p].pc = "script" /\ "sql" \in pod'[p].up
      BY <1>0, <2>5, GoMoves DEF AdvisoryLock
    <3>2. QED
      BY <3>1
  <2>6. CASE LockTimeout(p)
    BY <1>0, <2>6, GoMoves DEF LockTimeout
  <2>7. CASE ApplyScript(p)
    BY <1>0, <2>7, GoMoves DEF ApplyScript
  <2>8. CASE ConnectNATS(p)
    <3>0. env' = env /\ ~ Missing /\ tables' /\ Up(p, "sql")
      BY <1>0, <2>8 DEF ConnectNATS
    <3>1. CASE GoUp(p, {"nats"}, "auth")
      <4>1. pod'[p].pc = "auth" /\ pod'[p].up = pod[p].up \cup {"nats"}
        BY <3>1, GoUpMoves
      <4>2. QED
        BY <3>0, <4>1
    <3>2. CASE Go(p, "flush")
      <4>1. pod'[p].pc = "flush"
        BY <3>2, GoMoves
      <4>2. QED
        BY <4>1
    <3>3. QED
      BY <2>8, <3>1, <3>2 DEF ConnectNATS
  <2>9. CASE NewAuthValidator(p)
    BY <1>0, <2>9, GoMoves DEF NewAuthValidator
  <2>10. CASE NotifySignals(p)
    BY <1>0, <2>10, GoMoves DEF NotifySignals
  <2>11. CASE Drained(p)
    BY <1>0, <2>11, GoMoves DEF Drained
  <2>12. CASE GraceExpires(p)
    BY <1>0, <2>12, GraceMoves DEF GraceExpires
  <2>13. CASE CloseNATS(p)
    BY <1>0, <2>13, GoDownMoves DEF CloseNATS
  <2>14. CASE CloseSQL(p)
    <3>1. env' = env /\ ~ Missing /\ tables' /\ pod'[p].pc = "close_pool"
      BY <1>0, <2>14, GoDownMoves DEF CloseSQL
    <3>2. QED
      BY <3>1
  <2>15. CASE ClosePool(p)
    BY <1>0, <2>15, GoDownMoves DEF ClosePool
  <2>16. CASE Flush(p)
    BY <1>0, <2>16, StopMoves DEF Flush
  <2>17. CASE Quit(p)
    BY <1>0, <2>17, GoMoves DEF Quit
  <2>18. CASE ServerError(p)
    BY <1>0, <2>18, GoMoves DEF ServerError
  <2>19. CASE Killed(p)
    BY <1>0, <2>19, KilledMoves DEF Killed
  <2>20. QED
    BY <2>1, <2>2, <2>3, <2>4, <2>5, <2>6, <2>7, <2>8, <2>9, <2>10,
       <2>11, <2>12, <2>13, <2>14, <2>15, <2>16, <2>17, <2>18, <2>19
    DEF PodStep, Startup, Teardown
<1>c. QED
  BY <1>a, <1>b DEF ReadyInv

(***************************************************************************)
(* Providers are started one by one, and stopped with the process.         *)
(***************************************************************************)
LEMMA ProviderPod ==
  ASSUME Inv, NEW p \in Pods, PodStep(p)
  PROVE  ProviderInv'
<1>0. Provided(p)
  BY DEF Inv, ProviderInv
<1>a. ASSUME NEW p2 \in Pods \ {p}  PROVE Provided(p2)'
  BY <1>a, PodFrame DEF Inv, ProviderInv, Provided, Up, Moves
<1>b. Provided(p)'
  <2> USE DEF Inv, Provided, At, Up, Moves, Keeps, Places, Gone, Resources, Exporters
  <2>1. CASE \E k \in Exporters : StartProvider(p, k)
    BY <1>0, <2>1, GoUpMoves, StopMoves DEF StartProvider, HandleErr
  <2>2. CASE NewResourceFails(p)
    BY <1>0, <2>2, StopMoves DEF NewResourceFails, HandleErr
  <2>3. CASE LoadConfig(p)
    BY <1>0, <2>3, GoMoves DEF LoadConfig
  <2>4. CASE OpenPool(p)
    BY <1>0, <2>4, GoMoves, GoUpMoves DEF OpenPool
  <2>5. CASE AdvisoryLock(p)
    BY <1>0, <2>5, GoMoves DEF AdvisoryLock
  <2>6. CASE LockTimeout(p)
    BY <1>0, <2>6, GoMoves DEF LockTimeout
  <2>7. CASE ApplyScript(p)
    BY <1>0, <2>7, GoMoves DEF ApplyScript
  <2>8. CASE ConnectNATS(p)
    BY <1>0, <2>8, GoMoves, GoUpMoves DEF ConnectNATS
  <2>9. CASE NewAuthValidator(p)
    BY <1>0, <2>9, GoMoves DEF NewAuthValidator
  <2>10. CASE NotifySignals(p)
    BY <1>0, <2>10, GoMoves DEF NotifySignals
  <2>11. CASE Drained(p)
    BY <1>0, <2>11, GoMoves DEF Drained
  <2>12. CASE GraceExpires(p)
    BY <1>0, <2>12, GraceMoves DEF GraceExpires
  <2>13. CASE CloseNATS(p)
    BY <1>0, <2>13, GoDownMoves DEF CloseNATS
  <2>14. CASE CloseSQL(p)
    BY <1>0, <2>14, GoDownMoves DEF CloseSQL
  <2>15. CASE ClosePool(p)
    BY <1>0, <2>15, GoDownMoves DEF ClosePool
  <2>16. CASE Flush(p)
    BY <1>0, <2>16, StopMoves DEF Flush
  <2>17. CASE Quit(p)
    BY <1>0, <2>17, GoMoves DEF Quit
  <2>18. CASE ServerError(p)
    BY <1>0, <2>18, GoMoves DEF ServerError
  <2>19. CASE Killed(p)
    BY <1>0, <2>19, KilledMoves DEF Killed
  <2>20. QED
    BY <2>1, <2>2, <2>3, <2>4, <2>5, <2>6, <2>7, <2>8, <2>9, <2>10,
       <2>11, <2>12, <2>13, <2>14, <2>15, <2>16, <2>17, <2>18, <2>19
    DEF PodStep, Startup, Teardown
<1>c. QED
  BY <1>a, <1>b DEF ProviderInv

(***************************************************************************)
(* A pod moves on from a send in flight only when its grace is over, and   *)
(* with the end of the process that send is lost.                          *)
(***************************************************************************)
LEMMA InFlightPod ==
  ASSUME Inv, NEW p \in Pods, PodStep(p),
         NEW q \in Requests, req[q].pod = p, req[q].pc \in InFlight
  PROVE  \/ req' = req /\ Awaited(p)'
         \/ Lose(p) /\ (pod'[p].late \/ At(p, "killed")')
<1>0. Awaited(p)
  BY DEF Inv, RequestInv, Sound
<1>00. q \in Held(p, InFlight)
  BY DEF Held
<1> USE DEF Inv, Awaited, At, Moves, Keeps, Serving, Closing, Places, Gone, Resources
<1>1. CASE \E k \in Exporters : StartProvider(p, k)
  BY <1>0, <1>00, <1>1, GoUpMoves, StopMoves DEF StartProvider, HandleErr
<1>2. CASE NewResourceFails(p)
  BY <1>0, <1>00, <1>2, StopMoves DEF NewResourceFails, HandleErr
<1>3. CASE LoadConfig(p)
  BY <1>0, <1>00, <1>3, GoMoves DEF LoadConfig
<1>4. CASE OpenPool(p)
  BY <1>0, <1>00, <1>4, GoMoves, GoUpMoves DEF OpenPool
<1>5. CASE AdvisoryLock(p)
  BY <1>0, <1>00, <1>5, GoMoves DEF AdvisoryLock
<1>6. CASE LockTimeout(p)
  BY <1>0, <1>00, <1>6, GoMoves DEF LockTimeout
<1>7. CASE ApplyScript(p)
  BY <1>0, <1>00, <1>7, GoMoves DEF ApplyScript
<1>8. CASE ConnectNATS(p)
  BY <1>0, <1>00, <1>8, GoMoves, GoUpMoves DEF ConnectNATS
<1>9. CASE NewAuthValidator(p)
  BY <1>0, <1>00, <1>9, GoMoves DEF NewAuthValidator
<1>10. CASE NotifySignals(p)
  BY <1>0, <1>00, <1>10, GoMoves DEF NotifySignals
<1>11. CASE Drained(p)
  BY <1>0, <1>00, <1>11, GoMoves DEF Drained
<1>12. CASE GraceExpires(p)
  BY <1>0, <1>00, <1>12, GraceMoves DEF GraceExpires
<1>13. CASE CloseNATS(p)
  BY <1>0, <1>00, <1>13, GoDownMoves DEF CloseNATS
<1>14. CASE CloseSQL(p)
  BY <1>0, <1>00, <1>14, GoDownMoves DEF CloseSQL
<1>15. CASE ClosePool(p)
  BY <1>0, <1>00, <1>15, GoDownMoves DEF ClosePool
<1>16. CASE Flush(p)
  BY <1>0, <1>00, <1>16, StopMoves DEF Flush
<1>17. CASE Quit(p)
  BY <1>0, <1>00, <1>17, GoMoves DEF Quit
<1>18. CASE ServerError(p)
  BY <1>0, <1>00, <1>18, GoMoves DEF ServerError
<1>19. CASE Killed(p)
  BY <1>0, <1>00, <1>19, KilledMoves DEF Killed
<1>20. QED
  BY <1>1, <1>2, <1>3, <1>4, <1>5, <1>6, <1>7, <1>8, <1>9, <1>10,
     <1>11, <1>12, <1>13, <1>14, <1>15, <1>16, <1>17, <1>18, <1>19
  DEF PodStep, Startup, Teardown

(***************************************************************************)
(* The sends of other pods are as before; those of this pod are finished,  *)
(* awaited, or lost late.                                                  *)
(***************************************************************************)
LEMMA RequestPod ==
  ASSUME Inv, NEW p \in Pods, PodStep(p)
  PROVE  RequestInv' /\ CutOnlyWhenLate'
<1> DEFINE Cut(q) == req[q].pc \in {"cut", "lost"} =>
                       pod[req[q].pod].late \/ At(req[q].pod, "killed")
<1> SUFFICES ASSUME NEW q \in Requests  PROVE Sound(q)' /\ Cut(q)'
  BY DEF RequestInv, CutOnlyWhenLate
<1>1. Sound(q) /\ Cut(q) /\ req[q].pod \in Pods
  BY DEF Inv, RequestInv, CutOnlyWhenLate, TypeOK
<1>2. CASE req[q].pod # p
  <2>1. /\ req'[q].pc = req[q].pc /\ req'[q].pod = req[q].pod
        /\ req'[q].footer = req[q].footer
    BY <1>2, PodFrame, LoseMoves DEF Inv
  <2>2. pod'[req[q].pod] = pod[req[q].pod]
    BY <1>1, <1>2, PodFrame DEF Moves
  <2>3. QED
    BY <1>1, <2>1, <2>2, PodFrame DEF Sound, Awaited, At, Missing, Enabled
<1>3. CASE req[q].pod = p /\ req[q].pc \notin InFlight
  <2>1. /\ req'[q].pc = req[q].pc /\ req'[q].pod = req[q].pod
        /\ req'[q].footer = req[q].footer
    BY <1>3, PodFrame, LoseMoves DEF Inv
  <2>2. Cut(q)'
    BY <1>1, <1>3, <2>1, PodFrame DEF At, Gone
  <2>3. Sound(q)'
    BY <1>1, <1>3, <2>1, PodFrame DEF Sound, Missing, Enabled
  <2>4. QED
    BY <2>2, <2>3
<1>4. CASE req[q].pod = p /\ req[q].pc \in InFlight
  <2>1. req'[q].pod = req[q].pod /\ req'[q].footer = req[q].footer
    BY PodFrame, LoseMoves DEF Inv
  <2>2. \/ req'[q].pc = req[q].pc /\ Awaited(p)'
        \/ req'[q].pc = "lost" /\ (pod'[p].late \/ At(p, "killed")')
    BY <1>4, InFlightPod, LoseMoves DEF Inv
  <2>3. Cut(q)'
    BY <1>4, <2>1, <2>2 DEF At, InFlight, Statement
  <2>4. Sound(q)'
    BY <1>1, <1>4, <2>1, <2>2, PodFrame DEF Sound, Missing, Enabled, InFlight, Statement
  <2>5. QED
    BY <2>3, <2>4
<1>5. QED
  BY <1>2, <1>3, <1>4

-----------------------------------------------------------------------------
(***************************************************************************)
(* A send moves to l; what its mails say of opting out only as they leave. *)
(***************************************************************************)
SendMoves(q, l) ==
  /\ req' \in [Requests -> RequestType]
  /\ req'[q].pc = l
  /\ \A q2 \in Requests \ {q} : req'[q2] = req[q2]
  /\ UNCHANGED <<env, pod, owner, tables>>

(***************************************************************************)
(* To: only the place of the send changes.                                 *)
(***************************************************************************)
LEMMA ToMoves ==
  ASSUME TypeOK, NEW q \in Requests, NEW l \in InFlight \cup {"answered", "cut"},
         To(q, l), UNCHANGED <<env, pod, owner, tables>>
  PROVE  /\ SendMoves(q, l)
         /\ req'[q].pod = req[q].pod /\ req'[q].footer = req[q].footer
<1>1. req \in [Requests -> RequestType]
  BY DEF TypeOK, RequestType
<1> DEFINE r == [req[q] EXCEPT !.pc = l]
<1>2. req' = [req EXCEPT ![q] = r]
  BY DEF To
<1>3. /\ r \in RequestType /\ r.pc = l
      /\ r.pod = req[q].pod /\ r.footer = req[q].footer
  BY <1>1 DEF RequestType
<1> HIDE DEF r
<1>4. QED
  BY <1>1, <1>2, <1>3 DEF SendMoves

(***************************************************************************)
(* A send starts on the pod it reached.                                    *)
(***************************************************************************)
LEMMA ArriveMoves ==
  ASSUME TypeOK, NEW p \in Pods, NEW q \in Requests, Arrive(q, p)
  PROVE  /\ SendMoves(q, "reading")
         /\ req'[q].pod = p /\ req'[q].footer = req[q].footer
<1>1. req \in [Requests -> RequestType]
  BY DEF TypeOK, RequestType
<1> DEFINE r == [req[q] EXCEPT !.pc = "reading", !.pod = p]
<1>2. req' = [req EXCEPT ![q] = r]
  BY <1>1 DEF Arrive, RequestType
<1>3. /\ r \in RequestType /\ r.pc = "reading"
      /\ r.pod = p /\ r.footer = req[q].footer
  BY <1>1 DEF RequestType, InFlight, Statement
<1> HIDE DEF r
<1>4. QED
  BY <1>1, <1>2, <1>3 DEF SendMoves, Arrive

(***************************************************************************)
(* Mails go out only with fan-out on, and are cut only without NATS.       *)
(***************************************************************************)
LEMMA MailMoves ==
  ASSUME TypeOK, NEW q \in Requests, Mail(q)
  PROVE  /\ req'[q].pod = req[q].pod
         /\ \/ req'[q].footer = req[q].footer
            \/ env.fanout /\ req'[q].footer \in {"none", Footer}
         /\ \/ SendMoves(q, "mailed")
            \/ SendMoves(q, "cut") /\ ~ Up(req[q].pod, "nats")
<1>1. req \in [Requests -> RequestType]
  BY DEF TypeOK, RequestType
<1>2. CASE ~ env.fanout /\ To(q, "mailed")
  BY <1>2, ToMoves DEF Mail, InFlight
<1>3. ASSUME env.fanout, NEW l \in {"mailed", "cut"}, NEW f \in {"none", Footer},
             l = "cut" => ~ Up(req[q].pod, "nats"),
             req' = [req EXCEPT ![q].pc = l, ![q].footer = f]
      PROVE  /\ req'[q].pod = req[q].pod /\ SendMoves(q, l)
             /\ req'[q].footer = f
  <2>0. f \in {"none", "link", "reply"}
    BY <1>3 DEF Footer
  <2> DEFINE r == [req[q] EXCEPT !.pc = l, !.footer = f]
  <2>1. req' = [req EXCEPT ![q] = r]
    BY <1>1, <1>3 DEF RequestType
  <2>2. r \in RequestType /\ r.pc = l /\ r.pod = req[q].pod /\ r.footer = f
    BY <1>1, <1>3, <2>0 DEF RequestType, InFlight
  <2> HIDE DEF r
  <2>3. QED
    BY <1>1, <2>1, <2>2 DEF SendMoves, Mail
<1>4. QED
  BY <1>2, <1>3 DEF Mail

(***************************************************************************)
(* The steps of a send.                                                    *)
(***************************************************************************)
SendStep(q) == \/ \E p \in Pods : Arrive(q, p)
               \/ StatementDone(q) \/ Mail(q) \/ MarkSent(q)

(***************************************************************************)
(* Nothing a send does moves a pod.                                        *)
(***************************************************************************)
LEMMA SendKeepsPods ==
  ASSUME Inv, NEW q \in Requests, SendStep(q)
  PROVE  /\ TypeOK' /\ LockInv' /\ ReadyInv' /\ ProviderInv'
         /\ \E l \in InFlight \cup {"answered", "cut"} : SendMoves(q, l)
<1> USE DEF Inv
<1>1. \E l \in InFlight \cup {"answered", "cut"} : SendMoves(q, l)
  <2>1. CASE \E p \in Pods : Arrive(q, p)
    BY <2>1, ArriveMoves DEF InFlight, Statement
  <2>2. CASE StatementDone(q)
    BY <2>2, ToMoves DEF StatementDone, ReadDone, MarkDone, InFlight, Statement
  <2>3. CASE Mail(q)
    BY <2>3, MailMoves DEF InFlight
  <2>4. CASE MarkSent(q)
    BY <2>4, ToMoves DEF MarkSent, InFlight, Statement
  <2>5. QED
    BY <2>1, <2>2, <2>3, <2>4 DEF SendStep
<1>2. TypeOK'
  BY <1>1 DEF SendMoves, TypeOK, RequestType
<1>3. UNCHANGED <<env, pod, owner, tables>>
  BY <1>1 DEF SendMoves
<1>4. LockInv' /\ ReadyInv' /\ ProviderInv'
  BY <1>3 DEF LockInv, ReadyInv, Ready, ProviderInv, Provided, Missing, At, Up
<1>5. QED
  BY <1>1, <1>2, <1>4

(***************************************************************************)
(* A send arrives where a pod serves, and it is cut only on a pod that has *)
(* closed a connection, which is one that no longer waits for it.          *)
(***************************************************************************)
LEMMA SendRequests ==
  ASSUME Inv, NEW q \in Requests, SendStep(q)
  PROVE  RequestInv' /\ CutOnlyWhenLate'
<1> DEFINE Cut(r) == req[r].pc \in {"cut", "lost"} =>
                       pod[req[r].pod].late \/ At(req[r].pod, "killed")
<1>1. UNCHANGED <<env, pod, owner, tables>> /\ \A r \in Requests \ {q} : req'[r] = req[r]
  BY SendKeepsPods DEF SendMoves
<1>2. ASSUME NEW r \in Requests \ {q}  PROVE Sound(r)' /\ Cut(r)'
  BY <1>1, <1>2 DEF Inv, RequestInv, CutOnlyWhenLate, Sound, Awaited, Missing, Enabled, At
<1>3. Sound(q) /\ Cut(q) /\ req[q].pod \in Pods
  BY DEF Inv, RequestInv, CutOnlyWhenLate, TypeOK
<1>4. \A p \in Pods : Ready(p)
  BY DEF Inv, ReadyInv
<1>5. Sound(q)' /\ Cut(q)'
  <2>1. ASSUME NEW p \in Pods, Arrive(q, p)  PROVE Sound(q)' /\ Cut(q)'
    <3>1. /\ req'[q].pc = "reading" /\ req'[q].pod = p
          /\ req'[q].footer = req[q].footer /\ req[q].footer = "none"
      BY <1>3, <2>1, ArriveMoves DEF Arrive, SendMoves, Sound, Inv
    <3>2. tables /\ ~ Missing /\ Awaited(p)
      BY <1>4, <2>1 DEF Arrive, Ready, Awaited, Applied, Serving
    <3>3. QED
      BY <1>1, <1>3, <3>1, <3>2 DEF Sound, Awaited, Missing, Enabled
  <2>2. CASE StatementDone(q)
    <3>1. /\ req'[q].pc \in {"mailing", "answered"} /\ req[q].pc \in InFlight
          /\ req'[q].pod = req[q].pod /\ req'[q].footer = req[q].footer
      BY <2>2, ToMoves
         DEF StatementDone, ReadDone, MarkDone, SendMoves, InFlight, Statement, Inv
    <3>2. QED
      BY <1>1, <1>3, <3>1 DEF Sound, Awaited, Missing, Enabled, InFlight, Statement
  <2>3. CASE Mail(q)
    <3>1. /\ req'[q].pod = req[q].pod /\ req[q].pc \in InFlight
          /\ \/ req'[q].footer = req[q].footer
             \/ env.fanout /\ req'[q].footer \in {"none", Footer}
          /\ \/ req'[q].pc = "mailed"
             \/ req'[q].pc = "cut" /\ ~ Up(req[q].pod, "nats")
      BY <2>3, MailMoves DEF Mail, SendMoves, InFlight, Inv
    <3>2. ~ Up(req[q].pod, "nats") => pod[req[q].pod].late
      BY <1>3, <1>4, <3>1 DEF Sound, Awaited, Ready, Serving
    <3>3. /\ req'[q].footer # "none" => env.fanout
          /\ req'[q].footer = "reply" => ~ Enabled
      BY <1>3, <3>1 DEF Sound, Footer
    <3>4. QED
      BY <1>1, <1>3, <3>1, <3>2, <3>3
         DEF Sound, Awaited, Missing, Enabled, InFlight, Statement
  <2>4. CASE MarkSent(q)
    <3>1. /\ req'[q].pod = req[q].pod /\ req'[q].footer = req[q].footer
          /\ req[q].pc \in InFlight
          /\ \/ req'[q].pc = "marking"
             \/ req'[q].pc = "cut" /\ ~ Up(req[q].pod, "sql")
      BY <2>4, ToMoves DEF MarkSent, SendMoves, InFlight, Statement, Inv
    <3>2. ~ Up(req[q].pod, "sql") => pod[req[q].pod].late
      BY <1>3, <1>4, <3>1 DEF Sound, Awaited, Ready, Serving
    <3>3. QED
      BY <1>1, <1>3, <3>1, <3>2 DEF Sound, Awaited, Missing, Enabled, InFlight, Statement
  <2>5. QED
    BY <2>1, <2>2, <2>3, <2>4 DEF SendStep
<1>6. QED
  BY <1>2, <1>5 DEF RequestInv, CutOnlyWhenLate

-----------------------------------------------------------------------------
(***************************************************************************)
(* The pods start with nothing held and no send.                           *)
(***************************************************************************)
LEMMA InvInit == Init => Inv
<1> SUFFICES ASSUME Init  PROVE Inv
  OBVIOUS
<1> USE DEF Init
<1>1. (CHOOSE p \in Pods : TRUE) \in Pods
  BY ServiceProcessAssumption
<1>2. TypeOK
  <2> DEFINE home == CHOOSE p \in Pods : TRUE
  <2>1. req = [q \in Requests |-> [pc |-> "none", pod |-> home, footer |-> "none"]]
    OBVIOUS
  <2>2. home \in Pods
    BY <1>1
  <2> HIDE DEF home
  <2>3. req \in [Requests -> RequestType]
    BY <2>1, <2>2 DEF RequestType
  <2>4. pod \in [Pods -> PodType]
    BY DEF PodType, Places, Resources
  <2>5. QED
    BY <2>3, <2>4 DEF TypeOK, RequestType, PodType, Places, Resources
<1>3. LockInv /\ ReadyInv
  BY DEF LockInv, ReadyInv, Ready, At, Applied, Serving, Closing
<1>4. RequestInv /\ CutOnlyWhenLate
  BY DEF RequestInv, Sound, CutOnlyWhenLate, InFlight, Statement
<1>5. ProviderInv
  BY DEF ProviderInv, Provided, Up, Gone
<1>6. QED
  BY <1>2, <1>3, <1>4, <1>5 DEF Inv

(***************************************************************************)
(* Every step preserves the invariant.                                     *)
(***************************************************************************)
LEMMA InvNext == Inv /\ [Next]_vars => Inv'
<1> SUFFICES ASSUME Inv, [Next]_vars  PROVE Inv'
  OBVIOUS
<1>1. ASSUME NEW p \in Pods, PodStep(p)  PROVE Inv'
  BY <1>1, TypePod, LockPod, ReadyPod, ProviderPod, RequestPod DEF Inv
<1>2. ASSUME NEW q \in Requests, SendStep(q)  PROVE Inv'
  BY <1>2, SendKeepsPods, SendRequests DEF Inv
<1>3. CASE UNCHANGED vars
  BY <1>3 DEF vars, Inv, TypeOK, LockInv, ReadyInv, Ready, RequestInv, Sound, Awaited,
              CutOnlyWhenLate, ProviderInv, Provided, Missing, Enabled, At, Up
<1>4. QED
  BY <1>1, <1>2, <1>3 DEF Next, PodStep, SendStep

(***************************************************************************)
(* The invariant holds in every reachable state.                           *)
(***************************************************************************)
LEMMA Invariance == Spec => []Inv
BY InvInit, InvNext, PTL DEF Spec

(***************************************************************************)
(* Whatever the pods of a rollout and the sends do, every variable keeps   *)
(* its type; no provider is shut down twice.                               *)
(***************************************************************************)
THEOREM TypeCorrect == Spec => []TypeOK
<1>1. Inv => TypeOK
  BY DEF Inv
<1>2. QED
  BY <1>1, Invariance, PTL

(***************************************************************************)
(* schema.Apply: the advisory lock lets one pod at a time run the script,  *)
(* in a rollout of any number of pods, whichever of them hang or die.      *)
(***************************************************************************)
THEOREM ScriptsTakeTurns == Spec => []OneScriptAtATime
<1>1. Inv => OneScriptAtATime
  <2> SUFFICES ASSUME Inv  PROVE Cardinality(owner) <= 1
    BY DEF Inv, LockInv, OneScriptAtATime
  <2>1. CASE owner = {}
    BY <2>1, FS_EmptySet
  <2>2. CASE owner # {}
    <3>1. PICK p \in owner : owner = {p}
      BY <2>2 DEF Inv, LockInv
    <3>2. QED
      BY <3>1, FS_Singleton
  <2>3. QED
    BY <2>1, <2>2
<1>2. QED
  BY <1>1, Invariance, PTL

(***************************************************************************)
(* No send meets a database without the tables, and what the start lets    *)
(* through has working opt-out links in every mail, but for a base URL of  *)
(* slashes.                                                                *)
(***************************************************************************)
THEOREM PodsServeReady == Spec => []ServesOnlyWhenReady
<1>1. Inv => ServesOnlyWhenReady
  <2> SUFFICES ASSUME Inv, NEW q \in Requests
               PROVE  /\ req[q].pc # "none" => tables
                      /\ req[q].footer = "reply" => env.secret /\ env.base = "slashes"
    BY DEF ServesOnlyWhenReady
  <2>1. Sound(q)
    BY DEF Inv, RequestInv
  <2>2. env.base \in {"url", "slashes", ""} /\ env.secret \in BOOLEAN
    BY ServiceProcessAssumption DEF Inv, TypeOK, EnvironmentType
  <2>3. QED
    BY <2>1, <2>2 DEF Sound, Missing, Enabled
<1>2. QED
  BY <1>1, Invariance, PTL

(***************************************************************************)
(* The graceful stop: a send is cut or lost only once the grace of its pod *)
(* is over or its process was killed.                                      *)
(***************************************************************************)
THEOREM GraceIsGiven == Spec => []CutOnlyWhenLate
<1>1. Inv => CutOnlyWhenLate
  BY DEF Inv
<1>2. QED
  BY <1>1, Invariance, PTL

(***************************************************************************)
(* Of a process that ended by itself every provider that ran was shut      *)
(* down, once, whichever step of the start failed.                         *)
(***************************************************************************)
THEOREM TelemetryIsStopped == Spec => []ProvidersStopped
<1>1. Inv => ProvidersStopped
  BY DEF Inv, ProviderInv, Provided, ProvidersStopped, At
<1>2. QED
  BY <1>1, Invariance, PTL
=============================================================================
