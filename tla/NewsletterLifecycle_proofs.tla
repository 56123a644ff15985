--------------------- MODULE NewsletterLifecycle_proofs ---------------------
(***************************************************************************)
(* Proofs about NewsletterLifecycle, for every number of newsletters,      *)
(* requests, recipients and projects.                                      *)
(***************************************************************************)
EXTENDS NewsletterLifecycle, FiniteSetTheorems, TLAPS

-----------------------------------------------------------------------------
(***************************************************************************)
(* The size of an audience, what MarkSent stores in total_recipients, is a *)
(* number no larger than the number of recipients there are.               *)
(***************************************************************************)
LEMMA AudienceSize ==
  ASSUME NEW A \in SUBSET Recipients
  PROVE  Cardinality(A) \in 0 .. Cardinality(Recipients)
<1>1. IsFiniteSet(Recipients)
  BY ConstantsAssumption
<1>2. Cardinality(A) \in Nat /\ Cardinality(Recipients) \in Nat
  BY <1>1, FS_Subset, FS_CardinalityType
<1>3. Cardinality(A) <= Cardinality(Recipients)
  BY <1>1, FS_Subset
<1>4. QED
  BY <1>2, <1>3

(***************************************************************************)
(* The initial state is well typed.                                        *)
(***************************************************************************)
LEMMA InitType == Init => TypeOK
BY DEF Init, TypeOK, Row, Blank, Op, NoOp, Steps, Answers

(***************************************************************************)
(* The client of r asks for o; and what every such o has in common.        *)
(***************************************************************************)
Asked(r, o) ==
  /\ pc[r] = "idle"
  /\ row[o.id].status # "none"
  /\ op' = [op EXCEPT ![r] = o]
  /\ Goto(r, "load")
  /\ UNCHANGED <<row, draft, mailVars>>

WellFormed(o) ==
  /\ o.id \in Newsletters
  /\ o.kind \in {"update", "delete", "send"}
  /\ o.kind = "update" => o.content \in Contents
  /\ o.kind # "delete" => o.ifMatch \in IfMatchHeaders(o.id)

(***************************************************************************)
(* Whatever a client asks for, it is a well-formed request about a known   *)
(* id, and a version it names was shown to it or is a guess.               *)
(***************************************************************************)
LEMMA Arrival ==
  ASSUME TypeOK, NEW r \in Requests, Arrive(r)
  PROVE  \E o \in Op : Asked(r, o) /\ WellFormed(o)
<1>1. \A n \in Newsletters : \A v \in IfMatchHeaders(n) : v \in Int
  BY ConstantsAssumption DEF IfMatchHeaders, TypeOK, Row
<1>2. PICK n \in Newsletters, p \in Projects :
        \/ \E v \in IfMatchHeaders(n), c \in Contents : SubmitUpdate(r, n, p, v, c)
        \/ SubmitDelete(r, n, p)
        \/ \E v \in IfMatchHeaders(n) : SubmitSend(r, n, p, v)
  BY DEF Arrive
<1>3. ASSUME NEW v \in IfMatchHeaders(n), NEW c \in Contents,
             SubmitUpdate(r, n, p, v, c)
      PROVE  \E o \in Op : Asked(r, o) /\ WellFormed(o)
  <2> DEFINE o == [kind |-> "update", id |-> n, project |-> p,
                   ifMatch |-> v, content |-> c]
  <2>1. o \in Op
    BY <1>1 DEF Op
  <2>2. WellFormed(o)
    BY DEF WellFormed
  <2>3. Asked(r, o)
    BY <1>3 DEF SubmitUpdate, Submit, Asked
  <2>4. QED
    BY <2>1, <2>2, <2>3
<1>4. ASSUME SubmitDelete(r, n, p)
      PROVE  \E o \in Op : Asked(r, o) /\ WellFormed(o)
  <2> DEFINE o == [kind |-> "delete", id |-> n, project |-> p,
                   ifMatch |-> 0, content |-> None]
  <2>1. o \in Op
    BY DEF Op
  <2>2. WellFormed(o)
    BY DEF WellFormed
  <2>3. Asked(r, o)
    BY <1>4 DEF SubmitDelete, Submit, Asked
  <2>4. QED
    BY <2>1, <2>2, <2>3
<1>5. ASSUME NEW v \in IfMatchHeaders(n), SubmitSend(r, n, p, v)
      PROVE  \E o \in Op : Asked(r, o) /\ WellFormed(o)
  <2> DEFINE o == [kind |-> "send", id |-> n, project |-> p,
                   ifMatch |-> v, content |-> None]
  <2>1. o \in Op
    BY <1>1 DEF Op
  <2>2. WellFormed(o)
    BY DEF WellFormed
  <2>3. Asked(r, o)
    BY <1>5 DEF SubmitSend, Submit, Asked
  <2>4. QED
    BY <2>1, <2>2, <2>3
<1>6. QED
  BY <1>2, <1>3, <1>4, <1>5

(***************************************************************************)
(* Only an arrival changes what a request is; every later step belongs to  *)
(* one request that is being handled, and to no other.                     *)
(***************************************************************************)
Step(r) == \/ Handle(r)
           \/ \E m \in Recipients : EmailServiceAccepts(r, m)
           \/ Abort(r)

(***************************************************************************)
(* A step of one request leaves the other requests alone.                  *)
(***************************************************************************)
LEMMA StepOfOneRequest ==
  ASSUME TypeOK, NEW r \in Requests, Step(r)
  PROVE  /\ op' = op
         /\ \A s \in Requests : s # r => pc'[s] = pc[s]
         /\ pc'[r] # pc[r] => pc[r] \in Steps /\ pc'[r] # "idle"
<1> USE DEF TypeOK, Goto, Steps
<1>1. CASE Abort(r)
  BY <1>1 DEF Abort
<1>2. CASE \E m \in Recipients : EmailServiceAccepts(r, m)
  BY <1>2 DEF EmailServiceAccepts
<1>3. CASE LoadRefused(r) \/ LoadAccepted(r)
  BY <1>3 DEF LoadRefused, LoadAccepted
<1>4. CASE UpdateStatement(r) \/ ClassifyUpdateMiss(r)
  BY <1>4 DEF UpdateStatement, ClassifyUpdateMiss
<1>5. CASE DeleteStatement(r) \/ ResolveRecipients(r)
  BY <1>5 DEF DeleteStatement, ResolveRecipients
<1>6. CASE \E m \in Recipients : SettleSent(r, m) \/ SettleFailed(r, m)
  BY <1>6 DEF SettleSent, SettleFailed
<1>7. CASE GiveUp(r) \/ MarkSent(r)
  BY <1>7 DEF GiveUp, MarkSent
<1>8. CASE ClassifyMarkSentMiss(r)
  BY <1>8 DEF ClassifyMarkSentMiss, MarkSentMiss
<1>9. QED
  BY <1>1, <1>2, <1>3, <1>4, <1>5, <1>6, <1>7, <1>8 DEF Step, Handle

(***************************************************************************)
(* A step creates a draft, belongs to one request, or changes nothing.     *)
(***************************************************************************)
LEMMA NextSplits ==
  ASSUME [Next]_vars
  PROVE  \/ \E n \in Newsletters, p \in Projects, c \in Contents :
              CreateDraft(n, p, c)
         \/ \E r \in Requests : Arrive(r)
         \/ \E r \in Requests : Step(r)
         \/ UNCHANGED vars
BY DEF Next, Step

(***************************************************************************)
(* A request being handled is well formed, and about a row that was        *)
(* created.                                                                *)
(***************************************************************************)
RealRequests ==
  \A r \in Requests : pc[r] # "idle" =>
    /\ op[r].id \in Newsletters
    /\ op[r].kind \in {"update", "delete", "send"}
    /\ op[r].kind = "update" => op[r].content \in Contents
    /\ row[op[r].id].status # "none"

(***************************************************************************)
(* What each write statement stores, column by column.                     *)
(***************************************************************************)
LEMMA WrittenRows ==
  ASSUME TypeOK, RealRequests, NEW r \in Requests, pc[r] # "idle"
  PROVE  LET x == row[op[r].id]
             gone == [x EXCEPT !.status = "deleted"]
         IN
         /\ op[r].id \in Newsletters /\ x \in Row
         /\ SentRow(r) \in Row
         /\ gone \in Row
         /\ UpdatedRow(r) \in Row
         /\ UpdatedRow(r).status = x.status
         /\ UpdatedRow(r).version = x.version + 1
         /\ UpdatedRow(r).project = draft[r].project
         /\ UpdatedRow(r).content = op[r].content
         /\ UpdatedRow(r).groupId = x.groupId
         /\ SentRow(r).status = "sent"
         /\ SentRow(r).version = x.version + 1
         /\ SentRow(r).project = x.project
         /\ SentRow(r).content = x.content
         /\ SentRow(r).groupId = r
         /\ SentRow(r).total = Cardinality(audience[r])
         /\ gone.status = "deleted" /\ gone.version = x.version
         /\ gone.project = x.project /\ gone.content = x.content
         /\ gone.groupId = x.groupId
<1> DEFINE x == row[op[r].id]
           gone == [x EXCEPT !.status = "deleted"]
<1>1. op[r].id \in Newsletters /\ x \in Row
  BY DEF RealRequests, TypeOK
<1>0. x.version + 1 \in Nat
  BY <1>1 DEF Row
<1>2. Cardinality(audience[r]) \in Nat
  BY AudienceSize, FS_CardinalityType, ConstantsAssumption DEF TypeOK
<1>3. SentRow(r) \in Row
  BY <1>0, <1>1, <1>2 DEF SentRow, Row
<1>4. gone \in Row
  BY <1>1 DEF Row
<1>5. UpdatedRow(r) \in Row
  <2>1. draft[r].project \in Projects \cup {None}
    BY DEF TypeOK, Row
  <2>2. op[r].content \in Contents \cup {None}
    BY DEF TypeOK, Op
  <2>3. QED
    BY <1>0, <1>1, <2>1, <2>2 DEF UpdatedRow, Row
<1>6. /\ UpdatedRow(r).status = x.status
      /\ UpdatedRow(r).version = x.version + 1
      /\ UpdatedRow(r).project = draft[r].project
      /\ UpdatedRow(r).content = op[r].content
      /\ UpdatedRow(r).groupId = x.groupId
  BY <1>1 DEF UpdatedRow, Row
<1>7. /\ SentRow(r).status = "sent"
      /\ SentRow(r).version = x.version + 1
      /\ SentRow(r).project = x.project
      /\ SentRow(r).content = x.content
      /\ SentRow(r).groupId = r
      /\ SentRow(r).total = Cardinality(audience[r])
  BY <1>1 DEF SentRow, Row
<1>8. /\ gone.status = "deleted" /\ gone.version = x.version
      /\ gone.project = x.project /\ gone.content = x.content
      /\ gone.groupId = x.groupId
  BY <1>1 DEF Row
<1> QED
  BY <1>1, <1>3, <1>4, <1>5, <1>6, <1>7, <1>8

(***************************************************************************)
(* Every step keeps the types.                                             *)
(***************************************************************************)
LEMMA TypeStep == TypeOK /\ RealRequests /\ [Next]_vars => TypeOK'
<1> SUFFICES ASSUME TypeOK, RealRequests, [Next]_vars PROVE TypeOK'
  OBVIOUS
<1> USE DEF TypeOK, RealRequests, mailVars
<1>1. ASSUME NEW n \in Newsletters, NEW p \in Projects, NEW c \in Contents,
             CreateDraft(n, p, c)
      PROVE  TypeOK'
  BY <1>1 DEF CreateDraft, Row, Blank
<1>2. ASSUME NEW r \in Requests, Arrive(r)
      PROVE  TypeOK'
  <2>1. PICK o \in Op : Asked(r, o)
    BY <1>2, Arrival
  <2>2. QED
    BY <2>1 DEF Asked, WellFormed, Goto, Steps
<1>3. ASSUME NEW r \in Requests, LoadRefused(r)
      PROVE  TypeOK'
  BY <1>3 DEF LoadRefused, Goto, Answers
<1>4. ASSUME NEW r \in Requests, LoadAccepted(r)
      PROVE  TypeOK'
  BY <1>4 DEF LoadAccepted, Goto, Steps, Missing, Exists
<1>5. ASSUME NEW r \in Requests, UpdateStatement(r)
      PROVE  TypeOK'
  <2>1. pc' \in [Requests -> {"idle"} \cup Steps \cup Answers]
    BY <1>5 DEF UpdateStatement, Goto, Steps, Answers
  <2>2. row' \in [Newsletters -> Row]
    <3>1. UpdatedRow(r) \in Row
      BY <1>5, WrittenRows DEF UpdateStatement
    <3>2. QED
      BY <1>5, <3>1 DEF UpdateStatement
  <2>3. QED
    BY <1>5, <2>1, <2>2 DEF UpdateStatement
<1>6. ASSUME NEW r \in Requests, ClassifyUpdateMiss(r)
      PROVE  TypeOK'
  BY <1>6 DEF ClassifyUpdateMiss, Goto, Answers
<1>7. ASSUME NEW r \in Requests, DeleteStatement(r)
      PROVE  TypeOK'
  <2>1. pc' \in [Requests -> {"idle"} \cup Steps \cup Answers]
    BY <1>7 DEF DeleteStatement, Goto, Answers
  <2>2. row' \in [Newsletters -> Row]
    <3>1. [row[op[r].id] EXCEPT !.status = "deleted"] \in Row
      BY <1>7, WrittenRows DEF DeleteStatement
    <3>2. QED
      BY <1>7, <3>1 DEF DeleteStatement
  <2>3. QED
    BY <1>7, <2>1, <2>2 DEF DeleteStatement
<1>8. ASSUME NEW r \in Requests, ResolveRecipients(r)
      PROVE  TypeOK'
  BY <1>8 DEF ResolveRecipients, Goto, Steps
<1>9. ASSUME NEW r \in Requests, NEW m \in Recipients,
             SettleSent(r, m) \/ SettleFailed(r, m) \/ EmailServiceAccepts(r, m)
      PROVE  TypeOK'
  BY <1>9 DEF SettleSent, SettleFailed, EmailServiceAccepts
<1>10. ASSUME NEW r \in Requests, GiveUp(r)
       PROVE  TypeOK'
  BY <1>10 DEF GiveUp, Goto, Answers
<1>11. ASSUME NEW r \in Requests, MarkSent(r)
       PROVE  TypeOK'
  <2>1. pc' \in [Requests -> {"idle"} \cup Steps \cup Answers]
    BY <1>11 DEF MarkSent, Goto, Steps, Answers
  <2>3. row' \in [Newsletters -> Row]
    <3>1. SentRow(r) \in Row
      BY <1>11, WrittenRows DEF MarkSent
    <3>2. QED
      BY <1>11, <3>1 DEF MarkSent
  <2>4. QED
    BY <1>11, <2>1, <2>3 DEF MarkSent
<1>12. ASSUME NEW r \in Requests, ClassifyMarkSentMiss(r)
       PROVE  TypeOK'
  BY <1>12 DEF ClassifyMarkSentMiss, MarkSentMiss, Goto, Answers
<1>13. ASSUME NEW r \in Requests, Abort(r)
       PROVE  TypeOK'
  BY <1>13 DEF Abort, Goto, Answers
<1>14. CASE UNCHANGED vars
  BY <1>14 DEF vars
<1>15. QED
  BY <1>1, <1>2, <1>3, <1>4, <1>5, <1>6, <1>7, <1>8, <1>9, <1>10, <1>11,
     <1>12, <1>13, <1>14 DEF Next, Handle

(***************************************************************************)
(* Rows change by a creation or by one of the three write statements, and  *)
(* no statement takes a row back to "none".                                *)
(***************************************************************************)
LEMMA OtherStepsLeaveRows ==
  ASSUME [Next]_vars
  PROVE  \/ row' = row
         \/ \E n \in Newsletters, p \in Projects, c \in Contents :
              CreateDraft(n, p, c)
         \/ \E r \in Requests :
              UpdateStatement(r) \/ DeleteStatement(r) \/ MarkSent(r)
BY DEF Next, Arrive, SubmitUpdate, SubmitDelete, SubmitSend, Submit, Handle,
   Abort, LoadRefused, LoadAccepted, ClassifyUpdateMiss, ResolveRecipients,
   SettleSent, SettleFailed, GiveUp, ClassifyMarkSentMiss,
   EmailServiceAccepts, vars

(***************************************************************************)
(* A row that was ever created never becomes unused again.                 *)
(***************************************************************************)
LEMMA RowsStay ==
  ASSUME TypeOK, RealRequests, [Next]_vars, NEW n \in Newsletters,
         row[n].status # "none"
  PROVE  row'[n].status # "none"
<1> USE DEF TypeOK
<1>1. CASE row' = row
  BY <1>1
<1>2. ASSUME NEW i \in Newsletters, NEW p \in Projects, NEW c \in Contents,
             CreateDraft(i, p, c)
      PROVE  row'[n].status # "none"
  BY <1>2 DEF CreateDraft, Blank
<1>3. ASSUME NEW r \in Requests,
             UpdateStatement(r) \/ DeleteStatement(r) \/ MarkSent(r)
      PROVE  row'[n].status # "none"
  <2>1. /\ UpdatedRow(r).status # "none"
        /\ SentRow(r).status # "none"
        /\ [row[op[r].id] EXCEPT !.status = "deleted"].status # "none"
    BY <1>3, WrittenRows DEF UpdateStatement, DeleteStatement, MarkSent, RealRequests
  <2>2. QED
    BY <1>3, <2>1 DEF UpdateStatement, DeleteStatement, MarkSent
<1>4. QED
  BY <1>1, <1>2, <1>3, OtherStepsLeaveRows

(***************************************************************************)
(* Requests stay requests for a created newsletter.                        *)
(***************************************************************************)
LEMMA RealStep == TypeOK /\ RealRequests /\ [Next]_vars => RealRequests'
<1> SUFFICES ASSUME TypeOK, RealRequests, [Next]_vars, NEW s \in Requests,
                    (pc[s] # "idle")'
             PROVE  /\ op'[s].id \in Newsletters
                    /\ op'[s].kind \in {"update", "delete", "send"}
                    /\ op'[s].kind = "update" => op'[s].content \in Contents
                    /\ row'[op'[s].id].status # "none"
  BY DEF RealRequests
<1>1. CASE pc[s] # "idle" /\ op'[s] = op[s]
  BY <1>1, RowsStay DEF RealRequests
<1>2. ASSUME NEW r \in Requests, Arrive(r)
      PROVE  /\ op'[s].id \in Newsletters
             /\ op'[s].kind \in {"update", "delete", "send"}
             /\ op'[s].kind = "update" => op'[s].content \in Contents
             /\ row'[op'[s].id].status # "none"
  <2>1. PICK o \in Op : Asked(r, o) /\ WellFormed(o)
    BY <1>2, Arrival
  <2>2. CASE s = r
    BY <2>1, <2>2 DEF Asked, WellFormed, TypeOK
  <2>3. CASE s # r
    BY <2>1, <2>3, <1>1 DEF Asked, Goto, TypeOK
  <2>4. QED
    BY <2>2, <2>3
<1>3. ASSUME NEW r \in Requests, Step(r)
      PROVE  pc[s] # "idle" /\ op'[s] = op[s]
  BY <1>3, StepOfOneRequest DEF Steps
<1>4. ASSUME \/ UNCHANGED vars
             \/ \E n \in Newsletters, p \in Projects, c \in Contents :
                  CreateDraft(n, p, c)
      PROVE  pc[s] # "idle" /\ op'[s] = op[s]
  BY <1>4 DEF vars, CreateDraft
<1>5. QED
  BY <1>1, <1>2, <1>3, <1>4, NextSplits

(***************************************************************************)
(* No request has arrived in the initial state.                            *)
(***************************************************************************)
LEMMA InitReal == Init => RealRequests
BY DEF Init, RealRequests

(***************************************************************************)
(* Types and the reality of requests hold in every reachable state.        *)
(***************************************************************************)
LEMMA WellTyped == Spec => [](TypeOK /\ RealRequests)
BY InitType, InitReal, TypeStep, RealStep, PTL DEF Spec

(***************************************************************************)
(* The variables hold what their names say, in every reachable state.      *)
(***************************************************************************)
THEOREM TypeCorrect == Spec => []TypeOK
BY WellTyped, PTL

-----------------------------------------------------------------------------
(***************************************************************************)
(* The inductive invariant, in parts.  Each part is proved on top of the   *)
(* ones before it.                                                         *)
(*                                                                         *)
(* KnownSteps: a request only takes the steps of its kind.                 *)
(*                                                                         *)
(* Snapshots: what a request read may be old, but only if the version has  *)
(* moved since; and the row is still in the project the request named.     *)
(***************************************************************************)
KnownSteps ==
  \A r \in Requests :
    /\ pc[r] \in {"update", "classify_update"} => op[r].kind = "update"
    /\ pc[r] = "delete" => op[r].kind = "delete"
    /\ pc[r] \in {"resolve", "fanout", "classify_send"} => op[r].kind = "send"

Snapshots ==
  \A r \in Requests : LET x == row[op[r].id] IN
    pc[r] \in Steps \ {"load"} =>
      /\ draft[r].version <= x.version
      /\ draft[r].project = op[r].project /\ x.project = op[r].project
      /\ draft[r].version = x.version =>
           x.content = draft[r].content /\ x.status # "sent"

(***************************************************************************)
(* NamedVersions: the version an honest client names in an edit exists     *)
(* when the edit arrives, so it is not above the one the edit then reads.  *)
(* A send goes on only from the version its client named, or from 0.       *)
(***************************************************************************)
NamedVersions ==
  \A r \in Requests :
    /\ HonestClients /\ pc[r] = "load" /\ op[r].kind # "delete" =>
         op[r].ifMatch <= row[op[r].id].version
    /\ HonestClients /\ pc[r] = "update" => op[r].ifMatch <= draft[r].version
    /\ pc[r] \in {"resolve", "fanout", "classify_send"} =>
         op[r].ifMatch \in {0, draft[r].version}

(***************************************************************************)
(* Writers: whoever wrote a version wrote it on top of a lower one.        *)
(* SendsAreFinal: a committed send leaves its newsletter sent, or deleted. *)
(* ReportedAreAccepted: nobody is counted as sent without the email        *)
(* service's word.                                                         *)
(***************************************************************************)
Writers ==
  \A n \in Newsletters : \A r \in Requests :
    Writes(r, n) => Base(r) < row[n].version

SendsAreFinal ==
  \A r \in Requests : Committed(r) /\ op[r].kind = "send" =>
    row[op[r].id].status \in {"sent", "deleted"}

ReportedAreAccepted ==
  FanoutEnabled => \A r \in Requests : reported[r] \subseteq accepted[r]

(***************************************************************************)
(* SentHaveGroup: the newsletters_sent_requires_group_id CHECK constraint. *)
(* MissesAreReal: a statement that missed had a lasting reason to.         *)
(***************************************************************************)
SentHaveGroup ==
  \A n \in Newsletters : row[n].status = "sent" => row[n].groupId # None

MissesAreReal ==
  \A r \in Requests : LET x == row[op[r].id] IN
    /\ HonestClients /\ pc[r] = "classify_update" =>
         x.status = "deleted" \/ x.version > op[r].ifMatch
    /\ pc[r] = "classify_send" =>
         x.status \in {"sent", "deleted"} \/ x.version > draft[r].version

-----------------------------------------------------------------------------
(***************************************************************************)
(* A request that has arrived keeps its question and, once it has read the *)
(* row, its snapshot; only its own handler moves it.                       *)
(***************************************************************************)
LEMMA Handled ==
  ASSUME TypeOK, [Next]_vars, NEW s \in Requests
  PROVE  /\ pc[s] = "idle" => pc'[s] \in {"idle", "load"}
         /\ pc[s] # "idle" => op'[s] = op[s]
         /\ pc[s] # "load" => draft'[s] = draft[s]
         /\ pc[s] # "idle" /\ pc'[s] # pc[s] => Handle(s) \/ Abort(s)
<1> USE DEF TypeOK, Goto
<1>1. CASE UNCHANGED vars
  BY <1>1 DEF vars
<1>2. ASSUME NEW n \in Newsletters, NEW p \in Projects, NEW c \in Contents,
             CreateDraft(n, p, c)
      PROVE  UNCHANGED <<pc, op, draft>>
  BY <1>2 DEF CreateDraft
<1>3. ASSUME NEW r \in Requests, Arrive(r)
      PROVE  /\ pc[r] = "idle" /\ pc'[r] = "load" /\ UNCHANGED draft
             /\ s # r => pc'[s] = pc[s] /\ op'[s] = op[s]
  BY <1>3, Arrival DEF Asked
<1>4. ASSUME NEW r \in Requests, Step(r)
      PROVE  /\ UNCHANGED op
             /\ s # r => pc'[s] = pc[s]
             /\ pc'[r] # pc[r] => pc[r] # "idle" /\ (Handle(r) \/ Abort(r))
  BY <1>4, StepOfOneRequest DEF Step, Steps, EmailServiceAccepts
<1>5. ASSUME NEW r \in Requests, Step(r), pc[s] # "load"
      PROVE  draft'[s] = draft[s]
  BY <1>5 DEF Step, Handle, Abort, LoadRefused, LoadAccepted, UpdateStatement,
     ClassifyUpdateMiss, DeleteStatement, ResolveRecipients, SettleSent,
     SettleFailed, GiveUp, MarkSent, ClassifyMarkSentMiss, EmailServiceAccepts
<1>6. QED
  BY <1>1, <1>2, <1>3, <1>4, <1>5, NextSplits

(***************************************************************************)
(* The control points of a request stay those of its kind.                 *)
(***************************************************************************)
LEMMA KnownStepsStep ==
  TypeOK /\ KnownSteps /\ [Next]_vars => KnownSteps'
<1> SUFFICES ASSUME TypeOK, KnownSteps, [Next]_vars, NEW s \in Requests
             PROVE  /\ pc'[s] \in {"update", "classify_update"} => op'[s].kind = "update"
                    /\ pc'[s] = "delete" => op'[s].kind = "delete"
                    /\ pc'[s] \in {"resolve", "fanout", "classify_send"} => op'[s].kind = "send"
  BY DEF KnownSteps
<1>1. CASE pc'[s] = pc[s]
  BY <1>1, Handled DEF KnownSteps
<1>2. CASE pc[s] = "idle"
  BY <1>2, Handled
<1>3. CASE Handle(s) \/ Abort(s)
  <2>1. op'[s] = op[s]
    BY <1>3, StepOfOneRequest DEF Step
  <2>2. QED
    BY <1>3, <2>1 DEF KnownSteps, TypeOK, Goto, Handle, Abort, LoadRefused,
       LoadAccepted, UpdateStatement, ClassifyUpdateMiss, DeleteStatement,
       ResolveRecipients, SettleSent, SettleFailed, GiveUp, MarkSent,
       ClassifyMarkSentMiss, MarkSentMiss
<1>4. QED
  BY <1>1, <1>2, <1>3, Handled

(***************************************************************************)
(* What any step may do to a row that exists: leave it, or take it one     *)
(* version further, or delete it; never move it to another project, change *)
(* its content under the same version, or forget its group_id.             *)
(***************************************************************************)
LEMMA RowOnlyMoves ==
  ASSUME TypeOK, RealRequests, Snapshots, [Next]_vars,
         NEW n \in Newsletters, row[n].status # "none"
  PROVE  /\ row'[n].version >= row[n].version
         /\ row'[n].project = row[n].project
         /\ row'[n].version = row[n].version =>
              row'[n].content = row[n].content /\ row'[n].status \in {row[n].status, "deleted"}
         /\ row[n].groupId # None => row'[n].groupId # None
         /\ row[n].status \in {"sent", "deleted"} => row'[n].status \in {"sent", "deleted"}
         /\ row[n].status = "deleted" => row'[n] = row[n]
<1>0. row[n] \in Row /\ row[n].version \in Nat
  BY DEF TypeOK, Row
<1>1. CASE row'[n] = row[n]
  BY <1>0, <1>1
<1>2. ASSUME NEW i \in Newsletters, NEW p \in Projects, NEW c \in Contents,
             CreateDraft(i, p, c)
      PROVE  row'[n] = row[n]
  BY <1>2 DEF CreateDraft, TypeOK
<1>3. ASSUME NEW r \in Requests, UpdateStatement(r), row'[n] # row[n]
      PROVE  /\ row'[n] = UpdatedRow(r) /\ op[r].id = n
             /\ draft[r].project = row[n].project
             /\ row[n].status # "deleted"
  BY <1>3, WrittenRows DEF UpdateStatement, UpdateHits, Exists, TypeOK, Snapshots, Steps
<1>4. ASSUME NEW r \in Requests, DeleteStatement(r), row'[n] # row[n]
      PROVE  /\ row'[n] = [row[n] EXCEPT !.status = "deleted"] /\ op[r].id = n
             /\ row[n].status # "deleted"
  BY <1>4, WrittenRows DEF DeleteStatement, Exists, TypeOK
<1>5. ASSUME NEW r \in Requests, MarkSent(r), row'[n] # row[n]
      PROVE  /\ row'[n] = SentRow(r) /\ op[r].id = n
             /\ row[n].status # "deleted"
  BY <1>5, WrittenRows DEF MarkSent, MarkSentHits, TypeOK
<1>6. ASSUME NEW r \in Requests, UpdateStatement(r), row'[n] # row[n]
      PROVE  /\ row'[n].version = row[n].version + 1
             /\ row'[n].project = row[n].project
             /\ row'[n].groupId = row[n].groupId
             /\ row'[n].status = row[n].status
  <2>1. row'[n] = UpdatedRow(r) /\ op[r].id = n /\ draft[r].project = row[n].project
    BY <1>3, <1>6
  <2>2. pc[r] # "idle"
    BY <1>6 DEF UpdateStatement
  <2>3. /\ UpdatedRow(r).status = row[n].status
        /\ UpdatedRow(r).version = row[n].version + 1
        /\ UpdatedRow(r).project = draft[r].project
        /\ UpdatedRow(r).groupId = row[n].groupId
    BY <2>1, <2>2, WrittenRows
  <2>4. QED
    BY ONLY <2>1, <2>3
<1>7. ASSUME NEW r \in Requests, DeleteStatement(r), row'[n] # row[n]
      PROVE  /\ row'[n].version = row[n].version
             /\ row'[n].project = row[n].project
             /\ row'[n].content = row[n].content
             /\ row'[n].groupId = row[n].groupId
             /\ row'[n].status = "deleted"
  <2>1. row'[n] = [row[n] EXCEPT !.status = "deleted"]
    BY <1>4, <1>7
  <2>2. QED
    BY <1>0, <2>1 DEF Row
<1>8. ASSUME NEW r \in Requests, MarkSent(r), row'[n] # row[n]
      PROVE  /\ row'[n].version = row[n].version + 1
             /\ row'[n].project = row[n].project
             /\ row'[n].groupId # None
             /\ row'[n].status = "sent"
  <2>1. row'[n] = SentRow(r) /\ op[r].id = n
    BY <1>5, <1>8
  <2>2. pc[r] # "idle"
    BY <1>8 DEF MarkSent
  <2>3. /\ SentRow(r).status = "sent"
        /\ SentRow(r).version = row[n].version + 1
        /\ SentRow(r).project = row[n].project
        /\ SentRow(r).groupId = r
    BY <2>1, <2>2, WrittenRows
  <2>4. r # None
    BY ConstantsAssumption
  <2>5. QED
    BY ONLY <2>1, <2>3, <2>4
<1>9. QED
  BY <1>0, <1>1, <1>2, <1>3, <1>4, <1>5, <1>6, <1>7, <1>8, OtherStepsLeaveRows
(***************************************************************************)
(* A snapshot stays true of its version: either the row has moved on since *)
(* it was read, or it still shows what was read and is not sent.           *)
(***************************************************************************)
LEMMA SnapshotsStep ==
  TypeOK /\ RealRequests /\ Snapshots /\ [Next]_vars => Snapshots'
<1> SUFFICES ASSUME TypeOK, RealRequests, Snapshots, [Next]_vars,
                    NEW s \in Requests, pc'[s] \in Steps \ {"load"}
             PROVE  LET x == row'[op'[s].id] IN
                    /\ draft'[s].version <= x.version
                    /\ draft'[s].project = op'[s].project /\ x.project = op'[s].project
                    /\ draft'[s].version = x.version =>
                         x.content = draft'[s].content /\ x.status # "sent"
  BY DEF Snapshots
<1>1. pc[s] # "idle" /\ op'[s] = op[s]
  BY Handled DEF Steps
<1>2. /\ op[s].id \in Newsletters
      /\ row[op[s].id].status # "none"
      /\ row[op[s].id].version \in Nat
  BY <1>1 DEF RealRequests, TypeOK, Row
<1>3. CASE pc[s] \in Steps \ {"load"}
  <2>1. draft'[s] = draft[s]
    BY <1>3, Handled
  <2>2. draft[s].version \in Nat /\ row'[op[s].id].version \in Nat
    BY <1>2, TypeStep DEF TypeOK, Row
  <2>3. /\ row'[op[s].id].version >= row[op[s].id].version
        /\ row'[op[s].id].project = row[op[s].id].project
        /\ row'[op[s].id].version = row[op[s].id].version =>
             /\ row'[op[s].id].content = row[op[s].id].content
             /\ row'[op[s].id].status \in {row[op[s].id].status, "deleted"}
    BY <1>2, RowOnlyMoves
  <2>4. /\ draft[s].version <= row[op[s].id].version
        /\ draft[s].project = op[s].project /\ row[op[s].id].project = op[s].project
        /\ draft[s].version = row[op[s].id].version =>
             row[op[s].id].content = draft[s].content /\ row[op[s].id].status # "sent"
    BY <1>3 DEF Snapshots
  <2>5. QED
    BY <1>1, <1>2, <2>1, <2>2, <2>3, <2>4
<1>4. CASE pc[s] \notin Steps \ {"load"}
  <2>1. LoadAccepted(s)
    BY <1>1, <1>4, Handled DEF Steps, Goto, TypeOK, Handle, Abort, LoadRefused,
       UpdateStatement, ClassifyUpdateMiss, DeleteStatement, ResolveRecipients,
       SettleSent, SettleFailed, GiveUp, MarkSent, ClassifyMarkSentMiss
  <2>2. row' = row /\ draft'[s] = row[op[s].id]
    BY <2>1 DEF LoadAccepted, TypeOK
  <2>3. row[op[s].id].status = "draft" /\ row[op[s].id].project = op[s].project
    BY <2>1 DEF LoadAccepted, Missing
  <2>4. QED
    BY <1>1, <1>2, <2>2, <2>3
<1>5. QED
  BY <1>3, <1>4

(***************************************************************************)
(* Versions only grow, so a version named stays one that was shown.        *)
(***************************************************************************)
LEMMA NamedVersionsStep ==
  /\ TypeOK /\ RealRequests /\ KnownSteps /\ Snapshots /\ NamedVersions
  /\ [Next]_vars
  => NamedVersions'
<1> SUFFICES ASSUME TypeOK, RealRequests, KnownSteps, Snapshots, NamedVersions,
                    [Next]_vars, NEW s \in Requests
             PROVE  /\ HonestClients /\ pc'[s] = "load" /\ op'[s].kind # "delete" =>
                         op'[s].ifMatch <= row'[op'[s].id].version
                    /\ HonestClients /\ pc'[s] = "update" =>
                         op'[s].ifMatch <= draft'[s].version
                    /\ pc'[s] \in {"resolve", "fanout", "classify_send"} =>
                         op'[s].ifMatch \in {0, draft'[s].version}
  BY DEF NamedVersions, HonestClients
<1>1. CASE pc[s] = "idle"
  <2>1. pc'[s] \in {"idle", "load"}
    BY <1>1, Handled
  <2>2. ASSUME HonestClients, pc'[s] = "load", op'[s].kind # "delete"
        PROVE  op'[s].ifMatch <= row'[op'[s].id].version
    <3>1. Arrive(s)
      <4>1. ASSUME NEW r \in Requests, Arrive(r)
            PROVE  r = s
        BY <1>1, <2>2, <4>1, Arrival DEF Asked, Goto, TypeOK
      <4>2. ASSUME NEW r \in Requests
            PROVE  ~ Step(r)
        BY <1>1, <2>2, <4>2, StepOfOneRequest DEF Steps
      <4>3. ASSUME NEW n \in Newsletters, NEW p \in Projects, NEW c \in Contents
            PROVE  ~ CreateDraft(n, p, c)
        BY <1>1, <2>2, <4>3 DEF CreateDraft
      <4>4. ~ UNCHANGED vars
        BY <1>1, <2>2 DEF vars
      <4>5. QED
        BY <4>1, <4>2, <4>3, <4>4, NextSplits
    <3>2. PICK o \in Op : Asked(s, o) /\ WellFormed(o)
      BY <3>1, Arrival
    <3>3. op'[s] = o /\ row' = row
      BY <3>2 DEF Asked, TypeOK
    <3>4. o.id \in Newsletters /\ o.ifMatch \in IfMatchHeaders(o.id)
      BY <2>2, <3>2, <3>3 DEF WellFormed
    <3>5. row[o.id].version \in Nat
      BY <3>4 DEF TypeOK, Row
    <3>6. o.ifMatch <= row[o.id].version
      <4>1. o.ifMatch \in 1 .. row[o.id].version \/ o.ifMatch = 0
        BY <2>2, <3>4 DEF IfMatchHeaders, HonestClients
      <4>2. QED
        BY <3>5, <4>1
    <3>7. QED
      BY <3>3, <3>6
  <2>3. QED
    BY <2>1, <2>2
<1>2. CASE pc[s] # "idle" /\ pc'[s] = pc[s]
  <2>1. op'[s] = op[s] /\ (pc[s] # "load" => draft'[s] = draft[s])
    BY <1>2, Handled
  <2>2. CASE pc[s] = "load"
    <3>1. /\ op[s].id \in Newsletters /\ row[op[s].id].status # "none"
          /\ row[op[s].id].version \in Nat /\ op[s].ifMatch \in Int
      BY <2>2 DEF RealRequests, TypeOK, Row, Op
    <3>2. row'[op[s].id].version >= row[op[s].id].version
      BY <3>1, RowOnlyMoves
    <3>3. row'[op[s].id].version \in Nat
      BY <3>1, TypeStep DEF TypeOK, Row
    <3>4. HonestClients /\ op[s].kind # "delete" => op[s].ifMatch <= row[op[s].id].version
      BY <2>2 DEF NamedVersions
    <3>5. QED
      BY <1>2, <2>1, <2>2, <3>1, <3>2, <3>3, <3>4
  <2>3. QED
    BY <1>2, <2>1, <2>2 DEF NamedVersions
<1>3. CASE pc[s] # "idle" /\ pc'[s] # pc[s]
  <2>1. Handle(s) \/ Abort(s)
    BY <1>3, Handled
  <2>2. op'[s] = op[s] /\ (pc[s] # "load" => draft'[s] = draft[s])
    BY <1>3, Handled
  <2>3. CASE LoadAccepted(s)
    <3>1. draft'[s] = row[op[s].id] /\ pc[s] = "load" /\ ~ StaleSend(s)
      BY <2>3 DEF LoadAccepted, TypeOK
    <3>2. /\ pc'[s] = "update" => op[s].kind = "update"
          /\ pc'[s] \in {"resolve", "fanout", "classify_send"} => op[s].kind = "send"
          /\ pc'[s] # "load"
      BY <2>3 DEF LoadAccepted, Goto, TypeOK
    <3>3. QED
      BY <2>2, <3>1, <3>2 DEF StaleSend, NamedVersions
  <2>4. CASE ~ LoadAccepted(s)
    <3>1. /\ pc'[s] \notin {"load", "update", "resolve"}
          /\ pc'[s] \in {"fanout", "classify_send"} => pc[s] \in {"resolve", "fanout"}
      BY <2>1, <2>4 DEF Handle, Abort, Goto, TypeOK, LoadRefused,
         UpdateStatement, ClassifyUpdateMiss, DeleteStatement, ResolveRecipients,
         SettleSent, SettleFailed, GiveUp, MarkSent, ClassifyMarkSentMiss, MarkSentMiss
    <3>2. QED
      BY <2>2, <3>1 DEF NamedVersions
  <2>5. QED
    BY <2>3, <2>4
<1>4. QED
  BY <1>1, <1>2, <1>3
-----------------------------------------------------------------------------
(***************************************************************************)
(* A request commits by the one statement of its kind, and no other        *)
(* request commits in the same step.                                       *)
(***************************************************************************)
LEMMA Commits ==
  ASSUME TypeOK, RealRequests, KnownSteps, [Next]_vars, NEW r \in Requests,
         Committed(r)', ~ Committed(r)
  PROVE  /\ op' = op /\ draft' = draft
         /\ op[r].id \in Newsletters
         /\ pc[r] \in Steps \ {"load"}
         /\ \A s \in Requests : s # r => pc'[s] = pc[s]
         /\ \/ op[r].kind = "update" /\ UpdateStatement(r) /\ UpdateHits(r)
            \/ op[r].kind = "delete" /\ DeleteStatement(r)
            \/ op[r].kind = "send" /\ MarkSent(r) /\ MarkSentHits(r)
<1>1. pc'[r] # pc[r] /\ pc'[r] \in {"ok", "lost"}
  BY DEF Committed
<1>2. Handle(r) \/ Abort(r)
  <2>1. pc[r] # "idle"
    BY <1>1, Handled
  <2>2. QED
    BY <1>1, <2>1, Handled
<1>3. \/ UpdateStatement(r) /\ UpdateHits(r)
      \/ DeleteStatement(r)
      \/ MarkSent(r) /\ MarkSentHits(r)
  BY <1>1, <1>2 DEF Handle, Abort, Goto, TypeOK, LoadRefused, LoadAccepted,
     UpdateStatement, ClassifyUpdateMiss, ResolveRecipients, SettleSent,
     SettleFailed, GiveUp, MarkSent, ClassifyMarkSentMiss, MarkSentMiss
<1>4. /\ op' = op
      /\ \A s \in Requests : s # r => pc'[s] = pc[s]
  BY <1>2, StepOfOneRequest DEF Step
<1>5. draft' = draft
  BY <1>3 DEF UpdateStatement, DeleteStatement, MarkSent
<1>6. pc[r] \in {"update", "delete", "fanout"}
  BY <1>3 DEF UpdateStatement, DeleteStatement, MarkSent
<1>7. op[r].id \in Newsletters
  BY <1>6 DEF RealRequests
<1>8. QED
  BY <1>3, <1>4, <1>5, <1>6, <1>7 DEF KnownSteps, Steps, UpdateStatement,
     DeleteStatement, MarkSent

(***************************************************************************)
(* What a request committed, and on which version, never changes.          *)
(***************************************************************************)
LEMMA CommitsLast ==
  ASSUME TypeOK, [Next]_vars, NEW r \in Requests, Committed(r)
  PROVE  pc'[r] = pc[r] /\ op'[r] = op[r] /\ draft'[r] = draft[r]
<1>1. pc[r] \notin Steps \cup {"idle"}
  BY DEF Committed, Steps
<1>2. pc'[r] = pc[r]
  <2>1. ASSUME Handle(r) \/ Abort(r), pc'[r] # pc[r]
        PROVE  pc[r] \in Steps
    BY <2>1, StepOfOneRequest DEF Step
  <2>2. QED
    BY <1>1, <2>1, Handled
<1>3. QED
  BY <1>1, <1>2, Handled DEF Steps

(***************************************************************************)
(* A write moves its row from the version it stands on to the next one.    *)
(***************************************************************************)
LEMMA WriteStandsOnVersion ==
  ASSUME TypeOK, RealRequests, KnownSteps, [Next]_vars,
         NEW r \in Requests, NEW n \in Newsletters,
         Writes(r, n)', ~ Writes(r, n)
  PROVE  Base(r)' = row[n].version /\ row'[n].version = row[n].version + 1
<1>1. Committed(r)' /\ ~ Committed(r)
  BY CommitsLast DEF Writes
<1>2. /\ op' = op /\ draft' = draft /\ op[r].id = n
      /\ pc[r] # "idle"
      /\ op[r].kind # "delete"
  BY <1>1, Commits DEF Writes, Steps
<1>3. CASE op[r].kind = "update"
  <2>1. UpdateStatement(r) /\ UpdateHits(r)
    BY <1>1, <1>3, Commits
  <2>2. row'[n] = UpdatedRow(r)
    BY <1>2, <2>1 DEF UpdateStatement, TypeOK
  <2>3. UpdatedRow(r).version = row[n].version + 1
    BY <1>2, WrittenRows
  <2>4. Base(r)' = row[n].version
    BY <1>2, <1>3, <2>1 DEF Base, UpdateHits
  <2>5. QED
    BY ONLY <2>2, <2>3, <2>4
<1>4. CASE op[r].kind = "send"
  <2>1. MarkSent(r) /\ MarkSentHits(r)
    BY <1>1, <1>4, Commits
  <2>2. row'[n] = SentRow(r)
    BY <1>2, <2>1 DEF MarkSent, TypeOK
  <2>3. SentRow(r).version = row[n].version + 1
    BY <1>2, WrittenRows
  <2>4. Base(r)' = row[n].version
    BY <1>2, <1>4, <2>1 DEF Base, MarkSentHits
  <2>5. QED
    BY ONLY <2>2, <2>3, <2>4
<1>5. QED
  BY <1>1, <1>2, <1>3, <1>4, Commits
(***************************************************************************)
(* Whatever versions clients guess: a committed write stands on a lower    *)
(* version than the row has now, so the next write stands on another one.  *)
(***************************************************************************)
LEMMA WritersStep ==
  /\ TypeOK /\ RealRequests /\ KnownSteps /\ Snapshots
  /\ Writers /\ OneWriterPerVersion /\ [Next]_vars
  => Writers' /\ OneWriterPerVersion'
<1> SUFFICES ASSUME TypeOK, RealRequests, KnownSteps, Snapshots,
                    Writers, OneWriterPerVersion, [Next]_vars
             PROVE  Writers' /\ OneWriterPerVersion'
  OBVIOUS
<1>1. ASSUME NEW n \in Newsletters, NEW r \in Requests, Writes(r, n)
      PROVE  /\ Writes(r, n)' /\ Base(r)' = Base(r)
             /\ Base(r) \in Int /\ Base(r) < row[n].version
  <2>1. Committed(r)
    BY <1>1 DEF Writes
  <2>2. pc'[r] = pc[r] /\ op'[r] = op[r] /\ draft'[r] = draft[r]
    BY <2>1, CommitsLast
  <2>3. Base(r) \in Int
    BY DEF Base, TypeOK, Op, Row
  <2>4. QED
    BY <1>1, <2>2, <2>3 DEF Writes, Committed, Base, Writers
<1>2. ASSUME NEW n \in Newsletters, NEW r \in Requests, Writes(r, n)'
      PROVE  row[n].status # "none"
  <2>1. CASE Committed(r)
    <3>1. op'[r] = op[r] /\ pc[r] # "idle"
      BY <2>1, CommitsLast DEF Committed
    <3>2. QED
      BY <1>2, <3>1 DEF Writes, RealRequests
  <2>2. CASE ~ Committed(r)
    <3>1. op' = op /\ pc[r] # "idle"
      BY <1>2, <2>2, Commits DEF Writes, Steps
    <3>2. QED
      BY <1>2, <3>1 DEF Writes, RealRequests
  <2>3. QED
    BY <2>1, <2>2
<1>3. ASSUME NEW n \in Newsletters
      PROVE  row[n].version \in Nat /\ row'[n].version \in Nat
  BY TypeStep DEF TypeOK, Row
<1>4. ASSUME NEW n \in Newsletters, NEW r \in Requests, Writes(r, n)'
      PROVE  Base(r)' \in Int /\ Base(r)' < row'[n].version
  <2>1. CASE Writes(r, n)
    <3>1. row'[n].version >= row[n].version
      BY <1>2, <1>4, RowOnlyMoves
    <3>2. Base(r)' \in Int /\ Base(r)' < row[n].version
      BY <1>1, <2>1
    <3>3. QED
      BY <1>3, <3>1, <3>2
  <2>2. CASE ~ Writes(r, n)
    <3>1. Base(r)' = row[n].version /\ row'[n].version = row[n].version + 1
      BY <1>4, <2>2, WriteStandsOnVersion
    <3>2. QED
      BY <1>3, <3>1
  <2>3. QED
    BY <2>1, <2>2
<1>5. ASSUME NEW n \in Newsletters, NEW r \in Requests, NEW s \in Requests,
             Writes(r, n)', Writes(s, n)', r # s, ~ Writes(r, n)
      PROVE  Base(r)' # Base(s)'
  <2>1. Base(r)' = row[n].version
    BY <1>5, WriteStandsOnVersion
  <2>2. Committed(r)' /\ ~ Committed(r)
    BY <1>5, CommitsLast DEF Writes
  <2>3. op' = op /\ pc'[s] = pc[s]
    BY <1>5, <2>2, Commits
  <2>4. Writes(s, n)
    BY <1>5, <2>3 DEF Writes, Committed
  <2>5. Base(s)' \in Int /\ Base(s)' < row[n].version
    BY <1>1, <2>4
  <2>6. QED
    BY <1>3, <2>1, <2>5
<1>6. ASSUME NEW n \in Newsletters, NEW r \in Requests, NEW s \in Requests,
             Writes(r, n)', Writes(s, n)', r # s
      PROVE  Base(r)' # Base(s)'
  <2>1. CASE Writes(r, n) /\ Writes(s, n)
    <3>1. Base(r) # Base(s)
      BY <1>6, <2>1 DEF OneWriterPerVersion
    <3>2. QED
      BY <1>1, <2>1, <3>1
  <2>2. CASE ~ Writes(r, n)
    BY <1>5, <1>6, <2>2
  <2>3. CASE ~ Writes(s, n)
    <3>1. Base(s)' # Base(r)'
      BY <1>5, <1>6, <2>3
    <3>2. QED
      BY <3>1
  <2>4. QED
    BY <2>1, <2>2, <2>3
<1>7. QED
  BY <1>4, <1>6 DEF Writers, OneWriterPerVersion

(***************************************************************************)
(* A send commits on a draft and leaves it sent, so a second one finds no  *)
(* draft to commit on.                                                     *)
(***************************************************************************)
LEMMA SendsStep ==
  /\ TypeOK /\ RealRequests /\ KnownSteps /\ Snapshots
  /\ SendsAreFinal /\ OneSendCommits /\ [Next]_vars
  => SendsAreFinal' /\ OneSendCommits'
<1> SUFFICES ASSUME TypeOK, RealRequests, KnownSteps, Snapshots,
                    SendsAreFinal, OneSendCommits, [Next]_vars
             PROVE  SendsAreFinal' /\ OneSendCommits'
  OBVIOUS
<1>1. ASSUME NEW r \in Requests, Committed(r)', ~ Committed(r), op'[r].kind = "send"
      PROVE  /\ op' = op /\ op[r].id \in Newsletters
             /\ row[op[r].id].status = "draft" /\ row'[op[r].id].status = "sent"
             /\ \A s \in Requests : s # r => pc'[s] = pc[s]
  <2>1. /\ op' = op /\ op[r].id \in Newsletters /\ pc[r] # "idle"
        /\ MarkSent(r) /\ MarkSentHits(r)
        /\ \A s \in Requests : s # r => pc'[s] = pc[s]
    BY <1>1, Commits DEF Steps
  <2>2. row'[op[r].id] = SentRow(r)
    BY <2>1 DEF MarkSent, TypeOK
  <2>3. SentRow(r).status = "sent"
    BY <2>1, WrittenRows
  <2>4. QED
    BY <2>1, <2>2, <2>3 DEF MarkSentHits
<1>2. ASSUME NEW r \in Requests, Committed(r)', op'[r].kind = "send"
      PROVE  row'[op'[r].id].status \in {"sent", "deleted"}
  <2>1. CASE Committed(r)
    <3>1. op'[r] = op[r] /\ pc[r] # "idle"
      BY <2>1, CommitsLast DEF Committed
    <3>2. /\ op[r].id \in Newsletters /\ row[op[r].id].status # "none"
          /\ row[op[r].id].status \in {"sent", "deleted"}
      BY <1>2, <2>1, <3>1 DEF RealRequests, SendsAreFinal
    <3>3. QED
      BY <3>1, <3>2, RowOnlyMoves
  <2>2. CASE ~ Committed(r)
    BY <1>1, <1>2, <2>2
  <2>3. QED
    BY <2>1, <2>2
<1>3. ASSUME NEW r \in Requests, NEW s \in Requests, r # s,
             Committed(r)', Committed(s)', ~ Committed(r),
             op'[r].kind = "send", op'[s].kind = "send", op'[r].id = op'[s].id
      PROVE  FALSE
  <2>1. /\ op' = op /\ row[op[r].id].status = "draft" /\ pc'[s] = pc[s]
    BY <1>1, <1>3
  <2>2. Committed(s)
    BY <1>3, <2>1 DEF Committed
  <2>3. row[op[s].id].status \in {"sent", "deleted"}
    BY <1>3, <2>1, <2>2 DEF SendsAreFinal
  <2>4. QED
    BY <1>3, <2>1, <2>3
<1>4. ASSUME NEW r \in Requests, NEW s \in Requests,
             Committed(r)', Committed(s)',
             op'[r].kind = "send", op'[s].kind = "send", op'[r].id = op'[s].id
      PROVE  r = s
  <2>1. CASE Committed(r) /\ Committed(s)
    <3>1. op'[r] = op[r] /\ op'[s] = op[s]
      BY <2>1, CommitsLast
    <3>2. QED
      BY <1>4, <2>1, <3>1 DEF OneSendCommits
  <2>2. CASE ~ Committed(r)
    BY <1>3, <1>4, <2>2
  <2>3. CASE ~ Committed(s)
    BY <1>3, <1>4, <2>3
  <2>4. QED
    BY <2>1, <2>2, <2>3
<1>5. SendsAreFinal'
  BY <1>2 DEF SendsAreFinal
<1>6. OneSendCommits'
  BY <1>4 DEF OneSendCommits
<1>7. QED
  BY <1>5, <1>6
(***************************************************************************)
(* A step writes only rows of the project its request named.               *)
(***************************************************************************)
LEMMA ProjectStep ==
  /\ TypeOK /\ RealRequests /\ KnownSteps /\ Snapshots
  /\ WritesStayInProject /\ [Next]_vars
  => WritesStayInProject'
<1> SUFFICES ASSUME TypeOK, RealRequests, KnownSteps, Snapshots,
                    WritesStayInProject, [Next]_vars,
                    NEW r \in Requests, Committed(r)'
             PROVE  row'[op'[r].id].project = op'[r].project
  BY DEF WritesStayInProject
<1>1. /\ op'[r] = op[r] /\ pc[r] # "idle"
      /\ row[op[r].id].project = op[r].project
  <2>1. CASE Committed(r)
    BY <2>1, CommitsLast DEF Committed, WritesStayInProject
  <2>2. CASE ~ Committed(r)
    BY <2>2, Commits DEF Snapshots, Steps
  <2>3. QED
    BY <2>1, <2>2
<1>2. row'[op[r].id].project = row[op[r].id].project
  BY <1>1, RowOnlyMoves DEF RealRequests
<1>3. QED
  BY <1>1, <1>2

-----------------------------------------------------------------------------
(***************************************************************************)
(* The part of the invariant that every theorem below stands on.           *)
(***************************************************************************)
Core == TypeOK /\ RealRequests /\ KnownSteps /\ Snapshots

(***************************************************************************)
(* The facts every later proof stands on hold in every reachable state.    *)
(***************************************************************************)
LEMMA CoreHolds == Spec => []Core
<1>1. Init => Core
  <2>1. Init => KnownSteps /\ Snapshots
    BY DEF Init, KnownSteps, Snapshots, Steps
  <2>2. QED
    BY <2>1, InitType, InitReal DEF Core
<1>2. Core /\ [Next]_vars => Core'
  BY TypeStep, RealStep, KnownStepsStep, SnapshotsStep DEF Core
<1>3. QED
  BY <1>1, <1>2, PTL DEF Spec

(***************************************************************************)
(* No lost update, whatever versions clients name: no two writes that      *)
(* committed on a newsletter stand on the same version of it (the version  *)
(* gates of repo.Update and repo.MarkSent).                                *)
(***************************************************************************)
THEOREM NoLostUpdate == Spec => []OneWriterPerVersion
<1>1. Init => Writers /\ OneWriterPerVersion
  BY DEF Init, Writers, OneWriterPerVersion, Writes, Committed
<1>2. /\ Core /\ Writers /\ OneWriterPerVersion /\ [Next]_vars
      => (Writers /\ OneWriterPerVersion)'
  BY WritersStep DEF Core
<1>3. QED
  BY <1>1, <1>2, CoreHolds, PTL DEF Spec

(***************************************************************************)
(* However many requests and replicas race, and whatever versions clients  *)
(* name, a newsletter is marked sent at most once (repo.MarkSent).         *)
(***************************************************************************)
THEOREM SentOnce == Spec => []OneSendCommits
<1>1. Init => SendsAreFinal /\ OneSendCommits
  BY DEF Init, SendsAreFinal, OneSendCommits, Committed
<1>2. /\ Core /\ SendsAreFinal /\ OneSendCommits /\ [Next]_vars
      => (SendsAreFinal /\ OneSendCommits)'
  BY SendsStep DEF Core
<1>3. QED
  BY <1>1, <1>2, CoreHolds, PTL DEF Spec

(***************************************************************************)
(* A request never writes a row of another project, although only the      *)
(* snapshot was compared with the project in the path.                     *)
(***************************************************************************)
THEOREM ProjectIsolation == Spec => []WritesStayInProject
<1>1. Init => WritesStayInProject
  BY DEF Init, WritesStayInProject, Committed
<1>2. Core /\ WritesStayInProject /\ [Next]_vars => WritesStayInProject'
  BY ProjectStep DEF Core
<1>3. QED
  BY <1>1, <1>2, CoreHolds, PTL DEF Spec
-----------------------------------------------------------------------------
(***************************************************************************)
(* Once a send has left its fan-out, its audience and its outcome stand;   *)
(* only the email service may still accept messages it was given.          *)
(***************************************************************************)
LEMMA FanOutStands ==
  ASSUME TypeOK, [Next]_vars, NEW r \in Requests, Committed(r)
  PROVE  /\ audience'[r] = audience[r] /\ pending'[r] = pending[r]
         /\ accepted[r] \subseteq accepted'[r]
<1> USE DEF TypeOK
<1>1. pc[r] \notin {"resolve", "fanout"}
  BY DEF Committed
<1>2. ASSUME NEW s \in Requests, Step(s)
      PROVE  /\ audience'[r] = audience[r] /\ pending'[r] = pending[r]
             /\ accepted[r] \subseteq accepted'[r]
  BY <1>1, <1>2 DEF Step, Handle, Abort, LoadRefused, LoadAccepted,
     UpdateStatement, ClassifyUpdateMiss, DeleteStatement, ResolveRecipients,
     SettleSent, SettleFailed, GiveUp, MarkSent, ClassifyMarkSentMiss,
     EmailServiceAccepts, mailVars
<1>3. ASSUME NEW s \in Requests, Arrive(s)
      PROVE  UNCHANGED mailVars
  BY <1>3, Arrival DEF Asked
<1>4. QED
  BY <1>2, <1>3, NextSplits DEF CreateDraft, vars, mailVars

(***************************************************************************)
(* Whoever a send counts as sent was accepted by the email service.        *)
(***************************************************************************)
LEMMA ReportedStep ==
  TypeOK /\ ReportedAreAccepted /\ [Next]_vars => ReportedAreAccepted'
<1> SUFFICES ASSUME TypeOK, ReportedAreAccepted, [Next]_vars, FanoutEnabled,
                    NEW r \in Requests
             PROVE  reported'[r] \subseteq accepted'[r]
  BY DEF ReportedAreAccepted
<1> USE DEF TypeOK
<1>1. reported[r] \subseteq accepted[r]
  BY DEF ReportedAreAccepted
<1>2. ASSUME NEW s \in Requests, Step(s)
      PROVE  reported'[r] \subseteq accepted'[r]
  <2>1. CASE \E m \in Recipients : SettleSent(s, m)
    BY <1>1, <2>1 DEF SettleSent
  <2>2. CASE \E m \in Recipients : EmailServiceAccepts(s, m)
    BY <1>1, <2>2 DEF EmailServiceAccepts
  <2>3. CASE UNCHANGED <<reported, accepted>>
    BY <1>1, <2>3
  <2>4. QED
    BY <1>2, <2>1, <2>2, <2>3 DEF Step, Handle, Abort, LoadRefused, LoadAccepted,
       UpdateStatement, ClassifyUpdateMiss, DeleteStatement, ResolveRecipients,
       SettleFailed, GiveUp, MarkSent, ClassifyMarkSentMiss, mailVars
<1>3. ASSUME NEW s \in Requests, Arrive(s)
      PROVE  UNCHANGED mailVars
  BY <1>3, Arrival DEF Asked
<1>4. QED
  BY <1>1, <1>2, <1>3, NextSplits DEF CreateDraft, vars, mailVars

(***************************************************************************)
(* An edit of an honest client cannot hit a sent row: the version it names *)
(* is at most the one it read, and a row still at the version it read is   *)
(* still a draft.                                                          *)
(***************************************************************************)
LEMMA HonestEditsHitDrafts ==
  ASSUME TypeOK, RealRequests, Snapshots, NamedVersions, HonestClients,
         NEW r \in Requests, UpdateStatement(r), UpdateHits(r)
  PROVE  row[op[r].id].status = "draft"
<1>1. pc[r] = "update" /\ row[op[r].id].status \in {"draft", "sent"}
      /\ row[op[r].id].version = op[r].ifMatch
  BY DEF UpdateStatement, UpdateHits, Exists
<1>2. op[r].ifMatch <= draft[r].version
  BY <1>1 DEF NamedVersions
<1>3. /\ draft[r].version <= row[op[r].id].version
      /\ draft[r].version = row[op[r].id].version => row[op[r].id].status # "sent"
  BY <1>1 DEF Snapshots, Steps
<1>4. draft[r].version \in Nat /\ op[r].ifMatch \in Int
  BY DEF TypeOK, Row, Op
<1>5. QED
  BY <1>1, <1>2, <1>3, <1>4

(***************************************************************************)
(* The send a row that just became sent stands for, and the send a row     *)
(* that stays sent stands for.                                             *)
(***************************************************************************)
SentBy(r, n) ==
  /\ row[n].groupId = r
  /\ op[r].kind = "send" /\ op[r].id = n /\ Committed(r)
  /\ draft[r].content = row[n].content
  /\ pending[r] = {}
  /\ row[n].total = Cardinality(audience[r])
  /\ FanoutEnabled /\ audience[r] # {} => accepted[r] # {}

(***************************************************************************)
(* A send that is on record for a row stays what it was.                   *)
(***************************************************************************)
LEMMA SentByLasts ==
  ASSUME TypeOK, [Next]_vars, NEW r \in Requests, NEW n \in Newsletters,
         SentBy(r, n), row'[n] = row[n]
  PROVE  SentBy(r, n)'
<1>1. pc'[r] = pc[r] /\ op'[r] = op[r] /\ draft'[r] = draft[r]
  BY CommitsLast DEF SentBy
<1>2. /\ audience'[r] = audience[r] /\ pending'[r] = pending[r]
      /\ accepted[r] \subseteq accepted'[r]
  BY FanOutStands DEF SentBy
<1>3. QED
  BY <1>1, <1>2 DEF SentBy, Committed

(***************************************************************************)
(* A committed send signs the row with its own group and audience.         *)
(***************************************************************************)
LEMMA SendSigns ==
  ASSUME TypeOK, RealRequests, KnownSteps, Snapshots, ReportedAreAccepted,
         NEW r \in Requests, MarkSent(r), MarkSentHits(r),
         NEW n \in Newsletters, op[r].id = n
  PROVE  SentBy(r, n)'
<1>1. pc[r] = "fanout" /\ op[r].kind = "send"
  BY DEF MarkSent, KnownSteps
<1>2. /\ row'[n] = SentRow(r)
      /\ pc'[r] \in {"ok", "lost"}
      /\ UNCHANGED <<op, draft, mailVars>>
  BY <1>1 DEF MarkSent, Goto, TypeOK
<1>3. /\ SentRow(r).groupId = r
      /\ SentRow(r).content = row[n].content
      /\ SentRow(r).total = Cardinality(audience[r])
  BY <1>1, WrittenRows
<1>4. row[n].content = draft[r].content
  BY <1>1 DEF Snapshots, Steps, MarkSentHits
<1>5. FanoutEnabled /\ audience[r] # {} => accepted[r] # {}
  BY DEF MarkSent, NobodyReached, ReportedAreAccepted
<1>6. pending[r] = {}
  BY DEF MarkSent
<1>7. QED
  BY <1>1, <1>2, <1>3, <1>4, <1>5, <1>6 DEF SentBy, Committed, mailVars

(***************************************************************************)
(* Every step keeps sent rows honest.                                      *)
(***************************************************************************)
LEMMA SentStep ==
  ASSUME HonestClients, TypeOK, RealRequests, KnownSteps, Snapshots,
         NamedVersions, ReportedAreAccepted, SentMatchesMail, [Next]_vars
  PROVE  SentMatchesMail'
<1> SUFFICES ASSUME NEW n \in Newsletters, row'[n].status = "sent"
             PROVE  \E r \in Requests : SentBy(r, n)'
  BY DEF SentMatchesMail, SentBy
<1>1. CASE row'[n] = row[n]
  <2>1. PICK r \in Requests : SentBy(r, n)
    BY <1>1 DEF SentMatchesMail, SentBy
  <2>2. QED
    BY <1>1, <2>1, SentByLasts
<1>2. ASSUME NEW i \in Newsletters, NEW p \in Projects, NEW c \in Contents,
             CreateDraft(i, p, c)
      PROVE  row'[n] = row[n]
  BY <1>2 DEF CreateDraft, Blank, TypeOK
<1>3. ASSUME NEW r \in Requests, UpdateStatement(r)
      PROVE  row'[n] = row[n]
  <2>1. CASE ~ UpdateHits(r) \/ op[r].id # n
    BY <1>3, <2>1 DEF UpdateStatement, TypeOK
  <2>2. CASE UpdateHits(r) /\ op[r].id = n
    <3>1. row[n].status = "draft"
      BY <1>3, <2>2, HonestEditsHitDrafts
    <3>2. row'[n] = UpdatedRow(r)
      BY <1>3, <2>2 DEF UpdateStatement, TypeOK
    <3>3. UpdatedRow(r).status = row[n].status
      BY <1>3, <2>2, WrittenRows DEF UpdateStatement
    <3>4. FALSE
      BY <3>1, <3>2, <3>3
    <3>5. QED
      BY <3>4
  <2>3. QED
    BY <2>1, <2>2
<1>4. ASSUME NEW r \in Requests, DeleteStatement(r)
      PROVE  row'[n] = row[n]
  <2>1. CASE row' = row \/ op[r].id # n
    BY <1>4, <2>1 DEF DeleteStatement, TypeOK
  <2>2. CASE row' # row /\ op[r].id = n
    <3>1. row'[n] = [row[n] EXCEPT !.status = "deleted"]
      BY <1>4, <2>2 DEF DeleteStatement, TypeOK
    <3>2. row[n] \in Row
      BY DEF TypeOK
    <3>3. row'[n].status = "deleted"
      BY <3>1, <3>2 DEF Row
    <3>4. QED
      BY <3>3
  <2>3. QED
    BY <2>1, <2>2
<1>5. ASSUME NEW r \in Requests, MarkSent(r)
      PROVE  row'[n] = row[n] \/ SentBy(r, n)'
  <2>1. CASE ~ MarkSentHits(r) \/ op[r].id # n
    BY <1>5, <2>1 DEF MarkSent, TypeOK
  <2>2. CASE MarkSentHits(r) /\ op[r].id = n
    BY <1>5, <2>2, SendSigns
  <2>3. QED
    BY <2>1, <2>2
<1>6. QED
  BY <1>1, <1>2, <1>3, <1>4, <1>5, OtherStepsLeaveRows

(***************************************************************************)
(* If clients name no version they were not shown, a sent row records a    *)
(* fan-out that really happened, of exactly the content the row shows.     *)
(***************************************************************************)
THEOREM SentRowsAreHonest == HonestClients /\ Spec => []SentMatchesMail
<1> DEFINE Inv == /\ HonestClients
                  /\ NamedVersions /\ ReportedAreAccepted /\ SentMatchesMail
<1>1. HonestClients /\ Init => Inv
  BY DEF Init, NamedVersions, ReportedAreAccepted, SentMatchesMail, Blank
<1>2. Core /\ Inv /\ [Next]_vars => Inv'
  BY NamedVersionsStep, ReportedStep, SentStep DEF Core, HonestClients
<1>3. Inv => SentMatchesMail
  OBVIOUS
<1> HIDE DEF Inv
<1>4. QED
  BY <1>1, <1>2, <1>3, CoreHolds, PTL DEF Spec
-----------------------------------------------------------------------------
(***************************************************************************)
(* The statements implement the atomic object: an edit hits a draft and    *)
(* leaves it in its project, a send hits a draft, and a delete hits a row  *)
(* that exists, be it sent.                                                *)
(***************************************************************************)
LEMMA CreateIsCreate ==
  ASSUME NEW n \in Newsletters, NEW p \in Projects, NEW c \in Contents,
         CreateDraft(n, p, c)
  PROVE  Kept!Create(n)
BY DEF CreateDraft, Kept!FreshDraft, Kept!Create

(***************************************************************************)
(* An update that hits is an edit of the contract.                         *)
(***************************************************************************)
LEMMA UpdateIsEdit ==
  ASSUME Core, NamedVersions, HonestClients,
         NEW r \in Requests, UpdateStatement(r), row' # row
  PROVE  Kept!Edit(op[r].id)
<1> DEFINE n == op[r].id
           x == row[n]
           v == x.version + 1
<1>1. /\ pc[r] = "update" /\ UpdateHits(r)
      /\ row' = [row EXCEPT ![n] = UpdatedRow(r)]
  BY DEF UpdateStatement
<1>2. n \in Newsletters /\ x \in Row /\ op[r].kind = "update"
  BY <1>1 DEF Core, RealRequests, KnownSteps, TypeOK
<1>3. x.status = "draft"
  BY <1>1, HonestEditsHitDrafts DEF Core
<1>4. draft[r].project = x.project
  BY <1>1 DEF Core, Snapshots, Steps
<1>5. op[r].content \in Contents
  BY <1>1, <1>2 DEF Core, RealRequests
<1>6. UpdatedRow(r) = Kept!Edited(x, op[r].content)
  <2>1. UpdatedRow(r) = [x EXCEPT !.content = op[r].content,
                                  !.project = draft[r].project, !.version = v]
    BY DEF UpdatedRow
  <2>2. Kept!Edited(x, op[r].content) = [x EXCEPT !.content = op[r].content,
                                                  !.version = v]
    BY DEF Kept!Edited
  <2> HIDE DEF v
  <2>3. [x EXCEPT !.content = op[r].content, !.project = draft[r].project, !.version = v]
        = [x EXCEPT !.content = op[r].content, !.version = v]
    BY <1>2, <1>4 DEF Row
  <2>4. QED
    BY <2>1, <2>2, <2>3
<1>7. QED
  BY <1>1, <1>2, <1>3, <1>5, <1>6 DEF Kept!Edit

(***************************************************************************)
(* A MarkSent that hits is a send of the contract.                         *)
(***************************************************************************)
LEMMA MarkSentIsSend ==
  ASSUME Core, NEW r \in Requests, MarkSent(r), row' # row
  PROVE  Kept!Send(op[r].id)
<1>1. /\ pc[r] = "fanout" /\ MarkSentHits(r)
      /\ row' = [row EXCEPT ![op[r].id] = SentRow(r)]
  BY DEF MarkSent
<1>2. audience[r] \in SUBSET Recipients
  BY DEF Core, TypeOK
<1>3. Cardinality(audience[r]) \in 0 .. Cardinality(Recipients)
  BY <1>2, AudienceSize
<1>4. SentRow(r) = Kept!Signed(row[op[r].id], r, Cardinality(audience[r]))
  BY DEF SentRow, Kept!Signed
<1>5. row[op[r].id].status = "draft"
  BY <1>1 DEF MarkSentHits
<1>6. QED
  BY <1>1, <1>3, <1>4, <1>5 DEF Kept!Send

(***************************************************************************)
(* A delete that hits is a removal of the contract.                        *)
(***************************************************************************)
LEMMA DeleteIsRemove ==
  ASSUME NEW r \in Requests, DeleteStatement(r), row' # row
  PROVE  Kept!Remove(op[r].id)
BY DEF DeleteStatement, Exists, Kept!Remove, Kept!Deletable

(***************************************************************************)
(* The rows of the service, read, decided on and written by separate       *)
(* statements of concurrent requests, behave like the atomic object of     *)
(* NewsletterContract with deletable sent rows, if clients name only       *)
(* versions they were shown.                                               *)
(***************************************************************************)
THEOREM ContractKept == HonestClients /\ Spec => KeepsContract
<1> DEFINE Inv == HonestClients /\ NamedVersions
<1>1. HonestClients /\ Init => Inv
  BY DEF Init, NamedVersions
<1>2. Core /\ Inv /\ [Next]_vars => Inv'
  BY NamedVersionsStep DEF Core, HonestClients
<1>3. Init => Kept!Init
  BY DEF Init, Blank, Kept!Init, Kept!Blank
<1>4. Core /\ Inv /\ [Next]_vars => [Kept!Next]_row
  <2> SUFFICES ASSUME Core, Inv, [Next]_vars, row' # row
               PROVE  Kept!Next
    OBVIOUS
  <2>1. ASSUME NEW n \in Newsletters, NEW p \in Projects, NEW c \in Contents,
               CreateDraft(n, p, c)
        PROVE  Kept!Next
    BY <2>1, CreateIsCreate DEF Kept!Next
  <2>2. ASSUME NEW r \in Requests,
               UpdateStatement(r) \/ DeleteStatement(r) \/ MarkSent(r)
        PROVE  Kept!Next
    <3>1. op[r].id \in Newsletters
      BY <2>2 DEF Core, RealRequests, UpdateStatement, DeleteStatement, MarkSent
    <3>2. Kept!Edit(op[r].id) \/ Kept!Send(op[r].id) \/ Kept!Remove(op[r].id)
      BY <2>2, UpdateIsEdit, MarkSentIsSend, DeleteIsRemove
    <3>3. QED
      BY <3>1, <3>2 DEF Kept!Next
  <2>3. QED
    BY <2>1, <2>2, OtherStepsLeaveRows
<1> HIDE DEF Inv
<1>5. QED
  BY <1>1, <1>2, <1>3, <1>4, CoreHolds, PTL DEF Spec, KeepsContract, Kept!Spec
-----------------------------------------------------------------------------
(***************************************************************************)
(* A row marked sent carries the group of the send that marked it.         *)
(***************************************************************************)
LEMMA GroupStep ==
  Core /\ SentHaveGroup /\ [Next]_vars => SentHaveGroup'
<1> SUFFICES ASSUME Core, SentHaveGroup, [Next]_vars, NEW n \in Newsletters,
                    row'[n].status = "sent"
             PROVE  row'[n].groupId # None
  BY DEF SentHaveGroup
<1> USE DEF Core
<1>1. CASE row'[n] = row[n]
  BY <1>1 DEF SentHaveGroup
<1>2. ASSUME NEW i \in Newsletters, NEW p \in Projects, NEW c \in Contents,
             CreateDraft(i, p, c)
      PROVE  row'[n] = row[n]
  BY <1>2 DEF CreateDraft, TypeOK
<1>3. ASSUME NEW r \in Requests, DeleteStatement(r)
      PROVE  row'[n] = row[n]
  <2>1. CASE row' = row \/ op[r].id # n
    BY <1>3, <2>1 DEF DeleteStatement, TypeOK
  <2>2. CASE row' # row /\ op[r].id = n
    <3>1. row'[n] = [row[n] EXCEPT !.status = "deleted"]
      BY <1>3, <2>2 DEF DeleteStatement, TypeOK
    <3>2. row[n] \in Row
      BY DEF TypeOK
    <3>3. row'[n].status = "deleted"
      BY <3>1, <3>2 DEF Row
    <3>4. QED
      BY <3>3
  <2>3. QED
    BY <2>1, <2>2
<1>4. ASSUME NEW r \in Requests, UpdateStatement(r)
      PROVE  row'[n] = row[n] \/ row'[n].groupId # None
  <2>1. CASE row' = row \/ op[r].id # n
    BY <1>4, <2>1 DEF UpdateStatement, TypeOK
  <2>2. CASE row' # row /\ op[r].id = n
    <3>1. row'[n] = UpdatedRow(r)
      BY <1>4, <2>2 DEF UpdateStatement, TypeOK
    <3>2. UpdatedRow(r).status = row[n].status /\ UpdatedRow(r).groupId = row[n].groupId
      BY <1>4, <2>2, WrittenRows DEF UpdateStatement
    <3>3. row[n].status = "sent" => row[n].groupId # None
      BY DEF SentHaveGroup
    <3>4. QED
      BY <3>1, <3>2, <3>3
  <2>3. QED
    BY <2>1, <2>2
<1>5. ASSUME NEW r \in Requests, MarkSent(r)
      PROVE  row'[n] = row[n] \/ row'[n].groupId # None
  <2>1. CASE row' = row \/ op[r].id # n
    BY <1>5, <2>1 DEF MarkSent, TypeOK
  <2>2. CASE row' # row /\ op[r].id = n
    <3>1. row'[n] = SentRow(r)
      BY <1>5, <2>2 DEF MarkSent, TypeOK
    <3>2. SentRow(r).groupId = r
      BY <1>5, <2>2, WrittenRows DEF MarkSent
    <3>3. r # None
      BY ConstantsAssumption
    <3>4. QED
      BY <3>1, <3>2, <3>3
  <2>3. QED
    BY <2>1, <2>2
<1>6. QED
  BY <1>1, <1>2, <1>3, <1>4, <1>5, OtherStepsLeaveRows

(***************************************************************************)
(* What a request that is still where it was, or has ended, knows of its   *)
(* row one step later.                                                     *)
(***************************************************************************)
LEMMA StandingRequest ==
  ASSUME Core, [Next]_vars, NEW r \in Requests,
         pc[r] \notin {"idle", "load"}, pc'[r] = pc[r]
  PROVE  LET x == row[op[r].id]
             y == row'[op'[r].id]
         IN
         /\ op'[r] = op[r] /\ draft'[r] = draft[r]
         /\ x.version \in Nat /\ y.version \in Nat /\ y.version >= x.version
         /\ y.project = x.project
         /\ x.groupId # None => y.groupId # None
         /\ x.status \in {"sent", "deleted"} => y.status \in {"sent", "deleted"}
         /\ x.status = "deleted" => y.status = "deleted"
<1> USE DEF Core
<1>1. op'[r] = op[r] /\ draft'[r] = draft[r]
  BY Handled
<1>2. op[r].id \in Newsletters /\ row[op[r].id].status # "none"
  BY DEF RealRequests
<1>3. row[op[r].id].version \in Nat /\ row'[op[r].id].version \in Nat
  BY <1>2, TypeStep DEF TypeOK, Row
<1>4. QED
  BY <1>1, <1>2, <1>3, RowOnlyMoves

(***************************************************************************)
(* A statement that missed had a reason, and the reason lasts.             *)
(***************************************************************************)
LEMMA MissesStep ==
  Core /\ NamedVersions /\ MissesAreReal /\ [Next]_vars => MissesAreReal'
<1> SUFFICES ASSUME Core, NamedVersions, MissesAreReal, [Next]_vars,
                    NEW r \in Requests
             PROVE  LET y == row'[op'[r].id] IN
                    /\ HonestClients /\ pc'[r] = "classify_update" =>
                         y.status = "deleted" \/ y.version > op'[r].ifMatch
                    /\ pc'[r] = "classify_send" =>
                         y.status \in {"sent", "deleted"} \/ y.version > draft'[r].version
  BY DEF MissesAreReal, HonestClients
<1>1. CASE pc'[r] \notin {"classify_update", "classify_send"}
  BY <1>1
<1>2. CASE pc'[r] = pc[r] /\ pc[r] \in {"classify_update", "classify_send"}
  <2>1. /\ HonestClients /\ pc[r] = "classify_update" =>
             row[op[r].id].status = "deleted" \/ row[op[r].id].version > op[r].ifMatch
        /\ pc[r] = "classify_send" =>
             \/ row[op[r].id].status \in {"sent", "deleted"}
             \/ row[op[r].id].version > draft[r].version
    BY DEF MissesAreReal
  <2>2. op[r].ifMatch \in Int /\ draft[r].version \in Nat
    BY DEF Core, TypeOK, Op, Row
  <2>3. QED
    BY <1>2, <2>1, <2>2, StandingRequest
<1>3. CASE pc'[r] # pc[r] /\ pc'[r] \in {"classify_update", "classify_send"}
  <2>1. pc[r] # "idle" /\ (Handle(r) \/ Abort(r))
    BY <1>3, Handled DEF Core
  <2>2. \/ UpdateStatement(r) /\ ~ UpdateHits(r) /\ pc'[r] = "classify_update"
        \/ MarkSent(r) /\ ~ MarkSentHits(r) /\ pc'[r] = "classify_send"
    BY <1>3, <2>1 DEF Core, TypeOK, Handle, Abort, Goto, LoadRefused, LoadAccepted,
       UpdateStatement, ClassifyUpdateMiss, DeleteStatement, ResolveRecipients,
       SettleSent, SettleFailed, GiveUp, MarkSent, ClassifyMarkSentMiss, MarkSentMiss
  <2>3. /\ op'[r] = op[r] /\ draft'[r] = draft[r] /\ row' = row
        /\ pc[r] \in Steps \ {"load"}
    BY <2>2 DEF UpdateStatement, MarkSent, UpdateHits, MarkSentHits, Steps
  <2>4. /\ op[r].id \in Newsletters
        /\ row[op[r].id].status \in {"draft", "sent", "deleted"}
        /\ row[op[r].id].version \in Nat /\ draft[r].version \in Nat
        /\ op[r].ifMatch \in Int
    BY <2>1 DEF Core, RealRequests, TypeOK, Row, Op
  <2>5. draft[r].version <= row[op[r].id].version
    BY <2>3 DEF Core, Snapshots
  <2>6. CASE UpdateStatement(r) /\ ~ UpdateHits(r) /\ pc'[r] = "classify_update"
    <3>1. HonestClients => op[r].ifMatch <= draft[r].version
      BY <2>6 DEF UpdateStatement, NamedVersions
    <3>2. \/ row[op[r].id].status = "deleted"
          \/ row[op[r].id].version # op[r].ifMatch
      BY <2>4, <2>6 DEF UpdateHits, Exists
    <3>3. QED
      BY <2>3, <2>4, <2>5, <2>6, <3>1, <3>2
  <2>7. CASE MarkSent(r) /\ ~ MarkSentHits(r) /\ pc'[r] = "classify_send"
    <3>1. \/ row[op[r].id].status \in {"sent", "deleted"}
          \/ row[op[r].id].version # draft[r].version
      BY <2>4, <2>7 DEF MarkSentHits
    <3>2. QED
      BY <2>3, <2>4, <2>5, <2>7, <3>1
  <2>8. QED
    BY <2>2, <2>6, <2>7
<1>4. QED
  BY <1>1, <1>2, <1>3
(***************************************************************************)
(* A refusal is true when it is given ...                                  *)
(***************************************************************************)
Refused(r, answer) == pc'[r] = answer /\ pc[r] # answer

(***************************************************************************)
(* A refusal is true at the moment it is given.                            *)
(***************************************************************************)
LEMMA RefusalIsTrue ==
  ASSUME HonestClients, Core, NamedVersions, SentHaveGroup, MissesAreReal,
         [Next]_vars, NEW r \in Requests
  PROVE  LET x == row[op[r].id] IN
         /\ Refused(r, "already_sent") => x.groupId # None
         /\ Refused(r, "version_mismatch") => x.version > ClientVersion(r)
         /\ Refused(r, "not_found") =>
              x.status = "deleted" \/ x.project # op[r].project
         /\ Refused(r, "already_sent") \/ Refused(r, "version_mismatch")
              \/ Refused(r, "not_found")
            => row' = row /\ op' = op /\ draft' = draft
<1> SUFFICES ASSUME \/ Refused(r, "already_sent")
                    \/ Refused(r, "version_mismatch")
                    \/ Refused(r, "not_found")
             PROVE  LET x == row[op[r].id] IN
                    /\ row' = row /\ op' = op /\ draft' = draft
                    /\ pc'[r] = "already_sent" => x.groupId # None
                    /\ pc'[r] = "version_mismatch" => x.version > ClientVersion(r)
                    /\ pc'[r] = "not_found" =>
                         x.status = "deleted" \/ x.project # op[r].project
  BY DEF Refused
<1> USE DEF Core
<1>1. pc[r] # "idle" /\ (Handle(r) \/ Abort(r))
  BY Handled DEF Refused
<1>2. \/ LoadRefused(r)
      \/ ClassifyUpdateMiss(r)
      \/ DeleteStatement(r) /\ ~ Exists(op[r].id)
      \/ ClassifyMarkSentMiss(r)
  BY <1>1 DEF Refused, TypeOK, Handle, Abort, Goto, LoadRefused, LoadAccepted,
     UpdateStatement, ClassifyUpdateMiss, DeleteStatement, ResolveRecipients,
     SettleSent, SettleFailed, GiveUp, MarkSent, ClassifyMarkSentMiss
<1>3. /\ op[r].id \in Newsletters
      /\ row[op[r].id].status \in {"draft", "sent", "deleted"}
      /\ row[op[r].id].version \in Nat /\ draft[r].version \in Nat
      /\ op[r].ifMatch \in Int
  BY <1>1 DEF RealRequests, TypeOK, Row, Op
<1>4. CASE LoadRefused(r)
  <2>1. /\ row' = row /\ op' = op /\ draft' = draft /\ pc[r] = "load"
        /\ pc'[r] = "already_sent" => row[op[r].id].status = "sent"
        /\ pc'[r] = "version_mismatch" => StaleSend(r)
        /\ pc'[r] = "not_found" => Missing(r)
    BY <1>4 DEF LoadRefused, Goto, TypeOK
  <2>2. StaleSend(r) => row[op[r].id].version > ClientVersion(r)
    <3>1. op[r].kind = "send" => op[r].ifMatch <= row[op[r].id].version
      BY <2>1 DEF NamedVersions
    <3>2. QED
      BY <1>3, <3>1 DEF StaleSend, ClientVersion
  <2>3. QED
    BY <1>3, <2>1, <2>2 DEF Missing, Exists, SentHaveGroup
<1>5. CASE ClassifyUpdateMiss(r)
  <2>1. /\ row' = row /\ op' = op /\ draft' = draft /\ pc[r] = "classify_update"
        /\ pc'[r] = IF Exists(op[r].id) THEN "version_mismatch" ELSE "not_found"
    BY <1>5 DEF ClassifyUpdateMiss, Goto, TypeOK
  <2>2. \/ row[op[r].id].status = "deleted"
        \/ row[op[r].id].version > op[r].ifMatch
    BY <2>1 DEF MissesAreReal
  <2>3. ClientVersion(r) = op[r].ifMatch
    BY <2>1 DEF KnownSteps, ClientVersion
  <2>4. QED
    BY <1>3, <2>1, <2>2, <2>3 DEF Exists
<1>6. CASE DeleteStatement(r) /\ ~ Exists(op[r].id)
  <2>1. /\ row' = row /\ op' = op /\ draft' = draft /\ pc'[r] = "not_found"
    BY <1>6 DEF DeleteStatement, Goto, TypeOK
  <2>2. QED
    BY <1>3, <1>6, <2>1 DEF Exists
<1>7. CASE ClassifyMarkSentMiss(r)
  <2>1. /\ row' = row /\ op' = op /\ draft' = draft /\ pc[r] = "classify_send"
        /\ pc'[r] = MarkSentMiss(r)
    BY <1>7 DEF ClassifyMarkSentMiss, Goto, TypeOK
  <2>2. \/ row[op[r].id].status \in {"sent", "deleted"}
        \/ row[op[r].id].version > draft[r].version
    BY <2>1 DEF MissesAreReal
  <2>3. ClientVersion(r) = draft[r].version
    BY <1>3, <2>1 DEF KnownSteps, NamedVersions, ClientVersion
  <2>4. QED
    BY <1>3, <2>1, <2>2, <2>3 DEF MarkSentMiss, Exists, SentHaveGroup
<1>8. QED
  BY <1>2, <1>4, <1>5, <1>6, <1>7

(***************************************************************************)
(* ... and stays true.                                                     *)
(***************************************************************************)
LEMMA RefusalsStep ==
  ASSUME HonestClients, Core, NamedVersions, SentHaveGroup, MissesAreReal,
         RefusalsAreTrue, [Next]_vars
  PROVE  RefusalsAreTrue'
<1> SUFFICES ASSUME NEW r \in Requests,
                    pc'[r] \in {"already_sent", "version_mismatch", "not_found"}
             PROVE  LET y == row'[op'[r].id] IN
                    /\ pc'[r] = "already_sent" => y.groupId # None
                    /\ pc'[r] = "version_mismatch" => y.version > ClientVersion(r)'
                    /\ pc'[r] = "not_found" =>
                         y.status = "deleted" \/ y.project # op'[r].project
  BY DEF RefusalsAreTrue
<1>1. CASE pc'[r] = pc[r]
  <2>1. /\ pc[r] = "already_sent" => row[op[r].id].groupId # None
        /\ pc[r] = "version_mismatch" => row[op[r].id].version > ClientVersion(r)
        /\ pc[r] = "not_found" => \/ row[op[r].id].status = "deleted"
                                  \/ row[op[r].id].project # op[r].project
    BY DEF RefusalsAreTrue
  <2>2. pc[r] \notin {"idle", "load"}
    BY <1>1
  <2>3. ClientVersion(r)' = ClientVersion(r)
    BY <1>1, <2>2, StandingRequest DEF ClientVersion
  <2>4. ClientVersion(r) \in Int
    BY DEF ClientVersion, Core, TypeOK, Op, Row
  <2>5. QED
    BY <1>1, <2>1, <2>2, <2>3, <2>4, StandingRequest
<1>2. CASE pc'[r] # pc[r]
  <2>1. row' = row /\ op' = op /\ draft' = draft
    BY <1>2, RefusalIsTrue DEF Refused
  <2>2. ClientVersion(r)' = ClientVersion(r)
    BY <2>1 DEF ClientVersion
  <2>3. QED
    BY <1>2, <2>1, <2>2, RefusalIsTrue DEF Refused
<1>3. QED
  BY <1>1, <1>2

(***************************************************************************)
(* A 404, 409 or 412 tells the client the truth about the row, now and at  *)
(* any later time, if clients name only versions they were shown, although *)
(* the answer is worked out by a statement after the one that missed.      *)
(***************************************************************************)
THEOREM RefusalsTellTheTruth == HonestClients /\ Spec => []RefusalsAreTrue
<1> DEFINE Inv == /\ HonestClients /\ NamedVersions /\ SentHaveGroup
                  /\ MissesAreReal /\ RefusalsAreTrue
<1>1. HonestClients /\ Init => Inv
  BY DEF Init, NamedVersions, SentHaveGroup, MissesAreReal, RefusalsAreTrue, Blank
<1>2. Core /\ Inv /\ [Next]_vars => Inv'
  BY NamedVersionsStep, GroupStep, MissesStep, RefusalsStep DEF Core, HonestClients
<1>3. Inv => RefusalsAreTrue
  OBVIOUS
<1> HIDE DEF Inv
<1>4. QED
  BY <1>1, <1>2, <1>3, CoreHolds, PTL DEF Spec
-----------------------------------------------------------------------------
(***************************************************************************)
(* Until a send resolves its audience, it has none.                        *)
(***************************************************************************)
NothingHandedOver ==
  \A r \in Requests : pc[r] \in {"idle", "load", "resolve"} => audience[r] = {}

(***************************************************************************)
(* Seen from request r, a step of the system moves its mail as the one     *)
(* step of Delivery it stands for, or not at all.                          *)
(***************************************************************************)
MailMoves(r) ==
  \/ ResolveRecipients(r)
  \/ FanoutEnabled /\ \E m \in Recipients : \/ EmailServiceAccepts(r, m)
                                            \/ SettleSent(r, m)
                                            \/ SettleFailed(r, m)

(***************************************************************************)
(* Only a request's own fan-out touches its mail.                          *)
(***************************************************************************)
LEMMA MailIsOnesOwn ==
  ASSUME TypeOK, FanoutEnabled, [Next]_vars, NEW r \in Requests
  PROVE  \/ MailMoves(r)
         \/ /\ audience'[r] = audience[r] /\ pending'[r] = pending[r]
            /\ reported'[r] = reported[r] /\ accepted'[r] = accepted[r]
<1> USE DEF TypeOK
<1> DEFINE Same == /\ audience'[r] = audience[r] /\ pending'[r] = pending[r]
                   /\ reported'[r] = reported[r] /\ accepted'[r] = accepted[r]
<1>1. ASSUME NEW s \in Requests, Step(s)
      PROVE  MailMoves(r) \/ Same
  <2>1. CASE UNCHANGED mailVars
    BY <2>1 DEF mailVars
  <2>2. CASE MailMoves(s) /\ s = r
    BY <2>2
  <2>3. CASE MailMoves(s) /\ s # r
    BY <2>3 DEF MailMoves, ResolveRecipients, EmailServiceAccepts, SettleSent,
       SettleFailed
  <2>4. MailMoves(s) \/ UNCHANGED mailVars
    BY <1>1 DEF MailMoves, Step, Handle, Abort, LoadRefused, LoadAccepted,
       UpdateStatement, ClassifyUpdateMiss, DeleteStatement, GiveUp, MarkSent,
       ClassifyMarkSentMiss
  <2>5. QED
    BY <2>1, <2>2, <2>3, <2>4
<1>2. ASSUME NEW s \in Requests, Arrive(s)
      PROVE  UNCHANGED mailVars
  BY <1>2, Arrival DEF Asked
<1>3. QED
  BY <1>1, <1>2, NextSplits DEF CreateDraft, vars, mailVars

(***************************************************************************)
(* A request has no audience as long as it has not resolved one.           *)
(***************************************************************************)
LEMMA HandedOverStep ==
  ASSUME Core, FanoutEnabled, NothingHandedOver, [Next]_vars
  PROVE  NothingHandedOver'
<1> SUFFICES ASSUME NEW r \in Requests, pc'[r] \in {"idle", "load", "resolve"}
             PROVE  audience'[r] = {}
  BY DEF NothingHandedOver
<1> USE DEF Core
<1>1. pc[r] \in {"idle", "load", "resolve"}
  <2>1. CASE pc'[r] = pc[r] \/ pc[r] = "idle"
    BY <2>1
  <2>2. CASE pc'[r] # pc[r] /\ pc[r] # "idle"
    <3>1. Handle(r) \/ Abort(r)
      BY <2>2, Handled
    <3>2. CASE LoadRefused(r) \/ LoadAccepted(r)
      BY <3>2 DEF LoadRefused, LoadAccepted
    <3>3. CASE UpdateStatement(r) \/ ClassifyUpdateMiss(r)
      BY <2>2, <3>3 DEF UpdateStatement, ClassifyUpdateMiss, Goto, TypeOK
    <3>4. CASE DeleteStatement(r) \/ ResolveRecipients(r)
      BY <2>2, <3>4 DEF DeleteStatement, ResolveRecipients, Goto, TypeOK
    <3>5. CASE \E m \in Recipients : SettleSent(r, m) \/ SettleFailed(r, m)
      BY <2>2, <3>5 DEF SettleSent, SettleFailed
    <3>6. CASE GiveUp(r) \/ ClassifyMarkSentMiss(r) \/ Abort(r)
      BY <2>2, <3>6
      DEF GiveUp, ClassifyMarkSentMiss, MarkSentMiss, Abort, Goto, TypeOK
    <3>7. CASE MarkSent(r)
      BY <2>2, <3>7 DEF MarkSent, Goto, TypeOK
    <3>8. QED
      BY <3>1, <3>2, <3>3, <3>4, <3>5, <3>6, <3>7 DEF Handle
  <2>3. QED
    BY <2>1, <2>2
<1>2. audience[r] = {}
  BY <1>1 DEF NothingHandedOver
<1>3. CASE MailMoves(r)
  <2>1. ~ ResolveRecipients(r)
    BY DEF ResolveRecipients, Goto, TypeOK
  <2>2. QED
    BY <1>2, <1>3, <2>1
    DEF MailMoves, EmailServiceAccepts, SettleSent, SettleFailed
<1>4. QED
  BY <1>2, <1>3, MailIsOnesOwn

(***************************************************************************)
(* A step of a request's own mail is a step of its Delivery.               *)
(***************************************************************************)
LEMMA MailDelivers ==
  ASSUME TypeOK, NothingHandedOver, NEW r \in Requests, MailMoves(r)
  PROVE  FanOutOf(r)!Next
<1> USE DEF TypeOK
<1>1. CASE ResolveRecipients(r)
  <2>1. audience[r] = {}
    BY <1>1 DEF ResolveRecipients, NothingHandedOver
  <2>2. FanOutOf(r)!Begin
    BY <1>1, <2>1 DEF ResolveRecipients, FanOutOf!Begin
  <2>3. QED
    BY <2>2 DEF FanOutOf!Next
<1>2. ASSUME NEW m \in Recipients, FanoutEnabled, EmailServiceAccepts(r, m)
      PROVE  FanOutOf(r)!Next
  BY <1>2 DEF EmailServiceAccepts, FanOutOf!Accept, FanOutOf!Next
<1>3. ASSUME NEW m \in Recipients, FanoutEnabled, SettleSent(r, m)
      PROVE  FanOutOf(r)!Next
  BY <1>3 DEF SettleSent, FanOutOf!SettleSent, FanOutOf!Next
<1>4. ASSUME NEW m \in Recipients, FanoutEnabled, SettleFailed(r, m)
      PROVE  FanOutOf(r)!Next
  BY <1>4 DEF SettleFailed, FanOutOf!SettleFailed, FanOutOf!Next
<1>5. QED
  BY <1>1, <1>2, <1>3, <1>4 DEF MailMoves

(***************************************************************************)
(* With fan-out enabled every send of the lifecycle is a Delivery, so what *)
(* FanOut_proofs shows of the goroutines is what the lifecycle relies on.  *)
(***************************************************************************)
THEOREM EverySendDelivers == FanoutEnabled /\ Spec => SendsDeliver
<1> DEFINE Inv == FanoutEnabled /\ NothingHandedOver
<1> DEFINE Start == \A r \in Requests : FanOutOf(r)!Init
<1> DEFINE Move == \A r \in Requests :
                     FanOutOf(r)!Next \/ UNCHANGED FanOutOf(r)!vars
<1>1. FanoutEnabled /\ Init => Inv /\ Start
  BY DEF Init, NothingHandedOver, FanOutOf!Init
<1>2. Core /\ Inv /\ [Next]_vars => Inv'
  BY HandedOverStep
<1>3. Core /\ Inv /\ [Next]_vars => Move
  BY MailIsOnesOwn, MailDelivers DEF Core, FanOutOf!vars
<1> HIDE DEF Inv, Start, Move
<1>4. FanoutEnabled /\ Spec => Start /\ [][Move]_mailVars
  BY <1>1, <1>2, <1>3, CoreHolds, PTL DEF Spec
<1>5. QED
  BY <1>4 DEF SendsDeliver, Start, Move
=============================================================================
