-------------------------- MODULE MCRequests_proofs --------------------------
(***************************************************************************)
(* Proofs about HttpRequest and MailContent: any number of versions and    *)
(* of readers.                                                             *)
(***************************************************************************)
EXTENDS MCRequests, SequenceTheorems, TLAPS

-----------------------------------------------------------------------------
(***************************************************************************)
(* Which operations get where, and what has not happened before the end:   *)
(* only the request itself takes the version beyond the bound, and then it *)
(* is over.                                                                *)
(***************************************************************************)
Under == call.pc \notin {"error", "done"}

OpsAt ==
  [load |-> AboutRow,
   statement |-> {"create", "list", "update", "delete", "analytics", "unsubscribe"},
   resolve |-> {"count", "send"}, sender |-> {"send", "test"},
   mail |-> {"send", "test"}, mark |-> {"send"}]

PlaceInv ==
  /\ call.pc \in DOMAIN OpsAt => call.op \in OpsAt[call.pc]
  /\ call.status = 0 <=> call.pc # "done"
  /\ Under => ~ did.wrote /\ ~ did.unnamed /\ letter.version <= MaxVersion
  /\ did.mailed => /\ call.pc \in {"mark", "error", "done"}
                   /\ call.op \in {"send", "test"}

(***************************************************************************)
(* Where users have to sign in, a request that is past withAuth has one;   *)
(* and the name on its mail, if it has one, is theirs.                     *)
(***************************************************************************)
NameInv ==
  /\ call.pc \in {"parse"} \cup DOMAIN OpsAt /\ call.op \notin WithoutAuth =>
       (required => call.user)
  /\ call.pc \in {"mail", "mark"} => (did.named => call.user)
  /\ did.mailed => (required \/ did.named => call.user)
  /\ did.unnamed => ~ did.mailed

(***************************************************************************)
(* A send that has read the newsletter finds it as it was, or others have  *)
(* changed it since.                                                       *)
(***************************************************************************)
RaceInv ==
  call.op = "send" /\ call.pc \in {"resolve", "sender", "mail", "mark"} =>
    did.raced \/ letter = [status |-> "draft", version |-> call.seen]

(***************************************************************************)
(* An error after a write or after a name that was not found is of no kind *)
(* that has a status of its own, and one after mail is of none that would  *)
(* deny it; of the others only one that others caused.                     *)
(***************************************************************************)
RowErrors == {{"ErrNotFound"}, {"ErrVersionMismatch"}, {"ErrAlreadySent"}}

ErrorInv ==
  call.pc = "error" =>
    /\ did.wrote => call.err = {"other"}
    /\ did.unnamed => call.err = {"Unexpected"}
    /\ did.mailed /\ call.op = "send" => call.err \in {{"other"}} \cup RowErrors
    /\ did.mailed /\ call.op = "send" /\ call.err # {"other"} => did.raced
    /\ did.mailed /\ call.op = "test" => call.err \in EmailErrors

RequestInv ==
  RequestTypeOK /\ PlaceInv /\ NameInv /\ RaceInv /\ ErrorInv
    /\ StatusIsTrue /\ SenderIsKnown

(***************************************************************************)
(* What is rendered for a send is the envelope, and every copy is the      *)
(* envelope with the link of its own reader in it.                         *)
(***************************************************************************)
Rendered == [html |-> EmailHTML(body, setting), text |-> EmailText(body, setting)]

Own(r) == IF setting.kind = "send" /\ setting.enabled
            THEN Substituted(Rendered, BuildURL(r)) ELSE Rendered

MailInv ==
  /\ body \in Bodies
  /\ setting \in [kind : {"send", "test"}, enabled : BOOLEAN]
  /\ envelope \subseteq {Rendered}
  /\ DOMAIN copies \subseteq Readers /\ mailed \subseteq DOMAIN copies
  /\ \A r \in DOMAIN copies : copies[r] = Own(r)

-----------------------------------------------------------------------------
(***************************************************************************)
(* The routes by name.                                                     *)
(***************************************************************************)
LEMMA RouteNames ==
  Routes = {"create", "list", "get", "update", "delete", "send", "count", "test",
            "analytics", "unsubscribe", "probe"}
  BY DEF Routes, Checked

(***************************************************************************)
(* classifyError, http.go: a status that is no success for every chain,    *)
(* and which for the chains the invariant speaks of.                       *)
(***************************************************************************)
LEMMA StatusOfError ==
  /\ \A e : ClassifyError(e) \in {400, 401, 404, 409, 412, 500, 503}
  /\ ClassifyError({"other"}) = 500 /\ ClassifyError({"Unexpected"}) = 500
  /\ \A e \in RowErrors : ClassifyError(e) \in {404, 409, 412}
  /\ \A e \in EmailErrors : ClassifyError(e) \in {500, 503}
<1>1. \A e : ClassifyError(e) \in {400, 401, 404, 409, 412, 500, 503}
  BY DEF ClassifyError
<1>2. ClassifyError({"other"}) = 500 /\ ClassifyError({"Unexpected"}) = 500
  BY DEF ClassifyError
<1>3. \A e \in RowErrors : ClassifyError(e) \in {404, 409, 412}
  BY DEF ClassifyError, RowErrors
<1>4. \A e \in EmailErrors : ClassifyError(e) \in {500, 503}
  BY DEF ClassifyError, EmailErrors, RequestFails, Malformed
<1>5. QED
  BY <1>1, <1>2, <1>3, <1>4

Places == {"idle", "auth", "parse", "load", "statement", "resolve", "sender", "mail",
           "mark", "error", "done"}

(***************************************************************************)
(* A step to another place changes nothing else of the request.            *)
(***************************************************************************)
LEMMA StepMoves ==
  ASSUME call \in Calls, NEW l \in Places, Step(l)
  PROVE  /\ call' \in Calls /\ call'.pc = l /\ call'.op = call.op
         /\ call'.user = call.user /\ call'.seen = call.seen
         /\ call'.err = call.err /\ call'.status = call.status
  BY DEF Calls, Step, Places

(***************************************************************************)
(* A step that fails keeps the error it met.                               *)
(***************************************************************************)
LEMMA FailMoves ==
  ASSUME call \in Calls, NEW e \in SUBSET Kinds, Fail(e)
  PROVE  /\ call' \in Calls /\ call'.pc = "error" /\ call'.op = call.op
         /\ call'.user = call.user /\ call'.seen = call.seen
         /\ call'.err = e /\ call'.status = call.status
<1> DEFINE c == [call EXCEPT !.pc = "error"]
<1>1. /\ c \in Calls /\ c.pc = "error" /\ c.op = call.op
      /\ c.user = call.user /\ c.seen = call.seen /\ c.status = call.status
  BY DEF Calls
<1>2. call' = [c EXCEPT !.err = e]
  BY DEF Calls, Fail
<1> HIDE DEF c
<1>3. QED
  BY <1>1, <1>2 DEF Calls

(***************************************************************************)
(* A step that succeeds ends the request.                                  *)
(***************************************************************************)
LEMMA SucceedMoves ==
  ASSUME call \in Calls, Succeed
  PROVE  /\ call' \in Calls /\ call'.pc = "done" /\ call'.op = call.op
         /\ call'.user = call.user /\ call'.seen = call.seen
         /\ call'.err = call.err /\ call'.status = 200
<1> DEFINE c == [call EXCEPT !.pc = "done"]
<1>1. /\ c \in Calls /\ c.pc = "done" /\ c.op = call.op
      /\ c.user = call.user /\ c.seen = call.seen /\ c.err = call.err
  BY DEF Calls
<1>2. call' = [c EXCEPT !.status = 200]
  BY DEF Calls, Succeed
<1> HIDE DEF c
<1>3. QED
  BY <1>1, <1>2 DEF Calls

(***************************************************************************)
(* What a step records of what it did, and nothing else.                   *)
(***************************************************************************)
LEMMA DidMoves ==
  ASSUME did \in Doings, NEW b \in BOOLEAN
  PROVE  /\ did' = [did EXCEPT !.wrote = b] =>
              /\ did' \in Doings /\ did'.wrote = b /\ did'.mailed = did.mailed
              /\ did'.named = did.named /\ did'.unnamed = did.unnamed
              /\ did'.raced = did.raced
         /\ did' = [did EXCEPT !.mailed = b] =>
              /\ did' \in Doings /\ did'.wrote = did.wrote /\ did'.mailed = b
              /\ did'.named = did.named /\ did'.unnamed = did.unnamed
              /\ did'.raced = did.raced
         /\ did' = [did EXCEPT !.named = b] =>
              /\ did' \in Doings /\ did'.wrote = did.wrote /\ did'.mailed = did.mailed
              /\ did'.named = b /\ did'.unnamed = did.unnamed
              /\ did'.raced = did.raced
         /\ did' = [did EXCEPT !.unnamed = b] =>
              /\ did' \in Doings /\ did'.wrote = did.wrote /\ did'.mailed = did.mailed
              /\ did'.named = did.named /\ did'.unnamed = b
              /\ did'.raced = did.raced
         /\ did' = [did EXCEPT !.raced = b] =>
              /\ did' \in Doings /\ did'.wrote = did.wrote /\ did'.mailed = did.mailed
              /\ did'.named = did.named /\ did'.unnamed = did.unnamed
              /\ did'.raced = b
  BY DEF Doings

-----------------------------------------------------------------------------
(***************************************************************************)
(* Nothing has happened to a request that has not come.                    *)
(***************************************************************************)
LEMMA RequestStart == RequestInit => RequestInv
<1> SUFFICES ASSUME RequestInit  PROVE RequestInv
  OBVIOUS
<1>1. /\ call.pc = "idle" /\ call.op = "get" /\ call.status = 0 /\ call.seen = 0
      /\ ~ did.wrote /\ ~ did.mailed /\ ~ did.unnamed
      /\ letter.version = 1 /\ 1 <= MaxVersion
  BY HttpRequestAssumption DEF RequestInit
<1>2. RequestTypeOK
  <2>1. 0 \in 0 .. MaxVersion /\ 1 \in 1 .. MaxVersion + 1
    BY HttpRequestAssumption
  <2>2. "get" \in Routes /\ "none" \in Faults
    <3>1. "get" \in Routes
      BY RouteNames
    <3>2. "none" \in Faults
      BY DEF Faults
    <3>3. QED
      BY <3>1, <3>2
  <2>3. call \in Calls
    BY <2>1, <2>2 DEF RequestInit, Calls
  <2>4. letter \in Letters /\ did \in Doings /\ required \in BOOLEAN
    BY <2>1, HttpRequestAssumption DEF RequestInit, Letters, Doings
  <2>5. QED
    BY <2>3, <2>4 DEF RequestTypeOK
<1>3. PlaceInv
  BY <1>1 DEF PlaceInv, OpsAt, Under
<1>4. NameInv /\ RaceInv /\ ErrorInv
  BY <1>1 DEF NameInv, OpsAt, RaceInv, ErrorInv
<1>5. StatusIsTrue /\ SenderIsKnown
  BY <1>1 DEF StatusIsTrue, SenderIsKnown
<1>6. QED
  BY <1>2, <1>3, <1>4, <1>5 DEF RequestInv

(***************************************************************************)
(* A step that ends in an error, of a kind that goes with what was done.   *)
(***************************************************************************)
LEMMA FailKeeps ==
  ASSUME RequestInv, Under, NEW e \in SUBSET Kinds, Fail(e),
         UNCHANGED required, letter' \in Letters, did' \in Doings,
         did'.wrote => e = {"other"},
         did'.unnamed => e = {"Unexpected"} /\ ~ did'.mailed,
         did'.mailed => /\ call.op \in {"send", "test"}
                        /\ required \/ did'.named => call.user,
         did'.mailed /\ call.op = "send" =>
           e = {"other"} \/ (e \in RowErrors /\ did'.raced),
         did'.mailed /\ call.op = "test" => e \in EmailErrors
  PROVE  RequestInv'
<1>1. /\ call \in Calls /\ call.status = 0
  BY DEF RequestInv, RequestTypeOK, PlaceInv, Under
<1>2. /\ call' \in Calls /\ call'.pc = "error" /\ call'.op = call.op
      /\ call'.user = call.user /\ call'.err = e /\ call'.status = 0
  BY <1>1, FailMoves
<1>3. RequestTypeOK'
  BY <1>2 DEF RequestInv, RequestTypeOK
<1>4. PlaceInv' /\ NameInv' /\ RaceInv'
  BY <1>2 DEF PlaceInv, OpsAt, Under, NameInv, RaceInv
<1>5. ErrorInv'
  BY <1>2 DEF ErrorInv
<1>6. StatusIsTrue' /\ SenderIsKnown'
  BY <1>2 DEF StatusIsTrue, SenderIsKnown
<1>7. QED
  BY <1>3, <1>4, <1>5, <1>6 DEF RequestInv

(***************************************************************************)
(* A step that ends in success: a writer has written.                      *)
(***************************************************************************)
LEMMA SucceedKeeps ==
  ASSUME RequestInv, Under, Succeed,
         UNCHANGED required, letter' \in Letters, did' \in Doings,
         call.op \in Writers => did'.wrote,
         ~ did'.unnamed,
         did'.mailed => /\ call.op \in {"send", "test"}
                        /\ required \/ did'.named => call.user
  PROVE  RequestInv'
<1>1. call \in Calls
  BY DEF RequestInv, RequestTypeOK
<1>2. /\ call' \in Calls /\ call'.pc = "done" /\ call'.op = call.op
      /\ call'.user = call.user /\ call'.status = 200
  BY <1>1, SucceedMoves
<1>3. RequestTypeOK'
  BY <1>2 DEF RequestInv, RequestTypeOK
<1>4. PlaceInv' /\ NameInv' /\ RaceInv' /\ ErrorInv'
  BY <1>2 DEF PlaceInv, OpsAt, Under, NameInv, RaceInv, ErrorInv
<1>5. StatusIsTrue' /\ SenderIsKnown'
  BY <1>2 DEF StatusIsTrue, SenderIsKnown
<1>6. QED
  BY <1>3, <1>4, <1>5 DEF RequestInv

(***************************************************************************)
(* A step that goes on to a place its operation gets to.                   *)
(***************************************************************************)
LEMMA GoingOnKeeps ==
  ASSUME RequestInv, Under, NEW l \in {"auth", "parse"} \cup DOMAIN OpsAt,
         UNCHANGED <<required, letter>>,
         call' \in Calls, call'.pc = l, call'.status = 0,
         did' \in Doings, did'.wrote = did.wrote, did'.unnamed = did.unnamed,
         l \in DOMAIN OpsAt => call'.op \in OpsAt[l],
         l # "auth" /\ call'.op \notin WithoutAuth => (required => call'.user),
         l \in {"mail", "mark"} => (did'.named => call'.user),
         did'.mailed => l = "mark",
         call'.op = "send" /\ l \in {"resolve", "sender", "mail", "mark"} =>
           did'.raced \/ letter = [status |-> "draft", version |-> call'.seen]
  PROVE  RequestInv'
<1>1. /\ l \in {"auth", "parse", "load", "statement", "resolve", "sender", "mail", "mark"}
      /\ DOMAIN OpsAt = {"load", "statement", "resolve", "sender", "mail", "mark"}
      /\ OpsAt["mark"] = {"send"}
  BY DEF OpsAt
<1>2. RequestTypeOK'
  BY DEF RequestInv, RequestTypeOK
<1>3. ~ did'.wrote /\ ~ did'.unnamed /\ letter'.version <= MaxVersion
  BY DEF RequestInv, PlaceInv
<1>4. PlaceInv'
  BY <1>1, <1>3 DEF PlaceInv, Under
<1>5. NameInv'
  BY <1>1, <1>3 DEF NameInv, WithoutAuth
<1>6. RaceInv' /\ ErrorInv'
  BY <1>1 DEF RaceInv, ErrorInv
<1>7. StatusIsTrue'
  BY DEF StatusIsTrue
<1>8. SenderIsKnown'
  BY <1>3, <1>5 DEF SenderIsKnown, NameInv
<1>9. QED
  BY <1>2, <1>4, <1>5, <1>6, <1>7, <1>8 DEF RequestInv

-----------------------------------------------------------------------------
(***************************************************************************)
(* The facts about a typed request every step starts from.                 *)
(***************************************************************************)
LEMMA Facts ==
  ASSUME RequestInv
  PROVE  /\ RequestTypeOK /\ PlaceInv /\ NameInv /\ RaceInv
         /\ letter \in Letters /\ call \in Calls /\ did \in Doings
         /\ call.op \in Routes
         /\ \A p \in {"idle", "auth", "parse", "load", "statement", "resolve",
                      "sender", "mail", "mark"} :
              call.pc = p => /\ Under /\ call.status = 0
                             /\ ~ did.wrote /\ ~ did.unnamed
                             /\ letter.version <= MaxVersion
                             /\ p # "mark" => ~ did.mailed
<1>1. /\ RequestTypeOK /\ PlaceInv /\ NameInv /\ RaceInv
      /\ letter \in Letters /\ call \in Calls /\ did \in Doings
  BY DEF RequestInv, RequestTypeOK
<1>2. call.op \in Routes
  BY <1>1 DEF Calls
<1>3. QED
  BY <1>1, <1>2 DEF PlaceInv, Under

(***************************************************************************)
(* The kinds of errors the clients report are kinds.                       *)
(***************************************************************************)
LEMMA ErrorKinds ==
  /\ {"authError"} \in SUBSET Kinds /\ {"ErrInvalidRequest"} \in SUBSET Kinds
  /\ DatabaseFails = {"other"} /\ DatabaseFails \in SUBSET Kinds
  /\ CommitteeErrors \subseteq SUBSET Kinds /\ EmailErrors \subseteq SUBSET Kinds
  /\ RowErrors \subseteq SUBSET Kinds
  /\ \A e : /\ Folded(e) = {"Unexpected"} /\ Folded(e) \in SUBSET Kinds
            /\ NobodyReached(e) = {"other"}
  /\ LoadRefusal = {} \/ LoadRefusal \in RowErrors
  /\ MissError \in RowErrors /\ MarkSentMiss \in RowErrors
<1>1. /\ {"authError"} \in SUBSET Kinds /\ {"ErrInvalidRequest"} \in SUBSET Kinds
      /\ DatabaseFails = {"other"} /\ DatabaseFails \in SUBSET Kinds
  BY DEF Kinds, DatabaseFails
<1>2. CommitteeErrors \subseteq SUBSET Kinds /\ EmailErrors \subseteq SUBSET Kinds
      /\ RowErrors \subseteq SUBSET Kinds
  BY DEF Kinds, CommitteeErrors, EmailErrors, RequestFails, Malformed, RowErrors
<1>3. \A e : /\ Folded(e) = {"Unexpected"} /\ Folded(e) \in SUBSET Kinds
             /\ NobodyReached(e) = {"other"}
  BY DEF Kinds, Folded, NobodyReached
<1>4. LoadRefusal = {} \/ LoadRefusal \in RowErrors
  BY DEF LoadRefusal, RowErrors
<1>5. MissError \in RowErrors /\ MarkSentMiss \in RowErrors
  BY DEF MissError, MarkSentMiss, RowErrors
<1>6. QED
  BY <1>1, <1>2, <1>3, <1>4, <1>5

(***************************************************************************)
(* Other requests: what they change, a send that is past its reading will  *)
(* know as a race.                                                         *)
(***************************************************************************)
LEMMA OthersKeep ==
  ASSUME RequestInv, OthersChange
  PROVE  RequestInv'
<1>1. /\ UNCHANGED <<required, call>> /\ call.status = 0
      /\ did' = [did EXCEPT !.raced = call.pc # "idle"]
  BY DEF OthersChange
<1>2. /\ did' \in Doings /\ did'.wrote = did.wrote /\ did'.mailed = did.mailed
      /\ did'.named = did.named /\ did'.unnamed = did.unnamed
      /\ did'.raced = (call.pc # "idle")
  BY <1>1, Facts, DidMoves
<1>3. letter' \in Letters /\ (letter.version <= MaxVersion => letter'.version <= MaxVersion)
  <2>1. letter \in Letters /\ letter.version \in Nat \ {0}
    BY Facts, HttpRequestAssumption DEF Letters
  <2>2. ASSUME letter.version < MaxVersion, NEW s \in {"draft", "sent"},
               letter' = [status |-> s, version |-> letter.version + 1]
        PROVE  letter' \in Letters /\ letter'.version <= MaxVersion
    <3>1. letter.version + 1 \in 1 .. MaxVersion + 1 /\ letter.version + 1 <= MaxVersion
      BY <2>1, <2>2, HttpRequestAssumption
    <3>2. QED
      BY <2>2, <3>1 DEF Letters
  <2>3. CASE letter' = [letter EXCEPT !.status = "deleted"]
    BY <2>1, <2>3 DEF Letters
  <2>4. QED
    BY <2>2, <2>3 DEF OthersChange
<1>4. RequestTypeOK'
  BY <1>1, <1>2, <1>3 DEF RequestInv, RequestTypeOK
<1>5. PlaceInv'
  BY <1>1, <1>2, <1>3 DEF RequestInv, PlaceInv, Under
<1>6. NameInv'
  BY <1>1, <1>2 DEF RequestInv, NameInv
<1>7. RaceInv'
  BY <1>1, <1>2 DEF RaceInv
<1>8. ErrorInv'
  BY <1>1, <1>2 DEF RequestInv, ErrorInv
<1>9. StatusIsTrue' /\ SenderIsKnown'
  BY <1>1, <1>2 DEF RequestInv, StatusIsTrue, SenderIsKnown
<1>10. QED
  BY <1>4, <1>5, <1>6, <1>7, <1>8, <1>9 DEF RequestInv

(***************************************************************************)
(* A request comes in.                                                     *)
(***************************************************************************)
LEMMA ReceiveKeeps ==
  ASSUME RequestInv, NEW o \in Routes, NEW b \in {"none", "invalid", "valid"},
         NEW f \in Faults, NEW v \in 0 .. MaxVersion, NEW mine \in BOOLEAN,
         Receive(o, b, f, v, mine)
  PROVE  RequestInv'
<1>1. /\ call.pc = "idle" /\ call \in Calls /\ call.status = 0
      /\ UNCHANGED <<required, letter, did>>
  BY Facts DEF Receive
<1> DEFINE c1 == [call EXCEPT !.pc = "auth"]
           c2 == [c1 EXCEPT !.op = o]
           c3 == [c2 EXCEPT !.bearer = b]
           c4 == [c3 EXCEPT !.fault = f]
           c5 == [c4 EXCEPT !.ifMatch = v]
<1>2. call' = [c5 EXCEPT !.ours = mine]
  BY <1>1 DEF Receive, Calls
<1>3. c5 \in Calls /\ c5.pc = "auth" /\ c5.op = o /\ c5.status = 0
  <2>1. c1 \in Calls /\ c1.pc = "auth" /\ c1.status = 0
    BY <1>1 DEF Calls
  <2> HIDE DEF c1
  <2>2. c2 \in Calls /\ c2.pc = "auth" /\ c2.op = o /\ c2.status = 0
    BY <2>1 DEF Calls
  <2> HIDE DEF c2
  <2>3. c3 \in Calls /\ c3.pc = "auth" /\ c3.op = o /\ c3.status = 0
    BY <2>2 DEF Calls
  <2> HIDE DEF c3
  <2>4. c4 \in Calls /\ c4.pc = "auth" /\ c4.op = o /\ c4.status = 0
    BY <2>3 DEF Calls
  <2> HIDE DEF c4
  <2>5. QED
    BY <2>4 DEF Calls
<1> HIDE DEF c5
<1>4. call' \in Calls /\ call'.pc = "auth" /\ call'.op = o /\ call'.status = 0
  BY <1>2, <1>3 DEF Calls
<1>5. ~ did.mailed /\ did \in Doings /\ Under
  BY <1>1, Facts
<1>6. QED
  BY <1>1, <1>4, <1>5, GoingOnKeeps DEF OpsAt

(***************************************************************************)
(* withAuth: behind it, a request that has to have a user has one.         *)
(***************************************************************************)
LEMMA WithAuthKeeps ==
  ASSUME RequestInv, WithAuth
  PROVE  RequestInv'
<1>1. /\ call.pc = "auth" /\ UNCHANGED <<required, letter, did>>
  BY DEF WithAuth
<1>2. /\ call \in Calls /\ call.status = 0 /\ Under /\ letter \in Letters
      /\ did \in Doings /\ ~ did.mailed /\ ~ did.wrote /\ ~ did.unnamed
  BY <1>1, Facts
<1>3. CASE call.op \in WithoutAuth /\ Step("parse")
  <2>1. call' \in Calls /\ call'.pc = "parse" /\ call'.op = call.op /\ call'.status = 0
    BY <1>2, <1>3, StepMoves DEF Places
  <2>2. QED
    BY <1>1, <1>2, <1>3, <2>1, GoingOnKeeps DEF OpsAt
<1>4. CASE /\ call.op \notin WithoutAuth
           /\ required => call.bearer = "valid"
           /\ call' = [call EXCEPT !.pc = "parse", !.user = call.bearer = "valid"]
  <2>1. /\ call' \in Calls /\ call'.pc = "parse" /\ call'.op = call.op
        /\ call'.status = 0 /\ (required => call'.user)
    <3> DEFINE u == call.bearer = "valid"
    <3>1. u \in BOOLEAN /\ (required => u)
      BY <1>4
    <3> DEFINE c == [call EXCEPT !.pc = "parse"]
    <3>2. call' = [c EXCEPT !.user = u]
      BY <1>2, <1>4 DEF Calls
    <3>3. c \in Calls /\ c.pc = "parse" /\ c.op = call.op /\ c.status = 0
      BY <1>2 DEF Calls
    <3> HIDE DEF u, c
    <3>4. /\ call' \in Calls /\ call'.pc = "parse" /\ call'.op = call.op
          /\ call'.status = 0 /\ call'.user = u
      BY <3>1, <3>2, <3>3 DEF Calls
    <3>5. QED
      BY <3>1, <3>4
  <2>2. QED
    BY <1>1, <1>2, <2>1, GoingOnKeeps DEF OpsAt
<1>5. CASE Fail({"authError"})
  BY <1>1, <1>2, <1>5, ErrorKinds, FailKeeps
<1>6. QED
  BY <1>3, <1>4, <1>5 DEF WithAuth

(***************************************************************************)
(* Parsing: every operation goes to its first step, a probe is done.       *)
(***************************************************************************)
LEMMA ParseKeeps ==
  ASSUME RequestInv, Parse
  PROVE  RequestInv'
<1>1. call.pc = "parse" /\ UNCHANGED <<required, letter, did>>
  BY DEF Parse
<1>2. /\ call \in Calls /\ call.status = 0 /\ Under /\ letter \in Letters
      /\ did \in Doings /\ ~ did.mailed /\ ~ did.wrote /\ ~ did.unnamed
      /\ call.op \in Routes /\ NameInv
  BY <1>1, Facts
<1>3. CASE Fail({"ErrInvalidRequest"})
  BY <1>1, <1>2, <1>3, ErrorKinds, FailKeeps
<1>4. CASE call.op = "probe" /\ Succeed
  <2>1. call.op \notin Writers
    BY <1>4 DEF Writers
  <2>2. QED
    BY <1>1, <1>2, <1>4, <2>1, SucceedKeeps
<1>5. CASE call.op # "probe" /\ Step(FirstStep[call.op])
  <2> DEFINE l == FirstStep[call.op]
  <2>1. /\ l \in {"load", "resolve", "sender", "statement"}
        /\ l = "load" => call.op \in AboutRow
        /\ l = "resolve" => call.op = "count"
        /\ l = "sender" => call.op = "test"
        /\ l = "statement" => call.op \notin AboutRow \cup {"count", "test"}
    BY <1>2 DEF FirstStep
  <2> HIDE DEF l
  <2>2. Step(l)
    BY <1>5 DEF l
  <2>3. /\ call' \in Calls /\ call'.pc = l /\ call'.op = call.op /\ call'.status = 0
        /\ call'.user = call.user
    BY <1>2, <2>1, <2>2, StepMoves DEF Places
  <2>4. call.op \in OpsAt[l] /\ l \in DOMAIN OpsAt
    BY <1>2, <1>5, <2>1, RouteNames DEF OpsAt, AboutRow
  <2>5. call.op \notin WithoutAuth => (required => call.user)
    BY <1>1, <1>2 DEF NameInv
  <2>6. call.op # "send"  \/ l = "load"
    BY <2>1 DEF AboutRow
  <2>7. QED
    BY <1>1, <1>2, <2>1, <2>3, <2>4, <2>5, <2>6, GoingOnKeeps
<1>6. QED
  BY <1>3, <1>4, <1>5 DEF Parse

(***************************************************************************)
(* repo.Get: a send that goes on has read a draft, and remembers which.    *)
(***************************************************************************)
LEMMA LoadKeeps ==
  ASSUME RequestInv, Load
  PROVE  RequestInv'
<1>1. call.pc = "load" /\ UNCHANGED <<required, letter, did>>
  BY DEF Load
<1>2. /\ call \in Calls /\ call.status = 0 /\ Under /\ letter \in Letters
      /\ did \in Doings /\ ~ did.mailed /\ ~ did.wrote /\ ~ did.unnamed
      /\ letter.version <= MaxVersion /\ NameInv /\ PlaceInv
  BY <1>1, Facts
<1>3. call.op \in AboutRow /\ call.op \notin WithoutAuth /\ (required => call.user)
  BY <1>1, <1>2 DEF NameInv, PlaceInv, OpsAt, AboutRow, WithoutAuth
<1>4. CASE Fail(DatabaseFails)
  BY <1>1, <1>2, <1>4, ErrorKinds, FailKeeps
<1>5. CASE LoadRefusal # {} /\ Fail(LoadRefusal)
  <2>1. LoadRefusal \in SUBSET Kinds
    BY <1>5, ErrorKinds
  <2>2. QED
    BY <1>1, <1>2, <1>5, <2>1, FailKeeps
<1>6. CASE LoadRefusal = {} /\ call.op = "get" /\ Succeed
  <2>1. call.op \notin Writers
    BY <1>6 DEF Writers
  <2>2. QED
    BY <1>1, <1>2, <1>6, <2>1, SucceedKeeps
<1>7. CASE /\ LoadRefusal = {} /\ call.op = "send"
           /\ call' = [call EXCEPT !.pc = "resolve", !.seen = letter.version]
  <2>1. letter = [status |-> "draft", version |-> letter.version]
    <3>1. letter.status = "draft"
      BY <1>2, <1>7 DEF LoadRefusal, Letters
    <3>2. QED
      BY <1>2, <3>1 DEF Letters
  <2>2. letter.version \in 0 .. MaxVersion
    BY <1>2, HttpRequestAssumption DEF Letters
  <2>3. /\ call' \in Calls /\ call'.pc = "resolve" /\ call'.op = call.op
        /\ call'.status = 0 /\ call'.user = call.user /\ call'.seen = letter.version
    <3> DEFINE c == [call EXCEPT !.pc = "resolve"]
    <3>1. call' = [c EXCEPT !.seen = letter.version]
      BY <1>2, <1>7 DEF Calls
    <3>2. /\ c \in Calls /\ c.pc = "resolve" /\ c.op = call.op /\ c.status = 0
          /\ c.user = call.user
      BY <1>2 DEF Calls
    <3> HIDE DEF c
    <3>3. QED
      BY <2>2, <3>1, <3>2 DEF Calls
  <2>4. QED
    BY <1>1, <1>2, <1>3, <1>7, <2>1, <2>3, GoingOnKeeps DEF OpsAt
<1>8. CASE LoadRefusal = {} /\ call.op \notin {"get", "send"} /\ Step("statement")
  <2>1. /\ call' \in Calls /\ call'.pc = "statement" /\ call'.op = call.op
        /\ call'.status = 0 /\ call'.user = call.user
    BY <1>2, <1>8, StepMoves DEF Places
  <2>2. call.op \in OpsAt["statement"]
    BY <1>3, <1>8 DEF OpsAt, AboutRow
  <2>3. QED
    BY <1>1, <1>2, <1>3, <1>8, <2>1, <2>2, GoingOnKeeps DEF OpsAt
<1>9. QED
  BY <1>4, <1>5, <1>6, <1>7, <1>8 DEF Load

(***************************************************************************)
(* The statement: what it wrote is not denied, nor is success claimed of   *)
(* what it did not.                                                        *)
(***************************************************************************)
LEMMA StatementKeeps ==
  ASSUME RequestInv, Statement
  PROVE  RequestInv'
<1>1. call.pc = "statement" /\ UNCHANGED required
  BY DEF Statement
<1>2. /\ call \in Calls /\ call.status = 0 /\ Under /\ letter \in Letters
      /\ did \in Doings /\ ~ did.mailed /\ ~ did.wrote /\ ~ did.unnamed
      /\ letter.version <= MaxVersion /\ PlaceInv
  BY <1>1, Facts
<1>3. CASE Fail(DatabaseFails) /\ UNCHANGED <<letter, did>>
  BY <1>1, <1>2, <1>3, ErrorKinds, FailKeeps
<1>4. CASE Misses /\ Fail(MissError) /\ UNCHANGED <<letter, did>>
  <2>1. MissError \in SUBSET Kinds
    BY ErrorKinds
  <2>2. QED
    BY <1>1, <1>2, <1>4, <2>1, FailKeeps
<1>5. CASE /\ letter' = Written
           /\ did' = [did EXCEPT !.wrote = call.op \in Writers]
           /\ Succeed \/ Fail(DatabaseFails)
  <2>1. letter' \in Letters
    <3>1. letter.version + 1 \in 1 .. MaxVersion + 1
      BY <1>2, HttpRequestAssumption DEF Letters
    <3>2. /\ [letter EXCEPT !.version = @ + 1] \in Letters
          /\ [letter EXCEPT !.status = "deleted"] \in Letters
      BY <1>2, <3>1 DEF Letters
    <3>3. QED
      BY <1>2, <1>5, <3>2 DEF Written
  <2> DEFINE w == call.op \in Writers
  <2>2. w \in BOOLEAN /\ did' = [did EXCEPT !.wrote = w]
    BY <1>5
  <2>3. /\ did' \in Doings /\ did'.wrote = w /\ ~ did'.mailed /\ ~ did'.unnamed
    <3> HIDE DEF w
    <3>1. QED
      BY <1>2, <2>2, DidMoves
  <2>4. CASE Succeed
    BY <1>1, <1>2, <2>1, <2>3, <2>4, SucceedKeeps
  <2>5. CASE Fail(DatabaseFails)
    BY <1>1, <1>2, <2>1, <2>3, <2>5, ErrorKinds, FailKeeps
  <2>6. QED
    BY <1>5, <2>4, <2>5
<1>6. QED
  BY <1>3, <1>4, <1>5 DEF Statement

(***************************************************************************)
(* resolveRecipients: nothing has been mailed when a committee fails.      *)
(***************************************************************************)
LEMMA ResolveKeeps ==
  ASSUME RequestInv, ResolveRecipients
  PROVE  RequestInv'
<1>1. call.pc = "resolve" /\ UNCHANGED <<required, letter, did>>
  BY DEF ResolveRecipients
<1>2. /\ call \in Calls /\ call.status = 0 /\ Under /\ letter \in Letters
      /\ did \in Doings /\ ~ did.mailed /\ ~ did.wrote /\ ~ did.unnamed
      /\ NameInv /\ PlaceInv /\ RaceInv
  BY <1>1, Facts
<1>3. call.op \in {"count", "send"} /\ (required => call.user)
  BY <1>1, <1>2 DEF NameInv, PlaceInv, OpsAt, WithoutAuth
<1>4. ASSUME NEW e \in CommitteeErrors \cup {DatabaseFails}, Fail(e)
      PROVE  RequestInv'
  <2>1. e \in SUBSET Kinds
    BY ErrorKinds
  <2>2. QED
    BY <1>1, <1>2, <1>4, <2>1, FailKeeps
<1>5. CASE call.op = "count" /\ Succeed
  <2>1. call.op \notin Writers
    BY <1>5 DEF Writers
  <2>2. QED
    BY <1>1, <1>2, <1>5, <2>1, SucceedKeeps
<1>6. CASE call.op # "count" /\ Step("sender")
  <2>1. /\ call' \in Calls /\ call'.pc = "sender" /\ call'.op = call.op
        /\ call'.status = 0 /\ call'.user = call.user /\ call'.seen = call.seen
    BY <1>2, <1>6, StepMoves DEF Places
  <2>2. call.op = "send"
    BY <1>3, <1>6
  <2>3. did.raced \/ letter = [status |-> "draft", version |-> call.seen]
    BY <1>1, <1>2, <2>2 DEF RaceInv
  <2>4. QED
    BY <1>1, <1>2, <1>3, <2>1, <2>2, <2>3, GoingOnKeeps DEF OpsAt
<1>7. QED
  BY <1>4, <1>5, <1>6 DEF ResolveRecipients

(***************************************************************************)
(* resolveSenderName: the mail has the name of who signed in, or none; a   *)
(* name that is not found ends the request before it has mailed.           *)
(***************************************************************************)
LEMMA SenderKeeps ==
  ASSUME RequestInv, ResolveSenderName
  PROVE  RequestInv'
<1>1. call.pc = "sender" /\ UNCHANGED <<required, letter>>
  BY DEF ResolveSenderName
<1>2. /\ call \in Calls /\ call.status = 0 /\ Under /\ letter \in Letters
      /\ did \in Doings /\ ~ did.mailed /\ ~ did.wrote /\ ~ did.unnamed
      /\ NameInv /\ PlaceInv /\ RaceInv
  BY <1>1, Facts
<1>3. call.op \in {"send", "test"} /\ (required => call.user)
  BY <1>1, <1>2 DEF NameInv, PlaceInv, OpsAt, WithoutAuth
<1>4. call.op = "send" =>
        did.raced \/ letter = [status |-> "draft", version |-> call.seen]
  BY <1>1, <1>2 DEF RaceInv
<1>5. ASSUME Step("mail"), NEW known \in {FALSE, call.user},
             did' = [did EXCEPT !.named = known]
      PROVE  RequestInv'
  <2>1. /\ call' \in Calls /\ call'.pc = "mail" /\ call'.op = call.op
        /\ call'.status = 0 /\ call'.user = call.user /\ call'.seen = call.seen
    BY <1>2, <1>5, StepMoves DEF Places
  <2>2. known \in BOOLEAN /\ (known => call.user)
    <3>1. call.user \in BOOLEAN
      BY <1>2 DEF Calls
    <3>2. known = FALSE \/ known = call.user
      BY <1>5
    <3>3. QED
      BY ONLY <3>1, <3>2, Zenon
  <2>3. /\ did' \in Doings /\ did'.named = known /\ did'.wrote = did.wrote
        /\ did'.mailed = did.mailed /\ did'.unnamed = did.unnamed
        /\ did'.raced = did.raced
    BY <1>2, <1>5, <2>2, DidMoves
  <2>4. QED
    BY <1>1, <1>2, <1>3, <1>4, <2>1, <2>2, <2>3, GoingOnKeeps DEF OpsAt
<1>6. ASSUME NEW e, e = {"Unexpected"}, Fail(e), did' = [did EXCEPT !.unnamed = TRUE]
      PROVE  RequestInv'
  <2>1. /\ did' \in Doings /\ did'.unnamed /\ did'.wrote = did.wrote
        /\ did'.mailed = did.mailed
    BY <1>2, <1>6, DidMoves
  <2>2. e \in SUBSET Kinds
    BY <1>6 DEF Kinds
  <2>3. QED
    BY <1>1, <1>2, <1>6, <2>1, <2>2, FailKeeps
<1>7. \A e : Folded(e) = {"Unexpected"}
  BY ErrorKinds
<1>8. QED
  BY <1>5, <1>6, <1>7 DEF ResolveSenderName

(***************************************************************************)
(* TestSend: whoever was required to sign in, or has named the mail, did.  *)
(***************************************************************************)
LEMMA TestSendKeeps ==
  ASSUME RequestInv, TestSend
  PROVE  RequestInv'
<1>1. call.pc = "mail" /\ call.op = "test" /\ UNCHANGED <<required, letter>>
  BY DEF TestSend
<1>2. /\ call \in Calls /\ call.status = 0 /\ Under /\ letter \in Letters
      /\ did \in Doings /\ ~ did.mailed /\ ~ did.wrote /\ ~ did.unnamed
      /\ NameInv
  BY <1>1, Facts
<1>3. required \/ did.named => call.user
  BY <1>1, <1>2 DEF NameInv, OpsAt, WithoutAuth
<1>4. PICK out \in BOOLEAN : did' = [did EXCEPT !.mailed = out]
  BY DEF TestSend
<1>5. /\ did' \in Doings /\ did'.wrote = did.wrote /\ did'.unnamed = did.unnamed
      /\ did'.named = did.named
  BY <1>2, <1>4, DidMoves
<1>6. CASE Succeed
  <2>1. call.op \notin Writers
    BY <1>1 DEF Writers
  <2>2. QED
    BY <1>1, <1>2, <1>3, <1>5, <1>6, <2>1, SucceedKeeps
<1>7. ASSUME NEW e \in EmailErrors, Fail(e)  PROVE RequestInv'
  <2>1. e \in SUBSET Kinds
    BY ErrorKinds
  <2>2. QED
    BY <1>1, <1>2, <1>3, <1>5, <1>7, <2>1, FailKeeps
<1>8. QED
  BY <1>6, <1>7 DEF TestSend

(***************************************************************************)
(* fanOut: whatever the email service reported, a send that reached nobody *)
(* says so in words only.                                                  *)
(***************************************************************************)
LEMMA FanOutKeeps ==
  ASSUME RequestInv, FanOut
  PROVE  RequestInv'
<1>1. call.pc = "mail" /\ call.op = "send" /\ UNCHANGED <<required, letter>>
  BY DEF FanOut
<1>2. /\ call \in Calls /\ call.status = 0 /\ Under /\ letter \in Letters
      /\ did \in Doings /\ ~ did.mailed /\ ~ did.wrote /\ ~ did.unnamed
      /\ NameInv /\ RaceInv
  BY <1>1, Facts
<1>3. (required => call.user) /\ (did.named => call.user)
  BY <1>1, <1>2 DEF NameInv, OpsAt, WithoutAuth
<1>4. did.raced \/ letter = [status |-> "draft", version |-> call.seen]
  BY <1>1, <1>2 DEF RaceInv
<1>5. PICK out \in BOOLEAN : did' = [did EXCEPT !.mailed = out]
  BY DEF FanOut
<1>6. /\ did' \in Doings /\ did'.wrote = did.wrote /\ did'.unnamed = did.unnamed
      /\ did'.named = did.named /\ did'.raced = did.raced
  BY <1>2, <1>5, DidMoves
<1>7. CASE Step("mark")
  <2>1. /\ call' \in Calls /\ call'.pc = "mark" /\ call'.op = call.op
        /\ call'.status = 0 /\ call'.user = call.user /\ call'.seen = call.seen
    BY <1>2, <1>7, StepMoves DEF Places
  <2>2. QED
    BY <1>1, <1>2, <1>3, <1>4, <1>6, <2>1, GoingOnKeeps DEF OpsAt
<1>8. ASSUME NEW e \in EmailErrors, Fail(NobodyReached(e))  PROVE RequestInv'
  <2>1. NobodyReached(e) = {"other"} /\ NobodyReached(e) \in SUBSET Kinds
    BY ErrorKinds
  <2>2. QED
    BY <1>1, <1>2, <1>3, <1>6, <1>8, <2>1, FailKeeps
<1>9. QED
  BY <1>7, <1>8 DEF FanOut

(***************************************************************************)
(* MarkSent: it misses only what others have changed since it was read.    *)
(***************************************************************************)
LEMMA MarkSentKeeps ==
  ASSUME RequestInv, MarkSent
  PROVE  RequestInv'
<1>1. call.pc = "mark" /\ UNCHANGED required
  BY DEF MarkSent
<1>2. /\ call \in Calls /\ call.status = 0 /\ Under /\ letter \in Letters
      /\ did \in Doings /\ ~ did.wrote /\ ~ did.unnamed
      /\ letter.version <= MaxVersion /\ NameInv /\ PlaceInv /\ RaceInv
  BY <1>1, Facts
<1>3. call.op = "send" /\ (did.mailed => (required \/ did.named => call.user))
  BY <1>1, <1>2 DEF NameInv, PlaceInv, OpsAt
<1>4. CASE Fail(DatabaseFails) /\ UNCHANGED <<letter, did>>
  BY <1>1, <1>2, <1>3, <1>4, ErrorKinds, FailKeeps
<1>5. CASE /\ letter' = [status |-> "sent", version |-> call.seen + 1]
           /\ did' = [did EXCEPT !.wrote = TRUE]
           /\ Succeed \/ Fail(DatabaseFails)
  <2>1. call.seen \in 0 .. MaxVersion
    BY <1>2 DEF Calls
  <2>2. call.seen + 1 \in 1 .. MaxVersion + 1
    BY <2>1, HttpRequestAssumption
  <2>3. letter' \in Letters
    BY <1>5, <2>2 DEF Letters
  <2>4. /\ did' \in Doings /\ did'.wrote /\ did'.unnamed = did.unnamed
        /\ did'.named = did.named /\ did'.mailed = did.mailed
    BY <1>2, <1>5, DidMoves
  <2>5. CASE Succeed
    BY <1>1, <1>2, <1>3, <2>3, <2>4, <2>5, SucceedKeeps
  <2>6. CASE Fail(DatabaseFails)
    BY <1>1, <1>2, <1>3, <2>3, <2>4, <2>6, ErrorKinds, FailKeeps
  <2>7. QED
    BY <1>5, <2>5, <2>6
<1>6. CASE /\ letter # [status |-> "draft", version |-> call.seen]
           /\ Fail(MarkSentMiss)
           /\ UNCHANGED <<letter, did>>
  <2>1. did.raced
    BY <1>1, <1>2, <1>3, <1>6 DEF RaceInv
  <2>2. MarkSentMiss \in RowErrors /\ MarkSentMiss \in SUBSET Kinds
    BY ErrorKinds
  <2>3. QED
    BY <1>1, <1>2, <1>3, <1>6, <2>1, <2>2, FailKeeps
<1>7. QED
  BY <1>4, <1>5, <1>6 DEF MarkSent

(***************************************************************************)
(* The error is turned into a status.                                      *)
(***************************************************************************)
LEMMA WriteErrorKeeps ==
  ASSUME RequestInv, WriteError
  PROVE  RequestInv'
<1> DEFINE status == IF call.op = "unsubscribe" /\ "ErrInvalidRequest" \notin call.err
                       THEN 500 ELSE ClassifyError(call.err)
<1>1. /\ call.pc = "error" /\ UNCHANGED <<required, letter, did>>
      /\ call' = [call EXCEPT !.pc = "done", !.status = status]
  BY DEF WriteError
<1>2. call \in Calls /\ RequestTypeOK /\ PlaceInv /\ NameInv /\ ErrorInv
  BY DEF RequestInv, RequestTypeOK
<1>3. status \in {400, 401, 404, 409, 412, 500, 503}
  BY StatusOfError
<1>4. /\ did.wrote => status = 500
      /\ did.unnamed => status = 500
      /\ did.mailed /\ call.op = "send" =>
           status = 500 \/ (did.raced /\ status \in {404, 409, 412})
      /\ did.mailed /\ call.op = "test" => status \in {500, 503}
  BY <1>1, <1>2, StatusOfError DEF ErrorInv
<1> HIDE DEF status
<1>5. /\ call' \in Calls /\ call'.pc = "done" /\ call'.op = call.op
      /\ call'.user = call.user /\ call'.status = status
  <2> DEFINE c == [call EXCEPT !.pc = "done"]
  <2>1. call' = [c EXCEPT !.status = status]
    BY <1>1, <1>2 DEF Calls
  <2>2. c \in Calls /\ c.pc = "done" /\ c.op = call.op /\ c.user = call.user
    BY <1>2 DEF Calls
  <2> HIDE DEF c
  <2>3. QED
    BY <1>3, <2>1, <2>2 DEF Calls
<1>6. did.mailed => call.op \in {"send", "test"}
  BY <1>2 DEF PlaceInv
<1>7. RequestTypeOK'
  BY <1>1, <1>2, <1>5 DEF RequestTypeOK
<1>8. PlaceInv'
  BY <1>1, <1>3, <1>5, <1>6 DEF PlaceInv, OpsAt, Under
<1>9. NameInv' /\ RaceInv' /\ ErrorInv'
  BY <1>1, <1>2, <1>5 DEF NameInv, RaceInv, ErrorInv, OpsAt
<1>10. StatusIsTrue'
  BY <1>1, <1>3, <1>4, <1>5, <1>6 DEF StatusIsTrue
<1>11. SenderIsKnown'
  BY <1>1, <1>2, <1>4, <1>5 DEF SenderIsKnown, NameInv
<1>12. QED
  BY <1>7, <1>8, <1>9, <1>10, <1>11 DEF RequestInv

(***************************************************************************)
(* Every step of the request and of the others.                            *)
(***************************************************************************)
LEMMA RequestKeeps == RequestInv /\ [RequestNext]_requestVars => RequestInv'
<1> SUFFICES ASSUME RequestInv, [RequestNext]_requestVars  PROVE RequestInv'
  OBVIOUS
<1>1. CASE UNCHANGED requestVars
  BY <1>1 DEF requestVars, RequestInv, RequestTypeOK, PlaceInv, Under, NameInv, RaceInv,
              ErrorInv, StatusIsTrue, SenderIsKnown
<1>2. QED
  BY <1>1, OthersKeep, ReceiveKeeps, WithAuthKeeps, ParseKeeps, LoadKeeps,
     StatementKeeps, ResolveKeeps, SenderKeeps, TestSendKeeps, FanOutKeeps,
     MarkSentKeeps, WriteErrorKeeps DEF RequestNext

(***************************************************************************)
(* In every behaviour of a request.                                        *)
(***************************************************************************)
LEMMA RequestInvariance == RequestSpec => []RequestInv
  BY RequestStart, RequestKeeps, PTL DEF RequestSpec

(***************************************************************************)
(* A client may believe the status it gets, whatever failed and whoever    *)
(* else changed the newsletter, however often.                             *)
(***************************************************************************)
THEOREM StatusesAreTrue == RequestSpec => []StatusIsTrue
<1>1. RequestInv => StatusIsTrue
  BY DEF RequestInv
<1>2. QED
  BY <1>1, RequestInvariance, PTL

(***************************************************************************)
(* Where users have to sign in every mail comes of a request of one who    *)
(* did, and nobody else's name is on it; after a name that could not be    *)
(* found out there is no mail, and no answer but 500.                      *)
(***************************************************************************)
THEOREM SendersAreKnown == RequestSpec => []SenderIsKnown
<1>1. RequestInv => SenderIsKnown
  BY DEF RequestInv
<1>2. QED
  BY <1>1, RequestInvariance, PTL

-----------------------------------------------------------------------------
Tags == {"p", "li", "strong", "em", "a"}
Element == [tag : Tags, styles : Authored]
Fields == {"elements", "alone", "href", "label"}

(***************************************************************************)
(* A body is a sequence of elements, not empty.                            *)
(***************************************************************************)
LEMMA BodyShape ==
  ASSUME NEW b \in Bodies
  PROVE  /\ b.elements \in Seq(Element) /\ Len(b.elements) \in Nat \ {0}
         /\ DOMAIN b.elements = 1 .. Len(b.elements)
         /\ b.href \in Hrefs /\ DOMAIN b = Fields
<1>1. b.href \in Hrefs /\ DOMAIN b = Fields
  BY DEF Bodies, Fields
<1>2. PICK outer \in Elements({"p", "li"}), wrap \in Optional(Elements({"strong", "em"})),
           link \in Optional(Elements({"a"})) : b.elements = <<outer>> \o wrap \o link
  <2>1. b.elements \in Blocks
    BY DEF Bodies
  <2>2. PICK e \in Elements({"p", "li"}) \X Optional(Elements({"strong", "em"}))
                    \X Optional(Elements({"a"})) :
               b.elements = <<e[1]>> \o e[2] \o e[3]
    BY <2>1 DEF Blocks
  <2>3. /\ e[1] \in Elements({"p", "li"})
        /\ e[2] \in Optional(Elements({"strong", "em"}))
        /\ e[3] \in Optional(Elements({"a"}))
    OBVIOUS
  <2>4. QED
    BY <2>2, <2>3
<1>3. /\ <<outer>> \in Seq(Element) /\ Len(<<outer>>) = 1
      /\ wrap \in Seq(Element) /\ Len(wrap) \in Nat
      /\ link \in Seq(Element) /\ Len(link) \in Nat
  <2>1. \A tags \in SUBSET Tags : Elements(tags) \subseteq Element
    BY DEF Elements, Element
  <2>2. \A e \in Element : <<e>> \in Seq(Element) /\ Len(<<e>>) = 1
    OBVIOUS
  <2>3. <<>> \in Seq(Element) /\ Len(<<>>) = 0
    BY EmptySeq
  <2>4. \A els \in SUBSET Element : \A s \in Optional(els) :
          s \in Seq(Element) /\ Len(s) \in Nat
    <3>1. ASSUME NEW els \in SUBSET Element, NEW s \in Optional(els)
          PROVE  s \in Seq(Element) /\ Len(s) \in Nat
      <4>1. s = <<>> \/ \E e \in els : s = <<e>>
        BY DEF Optional
      <4>2. CASE s = <<>>
        BY <2>3, <4>2
      <4>3. CASE \E e \in els : s = <<e>>
        BY <2>2, <4>3
      <4>4. QED
        BY <4>1, <4>2, <4>3
    <3>2. QED
      BY <3>1
  <2>5. outer \in Element
    BY <2>1 DEF Tags
  <2>6. wrap \in Seq(Element) /\ Len(wrap) \in Nat
    <3>1. Elements({"strong", "em"}) \in SUBSET Element
      BY <2>1 DEF Tags
    <3>2. QED
      BY <2>4, <3>1
  <2>7. link \in Seq(Element) /\ Len(link) \in Nat
    <3>1. Elements({"a"}) \in SUBSET Element
      BY <2>1 DEF Tags
    <3>2. QED
      BY <2>4, <3>1
  <2>8. QED
    BY <2>2, <2>5, <2>6, <2>7
<1>4. /\ <<outer>> \o wrap \in Seq(Element)
      /\ Len(<<outer>> \o wrap) = 1 + Len(wrap)
  BY <1>3, ConcatProperties
<1>5. /\ <<outer>> \o wrap \o link \in Seq(Element)
      /\ Len(<<outer>> \o wrap \o link) = 1 + Len(wrap) + Len(link)
  BY <1>3, <1>4, ConcatProperties
<1>6. Len(b.elements) \in Nat \ {0}
  BY <1>2, <1>3, <1>5
<1>7. QED
  BY <1>1, <1>2, <1>5, <1>6, LenProperties

(***************************************************************************)
(* The styles an element can leave with: its author's, one the passes      *)
(* wrote, or both on a button whose author used single quotes.             *)
(***************************************************************************)
Styles == Authored \cup {<<"base">>, <<"cta">>, <<"button">>, <<"single", "button">>}

(***************************************************************************)
(* Only a button can leave with two.                                       *)
(***************************************************************************)
LEMMA StyleLengths ==
  \A s \in Styles : Len(s) \in 0 .. 2 /\ (Len(s) > 1 => s = <<"single", "button">>)
  BY DEF Styles, Authored

(***************************************************************************)
(* inlineBodyStyles keeps every element in its place and every style an    *)
(* author wrote.                                                           *)
(***************************************************************************)
LEMMA InliningKeeps ==
  ASSUME NEW b \in Bodies
  PROVE  LET in == InlineBodyStyles(b)
         IN  /\ DOMAIN in = Fields /\ in.href = b.href
             /\ DOMAIN in.elements = 1 .. Len(b.elements)
             /\ Len(in.elements) = Len(b.elements)
             /\ \A i \in 1 .. Len(b.elements) :
                  /\ in.elements[i].tag = b.elements[i].tag
                  /\ in.elements[i].styles \in Authored \cup {<<"base">>}
                  /\ b.elements[i].styles # <<>> =>
                       in.elements[i].styles = b.elements[i].styles
<1> DEFINE n == Len(b.elements)
           styled(e) == IF e.tag \in BodyTags /\ e.styles = <<>>
                          THEN [e EXCEPT !.styles = <<"base">>] ELSE e
           els == [i \in 1 .. n |-> styled(b.elements[i])]
           in == InlineBodyStyles(b)
<1>1. /\ b.elements \in Seq(Element) /\ n \in Nat \ {0}
      /\ DOMAIN b.elements = 1 .. n /\ DOMAIN b = Fields
  BY BodyShape
<1>2. \A i \in 1 .. n : b.elements[i] \in Element
  BY <1>1, ElementOfSeq
<1>3. in = [b EXCEPT !.elements = els]
  BY <1>1 DEF InlineBodyStyles
<1>4. \A e \in Element :
        /\ styled(e).tag = e.tag
        /\ styled(e).styles \in Authored \cup {<<"base">>}
        /\ e.styles # <<>> => styled(e).styles = e.styles
  BY DEF Element
<1>5. DOMAIN in = Fields /\ in.elements = els /\ in.href = b.href
  BY <1>1, <1>3 DEF Fields
<1> HIDE DEF styled, n
<1>6. DOMAIN els = 1 .. n /\ Len(els) = n
  BY <1>1
<1>7. \A i \in 1 .. n : els[i] = styled(b.elements[i])
  OBVIOUS
<1> HIDE DEF els, in
<1>8. \A i \in 1 .. n :
        /\ in.elements[i].tag = b.elements[i].tag
        /\ in.elements[i].styles \in Authored \cup {<<"base">>}
        /\ b.elements[i].styles # <<>> => in.elements[i].styles = b.elements[i].styles
  BY <1>2, <1>4, <1>5, <1>7
<1>9. QED
  BY <1>5, <1>6, <1>8 DEF in, n

(***************************************************************************)
(* The passes over the body in their order, email_chrome.go: links stay,   *)
(* styles are as above, and but for buttons the author's are kept.         *)
(***************************************************************************)
LEMMA PassesKeep ==
  ASSUME NEW b \in Bodies
  PROVE  LET h == ConvertStandaloneCtas(InlineBodyStyles(b))
         IN  /\ DOMAIN h = Fields /\ h.href = b.href
             /\ HasLink(b) => HasLink(h)
             /\ \A i \in DOMAIN h.elements : h.elements[i].styles \in Styles
             /\ h.elements[1].styles # <<"cta">> => \A i \in DOMAIN b.elements :
                  b.elements[i].styles # <<>> =>
                    h.elements[i].styles = b.elements[i].styles
<1> DEFINE n == Len(b.elements)
           in == InlineBodyStyles(b)
           h == ConvertStandaloneCtas(in)
<1>1. n \in Nat \ {0} /\ DOMAIN b.elements = 1 .. n
  BY BodyShape
<1>2. /\ DOMAIN in = Fields /\ in.href = b.href
      /\ DOMAIN in.elements = 1 .. n
      /\ Len(in.elements) = n
      /\ \A i \in 1 .. n :
           /\ in.elements[i].tag = b.elements[i].tag
           /\ in.elements[i].styles \in Authored \cup {<<"base">>}
           /\ b.elements[i].styles # <<>> =>
                in.elements[i].styles = b.elements[i].styles
  BY InliningKeeps
<1> HIDE DEF n, in
<1>3. CASE ~ IsStandaloneCta(in)
  <2>1. h = in
    BY <1>3 DEF ConvertStandaloneCtas
  <2> HIDE DEF h
  <2>2. HasLink(b) => HasLink(h)
    BY <1>1, <1>2, <2>1 DEF HasLink, n
  <2>3. \A i \in DOMAIN h.elements : h.elements[i].styles \in Styles
    BY <1>2, <2>1 DEF Styles
  <2>4. QED
    BY <1>1, <1>2, <2>1, <2>2, <2>3 DEF h, in
<1>4. CASE IsStandaloneCta(in)
  <2> DEFINE kept == IF in.elements[Len(in.elements)].styles = <<"single">>
                       THEN <<"single", "button">> ELSE <<"button">>
             els == <<[tag |-> "p", styles |-> <<"cta">>],
                      [tag |-> "a", styles |-> kept]>>
  <2>1. h = [in EXCEPT !.elements = els]
    BY <1>2, <1>4 DEF ConvertStandaloneCtas, Fields
  <2>2. /\ DOMAIN els = 1 .. 2 /\ Len(els) = 2
        /\ els[1].styles = <<"cta">> /\ els[2].styles = kept /\ els[2].tag = "a"
    OBVIOUS
  <2>3. kept \in Styles /\ <<"cta">> \in Styles
    BY DEF Styles
  <2> HIDE DEF kept, els
  <2>4. DOMAIN h = Fields /\ h.elements = els /\ h.href = in.href
    BY <1>2, <2>1 DEF Fields
  <2> HIDE DEF h
  <2>5. \A i \in DOMAIN h.elements : h.elements[i].styles \in Styles
    <3>1. \A i \in 1 .. 2 : i = 1 \/ i = 2
      OBVIOUS
    <3>2. QED
      BY <2>2, <2>3, <2>4, <3>1
  <2>6. HasLink(h)
    BY <2>2, <2>4 DEF HasLink
  <2>7. h.elements[1].styles = <<"cta">>
    BY <2>2, <2>4
  <2>8. QED
    BY <1>2, <2>4, <2>5, <2>6, <2>7 DEF h, in
<1>5. QED
  BY <1>3, <1>4

(***************************************************************************)
(* An opt-out link is no address that is in a body or in a footer.         *)
(***************************************************************************)
LEMMA AddressesDiffer ==
  /\ \A r : BuildURL(r) # Placeholder
  /\ Placeholder # <<>> /\ Placeholder # <<"reply">> /\ <<"cut">> # Placeholder
  BY DEF BuildURL, Placeholder

(***************************************************************************)
(* What is in a copy, part by part.                                        *)
(***************************************************************************)
LEMMA CopyParts ==
  ASSUME body \in Bodies, NEW r
  PROVE  LET h == ConvertStandaloneCtas(InlineBodyStyles(body))
             own == setting.kind = "send" /\ setting.enabled
             put(a) == IF own THEN Put(a, BuildURL(r)) ELSE a
         IN  /\ Own(r).html.block.elements = h.elements
             /\ Own(r).html.block.href = put(body.href)
             /\ Own(r).html.footer = put(ComplianceFooter(setting))
             /\ Own(r).text.footer = put(ComplianceFooter(setting))
             /\ Own(r).text.shows = {put(a) : a \in PreserveLinkDestinations(body)}
<1> DEFINE h == ConvertStandaloneCtas(InlineBodyStyles(body))
           f == ComplianceFooter(setting)
           shows == PreserveLinkDestinations(body)
           own == setting.kind = "send" /\ setting.enabled
           url == BuildURL(r)
           html == [block |-> h, footer |-> f]
           text == [shows |-> shows, footer |-> f]
<1>1. DOMAIN h = Fields /\ h.href = body.href
  BY PassesKeep
<1>2. Rendered = [html |-> html, text |-> text]
  BY DEF Rendered, EmailHTML, EmailText
<1> HIDE DEF h, f, shows
<1>3. CASE ~ own
  <2>1. Own(r) = [html |-> html, text |-> text]
    BY <1>2, <1>3 DEF Own
  <2>2. QED
    BY <1>1, <1>3, <2>1 DEF h, f, shows
<1>4. CASE own
  <2> DEFINE html2 == [html EXCEPT !.block.href = Put(@, url), !.footer = Put(@, url)]
             text2 == [shows |-> {Put(a, url) : a \in shows}, footer |-> Put(f, url)]
  <2>1. Own(r) = [html |-> html2, text |-> text2]
    BY <1>2, <1>4 DEF Own, Substituted
  <2>2. /\ html2.block.elements = h.elements
        /\ html2.block.href = Put(h.href, url)
        /\ html2.footer = Put(f, url)
    BY <1>1 DEF Fields
  <2> HIDE DEF html2
  <2>3. QED
    BY <1>1, <1>4, <2>1, <2>2 DEF h, f, shows
<1>5. QED
  BY <1>3, <1>4

-----------------------------------------------------------------------------
(***************************************************************************)
(* Every copy keeps the invariant, whichever reader it is for.             *)
(***************************************************************************)
LEMMA CopyKeeps ==
  ASSUME MailInv, NEW r \in Readers, NEW D \in SUBSET Readers, r \in D,
         DOMAIN copies \subseteq D, D \subseteq DOMAIN copies \cup {r},
         copies' = [x \in D |-> IF x = r THEN Own(r) ELSE copies[x]],
         UNCHANGED <<body, setting, envelope, mailed>>
  PROVE  MailInv'
<1>1. DOMAIN copies' = D /\ \A x \in D : copies'[x] = Own(x)
  BY DEF MailInv
<1>2. Rendered' = Rendered /\ \A x : Own(x)' = Own(x)
  BY DEF Rendered, Own
<1>3. QED
  BY <1>1, <1>2 DEF MailInv

(***************************************************************************)
(* Every step of a send or of a test send.                                 *)
(***************************************************************************)
LEMMA MailKeeps == MailInv /\ [MailNext]_mailVars => MailInv'
<1> SUFFICES ASSUME MailInv, [MailNext]_mailVars  PROVE MailInv'
  OBVIOUS
<1>1. UNCHANGED <<body, setting>>
      => Rendered' = Rendered /\ \A x : Own(x)' = Own(x)
  BY DEF Rendered, Own
<1>2. CASE Render
  <2>1. envelope' = {Rendered} /\ UNCHANGED <<body, setting, copies, mailed>>
    BY <1>2 DEF Render, Rendered
  <2>2. QED
    BY <1>1, <2>1 DEF MailInv
<1>3. ASSUME NEW r \in Readers, Personalise(r)  PROVE MailInv'
  <2>1. PICK e \in envelope :
          LET own == IF setting.enabled THEN Substituted(e, BuildURL(r)) ELSE e
          IN  copies' = [x \in DOMAIN copies \cup {r} |-> IF x = r THEN own ELSE copies[x]]
    BY <1>3 DEF Personalise
  <2>2. (IF setting.enabled THEN Substituted(e, BuildURL(r)) ELSE e) = Own(r)
    BY <1>3, <2>1 DEF Personalise, MailInv, Own
  <2>3. copies' = [x \in DOMAIN copies \cup {r} |-> IF x = r THEN Own(r) ELSE copies[x]]
    BY <2>1, <2>2
  <2>4. UNCHANGED <<body, setting, envelope, mailed>> /\ DOMAIN copies \subseteq Readers
    BY <1>3 DEF Personalise, MailInv
  <2>5. QED
    BY <2>3, <2>4, CopyKeeps
<1>4. ASSUME NEW r \in Readers, TestCopy(r)  PROVE MailInv'
  <2>1. PICK e \in envelope : copies' = [x \in {r} |-> e]
    BY <1>4 DEF TestCopy
  <2>2. e = Own(r)
    BY <1>4, <2>1 DEF TestCopy, MailInv, Own
  <2>3. copies' = [x \in {r} |-> IF x = r THEN Own(r) ELSE copies[x]]
    BY <2>1, <2>2
  <2>4. UNCHANGED <<body, setting, envelope, mailed>> /\ DOMAIN copies \subseteq {r}
    BY <1>4 DEF TestCopy
  <2>5. QED
    BY <2>3, <2>4, CopyKeeps
<1>5. ASSUME NEW r \in Readers, Hand(r)  PROVE MailInv'
  BY <1>1, <1>5 DEF Hand, MailInv
<1>6. CASE UNCHANGED mailVars
  BY <1>1, <1>6 DEF mailVars, MailInv
<1>7. QED
  BY <1>2, <1>3, <1>4, <1>5, <1>6 DEF MailNext

(***************************************************************************)
(* No copy is made before there is an envelope.                            *)
(***************************************************************************)
LEMMA MailStart == MailInit => MailInv
<1> SUFFICES ASSUME MailInit  PROVE MailInv
  OBVIOUS
<1>1. DOMAIN copies = {}
  <2>1. DOMAIN <<>> = {}
    BY EmptySeq, LenProperties
  <2>2. QED
    BY <2>1 DEF MailInit
<1>2. QED
  BY <1>1 DEF MailInit, MailInv

(***************************************************************************)
(* In every behaviour of a mail.                                           *)
(***************************************************************************)
LEMMA MailInvariance == MailSpec => []MailInv
  BY MailStart, MailKeeps, PTL DEF MailSpec

(***************************************************************************)
(* Every recipient of a send has their own opt-out link in both halves,    *)
(* however the copies are made side by side, and nobody a placeholder.     *)
(***************************************************************************)
THEOREM OptOutsAreOwn == MailSpec => []OwnOptOut
<1>1. MailInv => OwnOptOut
  <2> SUFFICES ASSUME MailInv, NEW r \in mailed
               PROVE  /\ copies[r].html.footer = copies[r].text.footer
                      /\ copies[r].html.footer =
                           IF setting.kind = "test" THEN <<>>
                           ELSE IF setting.enabled THEN BuildURL(r) ELSE <<"reply">>
                      /\ setting.kind = "send" /\ setting.enabled =>
                           Placeholder \notin {copies[r].html.block.href}
                                              \cup copies[r].text.shows
    BY DEF OwnOptOut
  <2> DEFINE own == setting.kind = "send" /\ setting.enabled
             put(a) == IF own THEN Put(a, BuildURL(r)) ELSE a
             f == ComplianceFooter(setting)
             shows == PreserveLinkDestinations(body)
  <2>1. body \in Bodies /\ setting.kind \in {"send", "test"}
    BY DEF MailInv
  <2>2. copies[r] = Own(r)
    BY DEF MailInv
  <2>3. /\ copies[r].html.block.href = put(body.href)
        /\ copies[r].html.footer = put(f)
        /\ copies[r].text.footer = put(f)
        /\ copies[r].text.shows = {put(a) : a \in shows}
    BY <2>1, <2>2, CopyParts
  <2>4. f = IF setting.kind = "test" THEN <<>>
            ELSE IF setting.enabled THEN Placeholder ELSE <<"reply">>
    BY AddressesDiffer DEF ComplianceFooter, UnsubscribeURL
  <2> HIDE DEF f, shows
  <2>5. put(f) = IF setting.kind = "test" THEN <<>>
                 ELSE IF setting.enabled THEN BuildURL(r) ELSE <<"reply">>
    BY <2>1, <2>4 DEF Put
  <2>6. own => \A a : put(a) # Placeholder
    BY AddressesDiffer DEF Put
  <2>7. QED
    BY <2>3, <2>5, <2>6
<1>2. QED
  BY <1>1, MailInvariance, PTL

(***************************************************************************)
(* No element leaves with two style attributes but a button whose author   *)
(* used single quotes, for every body the passes can meet.                 *)
(***************************************************************************)
THEOREM ElementsHaveOneStyle == MailSpec => []OneStyle
<1>1. MailInv => OneStyle
  <2> SUFFICES ASSUME MailInv, NEW r \in mailed
               PROVE  LET sent == copies[r].html.block.elements
                      IN  /\ \A i \in DOMAIN sent :
                               Len(sent[i].styles) > 1
                                 => sent[i].styles = <<"single", "button">>
                          /\ sent[1].styles # <<"cta">> =>
                               \A i \in DOMAIN body.elements :
                                 body.elements[i].styles # <<>> =>
                                   sent[i].styles = body.elements[i].styles
    BY DEF OneStyle
  <2> DEFINE h == ConvertStandaloneCtas(InlineBodyStyles(body))
             sent == copies[r].html.block.elements
  <2>1. body \in Bodies /\ copies[r] = Own(r)
    BY DEF MailInv
  <2>2. sent = h.elements
    BY <2>1, CopyParts
  <2>3. /\ \A i \in DOMAIN h.elements : h.elements[i].styles \in Styles
        /\ h.elements[1].styles # <<"cta">> => \A i \in DOMAIN body.elements :
             body.elements[i].styles # <<>> =>
               h.elements[i].styles = body.elements[i].styles
    BY <2>1, PassesKeep
  <2> HIDE DEF h, sent
  <2>4. \A i \in DOMAIN sent :
          Len(sent[i].styles) > 1 => sent[i].styles = <<"single", "button">>
    BY <2>2, <2>3, StyleLengths
  <2>5. QED
    BY <2>2, <2>3, <2>4 DEF sent
<1>2. QED
  BY <1>1, MailInvariance, PTL

(***************************************************************************)
(* A link leads where its author meant it to, in the HTML and in the text, *)
(* but for an address with an apostrophe in the text.                      *)
(***************************************************************************)
THEOREM LinksAreKept == MailSpec => []LinksSurvive
<1>1. MailInv => LinksSurvive
  <2> SUFFICES ASSUME MailInv, NEW r \in mailed, HasLink(body)
               PROVE  LET href == IF setting.kind = "send" /\ setting.enabled
                                    THEN Put(body.href, BuildURL(r)) ELSE body.href
                      IN  /\ HasLink(copies[r].html.block)
                          /\ copies[r].html.block.href = href
                          /\ href \in copies[r].text.shows \cup {<<>>, <<"quoted">>}
    BY DEF LinksSurvive
  <2> DEFINE h == ConvertStandaloneCtas(InlineBodyStyles(body))
             own == setting.kind = "send" /\ setting.enabled
             put(a) == IF own THEN Put(a, BuildURL(r)) ELSE a
             shows == PreserveLinkDestinations(body)
  <2>1. body \in Bodies /\ copies[r] = Own(r)
    BY DEF MailInv
  <2>2. /\ copies[r].html.block.elements = h.elements
        /\ copies[r].html.block.href = put(body.href)
        /\ copies[r].text.shows = {put(a) : a \in shows}
    BY <2>1, CopyParts
  <2>3. HasLink(h)
    BY <2>1, PassesKeep
  <2>4. HasLink(copies[r].html.block)
    BY <2>2, <2>3 DEF HasLink
  <2>5. body.href \in shows \cup {<<>>, <<"quoted">>}
    BY DEF PreserveLinkDestinations, UpToQuote
  <2>6. put(<<>>) = <<>> /\ put(<<"quoted">>) = <<"quoted">>
    <3>1. <<>> # Placeholder /\ <<"quoted">> # Placeholder
      BY DEF Placeholder
    <3>2. QED
      BY <3>1 DEF Put
  <2> HIDE DEF shows, h
  <2>7. put(body.href) \in {put(a) : a \in shows} \cup {<<>>, <<"quoted">>}
    BY <2>5, <2>6
  <2>8. QED
    BY <2>2, <2>4, <2>7
<1>2. QED
  BY <1>1, MailInvariance, PTL

-----------------------------------------------------------------------------
(***************************************************************************)
(* What the passes leave of addresses and of styles, in the envelope and   *)
(* in every copy.                                                          *)
(***************************************************************************)
MailShape(e) ==
  /\ {e.html.block.href, e.html.footer, e.text.footer} \cup e.text.shows \subseteq Addresses
  /\ \A i \in DOMAIN e.html.block.elements :
       Len(e.html.block.elements[i].styles) \in 0 .. 2

(***************************************************************************)
(* The addresses of the envelope, and what a reader's link makes of one.   *)
(***************************************************************************)
LEMMA EnvelopeAddresses ==
  ASSUME body \in Bodies
  PROVE  /\ body.href \in Addresses /\ ComplianceFooter(setting) \in Addresses
         /\ PreserveLinkDestinations(body) \subseteq Addresses
         /\ \A r \in Readers, a \in Addresses : Put(a, BuildURL(r)) \in Addresses
<1>1. body.href \in Hrefs
  BY BodyShape
<1>2. Hrefs \cup {<<"cut">>, <<"reply">>} \subseteq Addresses
  BY DEF Addresses
<1>3. ComplianceFooter(setting) \in {<<>>, Placeholder, <<"reply">>}
  BY DEF ComplianceFooter, UnsubscribeURL
<1>4. <<>> \in Hrefs /\ Placeholder \in Hrefs
  BY DEF Hrefs
<1>5. PreserveLinkDestinations(body) \subseteq Hrefs \cup {<<"cut">>}
  BY <1>1 DEF PreserveLinkDestinations, UpToQuote
<1>6. \A r \in Readers : BuildURL(r) \in Addresses
  BY DEF Addresses
<1>7. \A r \in Readers, a \in Addresses : Put(a, BuildURL(r)) \in Addresses
  BY <1>6 DEF Put
<1>8. QED
  BY <1>1, <1>2, <1>3, <1>4, <1>5, <1>7

(***************************************************************************)
(* The envelope and the copies are of the right shape.                     *)
(***************************************************************************)
LEMMA MailsAreTyped == MailInv => MailTypeOK
<1> SUFFICES ASSUME MailInv  PROVE MailTypeOK
  OBVIOUS
<1> DEFINE h == ConvertStandaloneCtas(InlineBodyStyles(body))
<1>1. body \in Bodies
  BY DEF MailInv
<1>2. \A i \in DOMAIN h.elements : Len(h.elements[i].styles) \in 0 .. 2
  BY <1>1, PassesKeep, StyleLengths
<1>3. MailShape(Rendered)
  <2>1. /\ Rendered.html.block = h /\ h.href = body.href
        /\ Rendered.html.footer = ComplianceFooter(setting)
        /\ Rendered.text.footer = ComplianceFooter(setting)
        /\ Rendered.text.shows = PreserveLinkDestinations(body)
    BY <1>1, PassesKeep DEF Rendered, EmailHTML, EmailText
  <2> HIDE DEF h
  <2>2. QED
    BY <1>1, <1>2, <2>1, EnvelopeAddresses DEF MailShape
<1>4. ASSUME NEW r \in Readers  PROVE MailShape(Own(r))
  <2> DEFINE own == setting.kind = "send" /\ setting.enabled
             put(a) == IF own THEN Put(a, BuildURL(r)) ELSE a
  <2>1. /\ Own(r).html.block.elements = h.elements
        /\ Own(r).html.block.href = put(body.href)
        /\ Own(r).html.footer = put(ComplianceFooter(setting))
        /\ Own(r).text.footer = put(ComplianceFooter(setting))
        /\ Own(r).text.shows = {put(a) : a \in PreserveLinkDestinations(body)}
    BY <1>1, CopyParts
  <2>2. \A a \in Addresses : put(a) \in Addresses
    BY <1>1, EnvelopeAddresses
  <2> HIDE DEF h, put
  <2>3. QED
    BY <1>1, <1>2, <2>1, <2>2, EnvelopeAddresses DEF MailShape
<1>5. \A e \in envelope \cup {copies[r] : r \in DOMAIN copies} : MailShape(e)
  BY <1>3, <1>4 DEF MailInv
<1>6. QED
  BY <1>5 DEF MailInv, MailTypeOK, MailShape

(***************************************************************************)
(* A behaviour of the two side by side is one of each.                     *)
(***************************************************************************)
LEMMA EachByItself == Spec => RequestSpec /\ MailSpec
<1>1. Init => RequestInit /\ MailInit
  BY DEF Init
<1>2. [Next]_<<part, requestVars, mailVars>>
      => [RequestNext]_requestVars /\ [MailNext]_mailVars
  BY DEF Next
<1>3. QED
  BY <1>1, <1>2, PTL DEF Spec, RequestSpec, MailSpec

(***************************************************************************)
(* The request, its status, the mail and its copies keep their types.      *)
(***************************************************************************)
THEOREM TypeCorrect == Spec => []TypeOK
<1>1. RequestInv /\ MailInv => TypeOK
  BY MailsAreTyped DEF RequestInv, TypeOK
<1>2. QED
  BY <1>1, EachByItself, RequestInvariance, MailInvariance, PTL
=============================================================================
