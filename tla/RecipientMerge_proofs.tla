----------------------- MODULE RecipientMerge_proofs -----------------------
(***************************************************************************)
(* The audience of a send is right for every list of committee members,    *)
(* every set of opt-outs and every way of spelling addresses.              *)
(*                                                                         *)
(* The argument is the loop invariant: seen is what the members passed so  *)
(* far normalise to, the audience so far is seen without the opted-out     *)
(* addresses, and each of its entries comes from a member already passed.  *)
(***************************************************************************)
EXTENDS RecipientMerge, TLAPS

Passed == 1 .. next - 1

SeenIsPassed == seen = {Email(i) : i \in Passed} \cap Addresses

MailedIsSeen == Mailed = seen \ excluded

(* Entry i of the audience is the first member listed under its address. *)
FirstAmongPassed ==
  \A i \in DOMAIN out : \E k \in Passed :
    /\ Email(k) = out[i].email /\ members[k].name = out[i].name
    /\ \A j \in 1 .. k - 1 : Email(j) # out[i].email

IInv == TypeOK /\ SeenIsPassed /\ MailedIsSeen /\ NobodyTwice /\ FirstAmongPassed

-----------------------------------------------------------------------------
(* What a member's email field becomes is an address or no address. *)
LEMMA EmailType ==
  ASSUME TypeOK, NEW i \in 1 .. Len(members)
  PROVE  /\ Email(i) \in Addresses \cup {Bad}
         /\ members[i].name \in Names
<1>1. members[i] \in Member
  BY DEF TypeOK
<1> QED BY <1>1, MergeAssumption DEF Member, Email

(* The loop starts with nothing seen and nobody in the audience. *)
LEMMA InitHolds == Init => IInv
<1> SUFFICES ASSUME Init PROVE IInv
  OBVIOUS
<1>1. PICK n \in 0 .. MaxMembers : members \in [1 .. n -> Member]
  BY DEF Init
<1>2. members \in Seq(Member) /\ Len(members) = n /\ n \in Nat
  BY <1>1, MergeAssumption
<1>3. TypeOK
  BY <1>2 DEF Init, TypeOK
<1>4. Passed = {} /\ DOMAIN out = {}
  BY DEF Init, Passed
<1>5. SeenIsPassed /\ MailedIsSeen /\ NobodyTwice /\ FirstAmongPassed
  BY <1>4 DEF Init, SeenIsPassed, MailedIsSeen, Mailed, NobodyTwice, FirstAmongPassed
<1> QED BY <1>3, <1>5 DEF IInv

(* A turn moves the loop on by one member and changes no input. *)
LEMMA TurnMoves ==
  ASSUME TypeOK, Turn
  PROVE  /\ next \in 1 .. Len(members)
         /\ next' \in 1 .. Len(members) + 1
         /\ Passed' = Passed \cup {next}
         /\ Passed \subseteq 1 .. Len(members)
         /\ \A i : Email(i)' = Email(i)
  BY DEF TypeOK, Turn, Passed, Email

(* seen stays what the passed members normalise to, on every path of the   *)
(* loop's body.                                                            *)
LEMMA SeenStep ==
  ASSUME IInv, Next
  PROVE  SeenIsPassed'
<1> USE DEF IInv
<1>1. Turn
  BY DEF Next, SkipInvalid, SkipSeen, SkipOptedOut, Take
<1>2. seen' = seen \cup ({Email(next)} \cap Addresses)
  <2>1. CASE SkipInvalid
    BY <2>1, MergeAssumption DEF SkipInvalid
  <2>2. CASE SkipSeen
    BY <2>2 DEF SkipSeen
  <2>3. CASE SkipOptedOut
    BY <2>3 DEF SkipOptedOut, Remember
  <2>4. CASE Take
    BY <2>4 DEF Take, Remember, Wanted
  <2> QED BY <2>1, <2>2, <2>3, <2>4 DEF Next
<1>3. {Email(i) : i \in Passed}' = {Email(i) : i \in Passed} \cup {Email(next)}
  BY <1>1, TurnMoves
<1> QED BY <1>2, <1>3 DEF SeenIsPassed

(* A turn that takes nobody keeps the audience and its entries' origins. *)
LEMMA QuietTurn ==
  ASSUME IInv, Turn, UNCHANGED out
  PROVE  Mailed' = Mailed /\ NobodyTwice' /\ FirstAmongPassed'
<1> USE DEF IInv
<1>1. Mailed' = Mailed /\ NobodyTwice'
  BY DEF Mailed, NobodyTwice
<1>2. FirstAmongPassed'
  BY TurnMoves DEF FirstAmongPassed, Turn
<1> QED BY <1>1, <1>2

(* The entry that Take appends is an address nobody was listed under yet. *)
LEMMA TakeIsFirst ==
  ASSUME IInv, Take
  PROVE  /\ Email(next) \in Addresses \ excluded
         /\ \A j \in Passed : Email(j) # Email(next)
         /\ \A i \in DOMAIN out : out[i].email # Email(next)
<1> USE DEF IInv
<1>1. Email(next) \in Addresses /\ Email(next) \notin seen /\ Email(next) \notin excluded
  BY DEF Take, Wanted
<1>2. \A j \in Passed : Email(j) # Email(next)
  BY <1>1 DEF SeenIsPassed
<1>3. \A i \in DOMAIN out : out[i].email \in seen
  BY DEF MailedIsSeen, Mailed
<1> QED BY <1>1, <1>2, <1>3

(* Take keeps the audience unique, exact and in the order of the list. *)
LEMMA TakeStep ==
  ASSUME IInv, Take
  PROVE  MailedIsSeen' /\ NobodyTwice' /\ FirstAmongPassed'
<1> USE DEF IInv
<1> DEFINE new == [email |-> Email(next), name |-> members[next].name]
<1>1. out' = Append(out, new) /\ Turn /\ seen' = seen \cup {Email(next)}
      /\ excluded' = excluded /\ members' = members
  BY DEF Take, Turn, Remember
<1>2. new.email = Email(next) /\ new.name = members[next].name
  OBVIOUS
<1> HIDE DEF new
<1>3. out \in Seq(Recipient)
  BY DEF TypeOK
<1>4. /\ DOMAIN out' = DOMAIN out \cup {Len(out) + 1}
      /\ Len(out) + 1 \notin DOMAIN out
      /\ \A i \in DOMAIN out : out'[i] = out[i]
      /\ out'[Len(out) + 1] = new
  BY <1>1, <1>3
<1>5. Mailed' = Mailed \cup {Email(next)}
  BY <1>2, <1>4 DEF Mailed
<1>6. MailedIsSeen'
  BY <1>1, <1>5, TakeIsFirst DEF MailedIsSeen
<1>7. NobodyTwice'
  BY <1>2, <1>4, TakeIsFirst DEF NobodyTwice
<1>8. FirstAmongPassed'
  <2> SUFFICES ASSUME NEW i \in DOMAIN out'
               PROVE  \E k \in Passed' :
                        /\ Email(k)' = out'[i].email /\ members'[k].name = out'[i].name
                        /\ \A j \in 1 .. k - 1 : Email(j)' # out'[i].email
    BY DEF FirstAmongPassed
  <2>1. CASE i \in DOMAIN out
    BY <2>1, <1>1, <1>4, TurnMoves DEF FirstAmongPassed
  <2>2. CASE i = Len(out) + 1
    <3>1. out'[i].email = Email(next) /\ out'[i].name = members[next].name
      BY <2>2, <1>2, <1>4
    <3>2. next \in Passed' /\ members' = members
      BY <1>1, TurnMoves
    <3>3. \A j \in 1 .. next - 1 : Email(j) # Email(next)
      BY TakeIsFirst DEF Passed
    <3> QED BY <1>1, <3>1, <3>2, <3>3, TurnMoves
  <2> QED BY <2>1, <2>2, <1>4
<1> QED BY <1>6, <1>7, <1>8

(* Every turn of the loop keeps the types. *)
LEMMA TypeStep ==
  ASSUME TypeOK, Next
  PROVE  TypeOK'
<1>1. Turn
  BY DEF Next, SkipInvalid, SkipSeen, SkipOptedOut, Take
<1>2. members' = members /\ excluded' = excluded /\ next' \in 1 .. Len(members) + 1
  BY <1>1, TurnMoves DEF Turn
<1>3. seen' \in SUBSET Addresses /\ out' \in Seq(Recipient)
  <2>1. CASE SkipInvalid
    BY <2>1 DEF SkipInvalid, TypeOK
  <2>2. CASE SkipSeen
    BY <2>2 DEF SkipSeen, TypeOK
  <2>3. CASE SkipOptedOut
    BY <2>3 DEF SkipOptedOut, Remember, TypeOK
  <2>4. CASE Take
    <3>1. next \in 1 .. Len(members)
      BY <1>1, TurnMoves
    <3>2. Email(next) \in Addresses /\ members[next].name \in Names
      BY <2>4, <3>1, EmailType DEF Take, Wanted
    <3> QED BY <2>4, <3>2 DEF Take, Remember, TypeOK, Recipient
  <2> QED BY <2>1, <2>2, <2>3, <2>4 DEF Next
<1> QED BY <1>2, <1>3 DEF TypeOK

(* The loop invariant survives every turn. *)
LEMMA InductiveStep == IInv /\ [Next]_vars => IInv'
<1> SUFFICES ASSUME IInv, [Next]_vars PROVE IInv'
  OBVIOUS
<1>1. CASE UNCHANGED vars
  BY <1>1 DEF IInv, vars, TypeOK, SeenIsPassed, MailedIsSeen, Mailed, NobodyTwice,
              FirstAmongPassed, Passed, Email
<1>2. CASE Next
  <2>1. TypeOK' /\ SeenIsPassed'
    BY <1>2, TypeStep, SeenStep DEF IInv
  <2>2. CASE SkipInvalid
    BY <2>1, <2>2, QuietTurn DEF SkipInvalid, IInv, MailedIsSeen, Turn
  <2>3. CASE SkipSeen
    BY <2>1, <2>3, QuietTurn DEF SkipSeen, IInv, MailedIsSeen, Turn
  <2>4. CASE SkipOptedOut
    BY <2>1, <2>4, QuietTurn DEF SkipOptedOut, Remember, IInv, MailedIsSeen, Turn
  <2>5. CASE Take
    BY <2>1, <2>5, TakeStep DEF IInv
  <2> QED BY <1>2, <2>2, <2>3, <2>4, <2>5 DEF Next
<1> QED BY <1>1, <1>2

(* What the loop invariant says at the end is what the properties ask. *)
LEMMA InvariantSuffices == IInv => AudienceIsExact /\ NobodyTwice /\ FirstListingWins
<1> SUFFICES ASSUME IInv PROVE AudienceIsExact /\ NobodyTwice /\ FirstListingWins
  OBVIOUS
<1> USE DEF IInv
<1>1. AudienceIsExact
  <2> SUFFICES ASSUME Finished PROVE Mailed = Listed \ excluded
    BY DEF AudienceIsExact
  <2>1. Passed = DOMAIN members
    BY DEF Finished, Passed, TypeOK
  <2> QED BY <2>1 DEF SeenIsPassed, MailedIsSeen, Listed
<1>2. FirstListingWins
  <2>1. Passed \subseteq DOMAIN members
    BY DEF Passed, TypeOK
  <2> QED BY <2>1 DEF FirstAmongPassed, FirstListingWins
<1> QED BY <1>1, <1>2

(* The loop invariant holds of every run of the loop. *)
LEMMA AlwaysIInv == Spec => []IInv
  BY InitHolds, InductiveStep, PTL DEF Spec

-----------------------------------------------------------------------------
(***************************************************************************)
(* seen and the audience only ever hold lowercased addresses.              *)
(***************************************************************************)
THEOREM MergeTypeCorrect == Spec => []TypeOK
<1>1. IInv => TypeOK
  BY DEF IInv
<1> QED BY <1>1, AlwaysIInv, PTL

(***************************************************************************)
(* When the loop ends, the audience is everybody listed under a usable     *)
(* address who has not opted out.                                          *)
(***************************************************************************)
THEOREM AudienceCorrect == Spec => []AudienceIsExact
  BY AlwaysIInv, InvariantSuffices, PTL

(***************************************************************************)
(* No address is in the audience twice.                                    *)
(***************************************************************************)
THEOREM MailedOnce == Spec => []NobodyTwice
  BY AlwaysIInv, InvariantSuffices, PTL

(***************************************************************************)
(* Each recipient is greeted as the first committee lists them.            *)
(***************************************************************************)
THEOREM GreetedByFirstListing == Spec => []FirstListingWins
  BY AlwaysIInv, InvariantSuffices, PTL
=============================================================================
