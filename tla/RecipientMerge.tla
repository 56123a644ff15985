--------------------------- MODULE RecipientMerge ---------------------------
(***************************************************************************)
(* The loop at the end of SendOrchestrator.resolveRecipients               *)
(* (internal/service/send_orchestrator.go): the members of all committees, *)
(* one after the other in the order of the draft, become the audience.     *)
(*                                                                         *)
(* One step is one turn of the loop.  An address is written in many ways;  *)
(* what strings.ToLower and strings.TrimSpace make of it, and whether that *)
(* contains an "@", is the function normal.                                *)
(*                                                                         *)
(* An operator named ...Without... or ...But... is a form the operator     *)
(* after it must not have: no step uses it.                                *)
(***************************************************************************)
EXTENDS Integers, Sequences, FiniteSets

CONSTANTS
  Spellings,   \* email fields as committee-service has them
  Addresses,   \* lowercased, trimmed addresses with an "@" in them
  Bad,         \* any other lowercased, trimmed email field
  normal,      \* what becomes of a spelling
  Names,       \* first names, trimmed
  MaxMembers   \* the length of the list the loop runs over

ASSUME MergeAssumption ==
  /\ Bad \notin Addresses
  /\ normal \in [Spellings -> Addresses \cup {Bad}]
  /\ MaxMembers \in Nat

VARIABLES
  members,     \* the replies of the committees, one after the other
  excluded,    \* the opted-out addresses of the project
  next,        \* the member the loop is at
  seen,        \* the keys of the map seen
  out          \* the audience so far

vars == <<members, excluded, next, seen, out>>

Member == [email : Spellings, name : Names]
Recipient == [email : Addresses, name : Names]

Email(i) == normal[members[i].email]

Init ==
  /\ \E n \in 0 .. MaxMembers : members \in [1 .. n -> Member]
  /\ excluded \in SUBSET Addresses
  /\ next = 1
  /\ seen = {}
  /\ out = <<>>

Turn ==
  /\ next <= Len(members)
  /\ next' = next + 1
  /\ UNCHANGED <<members, excluded>>

SkipInvalid ==
  /\ Turn
  /\ Email(next) = Bad
  /\ UNCHANGED <<seen, out>>

SkipSeen ==
  /\ Turn
  /\ Email(next) \in seen
  /\ UNCHANGED <<seen, out>>

RememberWithoutKey == UNCHANGED seen
Remember == seen' = seen \cup {Email(next)}

SkipOptedOut ==
  /\ Turn
  /\ Email(next) \in Addresses \ seen
  /\ Email(next) \in excluded
  /\ Remember
  /\ UNCHANGED out

WantedWithoutOptOuts == Email(next) \in Addresses \ seen
Wanted == Email(next) \in (Addresses \ seen) \ excluded

Take ==
  /\ Turn
  /\ Wanted
  /\ Remember
  /\ out' = Append(out, [email |-> Email(next), name |-> members[next].name])

Next == SkipInvalid \/ SkipSeen \/ SkipOptedOut \/ Take

Spec == Init /\ [][Next]_vars

-----------------------------------------------------------------------------
TypeOK ==
  /\ members \in Seq(Member)
  /\ excluded \in SUBSET Addresses
  /\ next \in 1 .. Len(members) + 1
  /\ seen \in SUBSET Addresses
  /\ out \in Seq(Recipient)

Finished == next = Len(members) + 1

Listed == {Email(i) : i \in DOMAIN members} \cap Addresses
Mailed == {out[i].email : i \in DOMAIN out}

(***************************************************************************)
(* The audience is everybody who is listed under a usable address and has  *)
(* not opted out, however the addresses are spelled.                       *)
(***************************************************************************)
AudienceIsExact == Finished => Mailed = Listed \ excluded

(***************************************************************************)
(* Nobody is mailed twice, though committees overlap and spell addresses   *)
(* differently.                                                            *)
(***************************************************************************)
NobodyTwice ==
  \A i, j \in DOMAIN out : out[i].email = out[j].email => i = j

(***************************************************************************)
(* A recipient is greeted by the name under which the first committee of   *)
(* the draft lists the address.                                            *)
(***************************************************************************)
FirstListingWins ==
  \A i \in DOMAIN out : \E k \in DOMAIN members :
    /\ Email(k) = out[i].email /\ members[k].name = out[i].name
    /\ \A j \in 1 .. k - 1 : Email(j) # out[i].email
=============================================================================
