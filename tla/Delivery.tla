------------------------------ MODULE Delivery ------------------------------
(***************************************************************************)
(* What the fan-out of one send promises the caller: every recipient of    *)
(* the resolved audience is settled exactly once, as reported (counted in  *)
(* "sent") or as failed, and whoever is reported was accepted by the email *)
(* service.  The converse is not promised: the email service may accept a  *)
(* message whose reply never arrives.  NewsletterLifecycle.tla runs one    *)
(* copy of this per send request; FanOut.tla shows how the goroutines of   *)
(* fanOut implement it.                                                    *)
(***************************************************************************)
EXTENDS FiniteSets

CONSTANT Recipients

VARIABLES
  audience,   \* the recipients handed to the fan-out
  pending,    \* those not settled yet
  reported,   \* those counted as sent
  accepted    \* those whose message the email service accepted

vars == <<audience, pending, reported, accepted>>

Init ==
  /\ audience = {}
  /\ pending = {}
  /\ reported = {}
  /\ accepted = {}

(***************************************************************************)
(* Recipients are handed over once; nobody is added later.                 *)
(***************************************************************************)
Begin ==
  /\ audience = {}
  /\ \E A \in SUBSET Recipients : audience' = A /\ pending' = A
  /\ UNCHANGED <<reported, accepted>>

Accept(m) ==
  /\ m \in audience \ accepted
  /\ accepted' = accepted \cup {m}
  /\ UNCHANGED <<audience, pending, reported>>

SettleSent(m) ==
  /\ m \in pending \cap accepted
  /\ pending' = pending \ {m}
  /\ reported' = reported \cup {m}
  /\ UNCHANGED <<audience, accepted>>

SettleFailed(m) ==
  /\ m \in pending
  /\ pending' = pending \ {m}
  /\ UNCHANGED <<audience, reported, accepted>>

Next ==
  \/ Begin
  \/ \E m \in Recipients : Accept(m) \/ SettleSent(m) \/ SettleFailed(m)

Spec == Init /\ [][Next]_vars
=============================================================================
