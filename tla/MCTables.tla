------------------------------ MODULE MCTables ------------------------------
(***************************************************************************)
(* The two tables that are read while they are written, each explored on   *)
(* its own in one run: a behaviour is one of OpenTracking or one of        *)
(* NewsletterList, the other stays in its initial state.                   *)
(***************************************************************************)
EXTENDS OpenTracking, NewsletterList

VARIABLE part

Init == part \in {"opens", "list"} /\ OpensInit /\ ListInit

Next ==
  \/ part = "opens" /\ OpensNext /\ UNCHANGED <<part, listVars>>
  \/ part = "list" /\ ListNext /\ UNCHANGED <<part, opensVars>>

Spec == Init /\ [][Next]_<<part, opensVars, listVars>>
-----------------------------------------------------------------------------
(***************************************************************************)
(* The tables, the hits and the client's walk are of the right shape.      *)
(***************************************************************************)
TypeOK == OpensTypeOK /\ ListTypeOK
=============================================================================
