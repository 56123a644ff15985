-------------------------- MODULE MCRecipientMerge --------------------------
(***************************************************************************)
(* An instance of RecipientMerge for TLC: address a is written in two      *)
(* ways, b in one, and one spelling is no address.                         *)
(***************************************************************************)
EXTENDS RecipientMerge

CONSTANTS a, b, aLower, aUpper, bOnly, noAddress

Normal == [s \in Spellings |->
             CASE s \in {aLower, aUpper} -> a [] s = bOnly -> b [] OTHER -> Bad]
=============================================================================
