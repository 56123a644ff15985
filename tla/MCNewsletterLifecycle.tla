----------------------- MODULE MCNewsletterLifecycle -----------------------
(***************************************************************************)
(* Instances of NewsletterLifecycle for TLC.  Requests, recipients and     *)
(* contents are interchangeable, so safety runs may use Symmetry.          *)
(***************************************************************************)
EXTENDS NewsletterLifecycle, TLC

Symmetry == Permutations(Requests) \cup Permutations(Recipients)
            \cup Permutations(Contents) \cup Permutations(Projects)
=============================================================================
