---------------------------- MODULE MCOnboarding ----------------------------
(***************************************************************************)
(* A small instance of Onboarding: submissions of two addresses, and       *)
(* admins whose requests overlap.                                          *)
(***************************************************************************)
EXTENDS Onboarding, TLC

Interchangeable ==
    Permutations(Submissions) \union Permutations(Reviews) \union Permutations(Emails)
=============================================================================
