----------------------------- MODULE OnboardingMC -----------------------------
(* Small instances of Onboarding for TLC.                                  *)
EXTENDS Onboarding, TLC

AsMembers == [i \in Invitations |-> "member"]

Symmetry == Permutations(Users) \cup Permutations(Callbacks) \cup Permutations(Logins)
            \cup Permutations(Tokens)
=============================================================================
