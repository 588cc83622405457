-------------------------- MODULE CareConfirmationsMC --------------------------
(* Small instances of CareConfirmations for TLC.                           *)
EXTENDS CareConfirmations, TLC

\* Members are interchangeable; only for runs without liveness
\* properties.
MemberSymmetry == Permutations(Users)
=============================================================================
