---------------------------- MODULE PreviewedWrite ----------------------------
(***************************************************************************)
(* What a previewed change promises: the person who confirms it was shown  *)
(* the state it is applied to, and the state it leads to. Member access,   *)
(* invitations, rule changes and privacy actions make this promise         *)
(* (docs/security.md, docs/adr/0009-explicit-member-data-scopes.md).       *)
(***************************************************************************)

CONSTANTS
  Subjects,   \* what a preview is about
  Nothing     \* absent value

VARIABLES
  state,   \* what a preview of each subject shows
  offer    \* the open preview of each subject

vars == <<state, offer>>

Init == offer = [s \in Subjects |-> Nothing]

\* Somebody asks for a preview, in place of the one that was open.
Show(s) ==
  /\ offer'[s] # Nothing
  /\ offer'[s].before = state[s]
  /\ offer' = [offer EXCEPT ![s] = offer'[s]]
  /\ UNCHANGED state

\* The confirmation of a preview whose basis is still the state.
Apply(s) ==
  /\ offer[s] # Nothing
  /\ offer[s].before = state[s]
  /\ state' = [state EXCEPT ![s] = offer[s].after]
  /\ offer' = [offer EXCEPT ![s] = Nothing]

\* A stale preview, or one nobody confirms, changes nothing.
Withdraw(s) ==
  /\ offer[s] # Nothing
  /\ offer' = [offer EXCEPT ![s] = Nothing]
  /\ UNCHANGED state

\* Everybody else may change the state; no open preview follows.
Change == UNCHANGED offer

Next == Change \/ \E s \in Subjects : Show(s) \/ Apply(s) \/ Withdraw(s)

Spec == Init /\ [][Next]_vars
=============================================================================
