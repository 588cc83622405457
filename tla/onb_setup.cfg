SPECIFICATION Spec

CONSTANTS
  Users = {u1, u2}
  Tokens = {t1, t2}
  Invitations = {i1}
  InvitedRole <- AsMembers
  Logins = {l1, l2}
  Callbacks = {c1, c2}
  Nothing = Nothing

SYMMETRY Symmetry

INVARIANTS
  OwnerKeepsAccess
  OnboardingSessionsAreCurrent

PROPERTIES
  OwnerIsForever
  InvitationSettlesOnce
