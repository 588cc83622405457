SPECIFICATION FairSpec

CONSTANTS
  Users = {u1}
  Tokens = {t1}
  Invitations = {}
  InvitedRole <- AsMembers
  Logins = {l1}
  Callbacks = {c1}
  Nothing = Nothing

PROPERTIES
  UnfinishedSetupEnds
