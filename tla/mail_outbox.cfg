SPECIFICATION FairSpec

CONSTANTS
  Deliveries = {m1}
  Recipients = {r1}
  RecipientOf <- OneBatch
  Sweeps = {s1, s2}
  MaxAttempts = 3
  SweepsMayFail = TRUE

INVARIANTS
  AttemptMailedOnce
  SentIsThisAttempt

PROPERTIES
  EveryOccurrenceSettles
