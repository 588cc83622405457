------------------------ MODULE ConfirmationEmailsProofs ------------------------
(***************************************************************************)
(* Proofs about ConfirmationEmails for any set of occurrences, recipients  *)
(* and overlapping sweeps and any limit of attempts.                       *)
(***************************************************************************)
EXTENDS ConfirmationEmails, TLAPS

-----------------------------------------------------------------------------
(* The inductive invariant.                                                *)

Held(s, d) == sweep[s].held[d]

\* A row that does not exist has no attempts.
AbsentIsFresh ==
  \A d \in Deliveries : delivery[d].status = "absent" => delivery[d].attempts = 0

\* A row that was sent has no next attempt.
SentIsClosed ==
  \A d \in Deliveries : delivery[d].status = "sent" => delivery[d].next = "none"

\* Candidates had attempts left when they were read.
SeenHasAttemptsLeft ==
  \A s \in Sweeps : \A c \in sweep[s].seen : c.attempts < MaxAttempts

\* No sweep holds an attempt that was not claimed yet.
HeldWasClaimed ==
  \A s \in Sweeps, d \in Deliveries : Held(s, d) <= delivery[d].attempts

\* An attempt belongs to one sweep.
HeldByOne ==
  \A s, r \in Sweeps, d \in Deliveries :
    s # r /\ Held(s, d) # 0 => Held(s, d) # Held(r, d)

\* Only a sweep that records a result has a batch.
BatchIsUnderWay ==
  \A s \in Sweeps : sweep[s].phase # "record" => sweep[s].batch = {}

\* Claims outside the batch have not been mailed.
HeldIsUnmailed ==
  \A s \in Sweeps, d \in Deliveries :
    Held(s, d) # 0 /\ d \notin sweep[s].batch => mails[d][Held(s, d)] = 0

\* A positive result stands for accepted attempts.
OkWasAccepted ==
  \A s \in Sweeps : \A d \in sweep[s].batch : sweep[s].ok => Held(s, d) \in acks[d]

IInv ==
  /\ TypeOK
  /\ AbsentIsFresh
  /\ SentIsClosed
  /\ SeenHasAttemptsLeft
  /\ HeldWasClaimed
  /\ HeldByOne
  /\ BatchIsUnderWay
  /\ HeldIsUnmailed
  /\ OkWasAccepted
  /\ AttemptMailedOnce
  /\ SentIsThisAttempt
  /\ FailureIsRetried

-----------------------------------------------------------------------------
(* Type correctness.                                                       *)

\* The initial state has the declared types and satisfies the invariant.
LEMMA InitIInv == Init => IInv
<1> SUFFICES ASSUME Init PROVE IInv
  OBVIOUS
<1> USE AttemptsAssumption DEF Init, IdleSweep, NoClaims, NoDelivery
<1>1. TypeOK
  BY DEF TypeOK, DeliveryRow, SweepState, Snapshot, Attempts
<1>2. AbsentIsFresh /\ SeenHasAttemptsLeft /\ HeldWasClaimed /\ HeldByOne
  BY DEF AbsentIsFresh, SeenHasAttemptsLeft, HeldWasClaimed, HeldByOne, Held
<1>5. SentIsClosed
  BY DEF SentIsClosed
<1>3. BatchIsUnderWay /\ HeldIsUnmailed /\ OkWasAccepted
  BY DEF BatchIsUnderWay, HeldIsUnmailed, OkWasAccepted, Held
<1>4. AttemptMailedOnce /\ SentIsThisAttempt /\ FailureIsRetried
  BY DEF AttemptMailedOnce, SentIsThisAttempt, FailureIsRetried, Attempts
<1> QED
  BY <1>1, <1>2, <1>3, <1>4, <1>5 DEF IInv

\* What a sweep becomes keeps its type, in whichever slot of sweep it is put.
LEMMA SweepUpdate ==
  ASSUME TypeOK, NEW s \in Sweeps, NEW v \in SweepState, sweep' = [sweep EXCEPT ![s] = v]
  PROVE  sweep' \in [Sweeps -> SweepState]
BY DEF TypeOK

\* What a row becomes keeps its type.
LEMMA RowUpdate ==
  ASSUME TypeOK, NEW d \in Deliveries, NEW row \in DeliveryRow,
         delivery' = [delivery EXCEPT ![d] = row]
  PROVE  delivery' \in [Deliveries -> DeliveryRow]
BY DEF TypeOK

\* The rows the code writes, given up, delivered and failed, are rows.
LEMMA RowTypes ==
  /\ NewDelivery \in DeliveryRow
  /\ \A row \in DeliveryRow :
       Terminated(row) \in DeliveryRow /\ Delivered(row) \in DeliveryRow /\ Failed(row) \in DeliveryRow
<1> USE AttemptsAssumption DEF DeliveryRow
<1>1. NewDelivery \in DeliveryRow
  BY DEF NewDelivery
<1>2. ASSUME NEW row \in DeliveryRow PROVE Terminated(row) \in DeliveryRow
  BY DEF Terminated, Lapsed
<1>3. ASSUME NEW row \in DeliveryRow PROVE Delivered(row) \in DeliveryRow
  BY DEF Delivered
<1>4. ASSUME NEW row \in DeliveryRow PROVE Failed(row) \in DeliveryRow
  BY DEF Failed, RetryAt
<1> QED
  BY <1>1, <1>2, <1>3, <1>4

\* A candidate names an occurrence; the attempt it is claimed for is within the limit.
LEMMA SeenTypes ==
  ASSUME TypeOK, SeenHasAttemptsLeft, NEW s \in Sweeps, NEW c \in sweep[s].seen
  PROVE  /\ c \in Snapshot
         /\ c.id \in Deliveries
         /\ c.attempts \in 0..MaxAttempts
         /\ c.attempts + 1 \in Attempts
<1>1. c \in Snapshot
  BY DEF TypeOK, SweepState
<1>2. c.id \in Deliveries /\ c.attempts \in 0..MaxAttempts
  BY <1>1 DEF Snapshot
<1>3. c.attempts < MaxAttempts
  BY DEF SeenHasAttemptsLeft
<1> QED
  BY <1>1, <1>2, <1>3, AttemptsAssumption DEF Attempts

\* Every step keeps the types; a claim needs that its candidate had attempts left.
LEMMA TypeStep == TypeOK /\ SeenHasAttemptsLeft /\ [Next]_vars => TypeOK'
<1> SUFFICES ASSUME TypeOK, SeenHasAttemptsLeft, [Next]_vars PROVE TypeOK'
  OBVIOUS
<1>0. ASSUME NEW s \in Sweeps PROVE sweep[s] \in SweepState
  BY DEF TypeOK
<1>1. ASSUME NEW s \in Sweeps, NEW due \in SUBSET Deliveries, SweepStart(s, due) PROVE TypeOK'
  <2>1. [sweep[s] EXCEPT !.phase = "select"] \in SweepState
    BY <1>0 DEF SweepState
  <2>2. sweep' \in [Sweeps -> SweepState]
    BY <1>1, <2>1, SweepUpdate DEF SweepStart
  <2>3. delivery' \in [Deliveries -> DeliveryRow]
    BY <1>1, RowTypes DEF SweepStart, TypeOK
  <2> QED
    BY <1>1, <2>2, <2>3 DEF SweepStart, TypeOK
<1>2. ASSUME NEW s \in Sweeps, Select(s) PROVE TypeOK'
  <2>1. Candidates \subseteq Snapshot
    BY DEF Candidates, Candidate, Snapshot, DeliveryRow, TypeOK
  <2>2. [sweep[s] EXCEPT !.phase = "claim", !.seen = Candidates] \in SweepState
    BY <1>0, <2>1 DEF SweepState
  <2>3. sweep' \in [Sweeps -> SweepState]
    BY <1>2, <2>2, SweepUpdate DEF Select
  <2> QED
    BY <1>2, <2>3 DEF Select, TypeOK
<1>3. ASSUME NEW s \in Sweeps, NEW c \in sweep[s].seen, Claim(s, c) PROVE TypeOK'
  <2>1. c.id \in Deliveries /\ c.attempts \in 0..MaxAttempts /\ c.attempts + 1 \in 0..MaxAttempts
    BY SeenTypes DEF Attempts
  <2>2. [sweep[s] EXCEPT !.seen = @ \ {c}] \in SweepState
    BY <1>0 DEF SweepState
  <2>3. CASE GiveUp(s, c)
    <3>1. sweep' \in [Sweeps -> SweepState]
      BY <2>2, <2>3, SweepUpdate DEF GiveUp
    <3>2. Terminated(delivery[c.id]) \in DeliveryRow
      BY <2>1, RowTypes DEF TypeOK
    <3>3. delivery' \in [Deliveries -> DeliveryRow]
      BY <2>1, <2>3, <3>2, RowUpdate DEF GiveUp
    <3> QED
      BY <1>3, <3>1, <3>3 DEF Claim, TypeOK
  <2>4. CASE Take(s, c)
    <3> DEFINE held == [sweep[s].held EXCEPT ![c.id] = c.attempts + 1]
    <3>1. held \in [Deliveries -> 0..MaxAttempts]
      BY <1>0, <2>1 DEF SweepState
    <3>2. [sweep[s] EXCEPT !.seen = sweep[s].seen \ {c}, !.held = held] \in SweepState
      BY <1>0, <3>1 DEF SweepState
    <3>3. sweep' \in [Sweeps -> SweepState]
      BY <2>4, <3>2, SweepUpdate DEF Take
    <3>4. Claimed(c) \in DeliveryRow
      BY <2>1 DEF Claimed, DeliveryRow
    <3>5. delivery' \in [Deliveries -> DeliveryRow]
      BY <2>1, <2>4, <3>4, RowUpdate DEF Take
    <3> QED
      BY <1>3, <3>3, <3>5 DEF Claim, TypeOK
  <2>5. CASE Leave(s, c)
    <3>1. sweep' \in [Sweeps -> SweepState]
      BY <2>2, <2>5, SweepUpdate DEF Leave
    <3> QED
      BY <1>3, <2>5, <3>1 DEF Claim, Leave, TypeOK
  <2> QED
    BY <1>3, <2>3, <2>4, <2>5 DEF Claim
<1>4. ASSUME NEW s \in Sweeps, ClaimsDone(s) PROVE TypeOK'
  <2>1. [sweep[s] EXCEPT !.phase = "send"] \in SweepState
    BY <1>0 DEF SweepState
  <2>2. sweep' \in [Sweeps -> SweepState]
    BY <1>4, <2>1, SweepUpdate DEF ClaimsDone
  <2> QED
    BY <1>4, <2>2 DEF ClaimsDone, TypeOK
<1>5. ASSUME NEW s \in Sweeps, NEW r \in Recipients, NEW accepted \in BOOLEAN,
             NEW ok \in BOOLEAN, Send(s, r, accepted, ok) PROVE TypeOK'
  <2>1. \A d \in HeldFor(s, r) : d \in Deliveries /\ sweep[s].held[d] \in Attempts
    BY <1>0, AttemptsAssumption DEF HeldFor, SweepState, Attempts
  <2>2. mails' \in [Deliveries -> [Attempts -> Nat]]
    BY <1>5, <2>1 DEF Send, TypeOK
  <2>3. acks' \in [Deliveries -> SUBSET Attempts]
    BY <1>5, <2>1 DEF Send, TypeOK
  <2>4. [sweep[s] EXCEPT !.phase = "record", !.batch = HeldFor(s, r), !.ok = ok] \in SweepState
    BY <1>0 DEF SweepState, HeldFor
  <2>5. sweep' \in [Sweeps -> SweepState]
    BY <1>5, <2>4, SweepUpdate DEF Send
  <2> QED
    BY <1>5, <2>2, <2>3, <2>5 DEF Send, TypeOK
<1>6. ASSUME NEW s \in Sweeps, Record(s) PROVE TypeOK'
  <2> DEFINE held == [d \in Deliveries |->
                        IF d \in sweep[s].batch THEN 0 ELSE sweep[s].held[d]]
  <2>1. delivery' \in [Deliveries -> DeliveryRow]
    BY <1>6, RowTypes DEF Record, TypeOK
  <2>2. held \in [Deliveries -> 0..MaxAttempts]
    BY <1>0, AttemptsAssumption DEF SweepState
  <2>3. [sweep[s] EXCEPT !.phase = "send", !.batch = {}, !.ok = FALSE, !.held = held] \in SweepState
    BY <1>0, <2>2 DEF SweepState
  <2>4. sweep' \in [Sweeps -> SweepState]
    BY <1>6, <2>3, SweepUpdate DEF Record
  <2> QED
    BY <1>6, <2>1, <2>4 DEF Record, TypeOK
<1>7. ASSUME NEW s \in Sweeps, SweepDone(s) \/ SweepFails(s) PROVE TypeOK'
  <2>1. IdleSweep \in SweepState
    BY AttemptsAssumption DEF IdleSweep, NoClaims, SweepState
  <2>2. sweep' \in [Sweeps -> SweepState]
    BY <1>7, <2>1, SweepUpdate DEF SweepDone, SweepFails
  <2> QED
    BY <1>7, <2>2 DEF SweepDone, SweepFails, TypeOK
<1>8. ASSUME NEW d \in Deliveries, OccurrenceChanges(d) PROVE TypeOK'
  BY <1>8 DEF OccurrenceChanges, TypeOK
<1>9. ASSUME NEW d \in Deliveries, NextAttemptReached(d) PROVE TypeOK'
  <2>1. [delivery[d] EXCEPT !.next = "reached"] \in DeliveryRow
    BY DEF TypeOK, DeliveryRow
  <2>2. delivery' \in [Deliveries -> DeliveryRow]
    BY <1>9, <2>1, RowUpdate DEF NextAttemptReached
  <2> QED
    BY <1>9, <2>2 DEF NextAttemptReached, TypeOK
<1>10. CASE UNCHANGED vars
  BY <1>10 DEF vars, TypeOK
<1> QED
  BY <1>1, <1>2, <1>3, <1>4, <1>5, <1>6, <1>7, <1>8, <1>9, <1>10 DEF Next, SweepNext

-----------------------------------------------------------------------------
(* The invariant is inductive.                                             *)

\* The conjuncts of IInv besides TypeOK.
Rest ==
  /\ AbsentIsFresh
  /\ SentIsClosed
  /\ SeenHasAttemptsLeft
  /\ HeldWasClaimed
  /\ HeldByOne
  /\ BatchIsUnderWay
  /\ HeldIsUnmailed
  /\ OkWasAccepted
  /\ AttemptMailedOnce
  /\ SentIsThisAttempt
  /\ FailureIsRetried

\* What the arithmetic below needs of the types.
LEMMA Ranges ==
  ASSUME TypeOK
  PROVE  /\ \A d \in Deliveries : delivery[d].attempts \in 0..MaxAttempts
         /\ \A s \in Sweeps, d \in Deliveries : Held(s, d) \in 0..MaxAttempts
         /\ \A s \in Sweeps : sweep[s].batch \subseteq Deliveries
         /\ \A d \in Deliveries, k \in Attempts : mails[d][k] \in Nat
BY DEF TypeOK, DeliveryRow, SweepState, Held

\* Steps that neither claim, mail nor record: attempts, mails and results stay, a
\* sweep keeps its claims or drops all of them, no row loses its next attempt.
LEMMA QuietStep ==
  ASSUME IInv, UNCHANGED <<mails, acks>>,
         \A d \in Deliveries :
           /\ delivery'[d].attempts = delivery[d].attempts
           /\ delivery'[d].status # delivery[d].status => delivery'[d].status = "pending"
           /\ delivery'[d].code = delivery[d].code \/ delivery'[d].code = "none"
           /\ delivery'[d].next = "none" => delivery[d].next = "none"
           /\ delivery[d].status = "sent" => delivery'[d] = delivery[d],
         \A s \in Sweeps :
           \/ sweep'[s] = IdleSweep
           \/ /\ sweep'[s].seen = sweep[s].seen
              /\ sweep'[s].held = sweep[s].held
              /\ sweep'[s].batch = sweep[s].batch
              /\ sweep'[s].ok = sweep[s].ok
              /\ sweep'[s].phase # "record" => sweep[s].phase # "record"
  PROVE  Rest'
<1> USE DEF IInv
<1>1. \A s \in Sweeps, d \in Deliveries : Held(s, d)' = Held(s, d) \/ Held(s, d)' = 0
  BY DEF Held, IdleSweep, NoClaims
<1>2. \A s \in Sweeps : sweep'[s].seen \subseteq sweep[s].seen
  BY DEF IdleSweep
<1>3. \A s \in Sweeps : sweep'[s] = IdleSweep => sweep'[s].batch = {}
  BY DEF IdleSweep
<1>4. AbsentIsFresh' /\ SentIsClosed' /\ SeenHasAttemptsLeft' /\ FailureIsRetried'
  BY <1>2 DEF AbsentIsFresh, SentIsClosed, SeenHasAttemptsLeft, FailureIsRetried
<1>5. HeldWasClaimed' /\ HeldByOne'
  BY <1>1, Ranges DEF HeldWasClaimed, HeldByOne
<1>6. BatchIsUnderWay'
  BY <1>3 DEF BatchIsUnderWay
<1>7. \A s \in Sweeps, d \in Deliveries : Held(s, d)' # 0 => sweep'[s].batch = sweep[s].batch
  BY DEF Held, IdleSweep, NoClaims
<1>8. HeldIsUnmailed'
  BY <1>1, <1>7 DEF HeldIsUnmailed
<1>9. OkWasAccepted'
  <2> SUFFICES ASSUME NEW s \in Sweeps, NEW d \in sweep'[s].batch, sweep'[s].ok
               PROVE  Held(s, d)' \in acks'[d]
    BY DEF OkWasAccepted
  <2>1. sweep'[s] # IdleSweep
    BY <1>3
  <2> QED
    BY <2>1 DEF OkWasAccepted, Held
<1>10. AttemptMailedOnce' /\ SentIsThisAttempt'
  BY DEF AttemptMailedOnce, SentIsThisAttempt
<1> QED
  BY <1>4, <1>5, <1>6, <1>8, <1>9, <1>10 DEF Rest

\* Reading candidates: each has attempts left.
LEMMA SelectStep ==
  ASSUME IInv, NEW s \in Sweeps, Select(s)
  PROVE  Rest'
<1> USE DEF IInv, Select
<1>0. sweep \in [Sweeps -> SweepState]
  BY DEF TypeOK
<1>1. \A x \in Sweeps :
        /\ sweep'[x].held = sweep[x].held
        /\ sweep'[x].batch = sweep[x].batch
        /\ sweep'[x].ok = sweep[x].ok
        /\ sweep'[x].phase # "record" => sweep[x].phase # "record"
        /\ sweep'[x].seen = IF x = s THEN Candidates ELSE sweep[x].seen
  BY <1>0 DEF SweepState
<1>2. \A c \in Candidates : c.attempts < MaxAttempts
  BY DEF Candidates, Candidate
<1>3. SeenHasAttemptsLeft'
  BY <1>1, <1>2 DEF SeenHasAttemptsLeft
<1>4. AbsentIsFresh' /\ SentIsClosed' /\ FailureIsRetried' /\ AttemptMailedOnce' /\ SentIsThisAttempt'
  BY DEF AbsentIsFresh, SentIsClosed, FailureIsRetried, AttemptMailedOnce, SentIsThisAttempt
<1>5. HeldWasClaimed' /\ HeldByOne' /\ HeldIsUnmailed'
  BY <1>1 DEF HeldWasClaimed, HeldByOne, HeldIsUnmailed, Held
<1>6. BatchIsUnderWay' /\ OkWasAccepted'
  BY <1>1 DEF BatchIsUnderWay, OkWasAccepted, Held
<1> QED
  BY <1>3, <1>4, <1>5, <1>6 DEF Rest

\* Working off one candidate.  A claim raises attempt_count beyond every attempt
\* held or mailed so far, which is why the new attempt is nobody else's.
LEMMA ClaimStep ==
  ASSUME IInv, NEW s \in Sweeps, NEW c \in sweep[s].seen, Claim(s, c)
  PROVE  Rest'
<1> USE DEF IInv
<1>0. sweep \in [Sweeps -> SweepState] /\ delivery \in [Deliveries -> DeliveryRow]
  BY DEF TypeOK
<1>1. c.id \in Deliveries /\ c.attempts \in 0..MaxAttempts /\ c.attempts + 1 \in Attempts
  BY SeenTypes
<1>2. \A x \in Sweeps :
        /\ sweep'[x].batch = sweep[x].batch
        /\ sweep'[x].ok = sweep[x].ok
        /\ sweep'[x].phase = sweep[x].phase
        /\ sweep'[x].seen \subseteq sweep[x].seen
  <2>1. CASE GiveUp(s, c)
    BY <1>0, <2>1 DEF GiveUp, SweepState
  <2>2. CASE Take(s, c)
    BY <1>0, <2>2 DEF Take, SweepState
  <2>3. CASE Leave(s, c)
    BY <1>0, <2>3 DEF Leave, SweepState
  <2> QED
    BY <2>1, <2>2, <2>3 DEF Claim
<1>3. mails' = mails /\ acks' = acks
  BY DEF Claim
<1>4. SeenHasAttemptsLeft' /\ BatchIsUnderWay'
  BY <1>2 DEF SeenHasAttemptsLeft, BatchIsUnderWay
<1>5. sweep[s].phase = "claim" /\ sweep[s].batch = {}
  BY DEF Claim, BatchIsUnderWay
<1>6. CASE Take(s, c)
  <2>1. /\ delivery'[c.id] = Claimed(c)
        /\ \A d \in Deliveries \ {c.id} : delivery'[d] = delivery[d]
        /\ delivery[c.id].attempts = c.attempts
    BY <1>0, <1>1, <1>6 DEF Take, UnchangedSince
  <2>2. \A x \in Sweeps, d \in Deliveries :
          Held(x, d)' = IF x = s /\ d = c.id THEN c.attempts + 1 ELSE Held(x, d)
    BY <1>0, <1>1, <1>6 DEF Take, SweepState, Held
  <2>3. /\ delivery'[c.id].attempts = c.attempts + 1
        /\ delivery'[c.id].status = "pending"
        /\ delivery'[c.id].code = "none"
    BY <2>1 DEF Claimed
  <2>4. AbsentIsFresh' /\ SentIsClosed' /\ FailureIsRetried' /\ SentIsThisAttempt'
    BY <1>3, <2>1, <2>3 DEF AbsentIsFresh, SentIsClosed, FailureIsRetried, SentIsThisAttempt
  <2>5. AttemptMailedOnce'
    BY <1>1, <1>3, <2>1, <2>3, Ranges DEF AttemptMailedOnce, Attempts
  <2>6. HeldWasClaimed'
    BY <1>1, <2>1, <2>2, <2>3, Ranges DEF HeldWasClaimed
  <2>7. HeldByOne'
    BY <1>1, <2>1, <2>2, Ranges DEF HeldByOne, HeldWasClaimed
  <2>8. mails[c.id][c.attempts + 1] = 0
    BY <1>1, <2>1, Ranges DEF AttemptMailedOnce
  <2>9. HeldIsUnmailed'
    BY <1>2, <1>3, <2>2, <2>8 DEF HeldIsUnmailed
  <2>10. OkWasAccepted'
    BY <1>2, <1>3, <1>5, <2>2, Ranges DEF OkWasAccepted
  <2> QED
    BY <1>4, <2>4, <2>5, <2>6, <2>7, <2>9, <2>10 DEF Rest
<1>7. CASE GiveUp(s, c) \/ Leave(s, c)
  <2>1. \A d \in Deliveries :
          /\ delivery'[d].attempts = delivery[d].attempts
          /\ delivery'[d].status # delivery[d].status => delivery'[d].status = "failed"
          /\ delivery'[d] # delivery[d] => delivery'[d].status = "failed" /\ delivery'[d].code = "lapsed"
    <3>1. CASE GiveUp(s, c)
      <4>1. \A d \in Deliveries :
              delivery'[d] = IF d = c.id THEN Terminated(delivery[d]) ELSE delivery[d]
        BY <1>0, <1>1, <3>1 DEF GiveUp
      <4>2. \A row \in DeliveryRow :
              \/ Terminated(row) = row
              \/ /\ Terminated(row).attempts = row.attempts
                 /\ Terminated(row).status = "failed"
                 /\ Terminated(row).code = "lapsed"
        BY DEF Terminated, Lapsed, DeliveryRow
      <4> QED
        BY <1>0, <4>1, <4>2
    <3>2. CASE Leave(s, c)
      BY <3>2 DEF Leave
    <3> QED
      BY <1>7, <3>1, <3>2
  <2>2. \A x \in Sweeps : sweep'[x].held = sweep[x].held
    <3>1. CASE GiveUp(s, c)
      BY <1>0, <3>1 DEF GiveUp, SweepState
    <3>2. CASE Leave(s, c)
      BY <1>0, <3>2 DEF Leave, SweepState
    <3> QED
      BY <1>7, <3>1, <3>2
  <2>3. AbsentIsFresh' /\ SentIsClosed' /\ AttemptMailedOnce' /\ SentIsThisAttempt'
    BY <1>3, <2>1 DEF AbsentIsFresh, SentIsClosed, AttemptMailedOnce, SentIsThisAttempt
  <2>4. FailureIsRetried'
    BY <2>1 DEF FailureIsRetried
  <2>5. HeldWasClaimed' /\ HeldByOne' /\ HeldIsUnmailed' /\ OkWasAccepted'
    BY <1>2, <1>3, <2>1, <2>2 DEF HeldWasClaimed, HeldByOne, HeldIsUnmailed, OkWasAccepted, Held
  <2> QED
    BY <1>4, <2>3, <2>4, <2>5 DEF Rest
<1> QED
  BY <1>6, <1>7 DEF Claim

\* Mailing a batch.  An attempt is mailed by the one sweep that holds it, which
\* has not mailed it before.
LEMMA SendStep ==
  ASSUME IInv, NEW s \in Sweeps, NEW r \in Recipients, NEW accepted \in BOOLEAN,
         NEW ok \in BOOLEAN, Send(s, r, accepted, ok)
  PROVE  Rest'
<1> USE DEF IInv
<1>0. sweep \in [Sweeps -> SweepState]
  BY DEF TypeOK
<1>1. \A x \in Sweeps :
        /\ sweep'[x].seen = sweep[x].seen
        /\ sweep'[x].held = sweep[x].held
        /\ x # s => sweep'[x] = sweep[x]
  BY <1>0 DEF Send, SweepState
<1>2. sweep'[s].phase = "record" /\ sweep'[s].batch = HeldFor(s, r) /\ sweep'[s].ok = ok
  BY <1>0 DEF Send, SweepState
<1>3. \A d \in Deliveries : d \in HeldFor(s, r) => Held(s, d) \in Attempts
  BY Ranges, AttemptsAssumption DEF HeldFor, Held, Attempts
<1>4. sweep[s].batch = {}
  BY DEF Send, BatchIsUnderWay
<1>5. \A d \in Deliveries, k \in Attempts :
        mails'[d][k] = IF accepted /\ d \in HeldFor(s, r) /\ k = Held(s, d)
                       THEN mails[d][k] + 1 ELSE mails[d][k]
  BY <1>3 DEF Send, TypeOK, Held
<1>6. \A d \in Deliveries :
        /\ acks[d] \subseteq acks'[d]
        /\ ok /\ d \in HeldFor(s, r) => Held(s, d) \in acks'[d]
  BY DEF Send, Held
<1>7. delivery' = delivery
  BY DEF Send
<1>8. AbsentIsFresh' /\ SentIsClosed' /\ FailureIsRetried' /\ SentIsThisAttempt'
  BY <1>6, <1>7 DEF AbsentIsFresh, SentIsClosed, FailureIsRetried, SentIsThisAttempt
<1>9. SeenHasAttemptsLeft' /\ HeldWasClaimed' /\ HeldByOne'
  BY <1>1, <1>7 DEF SeenHasAttemptsLeft, HeldWasClaimed, HeldByOne, Held
<1>10. BatchIsUnderWay'
  BY <1>1, <1>2 DEF BatchIsUnderWay
<1>11. \A d \in HeldFor(s, r) : mails[d][Held(s, d)] = 0 /\ Held(s, d) <= delivery[d].attempts
  BY <1>3, <1>4 DEF HeldIsUnmailed, HeldWasClaimed, HeldFor, Held
<1>12. AttemptMailedOnce'
  <2> SUFFICES ASSUME NEW d \in Deliveries, NEW k \in Attempts
               PROVE  mails'[d][k] <= (IF k <= delivery[d].attempts THEN 1 ELSE 0)
    BY <1>7 DEF AttemptMailedOnce
  <2>1. CASE accepted /\ d \in HeldFor(s, r) /\ k = Held(s, d)
    BY <1>5, <1>11, <2>1
  <2>2. CASE ~(accepted /\ d \in HeldFor(s, r) /\ k = Held(s, d))
    BY <1>5, <2>2 DEF AttemptMailedOnce
  <2> QED
    BY <2>1, <2>2
<1>13. HeldIsUnmailed'
  <2> SUFFICES ASSUME NEW x \in Sweeps, NEW d \in Deliveries,
                      Held(x, d) # 0, d \notin sweep'[x].batch
               PROVE  mails'[d][Held(x, d)] = 0
    BY <1>1 DEF HeldIsUnmailed, Held
  <2>1. Held(x, d) \in Attempts
    BY Ranges, AttemptsAssumption DEF Attempts
  <2>2. mails[d][Held(x, d)] = 0
    BY <1>1, <1>4 DEF HeldIsUnmailed
  <2>3. ~(d \in HeldFor(s, r) /\ Held(x, d) = Held(s, d))
    BY <1>2 DEF HeldByOne
  <2> QED
    BY <1>5, <2>1, <2>2, <2>3
<1>14. OkWasAccepted'
  <2> SUFFICES ASSUME NEW x \in Sweeps, NEW d \in sweep'[x].batch, sweep'[x].ok
               PROVE  Held(x, d) \in acks'[d]
    BY <1>1 DEF OkWasAccepted, Held
  <2>1. CASE x = s
    BY <1>2, <1>6, <2>1 DEF HeldFor
  <2>2. CASE x # s
    BY <1>1, <1>6, <2>2, Ranges DEF OkWasAccepted
  <2> QED
    BY <2>1, <2>2
<1> QED
  BY <1>8, <1>9, <1>10, <1>12, <1>13, <1>14 DEF Rest

\* Recording a result: only rows that wait for the attempt held are touched.
LEMMA RecordStep ==
  ASSUME IInv, NEW s \in Sweeps, Record(s)
  PROVE  Rest'
<1> USE DEF IInv
<1>0. sweep \in [Sweeps -> SweepState] /\ delivery \in [Deliveries -> DeliveryRow]
  BY DEF TypeOK
<1>1. \A x \in Sweeps : sweep'[x].seen = sweep[x].seen /\ (x # s => sweep'[x] = sweep[x])
  BY <1>0 DEF Record, SweepState
<1>2. sweep'[s].phase = "send" /\ sweep'[s].batch = {} /\ ~sweep'[s].ok
  BY <1>0 DEF Record, SweepState
<1>3. \A d \in Deliveries : Held(s, d)' = IF d \in sweep[s].batch THEN 0 ELSE Held(s, d)
  BY <1>0 DEF Record, SweepState, Held
<1>4. mails' = mails /\ acks' = acks
  BY DEF Record
<1>5. \A d \in Deliveries :
        \/ delivery'[d] = delivery[d]
        \/ /\ StillOwns(s, d)
           /\ delivery'[d] = IF sweep[s].ok THEN Delivered(delivery[d]) ELSE Failed(delivery[d])
  BY DEF Record
<1>6. \A row \in DeliveryRow :
        /\ Delivered(row).attempts = row.attempts
        /\ Delivered(row).status = "sent" /\ Delivered(row).code = "none"
        /\ Delivered(row).next = "none"
        /\ Failed(row).attempts = row.attempts
        /\ Failed(row).status = "failed"
        /\ row.attempts < MaxAttempts => Failed(row).next # "none"
  BY DEF Delivered, Failed, RetryAt, DeliveryRow
<1>7. \A d \in Deliveries : delivery'[d].attempts = delivery[d].attempts
  BY <1>0, <1>5, <1>6
<1>8. AbsentIsFresh' /\ SentIsClosed'
  BY <1>0, <1>5, <1>6, <1>7 DEF AbsentIsFresh, SentIsClosed
<1>9. FailureIsRetried'
  BY <1>0, <1>5, <1>6 DEF FailureIsRetried
<1>10. SentIsThisAttempt'
  <2> SUFFICES ASSUME NEW d \in Deliveries, delivery'[d].status = "sent"
               PROVE  delivery'[d].attempts \in acks[d]
    BY <1>4 DEF SentIsThisAttempt
  <2>1. CASE delivery'[d] = delivery[d]
    BY <2>1 DEF SentIsThisAttempt
  <2>2. CASE delivery'[d] # delivery[d]
    <3>1. StillOwns(s, d) /\ sweep[s].ok
      BY <1>0, <1>5, <1>6, <2>2
    <3> QED
      BY <1>7, <3>1 DEF StillOwns, OwnsPending, OkWasAccepted, Held
  <2> QED
    BY <2>1, <2>2
<1>11. SeenHasAttemptsLeft' /\ AttemptMailedOnce'
  BY <1>1, <1>4, <1>7 DEF SeenHasAttemptsLeft, AttemptMailedOnce
<1>12. \A x \in Sweeps, d \in Deliveries : Held(x, d)' = Held(x, d) \/ Held(x, d)' = 0
  BY <1>1, <1>3 DEF Held
<1>13. HeldWasClaimed' /\ HeldByOne'
  BY <1>7, <1>12, Ranges DEF HeldWasClaimed, HeldByOne
<1>14. BatchIsUnderWay' /\ OkWasAccepted'
  BY <1>1, <1>2, <1>4 DEF BatchIsUnderWay, OkWasAccepted, Held
<1>15. HeldIsUnmailed'
  <2> SUFFICES ASSUME NEW x \in Sweeps, NEW d \in Deliveries,
                      Held(x, d)' # 0, d \notin sweep'[x].batch
               PROVE  mails[d][Held(x, d)'] = 0
    BY <1>4 DEF HeldIsUnmailed
  <2>1. Held(x, d)' = Held(x, d) /\ d \notin sweep[x].batch
    BY <1>1, <1>3, <1>12
  <2> QED
    BY <2>1 DEF HeldIsUnmailed
<1> QED
  BY <1>8, <1>9, <1>10, <1>11, <1>13, <1>14, <1>15 DEF Rest

\* Every step of the specification keeps the invariant.
LEMMA StepIInv == IInv /\ [Next]_vars => IInv'
<1> SUFFICES ASSUME IInv, [Next]_vars PROVE IInv'
  OBVIOUS
<1>1. TypeOK'
  BY TypeStep DEF IInv
<1>2. Rest'
  <2>0. sweep \in [Sweeps -> SweepState] /\ delivery \in [Deliveries -> DeliveryRow]
    BY DEF IInv, TypeOK
  <2>1. ASSUME NEW s \in Sweeps, NEW due \in SUBSET Deliveries, SweepStart(s, due) PROVE Rest'
    <3>1. \A d \in Deliveries :
            \/ delivery'[d] = delivery[d]
            \/ delivery[d].status = "absent" /\ delivery'[d] = NewDelivery
      BY <2>1 DEF SweepStart
    <3>2. \A d \in Deliveries : delivery[d].status = "absent" => delivery[d].attempts = 0
      BY DEF IInv, AbsentIsFresh
    <3>3. \A d \in Deliveries :
            /\ delivery'[d].attempts = delivery[d].attempts
            /\ delivery'[d].status # delivery[d].status => delivery'[d].status = "pending"
            /\ delivery'[d].code = delivery[d].code \/ delivery'[d].code = "none"
            /\ delivery'[d].next = "none" => delivery[d].next = "none"
            /\ delivery[d].status = "sent" => delivery'[d] = delivery[d]
      BY <3>1, <3>2 DEF NewDelivery
    <3>4. \A x \in Sweeps :
            /\ sweep'[x].seen = sweep[x].seen
            /\ sweep'[x].held = sweep[x].held
            /\ sweep'[x].batch = sweep[x].batch
            /\ sweep'[x].ok = sweep[x].ok
            /\ sweep'[x].phase # "record" => sweep[x].phase # "record"
      BY <2>0, <2>1 DEF SweepStart, SweepState
    <3> QED
      BY <2>1, <3>3, <3>4, QuietStep DEF SweepStart
  <2>2. ASSUME NEW s \in Sweeps, ClaimsDone(s) PROVE Rest'
    <3>1. \A x \in Sweeps :
            /\ sweep'[x].seen = sweep[x].seen
            /\ sweep'[x].held = sweep[x].held
            /\ sweep'[x].batch = sweep[x].batch
            /\ sweep'[x].ok = sweep[x].ok
            /\ sweep'[x].phase # "record" => sweep[x].phase # "record"
      BY <2>0, <2>2 DEF ClaimsDone, SweepState
    <3> QED
      BY <2>2, <3>1, QuietStep DEF ClaimsDone
  <2>3. ASSUME NEW s \in Sweeps, SweepDone(s) \/ SweepFails(s) PROVE Rest'
    <3>1. \A x \in Sweeps : sweep'[x] = IdleSweep \/ sweep'[x] = sweep[x]
      BY <2>0, <2>3 DEF SweepDone, SweepFails
    <3> QED
      BY <2>3, <3>1, QuietStep DEF SweepDone, SweepFails
  <2>4. ASSUME NEW d \in Deliveries, OccurrenceChanges(d) PROVE Rest'
    BY <2>4, QuietStep DEF OccurrenceChanges
  <2>5. ASSUME NEW d \in Deliveries, NextAttemptReached(d) PROVE Rest'
    <3>1. \A c \in Deliveries :
            /\ delivery'[c].attempts = delivery[c].attempts
            /\ delivery'[c].status = delivery[c].status
            /\ delivery'[c].code = delivery[c].code
            /\ delivery'[c].next = "none" => delivery[c].next = "none"
            /\ delivery[c].status = "sent" => delivery'[c] = delivery[c]
      BY <2>0, <2>5 DEF NextAttemptReached, DeliveryRow, IInv, SentIsClosed
    <3> QED
      BY <2>5, <3>1, QuietStep DEF NextAttemptReached
  <2>6. CASE UNCHANGED vars
    BY <2>6, QuietStep DEF vars
  <2> QED
    BY <2>1, <2>2, <2>3, <2>4, <2>5, <2>6, SelectStep, ClaimStep, SendStep, RecordStep
    DEF Next, SweepNext
<1> QED
  BY <1>1, <1>2 DEF IInv, Rest

-----------------------------------------------------------------------------
(* The theorems.                                                           *)

\* The inductive invariant holds in every reachable state.
LEMMA Invariant == Spec => []IInv
BY InitIInv, StepIInv, PTL DEF Spec

\* Every variable keeps its type, whatever sweeps run at the same time.
THEOREM TypeCorrect == Spec => []TypeOK
<1>1. IInv => TypeOK
  BY DEF IInv
<1> QED
  BY <1>1, Invariant, PTL

\* The relay gets at most one mail for each attempt claimed: an occurrence is mailed
\* at most MAX_DELIVERY_ATTEMPTS times (the claim's conditional UPDATE).
THEOREM MailedOncePerAttempt == Spec => []AttemptMailedOnce
<1>1. IInv => AttemptMailedOnce
  BY DEF IInv
<1> QED
  BY <1>1, Invariant, PTL

\* A row recorded as sent names an attempt that the relay had accepted, however late
\* the results of superseded attempts come in (the result's conditional UPDATE).
THEOREM SentWasAccepted == Spec => []SentIsThisAttempt
<1>1. IInv => SentIsThisAttempt
  BY DEF IInv
<1> QED
  BY <1>1, Invariant, PTL

\* A failed delivery with attempts left is always taken up again (retryAt).
THEOREM FailuresAreRetried == Spec => []FailureIsRetried
<1>1. IInv => FailureIsRetried
  BY DEF IInv
<1> QED
  BY <1>1, Invariant, PTL

\* A row recorded as sent is never written again: sweeps take up, claim, give up and
\* record only rows that are not sent, whatever they had read of them before.
THEOREM SentStays == Spec => SentIsFinal
<1>1. IInv /\ [Next]_vars =>
        [\A d \in Deliveries : delivery[d].status = "sent" => delivery'[d] = delivery[d]]_vars
  <2> SUFFICES ASSUME IInv, Next, NEW d \in Deliveries, delivery[d].status = "sent"
               PROVE  delivery'[d] = delivery[d]
    BY DEF vars
  <2>0. TypeOK /\ delivery \in [Deliveries -> DeliveryRow]
    BY DEF IInv, TypeOK
  <2>1. ASSUME NEW s \in Sweeps, NEW c \in sweep[s].seen, Claim(s, c)
        PROVE  delivery'[d] = delivery[d]
    <3>1. c.id \in Deliveries /\ c.status \in {"pending", "failed"}
      BY <2>0 DEF TypeOK, SweepState, Snapshot
    <3>2. CASE GiveUp(s, c)
      BY <2>0, <3>1, <3>2 DEF GiveUp, Terminated
    <3>3. CASE Take(s, c)
      BY <2>0, <3>1, <3>3 DEF Take, UnchangedSince
    <3>4. CASE Leave(s, c)
      BY <3>4 DEF Leave
    <3> QED
      BY <2>1, <3>2, <3>3, <3>4 DEF Claim
  <2>2. ASSUME NEW s \in Sweeps, Record(s) PROVE delivery'[d] = delivery[d]
    BY <2>2 DEF Record, StillOwns, OwnsPending
  <2>3. ASSUME NEW c \in Deliveries, NextAttemptReached(c) PROVE delivery'[d] = delivery[d]
    BY <2>0, <2>3 DEF NextAttemptReached, IInv, SentIsClosed
  <2>4. ASSUME NEW s \in Sweeps, NEW due \in SUBSET Deliveries, SweepStart(s, due)
        PROVE  delivery'[d] = delivery[d]
    BY <2>4 DEF SweepStart
  <2> QED
    BY <2>1, <2>2, <2>3, <2>4
    DEF Next, SweepNext, Select, ClaimsDone, SweepDone, SweepFails, Send, OccurrenceChanges
<1> QED
  BY <1>1, Invariant, PTL DEF Spec, SentIsFinal
=============================================================================
