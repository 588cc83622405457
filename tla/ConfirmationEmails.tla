--------------------------- MODULE ConfirmationEmails ---------------------------
(***************************************************************************)
(* Delivery of confirmation e-mails                                        *)
(* (server/services/careConfirmationEmails.ts): an outbox table worked off *)
(* by sweeps that claim a row with a lease, hand a batch to the mail relay *)
(* under a timeout and record the result, with two bounded retries.        *)
(*                                                                         *)
(* A sweep may be slower than the lease or than the 15 minutes to the next *)
(* sweep: nothing bounds the number of batches it sends one after another, *)
(* so the lease of a row may run out while its mail is still on its way.   *)
(***************************************************************************)
EXTENDS Naturals

CONSTANTS
  Deliveries,     \* occurrences: one row each, by the UNIQUE constraint
  Recipients,     \* what a batch is keyed by: member, event and address
  RecipientOf,    \* the recipient of each occurrence
  Sweeps,         \* sweeps that may run at the same time
  MaxAttempts,    \* MAX_DELIVERY_ATTEMPTS
  SweepsMayFail   \* whether errors and restarts are part of the instance

ASSUME AttemptsAssumption == MaxAttempts \in Nat \ {0}
ASSUME RecipientAssumption == RecipientOf \in [Deliveries -> Recipients]
ASSUME FailAssumption == SweepsMayFail \in BOOLEAN

VARIABLES
  delivery,   \* rows of care_confirmation_email_deliveries
  matches,    \* it is the request's present occurrence, opted in, with an address
  actionable, \* isCareConfirmationRequestActionable
  sweep,      \* local state of every sweep
  mails,      \* history: mails the relay accepted, per attempt
  acks        \* history: attempts whose sweep saw the relay accept the mail

vars == <<delivery, matches, actionable, sweep, mails, acks>>

-----------------------------------------------------------------------------
Attempts == 1..MaxAttempts

\* next_attempt_at is null, ahead of or behind the clock; "lapsed" stands for
\* the error codes not_actionable and recipient_unavailable.
DeliveryRow == [status   : {"absent", "pending", "sent", "failed"},
                attempts : 0..MaxAttempts,
                next     : {"none", "later", "reached"},
                code     : {"none", "delivery_failed", "lapsed"}]

Snapshot == [id : Deliveries, status : {"pending", "failed"}, attempts : 0..MaxAttempts,
             matches : BOOLEAN]

SweepState == [phase : {"idle", "select", "claim", "send", "record"},
               seen  : SUBSET Snapshot,                \* candidates not yet looked at
               held  : [Deliveries -> 0..MaxAttempts], \* the attempt claimed, 0 for none
               batch : SUBSET Deliveries,              \* the claims of the mail under way
               ok    : BOOLEAN]                        \* its result

NoDelivery == [status |-> "absent", attempts |-> 0, next |-> "none", code |-> "none"]

NewDelivery == [status |-> "pending", attempts |-> 0, next |-> "reached", code |-> "none"]

NoClaims == [d \in Deliveries |-> 0]

IdleSweep == [phase |-> "idle", seen |-> {}, held |-> NoClaims, batch |-> {}, ok |-> FALSE]

TypeOK ==
  /\ delivery \in [Deliveries -> DeliveryRow]
  /\ matches \in [Deliveries -> BOOLEAN]
  /\ actionable \in [Deliveries -> BOOLEAN]
  /\ sweep \in [Sweeps -> SweepState]
  /\ mails \in [Deliveries -> [Attempts -> Nat]]
  /\ acks \in [Deliveries -> SUBSET Attempts]

Init ==
  /\ delivery = [d \in Deliveries |-> NoDelivery]
  /\ matches = [d \in Deliveries |-> TRUE]
  /\ actionable = [d \in Deliveries |-> TRUE]
  /\ sweep = [s \in Sweeps |-> IdleSweep]
  /\ mails = [d \in Deliveries |-> [k \in Attempts |-> 0]]
  /\ acks = [d \in Deliveries |-> {}]

-----------------------------------------------------------------------------
\* createPendingOccurrences: a row for every due occurrence that has none.
SweepStart(s, due) ==
  /\ sweep[s].phase = "idle"
  /\ delivery' = [d \in Deliveries |->
       IF d \in due /\ delivery[d].status = "absent"
       THEN NewDelivery ELSE delivery[d]]
  /\ sweep' = [sweep EXCEPT ![s].phase = "select"]
  /\ UNCHANGED <<matches, actionable, mails, acks>>

\* Seeded fault: only failed rows are taken up again, lapsed claims are not.
CandidateIfFailed(d) ==
  /\ \/ delivery[d].status = "failed"
     \/ delivery[d].status = "pending" /\ delivery[d].attempts = 0
  /\ delivery[d].attempts < MaxAttempts
  /\ delivery[d].next = "reached"

Candidate(d) ==
  /\ delivery[d].status \in {"pending", "failed"}
  /\ delivery[d].attempts < MaxAttempts
  /\ delivery[d].next = "reached"

Candidates ==
  {[id |-> d, status |-> delivery[d].status, attempts |-> delivery[d].attempts,
    matches |-> matches[d]] : d \in {c \in Deliveries : Candidate(c)}}

Select(s) ==
  /\ sweep[s].phase = "select"
  /\ sweep' = [sweep EXCEPT ![s] = [@ EXCEPT !.phase = "claim", !.seen = Candidates]]
  /\ UNCHANGED <<delivery, matches, actionable, mails, acks>>

Lapsed(row) == [row EXCEPT !.status = "failed", !.next = "none", !.code = "lapsed"]

\* markTerminalFailure.
Terminated(row) == IF row.status = "sent" THEN row ELSE Lapsed(row)

\* Seeded fault: attempt_count is missing from the conditional update.
UnchangedStatus(c) == delivery[c.id].status = c.status

\* The claim's WHERE clause: nobody has touched the row since it was read.
UnchangedSince(c) ==
  /\ delivery[c.id].status = c.status
  /\ delivery[c.id].attempts = c.attempts
  /\ delivery[c.id].next = "reached"

\* What the candidate query saw and what is read again for each candidate.
MayBeMailed(c) == c.matches /\ actionable[c.id]

Claimed(c) ==
  [status |-> "pending", attempts |-> c.attempts + 1, next |-> "later", code |-> "none"]

\* A candidate is given up,
GiveUp(s, c) ==
  /\ ~MayBeMailed(c)
  /\ delivery' = [delivery EXCEPT ![c.id] = Terminated(@)]
  /\ sweep' = [sweep EXCEPT ![s].seen = @ \ {c}]

\* or claimed for its next attempt, with a lease,
Take(s, c) ==
  /\ MayBeMailed(c)
  /\ UnchangedSince(c)
  /\ delivery' = [delivery EXCEPT ![c.id] = Claimed(c)]
  /\ sweep' = [sweep EXCEPT ![s] =
       [@ EXCEPT !.seen = sweep[s].seen \ {c},
                 !.held = [sweep[s].held EXCEPT ![c.id] = c.attempts + 1]]]

\* or left to the sweep that was faster.
Leave(s, c) ==
  /\ MayBeMailed(c)
  /\ ~UnchangedSince(c)
  /\ delivery' = delivery
  /\ sweep' = [sweep EXCEPT ![s].seen = @ \ {c}]

Claim(s, c) ==
  /\ sweep[s].phase = "claim"
  /\ c \in sweep[s].seen
  /\ GiveUp(s, c) \/ Take(s, c) \/ Leave(s, c)
  /\ UNCHANGED <<matches, actionable, mails, acks>>

ClaimsDone(s) ==
  /\ sweep[s].phase = "claim"
  /\ sweep[s].seen = {}
  /\ sweep' = [sweep EXCEPT ![s].phase = "send"]
  /\ UNCHANGED <<delivery, matches, actionable, mails, acks>>

-----------------------------------------------------------------------------
HeldFor(s, r) == {d \in Deliveries : sweep[s].held[d] # 0 /\ RecipientOf[d] = r}

\* deliverWithinTimeout: one mail for all claims of a recipient.  A mail the
\* relay accepts counts as delivered only if the answer comes in time.
Send(s, r, accepted, ok) ==
  /\ sweep[s].phase = "send"
  /\ HeldFor(s, r) # {}
  /\ ok => accepted
  /\ mails' = [d \in Deliveries |->
       IF accepted /\ d \in HeldFor(s, r)
       THEN [mails[d] EXCEPT ![sweep[s].held[d]] = @ + 1] ELSE mails[d]]
  /\ acks' = [d \in Deliveries |->
       IF ok /\ d \in HeldFor(s, r) THEN acks[d] \union {sweep[s].held[d]} ELSE acks[d]]
  /\ sweep' = [sweep EXCEPT ![s] =
       [@ EXCEPT !.phase = "record", !.batch = HeldFor(s, r), !.ok = ok]]
  /\ UNCHANGED <<delivery, matches, actionable>>

\* Seeded fault: the result is recorded whoever holds the row now.
OwnsPending(s, d) == d \in sweep[s].batch /\ delivery[d].status = "pending"

\* The result's WHERE clause: the row still waits for this very attempt.
StillOwns(s, d) ==
  OwnsPending(s, d) /\ delivery[d].attempts = sweep[s].held[d]

\* retryAt: after a quarter of an hour, after an hour, then never.
RetryAt(k) == IF k < MaxAttempts THEN "later" ELSE "none"

Delivered(row) == [row EXCEPT !.status = "sent", !.next = "none", !.code = "none"]

Failed(row) ==
  [row EXCEPT !.status = "failed", !.next = RetryAt(row.attempts), !.code = "delivery_failed"]

Record(s) ==
  /\ sweep[s].phase = "record"
  /\ delivery' = [d \in Deliveries |->
       IF ~StillOwns(s, d) THEN delivery[d]
       ELSE IF sweep[s].ok THEN Delivered(delivery[d]) ELSE Failed(delivery[d])]
  /\ sweep' = [sweep EXCEPT ![s] =
       [@ EXCEPT !.phase = "send", !.batch = {}, !.ok = FALSE,
                 !.held = [d \in Deliveries |->
                             IF d \in sweep[s].batch THEN 0 ELSE sweep[s].held[d]]]]
  /\ UNCHANGED <<matches, actionable, mails, acks>>

SweepDone(s) ==
  /\ sweep[s].phase = "send"
  /\ sweep[s].held = NoClaims
  /\ sweep' = [sweep EXCEPT ![s] = IdleSweep]
  /\ UNCHANGED <<delivery, matches, actionable, mails, acks>>

\* An error or a restart: the rows claimed stay pending until the lease ends.
SweepFails(s) ==
  /\ SweepsMayFail
  /\ sweep[s].phase # "idle"
  /\ sweep' = [sweep EXCEPT ![s] = IdleSweep]
  /\ UNCHANGED <<delivery, matches, actionable, mails, acks>>

-----------------------------------------------------------------------------
\* Requests, preferences, addresses, entries and scopes change at any time.
OccurrenceChanges(d) ==
  /\ \/ matches' = [matches EXCEPT ![d] = ~@] /\ UNCHANGED actionable
     \/ actionable' = [actionable EXCEPT ![d] = ~@] /\ UNCHANGED matches
  /\ UNCHANGED <<delivery, sweep, mails, acks>>

\* A retry time or a lease passes.
NextAttemptReached(d) ==
  /\ delivery[d].next = "later"
  /\ delivery' = [delivery EXCEPT ![d].next = "reached"]
  /\ UNCHANGED <<matches, actionable, sweep, mails, acks>>

-----------------------------------------------------------------------------
SweepNext(s) ==
  \/ \E due \in SUBSET Deliveries : SweepStart(s, due)
  \/ Select(s) \/ ClaimsDone(s) \/ Record(s) \/ SweepDone(s) \/ SweepFails(s)
  \/ \E c \in sweep[s].seen : Claim(s, c)
  \/ \E r \in Recipients, accepted, ok \in BOOLEAN : Send(s, r, accepted, ok)

Next ==
  \/ \E s \in Sweeps : SweepNext(s)
  \/ \E d \in Deliveries : OccurrenceChanges(d) \/ NextAttemptReached(d)

Spec == Init /\ [][Next]_vars

\* The timer keeps starting sweeps, every delivery ends with its timeout, and
\* a sweep does not fail each time it gets to the same step.
ClaimOf(s, d) == \E c \in sweep[s].seen : c.id = d /\ Claim(s, c)

Fairness ==
  /\ \A s \in Sweeps :
       /\ WF_vars(\E due \in SUBSET Deliveries : SweepStart(s, due))
       /\ WF_vars(ClaimsDone(s)) /\ WF_vars(SweepDone(s))
       /\ SF_vars(Select(s)) /\ WF_vars(Record(s))
       /\ WF_vars(\E r \in Recipients, accepted, ok \in BOOLEAN : Send(s, r, accepted, ok))
       /\ \A d \in Deliveries : SF_vars(ClaimOf(s, d))
  /\ \A d \in Deliveries : WF_vars(NextAttemptReached(d))

FairSpec == Spec /\ Fairness

-----------------------------------------------------------------------------
(* Properties.                                                             *)

\* The relay gets at most one mail per attempt and none for an attempt that
\* was never claimed: with attempt_count at most three, an occurrence is
\* mailed at most three times, whatever sweeps overlap, fail or time out.
AttemptMailedOnce ==
  \A d \in Deliveries, k \in Attempts :
    mails[d][k] <= (IF k <= delivery[d].attempts THEN 1 ELSE 0)

\* A row is recorded as sent only for the attempt its attempt_count names, and
\* the relay had accepted that one: the result of an attempt another sweep has
\* superseded decides nothing.
SentIsThisAttempt ==
  \A d \in Deliveries : delivery[d].status = "sent" => delivery[d].attempts \in acks[d]

\* A delivery recorded as sent is never taken up again, by a late result of an
\* earlier attempt or by a sweep that finds the request closed.
SentIsFinal ==
  [][\A d \in Deliveries : delivery[d].status = "sent" => delivery'[d] = delivery[d]]_vars

\* A failed delivery with attempts left has its retry ahead of it; only lapsed
\* occurrences and those out of attempts are closed.
FailureIsRetried ==
  \A d \in Deliveries :
    delivery[d].code = "delivery_failed" /\ delivery[d].attempts < MaxAttempts =>
      delivery[d].next # "none"

\* Every occurrence is settled in the end: sent, given up, or out of attempts,
\* although sweeps fail with claims in hand.
EveryOccurrenceSettles ==
  \A d \in Deliveries :
    delivery[d].status # "absent" ~>
      \/ delivery[d].status = "sent"
      \/ delivery[d].next = "none"
      \/ delivery[d].attempts = MaxAttempts

\* docs/data-model.md: the claims prevent parallel sweeps from sending the same
\* successful occurrence twice.  They do so only while the lease is longer than
\* the sweep that holds the claim.
NoSecondSuccess == \A d \in Deliveries : \A j, k \in acks[d] : j = k
=============================================================================
