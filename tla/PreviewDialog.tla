----------------------------- MODULE PreviewDialog -----------------------------
(***************************************************************************)
(* A dialog of the browser that shows a preview and lets it be confirmed,  *)
(* with the server that computes and applies it: the change of a series    *)
(* (RecurringCareChange.tsx), the privacy workflow, the transfer review    *)
(* (BackupPage.tsx), the access of a member (SettingsPage.tsx) and the     *)
(* historical synchronisation (ContactPage.tsx). Inputs stay open while a  *)
(* request is under way, answers come late or not at all, and a confirmed  *)
(* change may be applied after the dialog has given up on it.              *)
(***************************************************************************)
EXTENDS Naturals, FiniteSets

CONSTANTS
  Subjects,    \* members, rules, children, ... a preview can be about
  Proposals,   \* what the form can propose for one
  MaxChanges,  \* bound: changes of a subject on the server
  MaxSent,     \* bound: confirmations on their way at a time
  Nothing      \* absent value

Inputs == [subject : Subjects, proposal : Proposals]

BoundAssumption == MaxChanges \in Nat /\ MaxSent \in Nat
InputAssumption == Subjects # {} /\ Proposals # {}
NothingAssumption == Nothing \notin Inputs

VARIABLES
  kind,    \* what is sent: the form as it is, or the proposal of the preview
  form,    \* the inputs
  asked,   \* the preview on its way
  shown,   \* the preview the dialog shows
  waiting, \* a confirmation is sent and not yet answered
  wire,    \* confirmations the server has not handled
  server   \* how often each subject has changed

vars == <<kind, form, asked, shown, waiting, wire, server>>

-----------------------------------------------------------------------------
Basis == 0..MaxChanges

Preview == [input : Inputs, basis : Basis]

Request == [body : Inputs, displayed : Preview]

\* Seeded fault: the fingerprint stands for the state alone.
EvidenceOfState(input, basis) ==
  [input |-> [input EXCEPT !.proposal = CHOOSE p \in Proposals : TRUE], basis |-> basis]

\* The fingerprint covers the subject, the request and the state it applies to.
Evidence(input, basis) == [input |-> input, basis |-> basis]

Init ==
  /\ kind = "form"
  /\ form = CHOOSE input \in Inputs : TRUE
  /\ asked = Nothing
  /\ shown = Nothing
  /\ waiting = FALSE
  /\ wire = {}
  /\ server = [s \in Subjects |-> 0]

Busy == asked # Nothing \/ waiting

-----------------------------------------------------------------------------
(* The dialog                                                              *)

\* Another dialog is opened.
Open(k) ==
  /\ ~Busy
  /\ wire = {}
  /\ kind' = k
  /\ shown' = Nothing
  /\ UNCHANGED <<form, asked, waiting, wire, server>>

\* Any input drops the preview (clearPreview, clearReview, selectTransfer,
\* openMember, invalidateHistoricalPreview).
ChangeForm(input) ==
  /\ form' = input
  /\ shown' = Nothing
  /\ UNCHANGED <<kind, asked, waiting, wire, server>>

AskPreview ==
  /\ ~Busy
  /\ asked' = [input |-> form, answer |-> Nothing]
  /\ UNCHANGED <<kind, form, shown, waiting, wire, server>>

ServerPreviews ==
  /\ asked # Nothing /\ asked.answer = Nothing
  /\ asked' = [asked EXCEPT !.answer = [input |-> asked.input, basis |-> server[asked.input.subject]]]
  /\ UNCHANGED <<kind, form, shown, waiting, wire, server>>

\* The answer is shown, whatever the form holds by now.
PreviewArrives ==
  /\ asked # Nothing /\ asked.answer # Nothing
  /\ shown' = asked.answer
  /\ asked' = Nothing
  /\ UNCHANGED <<kind, form, waiting, wire, server>>

\* An error or a timeout: the privacy workflow drops the preview.
PreviewFails ==
  /\ asked # Nothing
  /\ asked' = Nothing
  /\ shown' \in {shown, Nothing}
  /\ UNCHANGED <<kind, form, waiting, wire, server>>

\* The review of an access and the historical synchronisation send what the
\* preview proposes, to the subject of the form; the others send the form.
Body == IF kind = "form" THEN form ELSE [form EXCEPT !.proposal = shown.input.proposal]

Confirm ==
  /\ shown # Nothing
  /\ ~Busy
  /\ Cardinality(wire) < MaxSent
  /\ wire' = wire \cup {[body |-> Body, displayed |-> shown]}
  /\ waiting' = TRUE
  /\ UNCHANGED <<kind, form, asked, shown, server>>

\* The dialog is told: it closes on success, and on 409 it asks for a new
\* preview. On any other error, a timeout among them, the preview may stay and
\* be confirmed again.
Answered ==
  /\ waiting
  /\ waiting' = FALSE
  /\ shown' \in {shown, Nothing}
  /\ UNCHANGED <<kind, form, asked, wire, server>>

-----------------------------------------------------------------------------
(* The server                                                              *)

\* The fingerprint of the preview came with the request.
Accepted(r) ==
  Evidence(r.displayed.input, r.displayed.basis) = Evidence(r.body, server[r.body.subject])

Handle(r) ==
  /\ wire' = wire \ {r}
  /\ server' = IF Accepted(r) /\ server[r.body.subject] < MaxChanges
               THEN [server EXCEPT ![r.body.subject] = @ + 1] ELSE server
  /\ UNCHANGED <<kind, form, asked, shown, waiting>>

\* Somebody else changes the subject.
Change(s) ==
  /\ server[s] < MaxChanges
  /\ server' = [server EXCEPT ![s] = @ + 1]
  /\ UNCHANGED <<kind, form, asked, shown, waiting, wire>>

Next ==
  \/ \E k \in {"form", "preview"} : Open(k)
  \/ \E input \in Inputs : ChangeForm(input)
  \/ AskPreview \/ ServerPreviews \/ PreviewArrives \/ PreviewFails
  \/ Confirm \/ Answered
  \/ \E r \in wire : Handle(r)
  \/ \E s \in Subjects : Change(s)

Spec == Init /\ [][Next]_vars

-----------------------------------------------------------------------------
\* Every variable has its type.
TypeOK ==
  /\ kind \in {"form", "preview"}
  /\ form \in Inputs
  /\ asked \in [input : Inputs, answer : Preview \cup {Nothing}] \cup {Nothing}
  /\ shown \in Preview \cup {Nothing}
  /\ waiting \in BOOLEAN
  /\ wire \subseteq Request
  /\ server \in [Subjects -> Basis]

\* docs/adr/0009: what is applied is what was shown. The request that takes
\* effect, and the state it takes effect on, are those of the preview that was
\* on the screen when it was confirmed; so a preview takes effect once, even
\* when its confirmation timed out and was repeated.
AppliedAsDisplayed ==
  [][\A r \in wire \ wire' :
       server' # server => r.body = r.displayed.input
                            /\ server[r.body.subject] = r.displayed.basis]_vars
=============================================================================
