------------------------- MODULE ConfirmationEmailsMC -------------------------
(* Small instances of ConfirmationEmails for TLC.                          *)
EXTENDS ConfirmationEmails, TLC

\* All occurrences belong to one member and event, so they share their mails.
OneBatch == [d \in Deliveries |-> CHOOSE r \in Recipients : TRUE]
=============================================================================
