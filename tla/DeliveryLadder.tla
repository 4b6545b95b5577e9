------------------------- MODULE DeliveryLadder -------------------------
(* The vocabulary of packages/shared/src/delivery-status.ts and its two   *)
(* ladders: how a provider event moves the status of a campaign recipient *)
(* and the status and last_event of a one-off outbound message.  The SQL  *)
(* that applies them (packages/jobs/src/delivery-sql.ts) is generated     *)
(* from the same functions, one CASE arm per stored value; the two arms   *)
(* it adds, IS NULL and ELSE true, are part of EventAdvances here.        *)
(*                                                                        *)
(* Events are in their bare form: bareEvent strips the "email." prefix    *)
(* before every use.                                                      *)
EXTENDS Naturals

NULL == "NULL"     \* an SQL NULL in a text column

-----------------------------------------------------------------------------
(* Vocabularies *)

\* What arrives by webhook.
DeliveryEventNames ==
  {"scheduled", "sent", "delivered", "delivery_delayed", "opened", "clicked",
   "bounced", "complained", "failed", "suppressed"}

\* What the last_event column can hold: emails.list() adds two names.
ProviderEventNames == DeliveryEventNames \cup {"queued", "canceled"}

\* An event name the provider added after this code was deployed.
Unrecognised == "unrecognised"

Events == ProviderEventNames \cup {Unrecognised}

RecipientTerminal == {"bounced", "complained", "failed"}

RecipientStatuses ==
  RecipientTerminal \cup
  {"pending", "suppressed", "cancelled", "sending", "sent", "delivered",
   "opened", "clicked"}

OutboundStatuses == {"draft", "queued", "sent", "failed"}

-----------------------------------------------------------------------------
(* What an event asserts *)

RecipientStatusForEvent(e) ==
  IF e \in {"delivered", "opened", "clicked", "bounced", "complained"} THEN e
  ELSE IF e \in {"queued", "scheduled"} THEN "sending"
  ELSE IF e \in {"failed", "canceled", "suppressed"} THEN "failed"
  ELSE "sent"

OutboundStatusForEvent(e) ==
  IF e \in {"queued", "scheduled"} THEN "queued"
  ELSE IF e \in {"bounced", "complained", "failed", "canceled", "suppressed"}
  THEN "failed"
  ELSE "sent"

IsTerminalDeliveryEvent(e) == RecipientStatusForEvent(e) \in RecipientTerminal

-----------------------------------------------------------------------------
(* The ladders *)

\* Position in the funnel; defined for the statuses that are not terminal.
RecipientRank(s) ==
  IF s = "clicked" THEN 5
  ELSE IF s = "opened" THEN 4
  ELSE IF s = "delivered" THEN 3
  ELSE IF s = "sent" THEN 2
  ELSE IF s = "sending" THEN 1
  ELSE 0

\* A mistake the ladder guards against: a terminal status can be overwritten.
ResurrectingRecipientStatus(current, incoming) ==
  IF \/ incoming \in RecipientTerminal
     \/ RecipientRank(incoming) > RecipientRank(current)
  THEN incoming ELSE current

NextRecipientStatus(current, incoming) ==
  IF /\ current \notin RecipientTerminal
     /\ \/ incoming \in RecipientTerminal
        \/ RecipientRank(incoming) > RecipientRank(current)
  THEN incoming ELSE current

OutboundRank(s) ==
  IF s = "sent" THEN 2 ELSE IF s = "queued" THEN 1 ELSE 0

\* A mistake: `failed` wins when it comes, but does not hold.
ForgettingOutboundStatus(current, incoming) ==
  IF \/ incoming = "failed"
     \/ OutboundRank(incoming) > OutboundRank(current)
  THEN incoming ELSE current

NextOutboundStatus(current, incoming) ==
  IF "failed" \in {current, incoming} THEN "failed"
  ELSE IF OutboundRank(incoming) > OutboundRank(current) THEN incoming
  ELSE current

\* Whether `incoming` may replace `stored` as last_event, by the funnel order.
\* The first and second disjuncts are the SQL's IS NULL and ELSE true arms.
EventAdvances(stored, incoming) ==
  LET from == RecipientStatusForEvent(stored)
      to   == RecipientStatusForEvent(incoming)
  IN  \/ stored = NULL
      \/ stored \notin ProviderEventNames
      \/ from = to /\ stored # incoming /\ from \notin RecipientTerminal
      \/ from # to /\ NextRecipientStatus(from, to) # from

\* A mistake: only one of the two ladders is asked.
AdvancesByEventOnly(status, stored, incoming) == EventAdvances(stored, incoming)

\* The guard both writers put on last_event: the status ladder accepts the
\* incoming status and the event ladder accepts the incoming event.
OutboundAdvances(status, stored, incoming) ==
  /\ NextOutboundStatus(status, OutboundStatusForEvent(incoming))
       = OutboundStatusForEvent(incoming)
  /\ EventAdvances(stored, incoming)

=============================================================================
