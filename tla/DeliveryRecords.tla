------------------------- MODULE DeliveryRecords -------------------------
(* One campaign recipient and one one-off message under the provider's     *)
(* delivery events.  Two writers apply them: the webhook route             *)
(* (handleDelivery) and the polling reconciler (advanceRecipients,         *)
(* advanceOutbound).  Resend retries a webhook for ten hours and the list  *)
(* API is eventually consistent, so any event may come at any time, any    *)
(* number of times, in any order.  A one-off message has a third writer:   *)
(* sendClaimed, which may be called for the same row again and again, and  *)
(* which knows nothing of last_event.                                      *)
(*                                                                         *)
(* The ghosts remember what the provider has said so far, in the order it  *)
(* said it: the furthest rung asserted and the first failure.              *)
EXTENDS DeliveryLadder

CONSTANTS
  WebhookEvents,     \* the events the webhook route hands to handleDelivery
  ListedEvents,      \* the values emails.list() reports as last_event
  MaxSends           \* bound: calls of sendClaimed for the row at one time

ASSUME EventsAssumption ==
  /\ WebhookEvents \subseteq DeliveryEventNames
  /\ ListedEvents \subseteq Events
  /\ MaxSends \in Nat

VARIABLES
  recipient,          \* campaign_recipients.status
  outStatus,          \* outbound_messages.status
  lastEvent,          \* outbound_messages.last_event
  messageId,          \* provider_message_id: "none", or who stored it
  calls,              \* calls of sendClaimed that have claimed the row and not ended
  recipientFurthest,  \* ghost: highest rung asserted for the recipient
  recipientFailure,   \* ghost: first failure status asserted, or NULL
  outFurthest,        \* ghost: highest rung of an event given to the message
  outFailure,         \* ghost: first terminal event given to the message, or NULL
  rewritten,          \* ghost: sendClaimed has written to the row since it has an id
  revived             \* ghost: sendClaimed has taken the row out of `failed`

recipientVars == <<recipient, recipientFurthest, recipientFailure>>
outboundVars  == <<outStatus, lastEvent, messageId, calls, outFurthest, outFailure,
                   rewritten, revived>>
recordVars    == <<recipientVars, outboundVars>>

Higher(m, n) == IF m > n THEN m ELSE n

EventRank(e) == RecipientRank(RecipientStatusForEvent(e))

TypeOK ==
  /\ recipient \in RecipientStatuses
  /\ recipientFurthest \in 0..5
  /\ recipientFailure \in RecipientTerminal \cup {NULL}
  /\ outStatus \in OutboundStatuses
  /\ lastEvent \in Events \cup {NULL}
  /\ outFurthest \in 0..5
  /\ outFailure \in Events \cup {NULL}
  /\ messageId \in {"none", "ours", "imported"}
  /\ calls \in 0..MaxSends
  /\ rewritten \in BOOLEAN
  /\ revived \in BOOLEAN

\* A recipient row is inserted pending, a message of ours as a draft without a
\* provider id.  One the reconciler imports has its id and an event; it has no
\* client key, so nothing ever sends it.
Init ==
  /\ recipient = "pending" /\ recipientFurthest = 0 /\ recipientFailure = NULL
  /\ calls = 0 /\ rewritten = FALSE /\ revived = FALSE
  /\ \/ /\ messageId = "none" /\ outStatus = "draft"
        /\ lastEvent = NULL /\ outFurthest = 0 /\ outFailure = NULL
     \/ \E e \in ListedEvents :
          /\ messageId = "imported"
          /\ outStatus = OutboundStatusForEvent(e)
          /\ lastEvent = e
          /\ outFurthest = EventRank(e)
          /\ outFailure = IF IsTerminalDeliveryEvent(e) THEN e ELSE NULL

-----------------------------------------------------------------------------
(* The recipient *)

Asserts(status) ==
  /\ recipientFurthest' = Higher(recipientFurthest, RecipientRank(status))
  /\ recipientFailure' =
       IF recipientFailure = NULL /\ status \in RecipientTerminal
       THEN status ELSE recipientFailure

\* A committed batch (sent or rejected), a suppression or a cancel: each
\* writes only rows it finds pending.
SendPathWrites(status) ==
  /\ recipient = "pending"
  /\ recipient' = status
  /\ Asserts(status)
  /\ UNCHANGED outboundVars

\* handleDelivery: the ladder over whatever the row holds.
RecipientWebhook(e) ==
  /\ recipient' = NextRecipientStatus(recipient, RecipientStatusForEvent(e))
  /\ Asserts(RecipientStatusForEvent(e))
  /\ UNCHANGED outboundVars

\* advanceRecipients: the same ladder, skipping rows that would not move.
\* A row has its provider id only once something recorded it as sent.
RecipientListed(e) ==
  LET incoming == RecipientStatusForEvent(e)
  IN  /\ recipient \notin {"pending", "suppressed", "cancelled"}
      /\ recipient' = IF NextRecipientStatus(recipient, incoming) # recipient
                      THEN NextRecipientStatus(recipient, incoming)
                      ELSE recipient
      /\ Asserts(incoming)
      /\ UNCHANGED outboundVars

-----------------------------------------------------------------------------
(* The one-off message *)

\* sendClaimed writes the status, and on success the id; never last_event.
SendWrites(status) ==
  /\ outStatus' = status
  /\ rewritten' = (rewritten \/ messageId # "none")
  /\ revived' = (revived \/ (outStatus = "failed" /\ status # "failed"))
  /\ UNCHANGED <<recipientVars, lastEvent, outFurthest, outFailure>>

\* Its claim takes every status but `sent`: a draft, a row that failed to go out,
\* one that another call has claimed, one that bounced.
SendClaims ==
  /\ messageId # "imported" /\ outStatus # "sent"
  /\ calls < MaxSends
  /\ calls' = calls + 1
  /\ SendWrites("queued")
  /\ UNCHANGED messageId

\* Its write after the provider's answer looks at no status.
SendRecords(status) ==
  /\ calls > 0
  /\ calls' = calls - 1
  /\ SendWrites(status)
  /\ messageId' = IF status = "sent" THEN "ours" ELSE messageId

\* It ends without that write: the process died, or the write failed.
SendDies ==
  /\ calls > 0
  /\ calls' = calls - 1
  /\ UNCHANGED <<recipientVars, outStatus, lastEvent, messageId, outFurthest, outFailure,
                 rewritten, revived>>

\* Both writers of events find the row by its id, set status by the ladder and
\* last_event under the two-ladder guard.
ApplyToOutbound(e) ==
  /\ messageId # "none"
  /\ outStatus' = NextOutboundStatus(outStatus, OutboundStatusForEvent(e))
  /\ lastEvent' = IF OutboundAdvances(outStatus, lastEvent, e)
                  THEN e ELSE lastEvent
  /\ outFurthest' = Higher(outFurthest, EventRank(e))
  /\ outFailure' = IF outFailure = NULL /\ IsTerminalDeliveryEvent(e)
                   THEN e ELSE outFailure
  /\ UNCHANGED <<messageId, calls, rewritten, revived>>

OutboundWebhook(e) == ApplyToOutbound(e) /\ UNCHANGED recipientVars

OutboundListed(e) == ApplyToOutbound(e) /\ UNCHANGED recipientVars

-----------------------------------------------------------------------------
RecipientNext ==
  \/ \E s \in {"sent", "failed", "suppressed", "cancelled"} : SendPathWrites(s)
  \/ \E e \in WebhookEvents : RecipientWebhook(e)
  \/ \E e \in ListedEvents : RecipientListed(e)

SendNext == SendClaims \/ SendRecords("sent") \/ SendRecords("failed") \/ SendDies

Next ==
  \/ RecipientNext
  \/ SendNext
  \/ \E e \in WebhookEvents : OutboundWebhook(e)
  \/ \E e \in ListedEvents : OutboundListed(e)

Spec == Init /\ [][Next]_recordVars

-----------------------------------------------------------------------------
(* Properties *)

\* Whatever the order, the recipient row ends where the provider's story ends:
\* at the first failure anybody asserted if there is one, else exactly at the
\* furthest rung asserted.  A retried or reordered event can neither hide a
\* bounce nor move the row back, and no row is further than it was told.
RecipientIsTheFold ==
  IF recipientFailure # NULL
  THEN recipient = recipientFailure
  ELSE /\ recipient \notin RecipientTerminal
       /\ RecipientRank(recipient) = recipientFurthest

\* The label names a failure exactly if one was reported, and then the first one.
LabelIsTheFirstFailure ==
  /\ outFailure # NULL => lastEvent = outFailure
  /\ outFailure = NULL => ~IsTerminalDeliveryEvent(lastEvent)

\* The two columns the thread view draws side by side do not contradict each other:
\* a reported failure fails the row, a failed row has no other label than that one
\* (none, if it failed to go out), and the label of any other row asserts the status
\* the row has.
LabelAgreesWithStatus ==
  /\ outFailure # NULL => outStatus = "failed"
  /\ outFailure = NULL /\ outStatus = "failed" => lastEvent = NULL
  /\ outStatus # "failed" /\ lastEvent # NULL =>
       OutboundStatusForEvent(lastEvent) = outStatus

\* Inside the sent band the label is the furthest event the provider reported:
\* a delayed `delivered` does not relabel a message already clicked.
LabelIsFurthest ==
  outStatus # "failed" /\ lastEvent # NULL =>
    EventRank(lastEvent) = outFurthest

\* Whatever order events come in, by whichever writer and between whatever calls of
\* sendClaimed, the label is the first failure reported, if there is one.  And until
\* sendClaimed writes to a row that has its provider id, the label agrees with the
\* status and, short of a failure, is the furthest event reported.
LabelTellsTheEvents ==
  /\ LabelIsTheFirstFailure
  /\ ~rewritten => LabelAgreesWithStatus /\ LabelIsFurthest

=============================================================================
