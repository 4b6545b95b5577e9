-------------------------- MODULE LiveDelivery --------------------------
(* The delivery badge of a sent message in an open browser tab: the row    *)
(* in Postgres, the publications the webhook route makes after it          *)
(* commits, the realtime store that applies them, and the server render    *)
(* the tab last received.  Publications go over Redis pub/sub and SSE:     *)
(* they may be lost (Redis absent, publish failed, stream reconnecting)    *)
(* and, since each webhook request publishes for itself, overtake one      *)
(* another.                                                                *)
EXTENDS DeliveryRecords

CONSTANT MaxPublications   \* bound: publications made during the session

ASSUME PublicationsAssumption == MaxPublications \in Nat

VARIABLES
  published,   \* how many publications have been made
  inflight,    \* publications on their way: [seq, event]
  live,        \* outboundEvents[message].event in the realtime store, or NULL
  rendered     \* the row as the tab's last server render read it

browserVars == <<live, rendered>>
liveVars    == <<recordVars, published, inflight, browserVars>>

Row == [status : OutboundStatuses, label : Events \cup {NULL}]

LiveTypeOK ==
  /\ TypeOK
  /\ published \in 0..MaxPublications
  /\ inflight \subseteq [seq : 1..published, event : DeliveryEventNames]
  /\ live \in DeliveryEventNames \cup {NULL}
  /\ rendered \in Row

StoredRow == [status |-> outStatus, label |-> lastEvent]

\* What the route publishes: the event the row now holds when it is a name of
\* the webhook vocabulary, else `failed` or `sent` by the row's status.
Publication(status, stored) ==
  IF stored \in DeliveryEventNames THEN stored
  ELSE IF status = "failed" THEN "failed" ELSE "sent"

LiveInit ==
  /\ Init
  /\ published = 0
  /\ inflight = {}
  /\ live = NULL
  /\ rendered = StoredRow

\* A webhook: the UPDATE commits, then its effect publishes the stored event.
WebhookPublishes(e) ==
  /\ published < MaxPublications
  /\ OutboundWebhook(e)
  /\ published' = published + 1
  /\ inflight' = inflight \cup
       {[seq |-> published + 1, event |-> Publication(outStatus', lastEvent')]}
  /\ UNCHANGED browserVars

\* The reconciler writes the row and publishes nothing.
ReconcilerWrites(e) ==
  /\ OutboundListed(e)
  /\ UNCHANGED <<published, inflight, browserVars>>

\* A mistake: the last publication wins.
LastPublicationWins(current, event) == event

\* The store's "never moves backwards" guard.
StoreApplies(current, event) ==
  IF IsTerminalDeliveryEvent(current) /\ ~IsTerminalDeliveryEvent(event)
  THEN current ELSE event

PublicationArrives(p) ==
  /\ p \in inflight
  /\ inflight' = inflight \ {p}
  /\ live' = StoreApplies(live, p.event)
  /\ UNCHANGED <<recordVars, published, rendered>>

PublicationIsLost(p) ==
  /\ p \in inflight
  /\ inflight' = inflight \ {p}
  /\ UNCHANGED <<recordVars, published, browserVars>>

\* router.refresh(): 400 ms after an event, and on every reconnect.  The server
\* components render from Postgres again; the store is left as it is.
Refresh ==
  /\ rendered' = StoredRow
  /\ UNCHANGED <<recordVars, published, inflight, live>>

\* A full page load starts with an empty store.
Reload ==
  /\ live' = NULL
  /\ rendered' = StoredRow
  /\ UNCHANGED <<recordVars, published, inflight>>

\* The campaign recipient of DeliveryRecords has no badge.
RecipientMoves ==
  /\ RecipientNext
  /\ UNCHANGED <<published, inflight, browserVars>>

\* sendClaimed writes the row and publishes nothing.
SendMoves ==
  /\ SendNext
  /\ UNCHANGED <<published, inflight, browserVars>>

LiveNext ==
  \/ RecipientMoves
  \/ SendMoves
  \/ \E e \in WebhookEvents : WebhookPublishes(e)
  \/ \E e \in ListedEvents : ReconcilerWrites(e)
  \/ \E p \in inflight : PublicationArrives(p)
  \/ \E p \in inflight : PublicationIsLost(p)
  \/ Refresh
  \/ Reload

LiveSpec == LiveInit /\ [][LiveNext]_liveVars

-----------------------------------------------------------------------------
(* Properties *)

\* The message card: the store's event wins over the rendered row's.
Badge == IF live # NULL THEN live ELSE rendered.label

\* Badges drawn in the tone of danger.  `canceled` is not one of them: it has no
\* case of its own and is drawn as "Sent".
DangerBadges == {"bounced", "failed", "complained", "suppressed"}

\* The card shows a failure by the bubble's colour and the error under it, which
\* follow the row's status, or by the badge.
ShowsFailure == rendered.status = "failed" \/ Badge \in DangerBadges

\* A publication tells the row, not the event that just arrived: it names a
\* failure exactly when the row it was made from is failed, so a late `opened`
\* cannot be broadcast over a bounce.  (Not so of a row that sendClaimed has written
\* to since it has its id: there the two columns may differ.)
PublicationTellsTheRow ==
  [][\A p \in inflight' \ inflight : ~rewritten' =>
       (IsTerminalDeliveryEvent(p.event) <=> outStatus' = "failed")]_liveVars

\* Once the tab shows a failure that Postgres holds it goes on showing it, whatever
\* publications are still in flight and across refreshes and reloads: short of
\* sending the message again, nothing takes it off the screen.
FailureStaysShown ==
  [][ShowsFailure /\ outStatus = "failed" /\ ~rewritten => ShowsFailure']_liveVars

\* The browser announces no failure that Postgres does not hold, unless the message
\* was sent again over a failure that Postgres did hold.
ShownFailureIsStored == ShowsFailure => outStatus = "failed" \/ revived

=============================================================================
