-------------------------- MODULE DeliveryProofs --------------------------
(* Facts about the ladders for every pair of statuses and events, and the  *)
(* invariants of DeliveryRecords and LiveDelivery for every choice of the  *)
(* events the two writers may apply.                                       *)
EXTENDS LiveDelivery, TLAPS

USE DEF NULL, Unrecognised

-----------------------------------------------------------------------------
(* The ladders *)

\* What an event asserts is a status: for a recipient one of the funnel from
\* `sending` on or a failure, for a message `queued`, `sent` or `failed`.
LEMMA AssertedStatuses ==
  \A e : /\ RecipientStatusForEvent(e) \in
              RecipientTerminal \cup {"sending", "sent", "delivered", "opened", "clicked"}
         /\ OutboundStatusForEvent(e) \in {"queued", "sent", "failed"}
  BY DEF RecipientStatusForEvent, OutboundStatusForEvent, RecipientTerminal

LEMMA RankRange == \A s : RecipientRank(s) \in 0..5
  BY DEF RecipientRank

LEMMA EventRankRange == \A e : EventRank(e) \in 0..5
  BY RankRange DEF EventRank

\* nextRecipientStatus: a terminal status absorbs, a terminal event wins over
\* every other status, and the rank of a row that stays alive is the higher one.
LEMMA NextRecipient ==
  ASSUME NEW current \in RecipientStatuses, NEW incoming \in RecipientStatuses
  PROVE  /\ NextRecipientStatus(current, incoming) \in {current, incoming}
         /\ current \in RecipientTerminal
              => NextRecipientStatus(current, incoming) = current
         /\ current \notin RecipientTerminal /\ incoming \in RecipientTerminal
              => NextRecipientStatus(current, incoming) = incoming
         /\ current \notin RecipientTerminal /\ incoming \notin RecipientTerminal
              => /\ NextRecipientStatus(current, incoming) \notin RecipientTerminal
                 /\ RecipientRank(NextRecipientStatus(current, incoming)) =
                      Higher(RecipientRank(current), RecipientRank(incoming))
<1>1. RecipientRank(current) \in 0..5 /\ RecipientRank(incoming) \in 0..5
  BY RankRange
<1>2. CASE current \in RecipientTerminal \/ incoming \in RecipientTerminal
  BY <1>2 DEF NextRecipientStatus
<1>3. CASE /\ current \notin RecipientTerminal /\ incoming \notin RecipientTerminal
           /\ RecipientRank(incoming) > RecipientRank(current)
  BY <1>1, <1>3 DEF NextRecipientStatus, Higher
<1>4. CASE /\ current \notin RecipientTerminal /\ incoming \notin RecipientTerminal
           /\ ~(RecipientRank(incoming) > RecipientRank(current))
  BY <1>1, <1>4 DEF NextRecipientStatus, Higher
<1> QED
  BY <1>2, <1>3, <1>4

\* The two writers agree on what a failure is: the events that fail a message
\* are exactly the terminal ones of the recipient ladder.
LEMMA FailuresCoincide ==
  \A e : OutboundStatusForEvent(e) = "failed" <=> IsTerminalDeliveryEvent(e)
  BY DEF OutboundStatusForEvent, IsTerminalDeliveryEvent, RecipientStatusForEvent,
         RecipientTerminal

\* The status ladder and the event ladder rank the events before the send alike.
LEMMA QueuedEventsRankLowest ==
  \A e : /\ OutboundStatusForEvent(e) = "queued" => EventRank(e) = 1
         /\ OutboundStatusForEvent(e) = "sent" => EventRank(e) >= 2
  BY DEF OutboundStatusForEvent, EventRank, RecipientStatusForEvent, RecipientRank

\* eventAdvances never lets an event replace itself, so a webhook retry does
\* not bump last_event_at, and never displaces a failure.
THEOREM EventAdvancesIsStrict ==
  \A e \in ProviderEventNames :
    /\ ~EventAdvances(e, e)
    /\ IsTerminalDeliveryEvent(e) => \A f : ~EventAdvances(e, f)
<1>1. TAKE e \in ProviderEventNames
<1>2. e # NULL
  BY DEF ProviderEventNames, DeliveryEventNames
<1>3. ASSUME RecipientStatusForEvent(e) \in RecipientTerminal, NEW f
      PROVE  ~EventAdvances(e, f)
  BY <1>1, <1>2, <1>3 DEF EventAdvances, NextRecipientStatus
<1>4. ~EventAdvances(e, e)
  BY <1>1, <1>2 DEF EventAdvances
<1> QED
  BY <1>3, <1>4 DEF IsTerminalDeliveryEvent

-----------------------------------------------------------------------------
(* The records *)

\* What holds of the label for as long as sendClaimed leaves a row with an id alone;
\* such a row that no event has reached yet is one that sendClaimed recorded as sent.
Untouched ==
  /\ LabelAgreesWithStatus
  /\ LabelIsFurthest
  /\ messageId # "none" /\ outStatus # "failed" /\ lastEvent = NULL =>
       outStatus = "sent" /\ outFurthest \in 0..1

\* A row without an id has no event, whatever sendClaimed does to its status; and a
\* row with a failure reported is failed, unless sendClaimed has taken it out again.
RecordInv ==
  /\ TypeOK
  /\ RecipientIsTheFold
  /\ LabelIsTheFirstFailure
  /\ outFailure # NULL => IsTerminalDeliveryEvent(outFailure)
  /\ outFailure # NULL => outStatus = "failed" \/ revived
  /\ messageId = "none" =>
       ~rewritten /\ lastEvent = NULL /\ outFurthest = 0 /\ outFailure = NULL
  /\ messageId # "none" => outStatus # "draft"
  /\ ~rewritten => Untouched

LEMMA RecordInit == Init => RecordInv
<1> SUFFICES ASSUME Init PROVE RecordInv
  OBVIOUS
<1>1. RecipientIsTheFold /\ calls = 0 /\ ~rewritten /\ ~revived
      /\ rewritten \in BOOLEAN /\ revived \in BOOLEAN
  BY DEF Init, RecipientIsTheFold, RecipientTerminal, RecipientRank
<1>2. calls \in 0..MaxSends
  BY <1>1, EventsAssumption
<1>3. CASE messageId = "none"
  <2>1. /\ outStatus = "draft" /\ lastEvent = NULL /\ outFurthest = 0 /\ outFailure = NULL
        /\ recipient = "pending" /\ recipientFurthest = 0 /\ recipientFailure = NULL
    BY <1>3 DEF Init
  <2>2. ~IsTerminalDeliveryEvent(NULL)
    BY DEF IsTerminalDeliveryEvent, RecipientStatusForEvent, RecipientTerminal
  <2> QED
    BY <1>1, <1>2, <1>3, <2>1, <2>2
    DEF RecordInv, Untouched, TypeOK, RecipientStatuses, OutboundStatuses,
        LabelIsTheFirstFailure, LabelAgreesWithStatus, LabelIsFurthest
<1>4. CASE messageId # "none"
  <2>1. PICK e \in ListedEvents :
          /\ messageId = "imported"
          /\ outStatus = OutboundStatusForEvent(e)
          /\ lastEvent = e
          /\ outFurthest = EventRank(e)
          /\ outFailure = IF IsTerminalDeliveryEvent(e) THEN e ELSE NULL
    BY <1>4 DEF Init
  <2>2. e \in Events /\ e # NULL
    BY EventsAssumption DEF Events, ProviderEventNames, DeliveryEventNames
  <2>3. TypeOK /\ outStatus # "draft"
    BY <1>1, <1>2, <2>1, <2>2, AssertedStatuses, EventRankRange
    DEF Init, TypeOK, RecipientStatuses, OutboundStatuses
  <2>4. LabelIsTheFirstFailure /\ LabelAgreesWithStatus /\ LabelIsFurthest
    BY <2>1, <2>2, FailuresCoincide
    DEF LabelIsTheFirstFailure, LabelAgreesWithStatus, LabelIsFurthest
  <2>5. outFailure # NULL => IsTerminalDeliveryEvent(outFailure) /\ outStatus = "failed"
    BY <2>1, FailuresCoincide
  <2> QED
    BY <1>1, <1>4, <2>1, <2>2, <2>3, <2>4, <2>5 DEF RecordInv, Untouched
<1> QED
  BY <1>3, <1>4

\* A status asserted of the recipient, whatever row it finds.
LEMMA RecipientStep ==
  ASSUME RecordInv, NEW s \in RecipientStatuses, Asserts(s),
         recipient' = NextRecipientStatus(recipient, s), UNCHANGED outboundVars
  PROVE  RecordInv'
<1>1. /\ recipient \in RecipientStatuses
      /\ recipientFurthest \in 0..5
      /\ recipientFailure \in RecipientTerminal \cup {NULL}
  BY DEF RecordInv, TypeOK
<1>2. RecipientRank(s) \in 0..5
  BY RankRange
<1>3. TypeOK'
  <2>1. recipient' \in RecipientStatuses
    BY <1>1, NextRecipient
  <2>2. recipientFurthest' \in 0..5
    BY <1>1, <1>2 DEF Asserts, Higher
  <2>3. recipientFailure' \in RecipientTerminal \cup {NULL}
    BY <1>1 DEF Asserts
  <2> QED
    BY <2>1, <2>2, <2>3 DEF RecordInv, TypeOK, outboundVars
<1>4. RecipientIsTheFold'
  <2>1. RecipientIsTheFold
    BY DEF RecordInv
  <2>2. CASE recipientFailure # NULL
    BY <1>1, <2>1, <2>2, NextRecipient DEF RecipientIsTheFold, Asserts
  <2>3. CASE recipientFailure = NULL /\ s \in RecipientTerminal
    BY <1>1, <2>1, <2>3, NextRecipient
    DEF RecipientIsTheFold, Asserts, RecipientTerminal
  <2>4. CASE recipientFailure = NULL /\ s \notin RecipientTerminal
    BY <1>1, <2>1, <2>4, NextRecipient DEF RecipientIsTheFold, Asserts
  <2> QED
    BY <2>2, <2>3, <2>4
<1> QED
  BY <1>3, <1>4
  DEF RecordInv, Untouched, LabelIsTheFirstFailure, LabelAgreesWithStatus,
      LabelIsFurthest, outboundVars

\* A write of sendClaimed: the label stays, and the claims about the status are
\* given up as soon as the row has its id.
LEMMA SendStep ==
  ASSUME RecordInv, SendNext
  PROVE  RecordInv'
<1>1. /\ outStatus \in OutboundStatuses /\ calls \in 0..MaxSends /\ MaxSends \in Nat
      /\ messageId \in {"none", "ours", "imported"}
      /\ rewritten \in BOOLEAN /\ revived \in BOOLEAN
  BY EventsAssumption DEF RecordInv, TypeOK
<1>2. CASE SendDies
  <2>1. calls' \in 0..MaxSends
    BY <1>1, <1>2 DEF SendDies
  <2> QED
    BY <1>2, <2>1
    DEF RecordInv, Untouched, TypeOK, RecipientIsTheFold, LabelIsTheFirstFailure,
        LabelAgreesWithStatus, LabelIsFurthest, SendDies, recipientVars
<1>3. ASSUME NEW s \in {"queued", "sent", "failed"}, SendWrites(s),
             calls' \in 0..MaxSends,
             messageId' = IF s = "sent" THEN "ours" ELSE messageId
      PROVE  RecordInv'
  <2>1. /\ outStatus' = s
        /\ rewritten' = (rewritten \/ messageId # "none")
        /\ revived' = (revived \/ (outStatus = "failed" /\ s # "failed"))
        /\ UNCHANGED <<recipient, recipientFurthest, recipientFailure>>
        /\ UNCHANGED <<lastEvent, outFurthest, outFailure>>
    BY <1>3 DEF SendWrites, recipientVars
  <2>2. TypeOK'
    BY <1>1, <1>3, <2>1 DEF RecordInv, TypeOK, OutboundStatuses
  <2>3. RecipientIsTheFold' /\ LabelIsTheFirstFailure'
    BY <2>1 DEF RecordInv, RecipientIsTheFold, LabelIsTheFirstFailure
  <2>4. outFailure' # NULL =>
          IsTerminalDeliveryEvent(outFailure') /\ (outStatus' = "failed" \/ revived')
    BY <2>1 DEF RecordInv
  <2>5. messageId' = "none" =>
          ~rewritten' /\ lastEvent' = NULL /\ outFurthest' = 0 /\ outFailure' = NULL
    BY <1>3, <2>1 DEF RecordInv
  <2>6. ~rewritten' => Untouched'
    <3> SUFFICES ASSUME ~rewritten' PROVE Untouched'
      OBVIOUS
    <3>1. messageId = "none" /\ lastEvent = NULL /\ outFurthest = 0 /\ outFailure = NULL
      BY <2>1 DEF RecordInv
    <3>2. LabelAgreesWithStatus' /\ LabelIsFurthest'
      BY <2>1, <3>1 DEF LabelAgreesWithStatus, LabelIsFurthest
    <3>3. messageId' # "none" => outStatus' = "sent"
      BY <1>3, <2>1, <3>1
    <3> QED
      BY <2>1, <3>1, <3>2, <3>3 DEF Untouched
  <2> QED
    BY <1>3, <2>1, <2>2, <2>3, <2>4, <2>5, <2>6 DEF RecordInv
<1>4. CASE SendClaims
  <2>1. calls' \in 0..MaxSends
    BY <1>1, <1>4 DEF SendClaims
  <2> QED
    BY <1>3, <1>4, <2>1 DEF SendClaims
<1>5. ASSUME NEW s \in {"sent", "failed"}, SendRecords(s) PROVE RecordInv'
  <2>1. calls' \in 0..MaxSends
    BY <1>1, <1>5 DEF SendRecords
  <2> QED
    BY <1>3, <1>5, <2>1 DEF SendRecords
<1> QED
  BY <1>2, <1>4, <1>5 DEF SendNext

\* An event given to the message, whatever row it finds.
LEMMA OutboundStep ==
  ASSUME RecordInv, NEW e \in Events, ApplyToOutbound(e), UNCHANGED recipientVars
  PROVE  RecordInv'
<1> DEFINE incoming == OutboundStatusForEvent(e)
<1>1. /\ outStatus \in {"queued", "sent", "failed"}
      /\ messageId # "none"
      /\ lastEvent \in Events \cup {NULL}
      /\ outFurthest \in 0..5
      /\ outFailure \in Events \cup {NULL}
      /\ e # NULL
  BY DEF RecordInv, TypeOK, OutboundStatuses, Events, ProviderEventNames,
         DeliveryEventNames, ApplyToOutbound
<1>2. incoming \in {"queued", "sent", "failed"} /\ EventRank(e) \in 0..5
  BY AssertedStatuses, EventRankRange
<1>3. TypeOK' /\ outStatus' # "draft"
  <2>1. outStatus' \in {"queued", "sent", "failed"}
    BY <1>1, <1>2 DEF ApplyToOutbound, NextOutboundStatus
  <2>2. outFurthest' \in 0..5
    BY <1>1, <1>2 DEF ApplyToOutbound, Higher
  <2> QED
    BY <1>1, <2>1, <2>2
    DEF RecordInv, TypeOK, ApplyToOutbound, OutboundStatuses, recipientVars
<1>4. /\ IsTerminalDeliveryEvent(e) <=> incoming = "failed"
      /\ IsTerminalDeliveryEvent(lastEvent)
           <=> OutboundStatusForEvent(lastEvent) = "failed"
      /\ ~IsTerminalDeliveryEvent(NULL)
      /\ ~IsTerminalDeliveryEvent(Unrecognised)
  BY FailuresCoincide
  DEF IsTerminalDeliveryEvent, RecipientStatusForEvent, RecipientTerminal
<1>5. /\ RecipientIsTheFold'
      /\ UNCHANGED <<messageId, calls, rewritten, revived>>
  BY DEF RecordInv, RecipientIsTheFold, recipientVars, ApplyToOutbound
\* The label is the first failure reported, whatever sendClaimed did to the status.
<1>11. /\ LabelIsTheFirstFailure'
       /\ outFailure' # NULL =>
            IsTerminalDeliveryEvent(outFailure') /\ (outStatus' = "failed" \/ revived')
  <2>1. CASE outFailure # NULL
    <3>1. /\ IsTerminalDeliveryEvent(lastEvent) /\ lastEvent = outFailure
          /\ lastEvent \in ProviderEventNames
      BY <1>1, <1>4, <2>1 DEF RecordInv, LabelIsTheFirstFailure, Events
    <3>2. lastEvent' = lastEvent /\ outFailure' = outFailure
      BY <2>1, <3>1, EventAdvancesIsStrict DEF ApplyToOutbound, OutboundAdvances
    <3>3. outStatus = "failed" => outStatus' = "failed"
      BY DEF ApplyToOutbound, NextOutboundStatus
    <3> QED
      BY <1>5, <2>1, <3>1, <3>2, <3>3 DEF RecordInv, LabelIsTheFirstFailure
  <2>2. CASE outFailure = NULL /\ IsTerminalDeliveryEvent(e)
    <3>1. ~IsTerminalDeliveryEvent(lastEvent)
      BY <2>2 DEF RecordInv, LabelIsTheFirstFailure
    <3>2. EventAdvances(lastEvent, e)
      BY <2>2, <3>1 DEF EventAdvances, NextRecipientStatus, IsTerminalDeliveryEvent
    <3>3. outStatus' = "failed" /\ lastEvent' = e /\ outFailure' = e
      BY <1>4, <2>2, <3>2 DEF ApplyToOutbound, OutboundAdvances, NextOutboundStatus
    <3> QED
      BY <1>1, <2>2, <3>3 DEF LabelIsTheFirstFailure
  <2>3. CASE outFailure = NULL /\ ~IsTerminalDeliveryEvent(e)
    BY <2>3 DEF RecordInv, LabelIsTheFirstFailure, ApplyToOutbound
  <2> QED
    BY <2>1, <2>2, <2>3
<1> SUFFICES ASSUME ~rewritten PROVE Untouched'
  BY <1>1, <1>3, <1>5, <1>11 DEF RecordInv
<1>6. LabelAgreesWithStatus /\ LabelIsFurthest /\ LabelIsTheFirstFailure
      /\ (outStatus # "failed" /\ lastEvent = NULL =>
            outStatus = "sent" /\ outFurthest \in 0..1)
  BY <1>1 DEF RecordInv, Untouched
\* The row has failed before: neither column moves.
<1>7. CASE outFailure # NULL
  <2>1. outStatus = "failed" /\ lastEvent = outFailure
        /\ IsTerminalDeliveryEvent(lastEvent) /\ lastEvent \in ProviderEventNames
    BY <1>1, <1>4, <1>6, <1>7
    DEF RecordInv, LabelAgreesWithStatus, LabelIsTheFirstFailure, Events
  <2>2. ~EventAdvances(lastEvent, e)
    BY <2>1, EventAdvancesIsStrict
  <2>3. outStatus' = "failed" /\ lastEvent' = lastEvent /\ outFailure' = outFailure
    BY <1>7, <2>1, <2>2
    DEF ApplyToOutbound, NextOutboundStatus, OutboundAdvances
  <2> QED
    BY <1>3, <1>5, <1>7, <2>1, <2>3
    DEF Untouched, LabelAgreesWithStatus, LabelIsFurthest
\* The first failure: both columns take it.
<1>8. CASE outFailure = NULL /\ IsTerminalDeliveryEvent(e)
  <2>1. NextOutboundStatus(outStatus, incoming) = incoming /\ incoming = "failed"
    BY <1>4, <1>8 DEF NextOutboundStatus
  <2>2. lastEvent = NULL \/ ~IsTerminalDeliveryEvent(lastEvent)
    BY <1>6, <1>8 DEF LabelIsTheFirstFailure
  <2>3. EventAdvances(lastEvent, e)
    BY <1>8, <2>2 DEF EventAdvances, NextRecipientStatus, IsTerminalDeliveryEvent
  <2>4. outStatus' = "failed" /\ lastEvent' = e /\ outFailure' = e
    BY <1>8, <2>1, <2>3 DEF ApplyToOutbound, OutboundAdvances
  <2> QED
    BY <1>3, <1>5, <1>8, <2>4
    DEF Untouched, LabelAgreesWithStatus, LabelIsFurthest
\* Our send path gave the row up: later good news changes nothing.
<1>9. CASE outFailure = NULL /\ ~IsTerminalDeliveryEvent(e) /\ outStatus = "failed"
  <2>1. lastEvent = NULL
    BY <1>6, <1>9 DEF LabelAgreesWithStatus
  <2>2. outStatus' = "failed" /\ lastEvent' = lastEvent /\ outFailure' = NULL
    BY <1>4, <1>9 DEF ApplyToOutbound, NextOutboundStatus, OutboundAdvances
  <2> QED
    BY <1>3, <1>5, <1>9, <2>1, <2>2
    DEF Untouched, LabelAgreesWithStatus, LabelIsFurthest
\* The funnel proper.
<1>10. CASE outFailure = NULL /\ ~IsTerminalDeliveryEvent(e) /\ outStatus # "failed"
  <2>1. incoming \in {"queued", "sent"} /\ outStatus \in {"queued", "sent"}
        /\ ~IsTerminalDeliveryEvent(lastEvent)
    BY <1>1, <1>2, <1>4, <1>6, <1>10 DEF LabelIsTheFirstFailure
  <2>2. outFailure' = NULL
    BY <1>10 DEF ApplyToOutbound
  <2>3. /\ incoming = "queued" => EventRank(e) = 1
        /\ incoming = "sent" => EventRank(e) >= 2
        /\ OutboundStatusForEvent(lastEvent) = "queued" => EventRank(lastEvent) = 1
        /\ OutboundStatusForEvent(lastEvent) = "sent" => EventRank(lastEvent) >= 2
    BY QueuedEventsRankLowest
  <2>4. /\ EventRank(lastEvent) \in 0..5
        /\ RecipientRank(RecipientStatusForEvent(e)) \in 0..5
        /\ RecipientRank(RecipientStatusForEvent(lastEvent)) \in 0..5
    BY RankRange, EventRankRange
  <2>5. /\ lastEvent = NULL => outStatus = "sent" /\ outFurthest \in 0..1
        /\ lastEvent # NULL => OutboundStatusForEvent(lastEvent) = outStatus
                               /\ EventRank(lastEvent) = outFurthest
    BY <1>6, <1>10 DEF LabelAgreesWithStatus, LabelIsFurthest
  <2>6. outFurthest' = Higher(outFurthest, EventRank(e))
    BY DEF ApplyToOutbound
  <2>7. CASE OutboundAdvances(outStatus, lastEvent, e)
    <3>1. lastEvent' = e /\ outStatus' = incoming
      BY <2>7 DEF ApplyToOutbound, OutboundAdvances
    <3>2. EventRank(e) = outFurthest'
      <4>1. CASE lastEvent = NULL
        BY <1>2, <2>1, <2>3, <2>4, <2>5, <2>6, <4>1 DEF Higher
      <4>2. CASE lastEvent # NULL /\ lastEvent \notin ProviderEventNames
        <5>1. lastEvent = Unrecognised
          BY <1>1, <4>2 DEF Events
        <5>2. EventRank(lastEvent) = 2 /\ outStatus = "sent"
          BY <2>5, <4>2, <5>1
          DEF EventRank, RecipientStatusForEvent, RecipientRank,
              OutboundStatusForEvent
        <5>3. incoming = "sent"
          BY <2>1, <2>7, <5>2 DEF OutboundAdvances, NextOutboundStatus, OutboundRank
        <5> QED
          BY <1>1, <1>2, <2>3, <2>5, <2>6, <4>2, <5>2, <5>3 DEF Higher
      <4>3. CASE lastEvent \in ProviderEventNames
        <5>1. lastEvent # NULL
          BY <4>3 DEF ProviderEventNames, DeliveryEventNames
        <5>2. EventRank(e) >= EventRank(lastEvent)
          BY <1>4, <2>1, <2>4, <2>7, <4>3, <5>1, <1>10
          DEF OutboundAdvances, EventAdvances, NextRecipientStatus, EventRank,
              IsTerminalDeliveryEvent
        <5> QED
          BY <1>1, <1>2, <2>5, <2>6, <5>1, <5>2 DEF Higher
      <4> QED
        BY <4>1, <4>2, <4>3
    <3> QED
      BY <1>1, <1>3, <1>5, <1>10, <2>1, <2>2, <3>1, <3>2
      DEF Untouched, LabelAgreesWithStatus, LabelIsFurthest
  <2>8. CASE ~OutboundAdvances(outStatus, lastEvent, e)
    <3>1. lastEvent' = lastEvent
          /\ outStatus' = NextOutboundStatus(outStatus, incoming)
      BY <2>8 DEF ApplyToOutbound
    <3>2. CASE NextOutboundStatus(outStatus, incoming) # incoming
      <4>1. outStatus = "sent" /\ incoming = "queued" /\ outStatus' = "sent"
        BY <2>1, <3>1, <3>2 DEF NextOutboundStatus, OutboundRank
      <4>2. outFurthest' = Higher(outFurthest, 1)
        BY <2>3, <2>6, <4>1
      <4> QED
        BY <1>1, <1>3, <1>5, <2>1, <2>2, <2>3, <2>5, <3>1, <4>1, <4>2
        DEF Untouched, LabelAgreesWithStatus, LabelIsFurthest, Higher
    <3>3. CASE NextOutboundStatus(outStatus, incoming) = incoming
      <4>1. lastEvent # NULL /\ lastEvent \in ProviderEventNames
            /\ EventRank(e) <= EventRank(lastEvent)
        BY <1>1, <1>2, <1>4, <2>1, <2>4, <2>8, <3>3
        DEF OutboundAdvances, EventAdvances, NextRecipientStatus, EventRank,
            IsTerminalDeliveryEvent
      <4>2. outFurthest' = outFurthest
        BY <1>1, <1>2, <2>5, <2>6, <4>1 DEF Higher
      <4>3. outStatus' = outStatus
        BY <1>2, <2>1, <2>3, <2>4, <2>5, <3>1, <4>1
        DEF NextOutboundStatus, OutboundRank
      <4> QED
        BY <1>1, <1>3, <1>5, <1>10, <2>1, <2>2, <2>5, <3>1, <4>1, <4>2, <4>3
        DEF Untouched, LabelAgreesWithStatus, LabelIsFurthest
    <3> QED
      BY <3>2, <3>3
  <2> QED
    BY <2>7, <2>8
<1> QED
  BY <1>7, <1>8, <1>9, <1>10

-----------------------------------------------------------------------------
(* Any number of events from both writers, in any order *)

LEMMA RecordNext == RecordInv /\ [Next]_recordVars => RecordInv'
<1> SUFFICES ASSUME RecordInv, [Next]_recordVars PROVE RecordInv'
  OBVIOUS
<1>1. \A e : RecipientStatusForEvent(e) \in RecipientStatuses
  BY AssertedStatuses DEF RecipientStatuses
<1>2. ASSUME NEW s \in {"sent", "failed", "suppressed", "cancelled"},
             SendPathWrites(s)
      PROVE  RecordInv'
  <2>1. s \in RecipientStatuses
    BY DEF RecipientStatuses, RecipientTerminal
  <2>2. recipient' = s /\ Asserts(s) /\ UNCHANGED outboundVars /\ recipient = "pending"
    BY <1>2 DEF SendPathWrites
  <2>3. CASE s \in {"sent", "failed"}
    <3>1. NextRecipientStatus(recipient, s) = s
      BY <2>2, <2>3 DEF NextRecipientStatus, RecipientTerminal, RecipientRank
    <3> QED
      BY <2>1, <2>2, <3>1, RecipientStep
  \* A withdrawn row ranks like a pending one.
  <2>4. CASE s \in {"suppressed", "cancelled"}
    <3>1. RecipientRank(s) = 0 /\ RecipientRank("pending") = 0
          /\ s \notin RecipientTerminal /\ "pending" \notin RecipientTerminal
      BY <2>4 DEF RecipientRank, RecipientTerminal
    <3>2. recipientFailure = NULL /\ recipientFurthest = 0
      BY <2>2, <3>1 DEF RecordInv, RecipientIsTheFold, TypeOK
    <3>3. recipientFailure' = NULL /\ recipientFurthest' = 0
      BY <2>2, <3>1, <3>2 DEF Asserts, Higher
    <3>4. TypeOK' /\ RecipientIsTheFold'
      BY <2>1, <2>2, <3>1, <3>3
      DEF RecordInv, TypeOK, RecipientIsTheFold, outboundVars
    <3> QED
      BY <2>2, <3>4
      DEF RecordInv, Untouched, LabelIsTheFirstFailure, LabelAgreesWithStatus,
          LabelIsFurthest, outboundVars
  <2> QED
    BY <2>3, <2>4
<1>3. ASSUME NEW e, RecipientWebhook(e) \/ RecipientListed(e) PROVE RecordInv'
  <2>1. recipient' = NextRecipientStatus(recipient, RecipientStatusForEvent(e))
        /\ Asserts(RecipientStatusForEvent(e)) /\ UNCHANGED outboundVars
    BY <1>3 DEF RecipientWebhook, RecipientListed
  <2> QED
    BY <1>1, <2>1, RecipientStep
<1>4. ASSUME NEW e \in Events, OutboundWebhook(e) \/ OutboundListed(e)
      PROVE  RecordInv'
  BY <1>4, OutboundStep DEF OutboundWebhook, OutboundListed
<1>5. CASE UNCHANGED recordVars
  BY <1>5
  DEF RecordInv, Untouched, TypeOK, RecipientIsTheFold, LabelIsTheFirstFailure,
      LabelAgreesWithStatus, LabelIsFurthest, recordVars, recipientVars, outboundVars
<1>6. WebhookEvents \subseteq Events /\ ListedEvents \subseteq Events
  BY EventsAssumption DEF Events, ProviderEventNames
<1> QED
  BY <1>2, <1>3, <1>4, <1>5, <1>6, SendStep DEF Next, RecipientNext

\* The laws of the delivery columns hold in every reachable state, for every set of
\* events the webhook and the list API may deliver and any number of calls of
\* sendClaimed, alone or overlapping.
THEOREM RecordsHold == Spec => []RecordInv
<1> QED
  BY RecordInit, RecordNext, PTL DEF Spec

\* The recipient row ends where the provider's story ends: at the first failure,
\* or at the furthest rung anybody asserted.
THEOREM RecipientFold == Spec => []RecipientIsTheFold
<1>1. RecordInv => RecipientIsTheFold
  BY DEF RecordInv
<1> QED
  BY <1>1, RecordsHold, PTL

\* The label of a message is the first failure reported; and until sendClaimed writes
\* to a row with an id it never contradicts the status, and of a message that has not
\* failed it is the furthest event reported.
THEOREM LabelsTell == Spec => []LabelTellsTheEvents
<1>1. RecordInv => LabelTellsTheEvents
  BY DEF RecordInv, Untouched, LabelTellsTheEvents
<1> QED
  BY <1>1, RecordsHold, PTL

-----------------------------------------------------------------------------
(* The badge in the browser *)

\* Every failure anybody still holds - a publication on its way, the store, the
\* last render - was the row's when it was told; and a failed row stays failed until
\* sendClaimed takes it out.
FailureHeld == outStatus = "failed" \/ revived

LiveInv ==
  /\ RecordInv
  /\ rendered \in Row
  /\ \A p \in inflight : p.event \in DeliveryEventNames
  /\ \A p \in inflight : IsTerminalDeliveryEvent(p.event) => FailureHeld
  /\ IsTerminalDeliveryEvent(live) => FailureHeld
  /\ rendered.status = "failed" => FailureHeld
  /\ IsTerminalDeliveryEvent(rendered.label) =>
       FailureHeld /\ (rendered.status = "failed" \/ rewritten)

LEMMA SentinelsAreNotTerminal ==
  /\ ~IsTerminalDeliveryEvent(NULL)
  /\ ~IsTerminalDeliveryEvent("sent")
  /\ IsTerminalDeliveryEvent("failed")
  BY DEF IsTerminalDeliveryEvent, RecipientStatusForEvent, RecipientTerminal

\* Of what can be published, exactly the failures are drawn as failures.
LEMMA DangerIsTerminal ==
  /\ \A e \in DangerBadges : IsTerminalDeliveryEvent(e)
  /\ \A e \in DeliveryEventNames :
       IsTerminalDeliveryEvent(e) => e \in DangerBadges
  BY DEF DangerBadges, DeliveryEventNames, IsTerminalDeliveryEvent,
         RecipientStatusForEvent, RecipientTerminal

\* Every publication uses the webhook vocabulary.
LEMMA PublicationVocabulary ==
  \A s, stored : Publication(s, stored) \in DeliveryEventNames
  BY DEF Publication, DeliveryEventNames

\* What the row can tell: a failure in its label or in its publication is one the row
\* holds, and where sendClaimed left it alone the three agree.
RowFacts ==
  /\ StoredRow \in Row
  /\ IsTerminalDeliveryEvent(lastEvent) =>
       FailureHeld /\ (outStatus = "failed" \/ rewritten)
  /\ IsTerminalDeliveryEvent(Publication(outStatus, lastEvent)) => FailureHeld
  /\ ~rewritten =>
       (IsTerminalDeliveryEvent(Publication(outStatus, lastEvent))
          <=> outStatus = "failed")

LEMMA RowTellsFailure == RecordInv => RowFacts
<1> SUFFICES ASSUME RecordInv PROVE RowFacts
  OBVIOUS
<1>1. StoredRow \in Row
  BY DEF RecordInv, TypeOK, StoredRow, Row
<1>2. IsTerminalDeliveryEvent(lastEvent) =>
        FailureHeld /\ (outStatus = "failed" \/ rewritten)
  BY DEF RecordInv, Untouched, FailureHeld, LabelIsTheFirstFailure,
         LabelAgreesWithStatus
<1>3. IsTerminalDeliveryEvent(Publication(outStatus, lastEvent)) => FailureHeld
  BY <1>2, SentinelsAreNotTerminal DEF Publication, FailureHeld
<1>4. ~rewritten /\ outStatus = "failed" /\ lastEvent \in DeliveryEventNames
        => IsTerminalDeliveryEvent(lastEvent)
  <2>1. NULL \notin DeliveryEventNames
    BY DEF DeliveryEventNames
  <2> QED
    BY <2>1 DEF RecordInv, Untouched, LabelIsTheFirstFailure, LabelAgreesWithStatus
<1> QED
  BY <1>1, <1>2, <1>3, <1>4, SentinelsAreNotTerminal DEF Publication, RowFacts

\* Only sendClaimed takes a row out of `failed`, and it leaves its mark.
LEMMA FailureHeldStays ==
  ASSUME RecordInv, [Next]_recordVars
  PROVE  /\ FailureHeld => FailureHeld'
         /\ rewritten => rewritten'
<1>1. CASE SendNext
  <2>1. rewritten \in BOOLEAN /\ revived \in BOOLEAN
    BY DEF RecordInv, TypeOK
  <2>2. ASSUME NEW status, SendWrites(status)
        PROVE  (FailureHeld => FailureHeld') /\ (rewritten => rewritten')
    BY <2>1, <2>2 DEF SendWrites, FailureHeld
  <2>3. CASE SendDies
    BY <2>3 DEF SendDies, FailureHeld
  <2> QED
    BY <1>1, <2>2, <2>3 DEF SendNext, SendClaims, SendRecords
<1>2. CASE RecipientNext \/ UNCHANGED recordVars
  BY <1>2 DEF RecipientNext, SendPathWrites, RecipientWebhook, RecipientListed,
              recordVars, outboundVars, FailureHeld
<1>3. ASSUME NEW e, OutboundWebhook(e) \/ OutboundListed(e)
      PROVE  (FailureHeld => FailureHeld') /\ (rewritten => rewritten')
  BY <1>3 DEF OutboundWebhook, OutboundListed, ApplyToOutbound, NextOutboundStatus,
              FailureHeld
<1> QED
  BY <1>1, <1>2, <1>3 DEF Next

\* Each step of LiveDelivery is a step or a stutter of DeliveryRecords.
LEMMA LiveStepIsRecordStep == [LiveNext]_liveVars => [Next]_recordVars
  BY DEF LiveNext, RecipientMoves, SendMoves, WebhookPublishes, ReconcilerWrites,
         PublicationArrives, PublicationIsLost, Refresh, Reload, Next, liveVars

LEMMA LiveInit_Inv == LiveInit => LiveInv
<1> SUFFICES ASSUME LiveInit PROVE LiveInv
  OBVIOUS
<1>1. RecordInv
  BY RecordInit DEF LiveInit
<1> QED
  BY <1>1, RowTellsFailure, SentinelsAreNotTerminal
  DEF LiveInit, LiveInv, StoredRow, RowFacts, FailureHeld

LEMMA LiveNext_Inv == LiveInv /\ [LiveNext]_liveVars => LiveInv'
<1> SUFFICES ASSUME LiveInv, [LiveNext]_liveVars PROVE LiveInv'
  OBVIOUS
<1>1. RecordInv /\ RecordInv'
  BY LiveStepIsRecordStep, RecordNext DEF LiveInv
<1>2. (FailureHeld => FailureHeld') /\ (rewritten => rewritten')
  BY <1>1, LiveStepIsRecordStep, FailureHeldStays
<1>3. RowFacts /\ RowFacts'
  BY <1>1, RowTellsFailure, PTL
<1>4. /\ IsTerminalDeliveryEvent(Publication(outStatus', lastEvent')) => FailureHeld'
      /\ StoredRow \in Row
      /\ StoredRow = [status |-> outStatus, label |-> lastEvent]
      /\ outStatus = "failed" => FailureHeld
      /\ IsTerminalDeliveryEvent(lastEvent) =>
           FailureHeld /\ (outStatus = "failed" \/ rewritten)
  BY <1>3 DEF RowFacts, StoredRow, FailureHeld
<1>5. CASE RecipientMoves
  BY <1>1, <1>2, <1>5 DEF LiveInv, RecipientMoves, browserVars
<1>13. CASE SendMoves
  BY <1>1, <1>2, <1>13 DEF LiveInv, SendMoves, browserVars
<1>6. ASSUME NEW e \in WebhookEvents, WebhookPublishes(e) PROVE LiveInv'
  BY <1>1, <1>2, <1>4, <1>6, PublicationVocabulary
  DEF LiveInv, WebhookPublishes, browserVars
<1>7. ASSUME NEW e \in ListedEvents, ReconcilerWrites(e) PROVE LiveInv'
  BY <1>1, <1>2, <1>7 DEF LiveInv, ReconcilerWrites, browserVars
<1>8. ASSUME NEW p \in inflight, PublicationArrives(p) PROVE LiveInv'
  BY <1>1, <1>2, <1>8 DEF LiveInv, PublicationArrives, StoreApplies
<1>9. ASSUME NEW p \in inflight, PublicationIsLost(p) PROVE LiveInv'
  BY <1>1, <1>2, <1>9 DEF LiveInv, PublicationIsLost, browserVars
<1>10. CASE Refresh
  BY <1>1, <1>2, <1>4, <1>10 DEF LiveInv, Refresh
<1>11. CASE Reload
  BY <1>1, <1>2, <1>4, <1>11, SentinelsAreNotTerminal DEF LiveInv, Reload
<1>12. CASE UNCHANGED liveVars
  BY <1>1, <1>2, <1>12 DEF LiveInv, liveVars, browserVars
<1> QED
  BY <1>5, <1>6, <1>7, <1>8, <1>9, <1>10, <1>11, <1>12, <1>13 DEF LiveNext

LEMMA LiveHolds == LiveSpec => []LiveInv
<1> QED
  BY LiveInit_Inv, LiveNext_Inv, PTL DEF LiveSpec

\* What LiveTypeOK says beyond LiveInv: the numbers of the publications and the
\* vocabulary of the store.
WireTypes ==
  /\ published \in 0..MaxPublications
  /\ inflight \subseteq [seq : 1..published, event : DeliveryEventNames]
  /\ live \in DeliveryEventNames \cup {NULL}

LEMMA WireNext == WireTypes /\ [LiveNext]_liveVars => WireTypes'
<1> SUFFICES ASSUME WireTypes, [LiveNext]_liveVars PROVE WireTypes'
  OBVIOUS
<1> USE PublicationsAssumption DEF WireTypes
<1>1. ASSUME NEW e \in WebhookEvents, WebhookPublishes(e) PROVE WireTypes'
  <2> DEFINE said == Publication(outStatus', lastEvent')
  <2>1. said \in DeliveryEventNames
    BY PublicationVocabulary
  <2>2. /\ published' = published + 1 /\ published' \in 0..MaxPublications
        /\ inflight' = inflight \cup {[seq |-> published + 1, event |-> said]}
        /\ live' = live
    BY <1>1 DEF WebhookPublishes, browserVars
  <2> HIDE DEF said
  <2>3. [seq |-> published + 1, event |-> said]
          \in [seq : 1..published', event : DeliveryEventNames]
    BY <2>1, <2>2
  <2>4. inflight \subseteq [seq : 1..published', event : DeliveryEventNames]
    BY <2>2
  <2> QED
    BY <2>2, <2>3, <2>4
<1>2. ASSUME NEW p \in inflight, PublicationArrives(p) PROVE WireTypes'
  <2>1. p.event \in DeliveryEventNames
    OBVIOUS
  <2> QED
    BY <1>2, <2>1 DEF PublicationArrives, StoreApplies
<1>3. ASSUME NEW p \in inflight, PublicationIsLost(p) PROVE WireTypes'
  BY <1>3 DEF PublicationIsLost, browserVars
<1>4. CASE UNCHANGED <<published, inflight>> /\ live' \in {live, NULL}
  BY <1>4
<1> QED
  BY <1>1, <1>2, <1>3, <1>4
  DEF LiveNext, RecipientMoves, SendMoves, ReconcilerWrites, Refresh, Reload,
      liveVars, browserVars

\* Type correctness of the records, the wire and the tab.
THEOREM LiveTypes == LiveSpec => []LiveTypeOK
<1>1. LiveInit => WireTypes
  BY PublicationsAssumption DEF LiveInit, WireTypes
<1>2. LiveInv /\ WireTypes => LiveTypeOK
  BY DEF LiveInv, WireTypes, RecordInv, LiveTypeOK
<1> QED
  BY <1>1, <1>2, WireNext, LiveHolds, PTL DEF LiveSpec

\* No tab announces a failure that Postgres does not hold, however its publications
\* were lost or overtaken, unless sendClaimed has since sent the message again.
THEOREM NoFalseFailure == LiveSpec => []ShownFailureIsStored
<1>1. LiveInv => ShownFailureIsStored
  BY DangerIsTerminal
  DEF LiveInv, FailureHeld, ShownFailureIsStored, ShowsFailure, Badge
<1> QED
  BY <1>1, LiveHolds, PTL

\* A failure that Postgres holds, once shown, is not taken off the screen again,
\* short of sending the message again.
THEOREM FailureIsKept == LiveSpec => FailureStaysShown
<1> DEFINE Shown == ShowsFailure /\ outStatus = "failed" /\ ~rewritten
<1>1. LiveInv /\ [LiveNext]_liveVars => [Shown => ShowsFailure']_liveVars
  <2> SUFFICES ASSUME LiveInv, LiveNext, Shown PROVE ShowsFailure'
    OBVIOUS
  <2>1. outStatus = "failed" /\ ~rewritten /\ ShowsFailure
    OBVIOUS
  <2> HIDE DEF Shown
  <2>2. CASE UNCHANGED browserVars
    BY <2>1, <2>2 DEF ShowsFailure, Badge, browserVars
  <2>3. ASSUME NEW p \in inflight, PublicationArrives(p) PROVE ShowsFailure'
    <3>1. rendered' = rendered /\ live' = StoreApplies(live, p.event)
      BY <2>3 DEF PublicationArrives
    <3>2. CASE rendered.status = "failed"
      BY <3>1, <3>2 DEF ShowsFailure
    <3>3. CASE rendered.status # "failed"
      <4>1. live # NULL /\ live \in DangerBadges
        BY <2>1, <3>3, DangerIsTerminal DEF LiveInv, ShowsFailure, Badge
      <4>2. p.event \in DeliveryEventNames
        BY DEF LiveInv
      <4>3. live' \in DangerBadges
        BY <3>1, <4>1, <4>2, DangerIsTerminal DEF StoreApplies
      <4>4. NULL \notin DangerBadges
        BY DEF NULL, DangerBadges
      <4> QED
        BY <4>3, <4>4 DEF ShowsFailure, Badge
    <3> QED
      BY <3>2, <3>3
  <2>4. CASE Refresh \/ Reload
    BY <2>1, <2>4 DEF Refresh, Reload, StoredRow, ShowsFailure
  <2> QED
    BY <2>2, <2>3, <2>4
    DEF LiveNext, RecipientMoves, SendMoves, WebhookPublishes, ReconcilerWrites,
        PublicationIsLost
<1> QED
  BY <1>1, LiveHolds, PTL DEF LiveSpec, FailureStaysShown

\* What the route broadcasts is a failure exactly when the row it has just
\* written is failed, for every row that sendClaimed has left alone since it was sent.
THEOREM PublicationsTellTheRow == LiveSpec => PublicationTellsTheRow
<1> DEFINE Tells == \A p \in inflight' \ inflight : ~rewritten' =>
                      (IsTerminalDeliveryEvent(p.event) <=> outStatus' = "failed")
<1>1. LiveInv /\ LiveInv' /\ [LiveNext]_liveVars => [Tells]_liveVars
  <2> SUFFICES ASSUME LiveInv', LiveNext PROVE Tells
    OBVIOUS
  <2>1. ~rewritten' => (IsTerminalDeliveryEvent(Publication(outStatus', lastEvent'))
                          <=> outStatus' = "failed")
    <3>1. RecordInv'
      BY DEF LiveInv
    <3>2. RowFacts'
      BY <3>1, RowTellsFailure, PTL
    <3> QED
      BY <3>2 DEF RowFacts
  <2>2. ASSUME NEW e \in WebhookEvents, WebhookPublishes(e) PROVE Tells
    BY <2>1, <2>2 DEF WebhookPublishes
  <2> QED
    BY <2>2
    DEF LiveNext, RecipientMoves, SendMoves, ReconcilerWrites, PublicationArrives,
        PublicationIsLost, Refresh, Reload
<1> QED
  BY <1>1, LiveHolds, PTL DEF LiveSpec, PublicationTellsTheRow

=============================================================================
