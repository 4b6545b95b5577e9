--------------------------- MODULE WebhookProofs ---------------------------
(* What the webhook keeps for any number of events and requests, every     *)
(* limit, and however often requests duplicate, fail, deadlock or die.     *)
EXTENDS WebhookIngest, TLAPS

-----------------------------------------------------------------------------
(* Facts about the definitions *)

\* A request is at a stage unless it is idle.
LEMMA AtAStageOrIdle ==
  ASSUME TypeOK, NEW p \in Requests
  PROVE  /\ request[p] = Idle \/ request[p] \in ActiveRequests
         /\ request[p] = Idle <=> request[p].stage = "idle"
         /\ request[p].stage \in Stages =>
              /\ request[p] \in ActiveRequests
              /\ Event(p) \in Events /\ Kind(p) \in Kinds
         /\ request[p].entry \in Reasons \cup {"none"}
         /\ request[p].contact \in ContactRows \cup {Absent}
  BY DEF TypeOK, ActiveRequests, Idle, Stages, Inserted, Event, Kind

\* A request is a record of the type whatever stage it moves to.
LEMMA ProceedType ==
  ASSUME TypeOK, NEW p \in Requests, NEW stage \in Stages,
         request[p] \in ActiveRequests, Proceed(p, stage)
  PROVE  request' \in [Requests -> ActiveRequests \cup {Idle}]
  BY DEF TypeOK, Proceed, ActiveRequests

LEMMA WritesType ==
  ASSUME TypeOK, NEW p \in Requests, NEW stage \in Stages,
         NEW r \in ContactRows \cup {Absent},
         request[p] \in ActiveRequests, Writes(p, r, stage)
  PROVE  TypeOK'
  BY DEF TypeOK, Writes, ActiveRequests, listVars, providerVars, ghostVars,
         ListTypeOK

LEMMA EndType ==
  ASSUME TypeOK, NEW p \in Requests, request[p] \in ActiveRequests,
         NEW verdict \in {"due", "acked"}, End(p, verdict)
  PROVE  /\ request' \in [Requests -> ActiveRequests \cup {Idle}]
         /\ provider' \in [Events -> {"due", "waiting", "acked"}]
  BY DEF TypeOK, End, Event, ActiveRequests

LEMMA CountedType ==
  ASSUME TypeOK, contact # Absent
  PROVE  /\ [contact EXCEPT !.count = @ + 1] \in ContactRows
         /\ [contact EXCEPT !.count = 0] \in ContactRows
  BY DEF TypeOK, ListTypeOK, ContactRows

LEMMA StageType ==
  /\ {"inserting", "failed", "committed", "claiming"} \subseteq Stages
  /\ Inserted \subseteq Stages
  /\ \A k \in Kinds : FirstStatement(k) \in Inserted
  BY DEF Stages, Inserted, FirstStatement, Kinds

-----------------------------------------------------------------------------
(* Types *)

LEMMA TypeInit == Init => TypeOK
  BY SuppressionAssumption, IngestAssumption
  DEF Init, ListInit, TypeOK, ListTypeOK, ContactRows, Idle

LEMMA PeopleType == TypeOK /\ PeopleAct => TypeOK'
<1> SUFFICES ASSUME TypeOK, PeopleAct PROVE TypeOK'
  OBVIOUS
<1>1. ListTypeOK'
  BY SuppressionAssumption
  DEF PeopleAct, PersonActs, AddContact, AddSuppression, RemoveSuppression,
      ReactivateContact, UnsubscribeContact, EnlistUnsubscribed,
      SecondStatementLost, Listed, TypeOK, ListTypeOK, ContactRows, Absent, Reasons
<1> QED
  BY <1>1 DEF PeopleAct, TypeOK, providerVars, ghostVars

LEMMA TypeNext == TypeOK /\ [Next]_ingestVars => TypeOK'
<1> SUFFICES ASSUME TypeOK, [Next]_ingestVars PROVE TypeOK'
  OBVIOUS
<1> USE SuppressionAssumption, IngestAssumption
<1>1. ASSUME NEW e \in Events, NEW p \in Requests, Deliver(e, p) PROVE TypeOK'
  <2>1. [stage |-> "claiming", event |-> e, awaited |-> TRUE, entry |-> "none",
         contact |-> Absent, masked |-> FALSE] \in ActiveRequests
    BY StageType DEF ActiveRequests
  <2>2. request' \in [Requests -> ActiveRequests \cup {Idle}]
    BY <1>1, <2>1 DEF Deliver, TypeOK
  <2>3. attempts' \in [Events -> 0..MaxAttempts]
    BY <1>1 DEF Deliver, TypeOK
  <2> QED
    BY <1>1, <2>2, <2>3 DEF Deliver, TypeOK, ListTypeOK, listVars, ghostVars
<1>2. ASSUME NEW e \in Events, TimesOut(e) PROVE TypeOK'
  <2>1. request' \in [Requests -> ActiveRequests \cup {Idle}]
    BY <1>2 DEF TimesOut, TypeOK, ActiveRequests
  <2>2. provider' \in [Events -> {"due", "waiting", "acked"}]
    BY <1>2 DEF TimesOut, TypeOK
  <2> QED
    BY <1>2, <2>1, <2>2 DEF TimesOut, Fault, TypeOK, ListTypeOK, listVars, ghostVars
<1>3. ASSUME NEW e \in Events, Evict(e) PROVE TypeOK'
  BY <1>3 DEF Evict, Fault, TypeOK, ListTypeOK, listVars, providerVars, ghostVars
<1>4. ASSUME NEW p \in Requests, RequestStep(p) PROVE TypeOK'
  <2>0. request[p] \in ActiveRequests \/ (request[p] = Idle /\ request[p].stage = "idle")
    BY AtAStageOrIdle DEF Idle
  <2>1. CASE Claim(p)
    <3>1. request[p] \in ActiveRequests
      BY <2>0, <2>1 DEF Claim
    <3> QED
      BY <2>1, <3>1, EndType, ProceedType, StageType
      DEF Claim, TypeOK, ListTypeOK, listVars, ghostVars, ActiveRequests, Event
  <2>2. CASE InsertEvent(p)
    <3>1. request[p] \in ActiveRequests /\ Kind(p) \in Kinds
      BY <2>0, <2>2, AtAStageOrIdle, StageType DEF InsertEvent
    <3> QED
      BY <2>2, <3>1, EndType, ProceedType, StageType
      DEF InsertEvent, TypeOK, ListTypeOK, listVars, ghostVars
  <2>3. CASE ResetCount(p)
    <3>1. request[p] \in ActiveRequests
      BY <2>0, <2>3 DEF ResetCount
    <3> QED
      BY <2>3, <3>1, WritesType, CountedType, StageType
      DEF ResetCount, Inserted, Absent
  <2>4. CASE CountBounce(p)
    <3>1. request[p] \in ActiveRequests
      BY <2>0, <2>4 DEF CountBounce
    <3> QED
      BY <2>4, <3>1, WritesType, CountedType, StageType DEF CountBounce, Inserted
  <2>5. CASE ListAddress(p)
    <3>1. request[p] \in ActiveRequests /\ Kind(p) \in Kinds
      BY <2>0, <2>5, AtAStageOrIdle, StageType DEF ListAddress, Inserted
    <3> QED
      BY <2>5, <3>1, StageType
      DEF ListAddress, TypeOK, ListTypeOK, listVars, providerVars, ghostVars,
          ActiveRequests, Inserted
  <2>6. CASE MarkContact(p)
    <3>1. request[p] \in ActiveRequests
      BY <2>0, <2>6 DEF MarkContact
    <3>2. CASE contact = Absent
      BY <2>6, <3>1, <3>2, WritesType, StageType DEF MarkContact, Inserted
    <3>3. CASE contact # Absent
      <4>1. SeenContact(p) \in ContactRows
        BY <3>3, AtAStageOrIdle DEF SeenContact, HoldsContact, TypeOK, ListTypeOK
      <4>2. [SeenContact(p) EXCEPT !.status = StatusFor(Why(p))] \in ContactRows
        BY <4>1 DEF ContactRows, StatusFor
      <4> QED
        BY <2>6, <3>1, <3>3, <4>2, WritesType, StageType DEF MarkContact, Inserted
    <3> QED
      BY <3>2, <3>3
  <2>7. CASE Commit(p)
    <3>1. request[p] \in ActiveRequests /\ Event(p) \in Events
      BY <2>0, <2>7, AtAStageOrIdle, StageType DEF Commit, Inserted
    <3>2. request' \in [Requests -> ActiveRequests \cup {Idle}]
      BY <2>7, <3>1, StageType DEF Commit, TypeOK, ActiveRequests
    <3>3. reason' \in Reasons \cup {"none"} /\ contact' \in ContactRows \cup {Absent}
      BY <2>7, AtAStageOrIdle DEF Commit, SeenContact, TypeOK, ListTypeOK
    <3> QED
      BY <2>7, <3>1, <3>2, <3>3 DEF Commit, TypeOK, ListTypeOK, providerVars
  <2>8. CASE Announce(p)
    <3>1. request[p] \in ActiveRequests /\ Event(p) \in Events
      BY <2>0, <2>8, AtAStageOrIdle, StageType DEF Announce
    <3> QED
      BY <2>8, <3>1, EndType DEF Announce, TypeOK, ListTypeOK, listVars
  <2>9. CASE DeadlockVictim(p)
    <3>1. request[p] \in ActiveRequests
      BY <2>0, <2>9 DEF DeadlockVictim, WaitsFor
    <3>2. request' \in [Requests -> ActiveRequests \cup {Idle}]
      BY <2>9, <3>1, StageType DEF DeadlockVictim, Abort, TypeOK, ActiveRequests
    <3> QED
      BY <2>9, <3>2 DEF DeadlockVictim, TypeOK, ListTypeOK, listVars, providerVars,
                        ghostVars
  <2>10. CASE ReleaseClaim(p)
    <3>1. request[p] \in ActiveRequests /\ Event(p) \in Events
      BY <2>0, <2>10, AtAStageOrIdle, StageType DEF ReleaseClaim
    <3> QED
      BY <2>10, <3>1, EndType
      DEF ReleaseClaim, Unheard, TypeOK, ListTypeOK, listVars
  <2> QED
    BY <1>4, <2>1, <2>2, <2>3, <2>4, <2>5, <2>6, <2>7, <2>8, <2>9, <2>10 DEF RequestStep
<1>5. ASSUME NEW p \in Requests, RequestFault(p) PROVE TypeOK'
  <2>0. request[p] \in ActiveRequests \/ (request[p] = Idle /\ request[p].stage = "idle")
    BY AtAStageOrIdle DEF Idle
  <2>1. CASE ClaimFailsOpen(p)
    <3>1. request[p] \in ActiveRequests
      BY <2>0, <2>1 DEF ClaimFailsOpen
    <3> QED
      BY <2>1, <3>1, ProceedType, StageType
      DEF ClaimFailsOpen, Fault, TypeOK, ListTypeOK, listVars, providerVars, ghostVars
  <2>2. CASE AnnounceFails(p)
    <3>1. request[p] \in ActiveRequests
      BY <2>0, <2>2 DEF AnnounceFails
    <3> QED
      BY <2>2, <3>1, EndType
      DEF AnnounceFails, Fault, TypeOK, ListTypeOK, listVars, ghostVars
  <2>3. CASE RollBack(p)
    <3>1. request[p] \in ActiveRequests
      BY <2>0, <2>3 DEF RollBack, Inserted
    <3>2. request' \in [Requests -> ActiveRequests \cup {Idle}]
      BY <2>3, <3>1, StageType DEF RollBack, Abort, TypeOK, ActiveRequests
    <3> QED
      BY <2>3, <3>2 DEF RollBack, Fault, TypeOK, ListTypeOK, listVars, providerVars,
                        ghostVars
  <2>4. CASE ReleaseFailsOpen(p)
    <3>1. request[p] \in ActiveRequests /\ Event(p) \in Events
      BY <2>0, <2>4, AtAStageOrIdle, StageType DEF ReleaseFailsOpen
    <3> QED
      BY <2>4, <3>1, EndType
      DEF ReleaseFailsOpen, Fault, TypeOK, ListTypeOK, listVars
  <2>5. CASE Die(p)
    <3>1. request[p] \in ActiveRequests /\ Event(p) \in Events
      BY <2>0, <2>5, AtAStageOrIdle DEF Die, ActiveRequests, Event
    <3> QED
      BY <2>5, <3>1, EndType DEF Die, Fault, TypeOK, ListTypeOK, listVars
  <2> QED
    BY <1>5, <2>1, <2>2, <2>3, <2>4, <2>5 DEF RequestFault
<1>6. CASE PeopleAct
  BY <1>6, PeopleType
<1>7. CASE UNCHANGED ingestVars
  BY <1>7 DEF TypeOK, ListTypeOK, ingestVars, listVars, providerVars, ghostVars
<1> QED
  BY <1>1, <1>2, <1>3, <1>4, <1>5, <1>6, <1>7 DEF Next

\* Every step of the webhook, the provider and the people keeps the types.
THEOREM IngestTypes == Spec => []TypeOK
<1> QED
  BY TypeInit, TypeNext, PTL DEF Spec


-----------------------------------------------------------------------------
(* The inductive invariant *)

\* Where a request is says what its event is about.
KindAt(p) ==
  /\ request[p].stage = "resetting" => Kind(p) = "delivered"
  /\ request[p].stage = "counting" => Kind(p) = "soft_bounce"
  /\ request[p].stage = "listing" => Kind(p) \notin {"delivered", "other"}
  /\ request[p].stage = "marking" => Kind(p) \notin {"delivered", "other", "manual"}

KindInv == \A p \in Requests : KindAt(p)

\* Events: at most one request is past the insertion of an event, and until it
\* has announced them its effects have not run.
Past == Inserted \cup {"committed"}

EventsInv ==
  /\ AnnouncedOnceAndStored
  /\ \A p \in Requests :
       /\ request[p].stage \in Inserted => Event(p) \notin stored
       /\ request[p].stage = "committed" =>
            Event(p) \in stored /\ announced[Event(p)] = 0
       /\ \A q \in Requests \ {p} :
            request[p].stage \in Past /\ request[q].stage \in Past
              => Event(p) # Event(q)

\* What the count of a contact becomes when a request that holds it commits.
NewCount(p) ==
  CASE Kind(p) = "delivered"   -> 0
    [] Kind(p) = "soft_bounce" -> contact.count + 1
    [] OTHER                   -> contact.count

\* The contact: one request holds it, its copy is of the current row, and by the
\* time it is to be committed a count at the limit has cost it its status.
Holding(p) ==
  /\ contact # Absent
  /\ request[p].stage \in {"listing", "marking", "ready"}
  /\ request[p].contact.count = NewCount(p)
  /\ request[p].stage # "ready" => Kind(p) = "soft_bounce"
  /\ request[p].stage = "ready" /\ request[p].contact.count >= SoftBounceLimit
       => request[p].contact.status # "active"

ContactInv ==
  /\ AtTheLimitIsBarred
  /\ \A p \in Requests :
       /\ HoldsContact(p) => Holding(p) /\ ContactFreeFor(p)
       /\ request[p].stage \in {"listing", "marking"} /\ Kind(p) = "soft_bounce"
            => HoldsContact(p)

\* The entry: one request is inserting it, and a request with evidence about to
\* commit has one, or met one.
EntryInv ==
  /\ EvidenceStaysUnlessMasked
  /\ \A p \in Requests :
       /\ HoldsEntry(p) =>
            /\ reason = "none"
            /\ request[p].stage \in {"marking", "ready"}
            /\ request[p].entry = Why(p)
            /\ \A q \in Requests \ {p} : ~HoldsEntry(q)
       /\ request[p].stage \in {"marking", "ready"} /\ Kind(p) \in Evidence =>
            request[p].masked \/ HoldsEntry(p) \/ reason \in Reasons \ Removable

\* Claims: a claim stands for an event that is stored, in work or lost to a
\* mishap, and the provider waits for one request per event.
Covered(e) == e \in stored \/ InWork(e) \/ e \in mishap

Awaited(p) == request[p] # Idle /\ request[p].awaited

AwaitedInv ==
  \A p \in Requests : Awaited(p) =>
    /\ provider[Event(p)] = "waiting"
    /\ \A q \in Requests \ {p} : Awaited(q) => Event(q) # Event(p)

ClaimsInv ==
  /\ LossNeedsAMishap
  /\ \A e \in claimed : Covered(e)
  /\ AwaitedInv

IngestInv == TypeOK /\ KindInv /\ EventsInv /\ ContactInv /\ EntryInv /\ ClaimsInv

LEMMA IngestInit == Init => IngestInv
<1> SUFFICES ASSUME Init PROVE IngestInv
  OBVIOUS
<1>1. TypeOK
  BY TypeInit
<1>2. \A p \in Requests : /\ request[p] = Idle /\ request[p].stage = "idle"
                            /\ ~HoldsEntry(p) /\ ~HoldsContact(p)
  BY DEF Init, Idle, HoldsEntry, HoldsContact
<1>3. KindInv /\ EventsInv
  BY <1>2 DEF Init, KindInv, KindAt, EventsInv, AnnouncedOnceAndStored, Past, Inserted
<1>4. ContactInv
  BY <1>2, SuppressionAssumption
  DEF Init, ListInit, ContactInv, AtTheLimitIsBarred, Absent
<1>5. EntryInv
  BY <1>2 DEF Init, EntryInv, EvidenceStaysUnlessMasked
<1>6. ClaimsInv
  BY <1>2 DEF Init, ClaimsInv, LossNeedsAMishap, AwaitedInv, Awaited
<1> QED
  BY <1>1, <1>3, <1>4, <1>5, <1>6 DEF IngestInv

-----------------------------------------------------------------------------
(* Each step keeps it *)

\* What a step does to the request it is of, field by field, and that it leaves
\* the others alone.
Alone(p) == \A q \in Requests \ {p} : request'[q] = request[q]

Stays(p) ==
  /\ Alone(p)
  /\ request'[p] # Idle
  /\ request'[p].event = request[p].event
  /\ request'[p].awaited = request[p].awaited
  /\ request'[p].stage \in Stages

Ends(p) == Alone(p) /\ request'[p] = Idle

LEMMA ProceedEffect ==
  ASSUME TypeOK, NEW p \in Requests, request[p] \in ActiveRequests,
         NEW stage \in Stages, Proceed(p, stage)
  PROVE  /\ Stays(p)
         /\ request'[p].stage = stage
         /\ request'[p].contact = request[p].contact
         /\ request'[p].entry = request[p].entry
         /\ request'[p].masked = request[p].masked
<1>1. request'[p] = [request[p] EXCEPT !.stage = stage] /\ Alone(p)
  BY DEF Proceed, TypeOK, Alone
<1>2. request'[p] \in ActiveRequests /\ request'[p].stage = stage
  BY <1>1 DEF ActiveRequests
<1> QED
  BY <1>1, <1>2 DEF Stays, ActiveRequests, Stages, Inserted, Idle

LEMMA WritesEffect ==
  ASSUME TypeOK, NEW p \in Requests, request[p] \in ActiveRequests,
         NEW stage \in Stages, NEW r, Writes(p, r, stage)
  PROVE  /\ Stays(p)
         /\ request'[p].stage = stage
         /\ request'[p].contact = r
         /\ request'[p].entry = request[p].entry
         /\ request'[p].masked = request[p].masked
         /\ UNCHANGED <<listVars, kind, providerVars, claimed, stored, ghostVars>>
<1>1. request'[p] = [request[p] EXCEPT !.contact = r, !.stage = stage] /\ Alone(p)
  BY DEF Writes, TypeOK, Alone
<1>2. request'[p].stage = stage /\ stage # "idle"
  BY <1>1 DEF ActiveRequests, Stages, Inserted
<1>3. /\ request'[p] # Idle
      /\ request'[p].contact = r
      /\ request'[p].entry = request[p].entry
      /\ request'[p].masked = request[p].masked
      /\ request'[p].event = request[p].event
      /\ request'[p].awaited = request[p].awaited
  BY <1>1, <1>2 DEF ActiveRequests, Idle
<1>4. UNCHANGED <<listVars, kind, providerVars, claimed, stored, ghostVars>>
  BY DEF Writes
<1> QED
  BY <1>1, <1>2, <1>3, <1>4 DEF Stays

LEMMA ListEffect ==
  ASSUME TypeOK, NEW p \in Requests, ListAddress(p)
  PROVE  /\ Stays(p)
         /\ request'[p].stage = IF Why(p) = "manual" THEN "ready" ELSE "marking"
         /\ request'[p].contact = request[p].contact
         /\ request'[p].entry = IF reason = "none" THEN Why(p) ELSE "none"
         /\ request'[p].masked = (reason \in Removable /\ Kind(p) \in Evidence)
<1>1. request[p] \in ActiveRequests
  BY AtAStageOrIdle, StageType DEF ListAddress, Inserted
<1>2. /\ request'[p] = [request[p] EXCEPT
           !.entry  = IF reason = "none" THEN Why(p) ELSE "none",
           !.masked = reason \in Removable /\ Kind(p) \in Evidence,
           !.stage  = IF Why(p) = "manual" THEN "ready" ELSE "marking"]
      /\ Alone(p)
  BY DEF ListAddress, TypeOK, Alone
<1>3. request'[p].stage \in Stages /\ request'[p].stage # "idle"
  BY <1>1, <1>2 DEF ActiveRequests, Stages, Inserted
<1> QED
  BY <1>1, <1>2, <1>3 DEF Stays, ActiveRequests, Idle

LEMMA CommitEffect ==
  ASSUME TypeOK, NEW p \in Requests, Commit(p)
  PROVE  /\ Stays(p)
         /\ request'[p].stage = "committed"
         /\ request'[p].contact = Absent
         /\ request'[p].entry = "none"
<1>1. request[p] \in ActiveRequests
  BY AtAStageOrIdle, StageType DEF Commit, Inserted
<1>2. /\ request'[p] = [request[p] EXCEPT !.stage = "committed", !.entry = "none",
                                         !.contact = Absent]
      /\ Alone(p)
  BY DEF Commit, TypeOK, Alone
<1>3. request'[p].stage = "committed"
  BY <1>1, <1>2 DEF ActiveRequests
<1> QED
  BY <1>1, <1>2, <1>3 DEF Stays, ActiveRequests, Idle, Stages

LEMMA AbortEffect ==
  ASSUME TypeOK, NEW p \in Requests, request[p] \in ActiveRequests, Abort(p)
  PROVE  /\ Stays(p)
         /\ request'[p].stage = "failed"
         /\ request'[p].contact = Absent
         /\ request'[p].entry = "none"
<1>1. /\ request'[p] = [request[p] EXCEPT !.stage = "failed", !.entry = "none",
                                         !.contact = Absent]
      /\ Alone(p)
  BY DEF Abort, TypeOK, Alone
<1>2. request'[p].stage = "failed"
  BY <1>1 DEF ActiveRequests
<1> QED
  BY <1>1, <1>2 DEF Stays, ActiveRequests, Idle, Stages

LEMMA EndEffect ==
  ASSUME TypeOK, NEW p \in Requests, NEW verdict, End(p, verdict)
  PROVE  Ends(p)
  BY DEF TypeOK, End, Ends, Alone

LEMMA DeliverEffect ==
  ASSUME TypeOK, NEW p \in Requests, NEW e \in Events, Deliver(e, p)
  PROVE  /\ Alone(p)
         /\ request'[p].stage = "claiming" /\ request'[p] # Idle
         /\ request'[p].event = e /\ request'[p].awaited
         /\ request'[p].contact = Absent /\ request'[p].entry = "none"
<1>1. /\ request'[p] = [stage |-> "claiming", event |-> e, awaited |-> TRUE,
                        entry |-> "none", contact |-> Absent, masked |-> FALSE]
      /\ Alone(p)
  BY DEF Deliver, TypeOK, Alone
<1>2. request'[p].stage = "claiming"
  BY <1>1
<1> QED
  BY <1>1, <1>2 DEF Idle

LEMMA TimesOutEffect ==
  ASSUME TypeOK, NEW e \in Events, TimesOut(e), NEW q \in Requests
  PROVE  /\ request'[q].stage = request[q].stage
         /\ request'[q].contact = request[q].contact
         /\ request'[q].entry = request[q].entry
         /\ request'[q].masked = request[q].masked
         /\ request'[q].event = request[q].event
         /\ request'[q] # Idle <=> request[q] # Idle
         /\ request[q] # Idle =>
              request'[q].awaited = (request[q].awaited /\ Event(q) # e)
<1>1. CASE request[q] # Idle /\ Event(q) = e
  <2>1. request[q] \in ActiveRequests
    BY <1>1, AtAStageOrIdle
  <2>2. request'[q] = [request[q] EXCEPT !.awaited = FALSE]
    BY <1>1 DEF TimesOut
  <2>3. /\ request'[q].stage = request[q].stage /\ request[q].stage # "idle"
        /\ request'[q].awaited = FALSE
        /\ request'[q].contact = request[q].contact
        /\ request'[q].entry = request[q].entry
        /\ request'[q].masked = request[q].masked
        /\ request'[q].event = request[q].event
    BY <2>1, <2>2 DEF ActiveRequests, Stages, Inserted
  <2>4. request'[q] # Idle
    BY <2>3 DEF Idle
  <2>5. request'[q].awaited = (request[q].awaited /\ Event(q) # e)
    BY <1>1, <2>3, Zenon
  <2> QED
    BY <1>1, <2>3, <2>4, <2>5
<1>2. CASE ~(request[q] # Idle /\ Event(q) = e)
  <2>1. request'[q] = request[q]
    BY <1>2 DEF TimesOut
  <2>2. request[q] # Idle => request[q].awaited \in BOOLEAN
    BY AtAStageOrIdle DEF ActiveRequests
  <2> QED
    BY <1>2, <2>1, <2>2
<1> QED
  BY <1>1, <1>2

-----------------------------------------------------------------------------
(* Kinds *)

LEMMA KindNext == TypeOK /\ KindInv /\ [Next]_ingestVars => KindInv'
<1> SUFFICES ASSUME TypeOK, KindInv, [Next]_ingestVars, NEW q \in Requests
             PROVE  KindAt(q)'
  BY DEF KindInv
<1>0. ASSUME request'[q] = request[q], kind' = kind PROVE KindAt(q)'
  BY <1>0 DEF KindInv, KindAt, Kind, Event
<1>1. ASSUME NEW p \in Requests, Ends(p), kind' = kind PROVE KindAt(q)'
  BY <1>0, <1>1 DEF Ends, Alone, KindAt, Idle
<1>2. ASSUME NEW p \in Requests, Stays(p), kind' = kind,
             request'[p].stage \in {"inserting", "ready", "failed", "committed"}
      PROVE  KindAt(q)'
  BY <1>0, <1>2 DEF Stays, Alone, KindAt
<1>3. ASSUME NEW e \in Events, NEW p \in Requests, Deliver(e, p) PROVE KindAt(q)'
  BY <1>0, <1>3, DeliverEffect DEF Deliver, Alone, KindAt
<1>4. ASSUME NEW e \in Events, TimesOut(e) PROVE KindAt(q)'
  BY <1>4, TimesOutEffect DEF TimesOut, KindInv, KindAt, Kind, Event
<1>5. ASSUME NEW e \in Events, Evict(e) PROVE KindAt(q)'
  BY <1>0, <1>5 DEF Evict
<1>6. ASSUME NEW p \in Requests, RequestStep(p) PROVE KindAt(q)'
  <2>0. request[p].stage \in Stages => request[p] \in ActiveRequests /\ Kind(p) \in Kinds
    BY AtAStageOrIdle
  <2>1. CASE Claim(p)
    BY <1>1, <1>2, <2>0, <2>1, EndEffect, ProceedEffect, StageType DEF Claim
  <2>2. CASE InsertEvent(p)
    <3>1. request[p] \in ActiveRequests /\ Kind(p) \in Kinds
      BY <2>0, <2>2, StageType DEF InsertEvent
    <3>2. CASE Event(p) \in stored
      BY <1>1, <2>2, <3>2, EndEffect DEF InsertEvent
    <3>3. CASE Event(p) \notin stored
      <4>1. Stays(p) /\ request'[p].stage = FirstStatement(Kind(p)) /\ kind' = kind
        BY <2>2, <3>1, <3>3, ProceedEffect, StageType DEF InsertEvent
      <4>2. KindAt(p)'
        BY <3>1, <4>1 DEF KindAt, FirstStatement, Kind, Event, Kinds, Stays
      <4> QED
        BY <1>0, <4>1, <4>2 DEF Stays, Alone
    <3> QED
      BY <3>2, <3>3
  <2>3. CASE ResetCount(p)
    BY <1>2, <2>0, <2>3, WritesEffect, StageType DEF ResetCount, Inserted
  <2>4. CASE CountBounce(p)
    <3>1. Kind(p) = "soft_bounce"
      BY <2>4 DEF CountBounce, KindInv, KindAt
    <3>2. /\ Stays(p) /\ kind' = kind
          /\ request'[p].stage \in {"listing", "ready"}
      BY <2>0, <2>4, WritesEffect, StageType DEF CountBounce, Inserted
    <3>3. KindAt(p)'
      BY <3>1, <3>2 DEF KindAt, Kind, Event, Stays
    <3> QED
      BY <1>0, <3>2, <3>3 DEF Stays, Alone
  <2>5. CASE ListAddress(p)
    <3>1. Kind(p) \notin {"delivered", "other"} /\ kind' = kind
      BY <2>5 DEF ListAddress, KindInv, KindAt
    <3>2. /\ Stays(p)
          /\ request'[p].stage = IF Why(p) = "manual" THEN "ready" ELSE "marking"
      BY <2>5, ListEffect
    <3>3. KindAt(p)'
      BY <3>1, <3>2 DEF KindAt, Kind, Event, Stays, Why
    <3> QED
      BY <1>0, <3>1, <3>2, <3>3 DEF Stays, Alone
  <2>6. CASE MarkContact(p)
    BY <1>2, <2>0, <2>6, WritesEffect, StageType DEF MarkContact, Inserted
  <2>7. CASE Commit(p)
    BY <1>2, <2>7, CommitEffect DEF Commit
  <2>8. CASE Announce(p)
    BY <1>1, <2>8, EndEffect DEF Announce
  <2>9. CASE DeadlockVictim(p)
    BY <1>2, <2>0, <2>9, AbortEffect, StageType DEF DeadlockVictim, WaitsFor, Inserted
  <2>10. CASE ReleaseClaim(p)
    BY <1>1, <2>10, EndEffect DEF ReleaseClaim
  <2> QED
    BY <1>6, <2>1, <2>2, <2>3, <2>4, <2>5, <2>6, <2>7, <2>8, <2>9, <2>10 DEF RequestStep
<1>7. ASSUME NEW p \in Requests, RequestFault(p) PROVE KindAt(q)'
  <2>0. request[p].stage \in Stages => request[p] \in ActiveRequests
    BY AtAStageOrIdle
  <2>1. CASE ClaimFailsOpen(p)
    BY <1>2, <2>0, <2>1, ProceedEffect, StageType DEF ClaimFailsOpen
  <2>2. CASE AnnounceFails(p)
    BY <1>1, <2>2, EndEffect DEF AnnounceFails
  <2>3. CASE RollBack(p)
    BY <1>2, <2>0, <2>3, AbortEffect, StageType DEF RollBack
  <2>4. CASE ReleaseFailsOpen(p)
    BY <1>1, <2>4, EndEffect DEF ReleaseFailsOpen
  <2>5. CASE Die(p)
    BY <1>1, <2>5, EndEffect DEF Die
  <2> QED
    BY <1>7, <2>1, <2>2, <2>3, <2>4, <2>5 DEF RequestFault
<1>8. CASE PeopleAct
  BY <1>0, <1>8 DEF PeopleAct
<1>9. CASE UNCHANGED ingestVars
  BY <1>0, <1>9 DEF ingestVars
<1> QED
  BY <1>3, <1>4, <1>5, <1>6, <1>7, <1>8, <1>9 DEF Next

-----------------------------------------------------------------------------
(* Events *)

\* A request that is past the insertion after a step was so before, at the same
\* side of the commit.
SameSide(q) ==
  request'[q].stage \in Past =>
    /\ request'[q].event = request[q].event
    /\ \/ request'[q].stage = request[q].stage
       \/ request'[q].stage \in Inserted /\ request[q].stage \in Inserted

LEMMA EventsQuiet ==
  ASSUME EventsInv, UNCHANGED <<stored, announced>>, \A q \in Requests : SameSide(q)
  PROVE  EventsInv'
<1>1. AnnouncedOnceAndStored'
  BY DEF EventsInv, AnnouncedOnceAndStored
<1>2. ASSUME NEW p \in Requests
      PROVE  /\ request'[p].stage \in Inserted => Event(p)' \notin stored'
             /\ request'[p].stage = "committed" =>
                  Event(p)' \in stored' /\ announced'[Event(p)'] = 0
             /\ \A q \in Requests \ {p} :
                  request'[p].stage \in Past /\ request'[q].stage \in Past
                    => Event(p)' # Event(q)'
  BY <1>2 DEF EventsInv, SameSide, Past, Inserted, Event
<1> QED
  BY <1>1, <1>2 DEF EventsInv

LEMMA EventsNext == TypeOK /\ EventsInv /\ [Next]_ingestVars => EventsInv'
<1> SUFFICES ASSUME TypeOK, EventsInv, [Next]_ingestVars PROVE EventsInv'
  OBVIOUS
<1>0. \A q \in Requests : request'[q] = request[q] => SameSide(q)
  BY DEF SameSide
<1>1. ASSUME NEW p \in Requests, Ends(p) PROVE \A q \in Requests : SameSide(q)
  BY <1>0, <1>1 DEF Ends, Alone, SameSide, Idle, Past, Inserted
<1>2. ASSUME NEW p \in Requests, Stays(p), request'[p].stage \in {"inserting", "failed"}
      PROVE  \A q \in Requests : SameSide(q)
  BY <1>0, <1>2 DEF Stays, Alone, SameSide, Past, Inserted
<1>3. ASSUME NEW p \in Requests, Stays(p), request[p].stage \in Inserted,
             request'[p].stage \in Inserted
      PROVE  \A q \in Requests : SameSide(q)
  BY <1>0, <1>3 DEF Stays, Alone, SameSide, Past
<1>4. ASSUME NEW e \in Events, NEW p \in Requests, Deliver(e, p) PROVE EventsInv'
  <2>1. \A q \in Requests : SameSide(q)
    BY <1>0, <1>4, DeliverEffect DEF Alone, SameSide, Past, Inserted
  <2> QED
    BY <1>4, <2>1, EventsQuiet DEF Deliver, ghostVars
<1>5. ASSUME NEW e \in Events, TimesOut(e) PROVE EventsInv'
  <2>1. \A q \in Requests : SameSide(q)
    BY <1>5, TimesOutEffect DEF SameSide
  <2> QED
    BY <1>5, <2>1, EventsQuiet DEF TimesOut, ghostVars
<1>6. ASSUME NEW e \in Events, Evict(e) PROVE EventsInv'
  BY <1>0, <1>6, EventsQuiet DEF Evict, ghostVars
<1>7. ASSUME NEW p \in Requests, RequestStep(p) PROVE EventsInv'
  <2>0. request[p].stage \in Stages => request[p] \in ActiveRequests /\ Kind(p) \in Kinds
    BY AtAStageOrIdle
  <2>1. CASE Claim(p)
    <3>1. \A q \in Requests : SameSide(q)
      BY <1>1, <1>2, <2>0, <2>1, EndEffect, ProceedEffect, StageType DEF Claim
    <3> QED
      BY <2>1, <3>1, EventsQuiet DEF Claim, ghostVars
  <2>2. CASE InsertEvent(p)
    <3>1. UNCHANGED <<stored, announced>>
      BY <2>2 DEF InsertEvent, ghostVars
    <3>2. CASE Event(p) \in stored
      BY <1>1, <2>2, <3>1, <3>2, EndEffect, EventsQuiet DEF InsertEvent
    <3>3. CASE Event(p) \notin stored
      <4>1. Stays(p) /\ request'[p].stage \in Inserted
        BY <2>0, <2>2, <3>3, ProceedEffect, StageType DEF InsertEvent
      <4>2. /\ Event(p)' = Event(p)
            /\ \A q \in Requests \ {p} : request'[q] = request[q] /\ Event(q)' = Event(q)
        BY <4>1 DEF Stays, Alone, Event
      <4>3. \A q \in Requests \ {p} : request[q].stage \in Past => Event(q) # Event(p)
        BY <2>2, <3>3 DEF InsertEvent, HoldsEvent, EventsInv, Past
      <4>4. AnnouncedOnceAndStored'
        BY <3>1 DEF EventsInv, AnnouncedOnceAndStored
      <4>5. request'[p].stage # "committed"
        BY <4>1 DEF Inserted
      <4> QED
        BY <3>1, <3>3, <4>1, <4>2, <4>3, <4>4, <4>5 DEF EventsInv
    <3> QED
      BY <3>2, <3>3
  <2>3. CASE ResetCount(p)
    <3>1. Stays(p) /\ request'[p].stage \in Inserted /\ UNCHANGED <<stored, announced>>
      BY <2>0, <2>3, WritesEffect, StageType DEF ResetCount, Inserted, ghostVars
    <3> QED
      BY <1>3, <2>3, <3>1, EventsQuiet DEF ResetCount, Inserted
  <2>4. CASE CountBounce(p)
    <3>1. Stays(p) /\ request'[p].stage \in Inserted /\ UNCHANGED <<stored, announced>>
      BY <2>0, <2>4, WritesEffect, StageType DEF CountBounce, Inserted, ghostVars
    <3> QED
      BY <1>3, <2>4, <3>1, EventsQuiet DEF CountBounce, Inserted
  <2>5. CASE ListAddress(p)
    <3>1. Stays(p) /\ request'[p].stage \in Inserted
      BY <2>5, ListEffect DEF Inserted
    <3> QED
      BY <1>3, <2>5, <3>1, EventsQuiet DEF ListAddress, Inserted, ghostVars
  <2>6. CASE MarkContact(p)
    <3>1. Stays(p) /\ request'[p].stage \in Inserted /\ UNCHANGED <<stored, announced>>
      BY <2>0, <2>6, WritesEffect, StageType DEF MarkContact, Inserted, ghostVars
    <3> QED
      BY <1>3, <2>6, <3>1, EventsQuiet DEF MarkContact, Inserted
  <2>7. CASE Commit(p)
    <3>1. /\ Stays(p) /\ request'[p].stage = "committed"
          /\ request[p].stage \in Inserted /\ Event(p) \in Events
          /\ stored' = stored \cup {Event(p)} /\ announced' = announced
      BY <2>7, CommitEffect, AtAStageOrIdle, StageType DEF Commit, Inserted
    <3>2. /\ Event(p)' = Event(p)
          /\ \A q \in Requests \ {p} : request'[q] = request[q] /\ Event(q)' = Event(q)
      BY <3>1 DEF Stays, Alone, Event
    <3>3. \A q \in Requests \ {p} : request[q].stage \in Past => Event(q) # Event(p)
      BY <3>1 DEF EventsInv, Past
    <3>4. announced[Event(p)] = 0
      BY <3>1 DEF EventsInv, AnnouncedOnceAndStored, TypeOK
    <3>5. AnnouncedOnceAndStored'
      BY <3>1 DEF EventsInv, AnnouncedOnceAndStored
    <3>6. request'[p].stage \notin Inserted
      BY <3>1 DEF Inserted
    <3> QED
      BY <3>1, <3>2, <3>3, <3>4, <3>5, <3>6 DEF EventsInv, Past
  <2>8. CASE Announce(p)
    <3>1. /\ Ends(p) /\ request[p].stage = "committed" /\ Event(p) \in Events
          /\ announced' = [announced EXCEPT ![Event(p)] = @ + 1] /\ stored' = stored
      BY <2>8, EndEffect, AtAStageOrIdle, StageType DEF Announce
    <3>2. Event(p) \in stored /\ announced[Event(p)] = 0
      BY <3>1 DEF EventsInv
    <3>3. AnnouncedOnceAndStored'
      BY <3>1, <3>2 DEF EventsInv, AnnouncedOnceAndStored, TypeOK
    <3>4. request'[p].stage \notin Past
      BY <3>1 DEF Ends, Idle, Past, Inserted
    <3>5. \A q \in Requests \ {p} : /\ request'[q] = request[q] /\ Event(q)' = Event(q)
                                    /\ request[q].stage \in Past => Event(q) # Event(p)
      BY <3>1 DEF Ends, Alone, Event, EventsInv, Past
    <3>6. \A q \in Requests \ {p} :
            request[q].stage = "committed" => announced'[Event(q)] = 0
      BY <3>1, <3>5, AtAStageOrIdle, StageType DEF EventsInv, Past, TypeOK
    <3> QED
      BY <3>1, <3>3, <3>4, <3>5, <3>6 DEF EventsInv, Past
  <2>9. CASE DeadlockVictim(p)
    <3>1. \A q \in Requests : SameSide(q)
      BY <1>2, <2>0, <2>9, AbortEffect, StageType DEF DeadlockVictim, WaitsFor, Inserted
    <3> QED
      BY <2>9, <3>1, EventsQuiet DEF DeadlockVictim, ghostVars
  <2>10. CASE ReleaseClaim(p)
    BY <1>1, <2>10, EndEffect, EventsQuiet DEF ReleaseClaim
  <2> QED
    BY <1>7, <2>1, <2>2, <2>3, <2>4, <2>5, <2>6, <2>7, <2>8, <2>9, <2>10 DEF RequestStep
<1>8. ASSUME NEW p \in Requests, RequestFault(p) PROVE EventsInv'
  <2>0. request[p].stage \in Stages => request[p] \in ActiveRequests
    BY AtAStageOrIdle
  <2>1. CASE ClaimFailsOpen(p)
    BY <1>2, <2>0, <2>1, ProceedEffect, StageType, EventsQuiet
    DEF ClaimFailsOpen, ghostVars
  <2>2. CASE AnnounceFails(p)
    BY <1>1, <2>2, EndEffect, EventsQuiet DEF AnnounceFails, ghostVars
  <2>3. CASE RollBack(p)
    BY <1>2, <2>0, <2>3, AbortEffect, StageType, EventsQuiet DEF RollBack, ghostVars
  <2>4. CASE ReleaseFailsOpen(p)
    BY <1>1, <2>4, EndEffect, EventsQuiet DEF ReleaseFailsOpen
  <2>5. CASE Die(p)
    BY <1>1, <2>5, EndEffect, EventsQuiet DEF Die
  <2> QED
    BY <1>8, <2>1, <2>2, <2>3, <2>4, <2>5 DEF RequestFault
<1>9. CASE PeopleAct
  BY <1>0, <1>9, EventsQuiet DEF PeopleAct, ghostVars
<1>10. CASE UNCHANGED ingestVars
  BY <1>0, <1>10, EventsQuiet DEF ingestVars, ghostVars
<1> QED
  BY <1>4, <1>5, <1>6, <1>7, <1>8, <1>9, <1>10 DEF Next

-----------------------------------------------------------------------------
(* The contact *)

\* A request holds the contact as before, or does not hold it and need not.
SameHold(q) ==
  \/ /\ request'[q].contact = request[q].contact
     /\ request'[q].event = request[q].event
     /\ request'[q].stage = request[q].stage
  \/ /\ request'[q].contact = Absent
     /\ request'[q].stage \notin {"listing", "marking"} \/ Kind(q)' # "soft_bounce"

LEMMA ContactQuiet ==
  ASSUME ContactInv, UNCHANGED <<contact, kind>>, \A q \in Requests : SameHold(q)
  PROVE  ContactInv'
<1>1. AtTheLimitIsBarred'
  BY DEF ContactInv, AtTheLimitIsBarred
<1>2. \A q \in Requests : HoldsContact(q)' =>
        /\ HoldsContact(q)
        /\ request'[q].contact = request[q].contact
        /\ request'[q].stage = request[q].stage
        /\ Kind(q)' = Kind(q)
  BY DEF SameHold, HoldsContact, Kind, Event
<1>3. ASSUME NEW p \in Requests, HoldsContact(p)' PROVE Holding(p)' /\ ContactFreeFor(p)'
  <2>1. Holding(p) /\ ContactFreeFor(p)
    BY <1>2, <1>3 DEF ContactInv
  <2>2. Holding(p)'
    BY <1>2, <1>3, <2>1 DEF Holding, NewCount
  <2>3. ContactFreeFor(p)'
    BY <1>2, <2>1 DEF ContactFreeFor
  <2> QED
    BY <2>2, <2>3
<1>4. ASSUME NEW p \in Requests, request'[p].stage \in {"listing", "marking"},
             Kind(p)' = "soft_bounce"
      PROVE  HoldsContact(p)'
  BY <1>4 DEF SameHold, ContactInv, HoldsContact, Kind, Event
<1> QED
  BY <1>1, <1>3, <1>4 DEF ContactInv

\* One request takes the contact, or goes on holding it.
LEMMA ContactTaken ==
  ASSUME TypeOK, ContactInv, NEW p \in Requests, Stays(p), UNCHANGED <<contact, kind>>,
         ContactFreeFor(p), Holding(p)', request'[p].contact # Absent
  PROVE  ContactInv'
<1>1. AtTheLimitIsBarred'
  BY DEF ContactInv, AtTheLimitIsBarred
<1>2. HoldsContact(p)'
  BY DEF HoldsContact
<1>3. \A q \in Requests \ {p} : /\ request'[q] = request[q] /\ Kind(q)' = Kind(q)
                                /\ ~HoldsContact(q) /\ ~HoldsContact(q)'
  BY DEF Stays, Alone, ContactFreeFor, HoldsContact, Kind, Event
<1>4. ContactFreeFor(p)'
  BY <1>3 DEF ContactFreeFor
<1> QED
  BY <1>1, <1>2, <1>3, <1>4 DEF ContactInv

LEMMA ContactNext == TypeOK /\ KindInv /\ ContactInv /\ [Next]_ingestVars => ContactInv'
<1> SUFFICES ASSUME TypeOK, KindInv, ContactInv, [Next]_ingestVars PROVE ContactInv'
  OBVIOUS
<1>0. \A q \in Requests : request'[q] = request[q] => SameHold(q)
  BY DEF SameHold
<1>1. ASSUME NEW p \in Requests, Ends(p) PROVE \A q \in Requests : SameHold(q)
  BY <1>0, <1>1 DEF Ends, Alone, SameHold, Idle
<1>2. ASSUME NEW p \in Requests, Stays(p), request'[p].contact = Absent,
             request'[p].stage \in {"inserting", "ready", "failed", "committed"}
      PROVE  \A q \in Requests : SameHold(q)
  BY <1>0, <1>2 DEF Stays, Alone, SameHold
<1>3. \A p \in Requests : request[p].stage \notin {"listing", "marking", "ready"} =>
        request[p].contact = Absent
  BY DEF ContactInv, Holding, HoldsContact
<1>4. ASSUME NEW e \in Events, NEW p \in Requests, Deliver(e, p) PROVE ContactInv'
  <2>1. \A q \in Requests : SameHold(q)
    BY <1>0, <1>4, DeliverEffect DEF Alone, SameHold
  <2> QED
    BY <1>4, <2>1, ContactQuiet DEF Deliver, listVars
<1>5. ASSUME NEW e \in Events, TimesOut(e) PROVE ContactInv'
  <2>1. \A q \in Requests : SameHold(q)
    BY <1>5, TimesOutEffect DEF SameHold
  <2> QED
    BY <1>5, <2>1, ContactQuiet DEF TimesOut, listVars
<1>6. ASSUME NEW e \in Events, Evict(e) PROVE ContactInv'
  BY <1>0, <1>6, ContactQuiet DEF Evict, listVars
<1>7. ASSUME NEW p \in Requests, RequestStep(p) PROVE ContactInv'
  <2>0. request[p].stage \in Stages => request[p] \in ActiveRequests /\ Kind(p) \in Kinds
    BY AtAStageOrIdle
  <2>1. CASE Claim(p)
    <3>1. \A q \in Requests : SameHold(q)
      BY <1>1, <1>2, <1>3, <2>0, <2>1, EndEffect, ProceedEffect, StageType DEF Claim
    <3> QED
      BY <2>1, <3>1, ContactQuiet DEF Claim, listVars
  <2>2. CASE InsertEvent(p)
    <3>1. UNCHANGED <<contact, kind>>
      BY <2>2 DEF InsertEvent, listVars
    <3>2. CASE Event(p) \in stored
      BY <1>1, <2>2, <3>1, <3>2, EndEffect, ContactQuiet DEF InsertEvent
    <3>3. CASE Event(p) \notin stored
      <4>1. /\ Stays(p) /\ request'[p].stage = FirstStatement(Kind(p))
            /\ request'[p].contact = Absent
        BY <1>3, <2>0, <2>2, <3>3, ProceedEffect, StageType DEF InsertEvent
      <4>2. Kind(p)' = Kind(p)
        BY <3>1, <4>1 DEF Stays, Kind, Event
      <4>3. SameHold(p)
        BY <4>1, <4>2 DEF SameHold, FirstStatement
      <4> QED
        BY <1>0, <3>1, <4>1, <4>3, ContactQuiet DEF Stays, Alone
    <3> QED
      BY <3>2, <3>3
  <2>3. CASE ResetCount(p)
    <3>1. request[p] \in ActiveRequests /\ Kind(p) = "delivered"
      BY <2>0, <2>3, StageType DEF ResetCount, Inserted, KindInv, KindAt
    <3>2. CASE contact.count = 0
      BY <1>2, <2>3, <3>1, <3>2, WritesEffect, StageType, ContactQuiet
      DEF ResetCount, Inserted, listVars
    <3>3. CASE contact.count # 0
      <4>1. /\ Stays(p) /\ request'[p].stage = "ready" /\ UNCHANGED <<contact, kind>>
            /\ request'[p].contact = [contact EXCEPT !.count = 0]
            /\ ContactFreeFor(p)
        BY <2>3, <3>1, <3>3, WritesEffect, StageType DEF ResetCount, Inserted, listVars
      <4>2. contact # Absent /\ contact \in ContactRows
        BY <3>3 DEF Absent, TypeOK, ListTypeOK
      <4>3. request'[p].contact.count = 0 /\ request'[p].contact # Absent
        BY <4>1, <4>2, CountedType DEF ContactRows, Absent
      <4>4. Holding(p)'
        BY <3>1, <4>1, <4>2, <4>3, SuppressionAssumption
        DEF Holding, NewCount, Kind, Event, Stays
      <4> QED
        BY <4>1, <4>3, <4>4, ContactTaken
    <3> QED
      BY <3>2, <3>3
  <2>4. CASE CountBounce(p)
    <3>1. request[p] \in ActiveRequests /\ Kind(p) = "soft_bounce"
      BY <2>0, <2>4, StageType DEF CountBounce, Inserted, KindInv, KindAt
    <3>2. CASE contact = Absent
      BY <1>2, <2>4, <3>1, <3>2, WritesEffect, StageType, ContactQuiet
      DEF CountBounce, Inserted, listVars
    <3>3. CASE contact # Absent
      <4> DEFINE counted == [contact EXCEPT !.count = @ + 1]
      <4>0. counted \in ContactRows /\ counted.count = contact.count + 1
        BY <3>3, CountedType DEF TypeOK, ListTypeOK, ContactRows
      <4>1. /\ Stays(p) /\ UNCHANGED <<contact, kind>>
            /\ request'[p].stage =
                 IF counted.count >= SoftBounceLimit THEN "listing" ELSE "ready"
            /\ request'[p].contact = counted
            /\ ContactFreeFor(p)
        BY <2>4, <3>1, <3>3, WritesEffect, StageType DEF CountBounce, Inserted, listVars
      <4> HIDE DEF counted
      <4>2. request'[p].contact # Absent
        BY <4>0, <4>1 DEF ContactRows, Absent
      <4>3. Holding(p)'
        BY <3>1, <3>3, <4>0, <4>1 DEF Holding, NewCount, Kind, Event, Stays
      <4> QED
        BY <4>1, <4>2, <4>3, ContactTaken
    <3> QED
      BY <3>2, <3>3
  <2>5. CASE ListAddress(p)
    <3>1. /\ Stays(p) /\ request'[p].contact = request[p].contact
          /\ request'[p].stage = IF Why(p) = "manual" THEN "ready" ELSE "marking"
          /\ request[p].stage = "listing" /\ UNCHANGED <<contact, kind>>
      BY <2>5, ListEffect DEF ListAddress, listVars
    <3>2. Kind(p)' = Kind(p)
      BY <3>1 DEF Stays, Kind, Event
    <3>3. CASE HoldsContact(p)
      <4>1. Holding(p) /\ ContactFreeFor(p) /\ Kind(p) = "soft_bounce"
        BY <3>1, <3>3 DEF ContactInv, Holding
      <4>2. request'[p].stage = "marking"
        BY <3>1, <4>1 DEF Why
      <4>3. Holding(p)' /\ request'[p].contact # Absent
        BY <3>1, <3>2, <3>3, <4>1, <4>2 DEF Holding, NewCount, HoldsContact
      <4> QED
        BY <3>1, <4>1, <4>3, ContactTaken
    <3>4. CASE ~HoldsContact(p)
      <4>1. Kind(p) # "soft_bounce"
        BY <3>1, <3>4 DEF ContactInv
      <4>2. SameHold(p)
        BY <3>1, <3>2, <3>4, <4>1 DEF SameHold, HoldsContact
      <4> QED
        BY <1>0, <3>1, <4>2, ContactQuiet DEF Stays, Alone
    <3> QED
      BY <3>3, <3>4
  <2>6. CASE MarkContact(p)
    <3>1. /\ request[p] \in ActiveRequests
          /\ Kind(p) \notin {"delivered", "other", "manual"}
      BY <2>0, <2>6, StageType DEF MarkContact, Inserted, KindInv, KindAt
    <3>2. CASE contact = Absent
      BY <1>2, <2>6, <3>1, <3>2, WritesEffect, StageType, ContactQuiet
      DEF MarkContact, Inserted, listVars
    <3>3. CASE contact # Absent
      <4> DEFINE marked == [SeenContact(p) EXCEPT !.status = StatusFor(Why(p))]
      <4>0. SeenContact(p) \in ContactRows
        BY <3>3, AtAStageOrIdle DEF SeenContact, HoldsContact, TypeOK, ListTypeOK
      <4>1. /\ marked \in ContactRows /\ marked.count = SeenContact(p).count
            /\ marked.status # "active"
        BY <4>0 DEF ContactRows, StatusFor
      <4>2. /\ Stays(p) /\ UNCHANGED <<contact, kind>>
            /\ request'[p].stage = "ready"
            /\ request'[p].contact = marked
            /\ ContactFreeFor(p)
        BY <2>6, <3>1, <3>3, WritesEffect, StageType DEF MarkContact, Inserted, listVars
      <4> HIDE DEF marked
      <4>3. SeenContact(p).count = NewCount(p)
        BY <2>6, <3>1 DEF MarkContact, SeenContact, ContactInv, Holding, NewCount
      <4>4. request'[p].contact # Absent
        BY <4>1, <4>2 DEF ContactRows, Absent
      <4>5. NewCount(p)' = NewCount(p)
        BY <4>2 DEF NewCount, Kind, Event, Stays
      <4>6. Holding(p)'
        BY <3>3, <4>1, <4>2, <4>3, <4>5 DEF Holding
      <4> QED
        BY <4>2, <4>4, <4>6, ContactTaken
    <3> QED
      BY <3>2, <3>3
  <2>7. CASE Commit(p)
    <3>1. /\ Stays(p) /\ request'[p].contact = Absent
          /\ request'[p].stage = "committed" /\ request[p].stage = "ready"
          /\ kind' = kind /\ contact' = SeenContact(p)
      BY <2>7, CommitEffect DEF Commit
    <3>2. CASE ~HoldsContact(p)
      BY <1>2, <3>1, <3>2, ContactQuiet DEF SeenContact
    <3>3. CASE HoldsContact(p)
      <4>1. Holding(p) /\ ContactFreeFor(p)
        BY <3>3 DEF ContactInv
      <4>2. AtTheLimitIsBarred'
        BY <3>1, <3>3, <4>1 DEF Holding, SeenContact, AtTheLimitIsBarred
      <4>3. \A q \in Requests \ {p} : request'[q] = request[q] /\ Kind(q)' = Kind(q)
        BY <3>1 DEF Stays, Alone, Kind, Event
      <4>4. \A q \in Requests : ~HoldsContact(q)'
        BY <3>1, <4>1, <4>3 DEF ContactFreeFor, HoldsContact
      <4>5. \A q \in Requests : request'[q].stage \in {"listing", "marking"} =>
              Kind(q)' # "soft_bounce"
        BY <3>1, <4>1, <4>3 DEF ContactFreeFor, ContactInv
      <4> QED
        BY <4>2, <4>4, <4>5 DEF ContactInv
    <3> QED
      BY <3>2, <3>3
  <2>8. CASE Announce(p)
    BY <1>1, <2>8, EndEffect, ContactQuiet DEF Announce, listVars
  <2>9. CASE DeadlockVictim(p)
    <3>1. \A q \in Requests : SameHold(q)
      BY <1>2, <2>0, <2>9, AbortEffect, StageType DEF DeadlockVictim, WaitsFor, Inserted
    <3> QED
      BY <2>9, <3>1, ContactQuiet DEF DeadlockVictim, listVars
  <2>10. CASE ReleaseClaim(p)
    BY <1>1, <2>10, EndEffect, ContactQuiet DEF ReleaseClaim, listVars
  <2> QED
    BY <1>7, <2>1, <2>2, <2>3, <2>4, <2>5, <2>6, <2>7, <2>8, <2>9, <2>10 DEF RequestStep
<1>8. ASSUME NEW p \in Requests, RequestFault(p) PROVE ContactInv'
  <2>0. request[p].stage \in Stages => request[p] \in ActiveRequests
    BY AtAStageOrIdle
  <2>1. CASE ClaimFailsOpen(p)
    BY <1>2, <1>3, <2>0, <2>1, ProceedEffect, StageType, ContactQuiet
    DEF ClaimFailsOpen, listVars
  <2>2. CASE AnnounceFails(p)
    BY <1>1, <2>2, EndEffect, ContactQuiet DEF AnnounceFails, listVars
  <2>3. CASE RollBack(p)
    BY <1>2, <2>0, <2>3, AbortEffect, StageType, ContactQuiet DEF RollBack, listVars
  <2>4. CASE ReleaseFailsOpen(p)
    BY <1>1, <2>4, EndEffect, ContactQuiet DEF ReleaseFailsOpen, listVars
  <2>5. CASE Die(p)
    BY <1>1, <2>5, EndEffect, ContactQuiet DEF Die, listVars
  <2> QED
    BY <1>8, <2>1, <2>2, <2>3, <2>4, <2>5 DEF RequestFault
<1>9. CASE PeopleAct
  <2>1. request' = request /\ kind' = kind
    BY <1>9 DEF PeopleAct
  <2>2. CASE contact' = contact
    BY <1>0, <2>1, <2>2, ContactQuiet
  <2>3. CASE contact' # contact
    <3>1. /\ ContactFree
          /\ AddContact \/ ReactivateContact \/ UnsubscribeContact
      BY <1>9, <2>3 DEF PeopleAct, AddSuppression, RemoveSuppression,
                        EnlistUnsubscribed, SecondStatementLost
    <3>2. AtTheLimitIsBarred'
      BY <2>3, <3>1, SuppressionAssumption
      DEF AddContact, ReactivateContact, UnsubscribeContact, AtTheLimitIsBarred,
          TypeOK, ListTypeOK, ContactRows, Absent
    <3>3. \A q \in Requests : ~HoldsContact(q)' /\ ~HoldsContact(q) /\ Kind(q)' = Kind(q)
      BY <2>1, <3>1 DEF ContactFree, HoldsContact, Kind, Event
    <3> QED
      BY <2>1, <3>2, <3>3 DEF ContactInv
  <2> QED
    BY <2>2, <2>3
<1>10. CASE UNCHANGED ingestVars
  BY <1>0, <1>10, ContactQuiet DEF ingestVars, listVars
<1> QED
  BY <1>4, <1>5, <1>6, <1>7, <1>8, <1>9, <1>10 DEF Next

-----------------------------------------------------------------------------
(* The entry *)

\* A request has the entry as before, or has none and needs none.
SameEntry(q) ==
  \/ /\ request'[q].entry = request[q].entry
     /\ request'[q].masked = request[q].masked
     /\ request'[q].event = request[q].event
     /\ \/ request'[q].stage = request[q].stage
        \/ {request[q].stage, request'[q].stage} \subseteq {"marking", "ready"}
  \/ /\ request'[q].entry = "none"
     /\ request'[q].stage \notin {"marking", "ready"} \/ Kind(q)' \notin Evidence

LEMMA EntryQuiet ==
  ASSUME EntryInv, UNCHANGED <<reason, kind, stored, masked>>,
         \A q \in Requests : SameEntry(q)
  PROVE  EntryInv'
<1>1. EvidenceStaysUnlessMasked'
  BY DEF EntryInv, EvidenceStaysUnlessMasked
<1>2. \A q \in Requests : HoldsEntry(q)' =>
        /\ HoldsEntry(q)
        /\ request'[q].entry = request[q].entry
        /\ Why(q)' = Why(q)
        /\ request[q].stage \in {"marking", "ready"} =>
             request'[q].stage \in {"marking", "ready"}
  BY DEF SameEntry, HoldsEntry, Why, Kind, Event
<1>3. ASSUME NEW p \in Requests, HoldsEntry(p)'
      PROVE  /\ reason' = "none"
             /\ request'[p].stage \in {"marking", "ready"}
             /\ request'[p].entry = Why(p)'
             /\ \A q \in Requests \ {p} : ~HoldsEntry(q)'
  BY <1>2, <1>3 DEF EntryInv
<1>4. ASSUME NEW p \in Requests, request'[p].stage \in {"marking", "ready"},
             Kind(p)' \in Evidence
      PROVE  request'[p].masked \/ HoldsEntry(p)' \/ reason' \in Reasons \ Removable
  BY <1>4 DEF SameEntry, EntryInv, HoldsEntry, Kind, Event
<1> QED
  BY <1>1, <1>3, <1>4 DEF EntryInv

\* The entry may change while no request has one and it is not for good.
LEMMA EntryChanges ==
  ASSUME EntryInv, UNCHANGED <<request, kind, stored, masked>>,
         EntryFree, reason \notin Reasons \ Removable
  PROVE  EntryInv'
<1>1. EvidenceStaysUnlessMasked'
  BY DEF EntryInv, EvidenceStaysUnlessMasked
<1>2. \A q \in Requests : ~HoldsEntry(q)' /\ Kind(q)' = Kind(q)
  BY DEF EntryFree, HoldsEntry, Kind, Event
<1> QED
  BY <1>1, <1>2 DEF EntryInv, EntryFree

LEMMA EntryNext == TypeOK /\ KindInv /\ EntryInv /\ [Next]_ingestVars => EntryInv'
<1> SUFFICES ASSUME TypeOK, KindInv, EntryInv, [Next]_ingestVars PROVE EntryInv'
  OBVIOUS
<1>0. \A q \in Requests : request'[q] = request[q] => SameEntry(q)
  BY DEF SameEntry
<1>1. ASSUME NEW p \in Requests, Ends(p) PROVE \A q \in Requests : SameEntry(q)
  BY <1>0, <1>1 DEF Ends, Alone, SameEntry, Idle
<1>2. ASSUME NEW p \in Requests, Stays(p), request'[p].entry = "none",
             request'[p].stage \notin {"marking", "ready"} \/ Kind(p)' \notin Evidence
      PROVE  \A q \in Requests : SameEntry(q)
  BY <1>0, <1>2 DEF Stays, Alone, SameEntry
<1>3. \A p \in Requests : request[p].stage \notin {"marking", "ready"} =>
        request[p].entry = "none"
  BY DEF EntryInv, HoldsEntry
<1>4. ASSUME NEW e \in Events, NEW p \in Requests, Deliver(e, p) PROVE EntryInv'
  <2>1. \A q \in Requests : SameEntry(q)
    BY <1>0, <1>4, DeliverEffect DEF Alone, SameEntry
  <2> QED
    BY <1>4, <2>1, EntryQuiet DEF Deliver, listVars, ghostVars
<1>5. ASSUME NEW e \in Events, TimesOut(e) PROVE EntryInv'
  <2>1. \A q \in Requests : SameEntry(q)
    BY <1>5, TimesOutEffect DEF SameEntry
  <2> QED
    BY <1>5, <2>1, EntryQuiet DEF TimesOut, listVars, ghostVars
<1>6. ASSUME NEW e \in Events, Evict(e) PROVE EntryInv'
  BY <1>0, <1>6, EntryQuiet DEF Evict, listVars, ghostVars
<1>7. ASSUME NEW p \in Requests, RequestStep(p) PROVE EntryInv'
  <2>0. request[p].stage \in Stages => request[p] \in ActiveRequests /\ Kind(p) \in Kinds
    BY AtAStageOrIdle
  <2>1. CASE Claim(p)
    <3>1. \A q \in Requests : SameEntry(q)
      BY <1>1, <1>2, <1>3, <2>0, <2>1, EndEffect, ProceedEffect, StageType DEF Claim
    <3> QED
      BY <2>1, <3>1, EntryQuiet DEF Claim, listVars, ghostVars
  <2>2. CASE InsertEvent(p)
    <3>1. UNCHANGED <<reason, kind, stored, masked>>
      BY <2>2 DEF InsertEvent, listVars, ghostVars
    <3>2. CASE Event(p) \in stored
      BY <1>1, <2>2, <3>1, <3>2, EndEffect, EntryQuiet DEF InsertEvent
    <3>3. CASE Event(p) \notin stored
      <4>1. /\ Stays(p) /\ request'[p].stage = FirstStatement(Kind(p))
            /\ request'[p].entry = "none"
        BY <1>3, <2>0, <2>2, <3>3, ProceedEffect, StageType DEF InsertEvent
      <4>2. Kind(p)' = Kind(p)
        BY <3>1, <4>1 DEF Stays, Kind, Event
      <4>3. request'[p].stage \notin {"marking", "ready"} \/ Kind(p)' \notin Evidence
        BY <4>1, <4>2 DEF FirstStatement, Evidence
      <4> QED
        BY <1>2, <3>1, <4>1, <4>3, EntryQuiet
    <3> QED
      BY <3>2, <3>3
  <2>3. CASE ResetCount(p)
    <3>1. /\ Stays(p) /\ request'[p].entry = "none"
          /\ Kind(p) = "delivered" /\ UNCHANGED <<reason, kind, stored, masked>>
      BY <1>3, <2>0, <2>3, WritesEffect, StageType
      DEF ResetCount, Inserted, KindInv, KindAt, listVars, ghostVars
    <3>2. Kind(p)' \notin Evidence
      BY <3>1 DEF Stays, Kind, Event, Evidence
    <3> QED
      BY <1>2, <3>1, <3>2, EntryQuiet
  <2>4. CASE CountBounce(p)
    <3>1. /\ Stays(p) /\ request'[p].entry = "none"
          /\ Kind(p) = "soft_bounce" /\ UNCHANGED <<reason, kind, stored, masked>>
      BY <1>3, <2>0, <2>4, WritesEffect, StageType
      DEF CountBounce, Inserted, KindInv, KindAt, listVars, ghostVars
    <3>2. Kind(p)' \notin Evidence
      BY <3>1 DEF Stays, Kind, Event, Evidence
    <3> QED
      BY <1>2, <3>1, <3>2, EntryQuiet
  <2>5. CASE ListAddress(p)
    <3>1. /\ Stays(p)
          /\ request'[p].stage \in {"marking", "ready"}
          /\ request'[p].entry = IF reason = "none" THEN Why(p) ELSE "none"
          /\ request'[p].masked = (reason \in Removable /\ Kind(p) \in Evidence)
          /\ EntryFreeFor(p) /\ UNCHANGED <<reason, kind, stored, masked>>
      BY <2>5, ListEffect DEF ListAddress, listVars, ghostVars
    <3>2. /\ Kind(p)' = Kind(p) /\ Why(p)' = Why(p)
          /\ \A q \in Requests \ {p} : /\ request'[q] = request[q]
                                       /\ Kind(q)' = Kind(q)
                                       /\ ~HoldsEntry(q) /\ ~HoldsEntry(q)'
      BY <3>1 DEF Stays, Alone, EntryFreeFor, HoldsEntry, Why, Kind, Event
    <3>3. EvidenceStaysUnlessMasked'
      BY <3>1 DEF EntryInv, EvidenceStaysUnlessMasked
    <3>4. HoldsEntry(p)' =>
            reason' = "none" /\ request'[p].entry = Why(p)'
      BY <3>1, <3>2 DEF HoldsEntry
    <3>5. Kind(p)' \in Evidence =>
            request'[p].masked \/ HoldsEntry(p)' \/ reason' \in Reasons \ Removable
      BY <3>1, <3>2 DEF HoldsEntry, Why, Evidence, TypeOK, ListTypeOK
    <3> QED
      BY <3>1, <3>2, <3>3, <3>4, <3>5 DEF EntryInv
  <2>6. CASE MarkContact(p)
    <3>1. /\ Stays(p) /\ request[p].stage = "marking" /\ request'[p].stage = "ready"
          /\ request'[p].entry = request[p].entry
          /\ request'[p].masked = request[p].masked
          /\ UNCHANGED <<reason, kind, stored, masked>>
      BY <2>0, <2>6, WritesEffect, StageType DEF MarkContact, Inserted, listVars, ghostVars
    <3>2. \A q \in Requests : SameEntry(q)
      BY <1>0, <3>1 DEF Stays, Alone, SameEntry
    <3> QED
      BY <3>1, <3>2, EntryQuiet
  <2>7. CASE Commit(p)
    <3>1. /\ Stays(p) /\ request[p].stage = "ready"
          /\ request'[p].stage = "committed" /\ request'[p].entry = "none"
          /\ reason' = IF HoldsEntry(p) THEN request[p].entry ELSE reason
          /\ stored' = stored \cup {Event(p)} /\ kind' = kind
          /\ masked' = IF request[p].masked THEN masked \cup {Event(p)} ELSE masked
      BY <2>7, CommitEffect DEF Commit
    <3>2. \A q \in Requests \ {p} : request'[q] = request[q] /\ Kind(q)' = Kind(q)
      BY <3>1 DEF Stays, Alone, Kind, Event
    <3>3. ~HoldsEntry(p)'
      BY <3>1 DEF HoldsEntry
    <3>4. CASE HoldsEntry(p)
      <4>1. /\ reason = "none" /\ reason' = Why(p)
            /\ \A q \in Requests \ {p} : ~HoldsEntry(q)
        BY <3>1, <3>4 DEF EntryInv
      <4>2. kind[Event(p)] \in Evidence => reason' \in Reasons \ Removable
        BY <4>1 DEF Why, Kind, Evidence, Reasons, Removable
      <4>3. reason \notin Reasons \ Removable
        BY <4>1 DEF Reasons
      <4>4. EvidenceStaysUnlessMasked'
        BY <3>1, <4>2, <4>3 DEF EntryInv, EvidenceStaysUnlessMasked
      <4>5. \A q \in Requests \ {p} : ~HoldsEntry(q)'
        BY <3>2, <4>1 DEF HoldsEntry
      <4> QED
        BY <3>1, <3>2, <3>3, <4>1, <4>3, <4>4, <4>5 DEF EntryInv
    <3>5. CASE ~HoldsEntry(p)
      <4>1. kind[Event(p)] \in Evidence =>
              request[p].masked \/ reason \in Reasons \ Removable
        BY <3>1, <3>5 DEF EntryInv, Kind
      <4>2. EvidenceStaysUnlessMasked'
        BY <3>1, <3>5, <4>1 DEF EntryInv, EvidenceStaysUnlessMasked
      <4>3. reason' = reason
        BY <3>1, <3>5
      <4>4. \A q \in Requests \ {p} : /\ HoldsEntry(q)' = HoldsEntry(q)
                                      /\ Why(q)' = Why(q)
        BY <3>2 DEF HoldsEntry, Why
      <4> QED
        BY <3>1, <3>2, <3>3, <4>2, <4>3, <4>4 DEF EntryInv
    <3> QED
      BY <3>4, <3>5
  <2>8. CASE Announce(p)
    BY <1>1, <2>8, EndEffect, EntryQuiet DEF Announce, listVars
  <2>9. CASE DeadlockVictim(p)
    <3>1. \A q \in Requests : SameEntry(q)
      BY <1>2, <2>0, <2>9, AbortEffect, StageType DEF DeadlockVictim, WaitsFor, Inserted
    <3> QED
      BY <2>9, <3>1, EntryQuiet DEF DeadlockVictim, listVars, ghostVars
  <2>10. CASE ReleaseClaim(p)
    BY <1>1, <2>10, EndEffect, EntryQuiet DEF ReleaseClaim, listVars
  <2> QED
    BY <1>7, <2>1, <2>2, <2>3, <2>4, <2>5, <2>6, <2>7, <2>8, <2>9, <2>10 DEF RequestStep
<1>8. ASSUME NEW p \in Requests, RequestFault(p) PROVE EntryInv'
  <2>0. request[p].stage \in Stages => request[p] \in ActiveRequests
    BY AtAStageOrIdle
  <2>1. CASE ClaimFailsOpen(p)
    BY <1>2, <1>3, <2>0, <2>1, ProceedEffect, StageType, EntryQuiet
    DEF ClaimFailsOpen, listVars, ghostVars
  <2>2. CASE AnnounceFails(p)
    BY <1>1, <2>2, EndEffect, EntryQuiet DEF AnnounceFails, listVars, ghostVars
  <2>3. CASE RollBack(p)
    BY <1>2, <2>0, <2>3, AbortEffect, StageType, EntryQuiet
    DEF RollBack, listVars, ghostVars
  <2>4. CASE ReleaseFailsOpen(p)
    BY <1>1, <2>4, EndEffect, EntryQuiet DEF ReleaseFailsOpen, listVars
  <2>5. CASE Die(p)
    BY <1>1, <2>5, EndEffect, EntryQuiet DEF Die, listVars
  <2> QED
    BY <1>8, <2>1, <2>2, <2>3, <2>4, <2>5 DEF RequestFault
<1>9. CASE PeopleAct
  <2>1. UNCHANGED <<request, kind, stored, masked>>
    BY <1>9 DEF PeopleAct, ghostVars
  <2>2. CASE reason' = reason
    BY <1>0, <2>1, <2>2, EntryQuiet
  <2>3. CASE reason' # reason
    <3>1. \/ EntryFree /\ reason = "none"
          \/ reason \in Removable
      BY <1>9, <2>3 DEF PeopleAct, AddContact, AddSuppression, RemoveSuppression,
                        ReactivateContact, UnsubscribeContact, EnlistUnsubscribed,
                        SecondStatementLost, Listed
    <3>2. EntryFree
      BY <3>1 DEF EntryInv, EntryFree, Removable
    <3> QED
      BY <2>1, <3>1, <3>2, EntryChanges DEF Reasons, Removable
  <2> QED
    BY <2>2, <2>3
<1>10. CASE UNCHANGED ingestVars
  BY <1>0, <1>10, EntryQuiet DEF ingestVars, listVars, ghostVars
<1> QED
  BY <1>4, <1>5, <1>6, <1>7, <1>8, <1>9, <1>10 DEF Next

-----------------------------------------------------------------------------
(* Claims *)

\* A request that goes on leaves its event in work.
LEMMA CoveredStays ==
  ASSUME NEW p \in Requests, Stays(p), request'[p].stage # "claiming",
         stored \subseteq stored', UNCHANGED mishap, NEW e, Covered(e)
  PROVE  Covered(e)'
<1>1. CASE e \in stored \/ e \in mishap
  BY <1>1 DEF Covered
<1>2. CASE InWork(e)
  <2>1. PICK q \in Requests : request[q].stage \in Stages \ {"claiming"} /\ Event(q) = e
    BY <1>2 DEF InWork
  <2>2. request'[q].stage \in Stages \ {"claiming"} /\ Event(q)' = e
    BY <2>1 DEF Stays, Alone, Event
  <2> QED
    BY <2>2 DEF Covered, InWork
<1> QED
  BY <1>1, <1>2 DEF Covered

\* A request that ends takes only its own event out of work.
LEMMA CoveredEnds ==
  ASSUME NEW p \in Requests, Ends(p), UNCHANGED stored, mishap \subseteq mishap',
         NEW e, Covered(e),
         \/ e # Event(p)
         \/ request[p].stage = "claiming"
         \/ e \in stored
         \/ e \in mishap'
  PROVE  Covered(e)'
<1>1. CASE e \in stored \/ e \in mishap'
  BY <1>1 DEF Covered
<1>2. CASE InWork(e) /\ e \notin stored /\ e \notin mishap'
  <2>1. PICK q \in Requests : request[q].stage \in Stages \ {"claiming"} /\ Event(q) = e
    BY <1>2 DEF InWork
  <2>2. q # p
    BY <1>2, <2>1
  <2>3. request'[q] = request[q] /\ Event(q)' = Event(q)
    BY <2>2 DEF Ends, Alone, Event
  <2> QED
    BY <2>1, <2>3 DEF Covered, InWork
<1> QED
  BY <1>1, <1>2 DEF Covered

\* The requests the provider waits for: one fewer, or as many.
LEMMA AwaitedFewer ==
  ASSUME AwaitedInv,
         \A q \in Requests : Awaited(q)' =>
            Awaited(q) /\ Event(q)' = Event(q) /\ provider'[Event(q)] = provider[Event(q)]
  PROVE  AwaitedInv'
  BY DEF AwaitedInv

LEMMA AwaitedStays ==
  ASSUME AwaitedInv, NEW p \in Requests, Stays(p), request[p] # Idle, UNCHANGED provider
  PROVE  AwaitedInv'
<1>1. \A q \in Requests : Awaited(q)' => Awaited(q) /\ Event(q)' = Event(q)
  BY DEF Stays, Alone, Awaited, Event
<1> QED
  BY <1>1, AwaitedFewer

LEMMA AwaitedEnds ==
  ASSUME TypeOK, AwaitedInv, NEW p \in Requests, request[p] \in ActiveRequests,
         request[p] # Idle, NEW verdict, End(p, verdict)
  PROVE  /\ AwaitedInv'
         /\ \A e \in Events : provider'[e] = provider[e] \/ (e = Event(p) /\ Awaited(p))
         /\ Awaited(p) => provider'[Event(p)] = verdict
<1>1. Ends(p)
  BY EndEffect
<1>2. /\ ~Awaited(p)'
      /\ \A q \in Requests \ {p} : Awaited(q)' = Awaited(q) /\ Event(q)' = Event(q)
  BY <1>1 DEF Ends, Alone, Awaited, Event
<1>3. \A q \in Requests : Awaited(q) => Event(q) \in Events
  BY AtAStageOrIdle DEF Awaited, ActiveRequests, Event
<1>4. /\ \A e : provider'[e] = provider[e] \/ (e = Event(p) /\ Awaited(p))
      /\ Awaited(p) => provider'[Event(p)] = verdict
  BY <1>3 DEF End, TypeOK, Awaited
<1>5. \A q \in Requests \ {p} : Awaited(q) => provider'[Event(q)] = provider[Event(q)]
  BY <1>4 DEF AwaitedInv
<1>6. \A q \in Requests : Awaited(q)' =>
        Awaited(q) /\ Event(q)' = Event(q) /\ provider'[Event(q)] = provider[Event(q)]
  BY <1>2, <1>5
<1>7. AwaitedInv'
  BY <1>6, AwaitedFewer
<1> QED
  BY <1>4, <1>7

\* A request goes on; an event it claims is its own.
LEMMA ClaimsStay ==
  ASSUME TypeOK, ClaimsInv, NEW p \in Requests, request[p] \in ActiveRequests,
         request[p] # Idle, Stays(p), request'[p].stage # "claiming",
         stored \subseteq stored', UNCHANGED <<provider, mishap>>,
         claimed' \subseteq claimed \cup {Event(p)}
  PROVE  ClaimsInv'
<1>1. AwaitedInv'
  BY AwaitedStays DEF ClaimsInv
<1>2. \A e : Covered(e) => Covered(e)'
  BY CoveredStays
<1>3. \A e : e = Event(p) => Covered(e)'
  BY DEF Covered, InWork, Stays, Event
<1>4. LossNeedsAMishap'
  BY <1>2 DEF ClaimsInv, LossNeedsAMishap, Covered
<1> QED
  BY <1>1, <1>2, <1>3, <1>4 DEF ClaimsInv

\* A request ends with 200, its event stored or claimed by another.
LEMMA ClaimsAnswered ==
  ASSUME TypeOK, ClaimsInv, NEW p \in Requests, request[p] \in ActiveRequests,
         request[p] # Idle, End(p, "acked"), UNCHANGED <<stored, claimed, mishap>>,
         \/ Event(p) \in stored
         \/ request[p].stage = "claiming" /\ Event(p) \in claimed
  PROVE  ClaimsInv'
<1>1. Ends(p) /\ AwaitedInv'
  BY EndEffect, AwaitedEnds DEF ClaimsInv
<1>2. \A e : Covered(e) => Covered(e)'
  BY <1>1, CoveredEnds
<1>3. Covered(Event(p))
  BY DEF ClaimsInv, Covered
<1>4. LossNeedsAMishap'
  BY <1>2, <1>3, AwaitedEnds DEF ClaimsInv, LossNeedsAMishap, Covered
<1> QED
  BY <1>1, <1>2, <1>4 DEF ClaimsInv

\* A request ends with anything but 200: the provider tries again, unless it does
\* not know; the claim is handed back, unless it does not matter.
LEMMA ClaimsFailed ==
  ASSUME TypeOK, ClaimsInv, NEW p \in Requests, request[p] \in ActiveRequests,
         request[p] # Idle, End(p, "due"), UNCHANGED stored, mishap \subseteq mishap',
         claimed' \subseteq claimed,
         \/ Event(p) \notin claimed' /\ (Awaited(p) \/ Event(p) \in mishap')
         \/ Event(p) \in mishap'
         \/ request[p].stage = "claiming"
         \/ Event(p) \in stored
  PROVE  ClaimsInv'
<1>1. Ends(p) /\ AwaitedInv'
  BY EndEffect, AwaitedEnds DEF ClaimsInv
<1>2. \A e : Covered(e) =>
        \/ Covered(e)'
        \/ e = Event(p) /\ Awaited(p) /\ e \notin claimed'
  BY <1>1, CoveredEnds
<1>3. \A e \in Events : provider'[e] = "acked" =>
        provider[e] = "acked" /\ ~(e = Event(p) /\ Awaited(p))
  BY AwaitedEnds DEF ClaimsInv
<1>4. LossNeedsAMishap'
  BY <1>2, <1>3 DEF ClaimsInv, LossNeedsAMishap, Covered
<1> QED
  BY <1>1, <1>2, <1>4 DEF ClaimsInv

LEMMA ClaimsQuiet ==
  ASSUME ClaimsInv, UNCHANGED <<request, provider, stored, mishap>>,
         claimed' \subseteq claimed
  PROVE  ClaimsInv'
  BY DEF ClaimsInv, LossNeedsAMishap, Covered, InWork, Event, AwaitedInv, Awaited

LEMMA ClaimsNext == TypeOK /\ EventsInv /\ ClaimsInv /\ [Next]_ingestVars => ClaimsInv'
<1> SUFFICES ASSUME TypeOK, EventsInv, ClaimsInv, [Next]_ingestVars PROVE ClaimsInv'
  OBVIOUS
<1>1. ASSUME NEW e \in Events, NEW p \in Requests, Deliver(e, p) PROVE ClaimsInv'
  <2>0. request[p] = Idle /\ request[p].stage = "idle"
    BY <1>1, AtAStageOrIdle DEF Deliver
  <2>1. Alone(p) /\ request'[p].stage = "claiming" /\ request'[p].event = e
    BY <1>1, DeliverEffect
  <2>2. /\ provider' = [provider EXCEPT ![e] = "waiting"] /\ provider[e] = "due"
        /\ UNCHANGED <<claimed, stored, mishap>>
    BY <1>1 DEF Deliver, ghostVars
  <2>3. \A q \in Requests \ {p} : /\ request'[q] = request[q]
                                  /\ Event(q)' = Event(q)
                                  /\ Awaited(q)' = Awaited(q)
    BY <2>1 DEF Alone, Event, Awaited
  <2>4. \A x : InWork(x) => InWork(x)'
    BY <2>0, <2>3 DEF InWork, Stages, Inserted
  <2>5. \A x : Covered(x) => Covered(x)'
    BY <2>2, <2>4 DEF Covered
  <2>6. \A q \in Requests \ {p} : Awaited(q) => Event(q) # e
    BY <2>2 DEF ClaimsInv, AwaitedInv
  <2>7. Event(p)' = e /\ provider'[e] = "waiting"
    BY <2>1, <2>2 DEF Event, TypeOK
  <2>8. \A x : x # e => provider'[x] = provider[x]
    BY <2>2 DEF TypeOK
  <2>9. AwaitedInv'
    BY <2>3, <2>6, <2>7, <2>8 DEF ClaimsInv, AwaitedInv
  <2>10. LossNeedsAMishap'
    BY <2>5, <2>7, <2>8 DEF ClaimsInv, LossNeedsAMishap, Covered
  <2> QED
    BY <2>2, <2>5, <2>9, <2>10 DEF ClaimsInv
<1>2. ASSUME NEW e \in Events, TimesOut(e) PROVE ClaimsInv'
  <2>1. /\ provider' = [provider EXCEPT ![e] = "due"]
        /\ UNCHANGED <<claimed, stored, mishap>>
    BY <1>2 DEF TimesOut, ghostVars
  <2>2. \A q \in Requests : /\ request'[q].stage = request[q].stage
                            /\ Event(q)' = Event(q)
                            /\ Awaited(q)' => Awaited(q) /\ Event(q) # e
    BY <1>2, TimesOutEffect DEF Event, Awaited
  <2>3. \A x : Covered(x) => Covered(x)'
    BY <2>1, <2>2 DEF Covered, InWork
  <2>4. /\ provider'[e] = "due"
        /\ \A x : x # e => provider'[x] = provider[x]
    BY <2>1 DEF TypeOK
  <2>5. AwaitedInv'
    BY <2>2, <2>4, AwaitedFewer DEF ClaimsInv
  <2>6. LossNeedsAMishap'
    BY <2>3, <2>4 DEF ClaimsInv, LossNeedsAMishap, Covered
  <2> QED
    BY <2>1, <2>3, <2>5, <2>6 DEF ClaimsInv
<1>3. ASSUME NEW e \in Events, Evict(e) PROVE ClaimsInv'
  BY <1>3, ClaimsQuiet DEF Evict, providerVars, ghostVars
<1>4. ASSUME NEW p \in Requests, RequestStep(p) PROVE ClaimsInv'
  <2>0. /\ request[p].stage \in Stages => request[p] \in ActiveRequests
        /\ request[p].stage \in Stages => request[p] # Idle
    BY AtAStageOrIdle DEF Idle, Stages, Inserted
  <2>1. CASE Claim(p)
    <3>1. UNCHANGED <<stored, mishap>> /\ request[p].stage = "claiming"
      BY <2>1 DEF Claim, ghostVars
    <3>2. CASE Event(p) \in claimed
      BY <2>0, <2>1, <3>1, <3>2, StageType, ClaimsAnswered DEF Claim
    <3>3. CASE Event(p) \notin claimed
      <4>1. Stays(p) /\ request'[p].stage = "inserting"
        BY <2>0, <2>1, <3>1, <3>3, StageType, ProceedEffect DEF Claim
      <4> QED
        BY <2>0, <2>1, <3>1, <3>3, <4>1, StageType, ClaimsStay DEF Claim
    <3> QED
      BY <3>2, <3>3
  <2>2. CASE InsertEvent(p)
    <3>1. UNCHANGED <<stored, claimed, mishap>> /\ request[p].stage = "inserting"
      BY <2>2 DEF InsertEvent, ghostVars
    <3>2. CASE Event(p) \in stored
      BY <2>0, <2>2, <3>1, <3>2, StageType, ClaimsAnswered DEF InsertEvent
    <3>3. CASE Event(p) \notin stored
      <4>1. Stays(p) /\ request'[p].stage \in Inserted /\ provider' = provider
        BY <2>0, <2>2, <3>1, <3>3, StageType, ProceedEffect, AtAStageOrIdle
        DEF InsertEvent
      <4> QED
        BY <2>0, <3>1, <4>1, StageType, ClaimsStay DEF Inserted
    <3> QED
      BY <3>2, <3>3
  <2>3. CASE ResetCount(p)
    <3>1. /\ Stays(p) /\ request'[p].stage = "ready" /\ request[p].stage \in Stages
          /\ UNCHANGED <<provider, claimed, stored, mishap>>
      BY <2>0, <2>3, WritesEffect, StageType
      DEF ResetCount, Inserted, providerVars, ghostVars
    <3> QED
      BY <2>0, <3>1, ClaimsStay
  <2>4. CASE CountBounce(p)
    <3>1. /\ Stays(p) /\ request'[p].stage \in {"listing", "ready"}
          /\ request[p].stage \in Stages
          /\ UNCHANGED <<provider, claimed, stored, mishap>>
      BY <2>0, <2>4, WritesEffect, StageType
      DEF CountBounce, Inserted, providerVars, ghostVars
    <3> QED
      BY <2>0, <3>1, ClaimsStay
  <2>5. CASE ListAddress(p)
    <3>1. /\ Stays(p) /\ request'[p].stage \in {"marking", "ready"}
          /\ request[p].stage \in Stages
          /\ UNCHANGED <<provider, claimed, stored, mishap>>
      BY <2>5, ListEffect, StageType DEF ListAddress, Inserted, providerVars, ghostVars
    <3> QED
      BY <2>0, <3>1, ClaimsStay
  <2>6. CASE MarkContact(p)
    <3>1. /\ Stays(p) /\ request'[p].stage = "ready" /\ request[p].stage \in Stages
          /\ UNCHANGED <<provider, claimed, stored, mishap>>
      BY <2>0, <2>6, WritesEffect, StageType
      DEF MarkContact, Inserted, providerVars, ghostVars
    <3> QED
      BY <2>0, <3>1, ClaimsStay
  <2>7. CASE Commit(p)
    <3>1. /\ Stays(p) /\ request'[p].stage = "committed" /\ request[p].stage \in Stages
          /\ stored \subseteq stored' /\ UNCHANGED <<provider, claimed, mishap>>
      BY <2>7, CommitEffect, StageType DEF Commit, Inserted, providerVars
    <3> QED
      BY <2>0, <3>1, ClaimsStay
  <2>8. CASE Announce(p)
    <3>1. /\ Event(p) \in stored /\ request[p].stage \in Stages
          /\ End(p, "acked") /\ UNCHANGED <<stored, claimed, mishap>>
      BY <2>8, StageType DEF Announce, EventsInv
    <3> QED
      BY <2>0, <3>1, ClaimsAnswered
  <2>9. CASE DeadlockVictim(p)
    <3>1. /\ Stays(p) /\ request'[p].stage = "failed" /\ request[p].stage \in Stages
          /\ UNCHANGED <<provider, claimed, stored, mishap>>
      BY <2>0, <2>9, AbortEffect, StageType
      DEF DeadlockVictim, WaitsFor, Inserted, providerVars, ghostVars
    <3> QED
      BY <2>0, <3>1, ClaimsStay
  <2>10. CASE ReleaseClaim(p)
    <3>1. /\ request[p].stage \in Stages /\ End(p, "due") /\ UNCHANGED stored
          /\ claimed' = claimed \ {Event(p)}
          /\ mishap' = IF request[p].awaited THEN mishap ELSE mishap \cup {Event(p)}
      BY <2>10, StageType DEF ReleaseClaim, Unheard
    <3>2. Awaited(p) \/ Event(p) \in mishap'
      BY <2>0, <3>1 DEF Awaited
    <3> QED
      BY <2>0, <3>1, <3>2, ClaimsFailed
  <2> QED
    BY <1>4, <2>1, <2>2, <2>3, <2>4, <2>5, <2>6, <2>7, <2>8, <2>9, <2>10 DEF RequestStep
<1>5. ASSUME NEW p \in Requests, RequestFault(p) PROVE ClaimsInv'
  <2>0. /\ request[p].stage \in Stages => request[p] \in ActiveRequests
        /\ request[p].stage \in Stages => request[p] # Idle
        /\ request[p] # Idle => request[p] \in ActiveRequests /\ request[p].stage \in Stages
    BY AtAStageOrIdle DEF Idle, Stages, Inserted, ActiveRequests
  <2>1. CASE ClaimFailsOpen(p)
    <3>1. /\ Stays(p) /\ request'[p].stage = "inserting" /\ request[p].stage \in Stages
          /\ UNCHANGED <<provider, claimed, stored, mishap>>
      BY <2>0, <2>1, ProceedEffect, StageType DEF ClaimFailsOpen, providerVars, ghostVars
    <3> QED
      BY <2>0, <3>1, ClaimsStay
  <2>2. CASE AnnounceFails(p)
    <3>1. /\ Event(p) \in stored /\ request[p].stage \in Stages
          /\ End(p, "acked") /\ UNCHANGED <<stored, claimed, mishap>>
      BY <2>2, StageType DEF AnnounceFails, EventsInv, ghostVars
    <3> QED
      BY <2>0, <3>1, ClaimsAnswered
  <2>3. CASE RollBack(p)
    <3>1. /\ Stays(p) /\ request'[p].stage = "failed" /\ request[p].stage \in Stages
          /\ UNCHANGED <<provider, claimed, stored, mishap>>
      BY <2>0, <2>3, AbortEffect, StageType DEF RollBack, providerVars, ghostVars
    <3> QED
      BY <2>0, <3>1, ClaimsStay
  <2>4. CASE ReleaseFailsOpen(p)
    <3>1. /\ request[p].stage \in Stages /\ End(p, "due") /\ UNCHANGED <<stored, claimed>>
          /\ mishap' = mishap \cup {Event(p)}
      BY <2>4, StageType DEF ReleaseFailsOpen
    <3> QED
      BY <2>0, <3>1, ClaimsFailed
  <2>5. CASE Die(p)
    <3>1. /\ request[p] # Idle /\ End(p, "due") /\ UNCHANGED <<stored, claimed>>
          /\ mishap \subseteq mishap'
          /\ request[p].stage \notin {"claiming", "committed"} => Event(p) \in mishap'
      BY <2>5 DEF Die
    <3>2. request[p].stage = "committed" => Event(p) \in stored
      BY DEF EventsInv
    <3> QED
      BY <2>0, <3>1, <3>2, ClaimsFailed
  <2> QED
    BY <1>5, <2>1, <2>2, <2>3, <2>4, <2>5 DEF RequestFault
<1>6. CASE PeopleAct
  BY <1>6, ClaimsQuiet DEF PeopleAct, providerVars, ghostVars
<1>7. CASE UNCHANGED ingestVars
  BY <1>7, ClaimsQuiet DEF ingestVars, providerVars, ghostVars
<1> QED
  BY <1>1, <1>2, <1>3, <1>4, <1>5, <1>6, <1>7 DEF Next

-----------------------------------------------------------------------------
(* The theorems *)

LEMMA IngestNext == IngestInv /\ [Next]_ingestVars => IngestInv'
  BY TypeNext, KindNext, EventsNext, ContactNext, EntryNext, ClaimsNext DEF IngestInv

LEMMA IngestInvariant == Spec => []IngestInv
<1> QED
  BY IngestInit, IngestNext, PTL DEF Spec

\* Whatever duplicates the provider sends, with Redis or without, an event's
\* effects run at most once and only when its row is durable: two requests are
\* never past the insertion of the same event.
THEOREM AnnouncedOnce == Spec => []AnnouncedOnceAndStored
<1>1. IngestInv => AnnouncedOnceAndStored
  BY DEF IngestInv, EventsInv
<1> QED
  BY <1>1, IngestInvariant, PTL

\* However the requests and the people interleave, a contact that has reached the
\* limit of soft bounces is barred: the row's lock keeps every copy current.
THEOREM LimitBars == Spec => []AtTheLimitIsBarred
<1>1. IngestInv => AtTheLimitIsBarred
  BY DEF IngestInv, ContactInv
<1> QED
  BY <1>1, IngestInvariant, PTL

\* Stored evidence keeps an entry nobody can remove, or found a removable one.
THEOREM EvidenceStays == Spec => []EvidenceStaysUnlessMasked
<1>1. IngestInv => EvidenceStaysUnlessMasked
  BY DEF IngestInv, EntryInv
<1> QED
  BY <1>1, IngestInvariant, PTL

\* An event answered with 200 is stored or in work, unless a request of it failed
\* and the provider could not learn of it.
THEOREM NoLossWithoutMishap == Spec => []LossNeedsAMishap
<1>1. IngestInv => LossNeedsAMishap
  BY DEF IngestInv, ClaimsInv
<1> QED
  BY <1>1, IngestInvariant, PTL

\* What CountsEachSoftBounceOnce says of a step.
CountsOnce ==
  /\ contact'.count > contact.count =>
       /\ contact'.count = contact.count + 1
       /\ \E e \in stored' \ stored : kind[e] = "soft_bounce"
  /\ \A p \in Requests :
       /\ request[p].stage = "ready" /\ Kind(p) = "soft_bounce"
       /\ HoldsContact(p)
       /\ Event(p) \in stored' \ stored
       => contact'.count = contact.count + 1

LEMMA CountsInAStep == IngestInv /\ [Next]_ingestVars => CountsOnce
<1> SUFFICES ASSUME IngestInv, [Next]_ingestVars PROVE CountsOnce
  OBVIOUS
<1> USE DEF IngestInv
<1>0. contact.count \in Nat
  BY DEF TypeOK, ListTypeOK, ContactRows, Absent
<1>1. CASE UNCHANGED <<contact, stored>>
  BY <1>0, <1>1 DEF CountsOnce
<1>2. ASSUME NEW p \in Requests, Commit(p) PROVE CountsOnce
  <2>1. /\ request[p].stage = "ready" /\ request[p].stage \in Inserted
        /\ stored' = stored \cup {Event(p)} /\ contact' = SeenContact(p)
    BY <1>2 DEF Commit, Inserted
  <2>2. Event(p) \notin stored
    BY <2>1 DEF EventsInv
  <2>3. HoldsContact(p) => contact'.count = NewCount(p)
    BY <2>1 DEF SeenContact, ContactInv, Holding
  <2>4. ~HoldsContact(p) => contact' = contact
    BY <2>1 DEF SeenContact
  <2>5. contact'.count > contact.count =>
          contact'.count = contact.count + 1 /\ kind[Event(p)] = "soft_bounce"
    BY <1>0, <2>3, <2>4 DEF NewCount, Kind
  <2>6. ASSUME NEW q \in Requests, request[q].stage = "ready", Kind(q) = "soft_bounce",
               HoldsContact(q), Event(q) \in stored' \ stored
        PROVE  contact'.count = contact.count + 1
    <3>1. q = p
      BY <2>1, <2>6 DEF EventsInv, Past, Inserted
    <3> QED
      BY <2>3, <2>6, <3>1 DEF NewCount
  <2> QED
    BY <2>1, <2>2, <2>5, <2>6 DEF CountsOnce
<1>3. CASE PeopleAct
  <2>1. stored' = stored
    BY <1>3 DEF PeopleAct
  <2>2. contact'.count <= contact.count
    BY <1>0, <1>3
    DEF PeopleAct, AddContact, AddSuppression, RemoveSuppression, ReactivateContact,
        UnsubscribeContact, EnlistUnsubscribed, SecondStatementLost, TypeOK,
        ListTypeOK, ContactRows, Absent
  <2>3. contact'.count \in Nat
    BY TypeNext DEF TypeOK, ListTypeOK, ContactRows, Absent
  <2> QED
    BY <1>0, <2>1, <2>2, <2>3 DEF CountsOnce
<1>4. UNCHANGED <<contact, stored>> \/ PeopleAct \/ \E p \in Requests : Commit(p)
  BY DEF Next, RequestStep, RequestFault, Deliver, TimesOut, Evict, Claim,
         InsertEvent, ResetCount, CountBounce, ListAddress, MarkContact, Announce,
         DeadlockVictim, ReleaseClaim, ClaimFailsOpen, AnnounceFails, RollBack,
         ReleaseFailsOpen, Die, Writes, listVars, ingestVars
<1> QED
  BY <1>1, <1>2, <1>3, <1>4

\* No soft bounce of a known contact is lost or counted twice, two committing one
\* after the other included.
THEOREM CountsEverySoftBounce == Spec => CountsEachSoftBounceOnce
<1>1. IngestInv /\ [Next]_ingestVars => [CountsOnce]_ingestVars
  BY CountsInAStep
<1> QED
  BY <1>1, IngestInvariant, PTL DEF Spec, CountsEachSoftBounceOnce, CountsOnce

=============================================================================
