--------------------------- MODULE WebhookIngest ---------------------------
(* apps/web/src/app/api/webhooks/resend/route.ts: the provider's events    *)
(* about one address, delivered at least once, and what they do to its     *)
(* do-not-send entry.                                                      *)
(*                                                                         *)
(* An attempt at delivering an event is carried by a request.  It claims   *)
(* the event in Redis, which may be down, evict the claim, or fail to hand *)
(* it back; then one READ COMMITTED transaction inserts the event's row    *)
(* and changes the address, statement by statement; then the effects are   *)
(* announced and the provider is answered.  A provider that gets no 2xx in *)
(* time tries again while the first request may still be at work.          *)
(*                                                                         *)
(* The events are of different messages: what they do to the message's own *)
(* rows is the subject of LiveDelivery and CampaignPipeline.               *)
EXTENDS SuppressionList

CONSTANTS
  Events,        \* what svix-id identifies
  Requests,      \* requests in process at one time
  MaxAttempts,   \* attempts of the provider's retry ladder
  Faults,        \* the kinds of fault that may happen
  MaxFaults      \* bound: how many do

FaultKinds ==
  {"redisDown", "evicted", "rolledBack", "timedOut", "releaseLost", "died",
   "effectLost"}

ASSUME IngestAssumption ==
  /\ IsFiniteSet(Events)
  /\ MaxAttempts \in Nat \ {0}
  /\ MaxFaults \in Nat
  /\ Faults \subseteq FaultKinds

VARIABLES
  kind,        \* what each event reports; never changes
  provider,    \* each event: whether it is to be attempted
  attempts,    \* each event: how often it has been
  request,     \* each request: its event, how far it is, its open transaction
  claimed,     \* Redis: the events that have been seen
  stored,      \* the events with a row in email_events
  masked,      \* ghost: stored evidence that found a removable entry
  announced,   \* ghost: how often an event's effects have run
  mishap,      \* ghost: events whose request failed unknown to the provider
  faults       \* how many faults there have been

providerVars == <<provider, attempts>>
ghostVars    == <<masked, announced, mishap>>
ingestVars   == <<listVars, kind, providerVars, request, claimed, stored,
                  ghostVars, faults>>

\* What an event says of the address.  A hard bounce is email.bounced of a type
\* that is not transient, or suppression.added of origin bounce; manual is
\* suppression.added of an origin that is neither bounce nor complaint.
Kinds ==
  {"delivered", "soft_bounce", "hard_bounce", "complaint", "manual", "other"}

Evidence == {"hard_bounce", "complaint"}

\* The stages of a request whose transaction has inserted the event.
Inserted == {"resetting", "counting", "listing", "marking", "ready"}
Stages   == {"claiming", "inserting", "failed", "committed"} \cup Inserted

\* A request: whether the provider still waits for its answer, and what its
\* transaction has written and nobody else sees: the entry, the contact, and
\* whether the entry it meant to write was masked by a removable one.
ActiveRequests ==
  [stage : Stages, event : Events, awaited : BOOLEAN,
   entry : Reasons \cup {"none"}, contact : ContactRows \cup {Absent},
   masked : BOOLEAN]

Idle == [stage |-> "idle", entry |-> "none", contact |-> Absent]

TypeOK ==
  /\ ListTypeOK
  /\ kind \in [Events -> Kinds]
  /\ provider \in [Events -> {"due", "waiting", "acked"}]
  /\ attempts \in [Events -> 0..MaxAttempts]
  /\ request \in [Requests -> ActiveRequests \cup {Idle}]
  /\ claimed \subseteq Events
  /\ stored \subseteq Events
  /\ masked \subseteq Events
  /\ announced \in [Events -> Nat]
  /\ mishap \subseteq Events
  /\ faults \in 0..MaxFaults

-----------------------------------------------------------------------------
Fault(k) ==
  /\ k \in Faults
  /\ faults < MaxFaults
  /\ faults' = faults + 1

Event(p) == request[p].event

Kind(p) == kind[Event(p)]

Proceed(p, stage) == request' = [request EXCEPT ![p].stage = stage]

(* Locks.  A row another transaction has inserted or updated makes a       *)
(* statement that needs it wait.                                           *)

HoldsEvent(p, e) == request[p].stage \in Inserted /\ Event(p) = e

HoldsEntry(p) == request[p].entry # "none"

HoldsContact(p) == request[p].contact # Absent

EntryFree == \A p \in Requests : ~HoldsEntry(p)

ContactFree == \A p \in Requests : ~HoldsContact(p)

EntryFreeFor(p) == \A q \in Requests \ {p} : ~HoldsEntry(q)

ContactFreeFor(p) == \A q \in Requests \ {p} : ~HoldsContact(q)

\* The contact as the transaction sees it.
SeenContact(p) == IF HoldsContact(p) THEN request[p].contact ELSE contact

-----------------------------------------------------------------------------
(* The provider *)

Deliver(e, p) ==
  /\ provider[e] = "due"
  /\ attempts[e] < MaxAttempts
  /\ request[p] = Idle
  /\ provider' = [provider EXCEPT ![e] = "waiting"]
  /\ attempts' = [attempts EXCEPT ![e] = @ + 1]
  /\ request' = [request EXCEPT ![p] =
       [stage |-> "claiming", event |-> e, awaited |-> TRUE,
        entry |-> "none", contact |-> Absent, masked |-> FALSE]]
  /\ UNCHANGED <<listVars, kind, claimed, stored, ghostVars, faults>>

\* The answer is too long in coming.  The request does not know.
TimesOut(e) ==
  /\ Fault("timedOut")
  /\ provider[e] = "waiting"
  /\ provider' = [provider EXCEPT ![e] = "due"]
  /\ request' = [p \in Requests |->
       IF request[p] # Idle /\ Event(p) = e
       THEN [request[p] EXCEPT !.awaited = FALSE] ELSE request[p]]
  /\ UNCHANGED <<listVars, kind, attempts, claimed, stored, ghostVars>>

\* A request ends; the provider hears of it if it still waits.
End(p, verdict) ==
  /\ request' = [request EXCEPT ![p] = Idle]
  /\ provider' = IF request[p].awaited
                 THEN [provider EXCEPT ![Event(p)] = verdict] ELSE provider

-----------------------------------------------------------------------------
(* The request *)

\* claimOnce: the first to come goes on, a replay is answered 200.
Claim(p) ==
  /\ request[p].stage = "claiming"
  /\ IF Event(p) \in claimed
     THEN End(p, "acked") /\ UNCHANGED claimed
     ELSE /\ claimed' = claimed \cup {Event(p)}
          /\ Proceed(p, "inserting")
          /\ UNCHANGED provider
  /\ UNCHANGED <<listVars, kind, attempts, stored, ghostVars, faults>>

\* Without Redis everybody goes on.
ClaimFailsOpen(p) ==
  /\ Fault("redisDown")
  /\ request[p].stage = "claiming"
  /\ Proceed(p, "inserting")
  /\ UNCHANGED <<listVars, kind, providerVars, claimed, stored, ghostVars>>

\* The first statement about the address an event calls for.
FirstStatement(k) ==
  CASE k = "delivered"   -> "resetting"
    [] k = "soft_bounce" -> "counting"
    [] k = "other"       -> "ready"
    [] OTHER             -> "listing"

\* A mistake: the event is stored with a plain upsert and acted on again.
InsertOver(p) ==
  /\ request[p].stage = "inserting"
  /\ \A q \in Requests \ {p} : ~HoldsEvent(q, Event(p))
  /\ Proceed(p, FirstStatement(Kind(p)))
  /\ UNCHANGED <<listVars, kind, providerVars, claimed, stored, ghostVars, faults>>

\* INSERT INTO email_events ... ON CONFLICT DO NOTHING: waits for another that is
\* inserting the same event; if it is there already the answer is 200.
InsertEvent(p) ==
  /\ request[p].stage = "inserting"
  /\ \A q \in Requests \ {p} : ~HoldsEvent(q, Event(p))
  /\ IF Event(p) \in stored
     THEN End(p, "acked")
     ELSE Proceed(p, FirstStatement(Kind(p))) /\ UNCHANGED provider
  /\ UNCHANGED <<listVars, kind, attempts, claimed, stored, ghostVars, faults>>

Writes(p, row, stage) ==
  /\ request' = [request EXCEPT ![p].contact = row, ![p].stage = stage]
  /\ UNCHANGED <<listVars, kind, providerVars, claimed, stored, ghostVars, faults>>

\* UPDATE ... soft_bounce_count = 0 WHERE ... soft_bounce_count > 0: a delivery.
ResetCount(p) ==
  /\ request[p].stage = "resetting"
  /\ IF contact.count = 0 THEN Writes(p, Absent, "ready")
     ELSE ContactFreeFor(p) /\ Writes(p, [contact EXCEPT !.count = 0], "ready")

\* Mistakes: the count is read, then written back; the limit is off by one.
CountWithoutLock(p) ==
  LET counted == [contact EXCEPT !.count = @ + 1]
  IN  /\ request[p].stage = "counting"
      /\ IF contact = Absent THEN Writes(p, Absent, "ready")
         ELSE Writes(p, counted,
                IF counted.count >= SoftBounceLimit THEN "listing" ELSE "ready")

CountBeyondLimit(p) ==
  LET counted == [contact EXCEPT !.count = @ + 1]
  IN  /\ request[p].stage = "counting"
      /\ IF contact = Absent THEN Writes(p, Absent, "ready")
         ELSE /\ ContactFreeFor(p)
              /\ Writes(p, counted,
                   IF counted.count > SoftBounceLimit THEN "listing" ELSE "ready")

\* UPDATE ... soft_bounce_count + 1 ... RETURNING: a soft bounce.  The limit is
\* tested on what the statement returns.
CountBounce(p) ==
  LET counted == [contact EXCEPT !.count = @ + 1]
  IN  /\ request[p].stage = "counting"
      /\ IF contact = Absent THEN Writes(p, Absent, "ready")
         ELSE /\ ContactFreeFor(p)
              /\ Writes(p, counted,
                   IF counted.count >= SoftBounceLimit THEN "listing" ELSE "ready")

\* suppress: the reason given, and the status it gives the contact.
Why(p) == IF Kind(p) = "soft_bounce" THEN "soft_bounce_limit" ELSE Kind(p)

StatusFor(why) == IF why = "complaint" THEN "complained" ELSE "bounced"

\* suppress, INSERT ... ON CONFLICT DO NOTHING: waits for another that is
\* inserting an entry; one that is there already stays.
ListAddress(p) ==
  /\ request[p].stage = "listing"
  /\ EntryFreeFor(p)
  /\ request' = [request EXCEPT
       ![p].entry  = IF reason = "none" THEN Why(p) ELSE "none",
       ![p].masked = reason \in Removable /\ Kind(p) \in Evidence,
       ![p].stage  = IF Why(p) = "manual" THEN "ready" ELSE "marking"]
  /\ UNCHANGED <<listVars, kind, providerVars, claimed, stored, ghostVars, faults>>

\* suppress, UPDATE contacts: the reasons that are evidence about the mailbox.
MarkContact(p) ==
  /\ request[p].stage = "marking"
  /\ IF contact = Absent THEN Writes(p, Absent, "ready")
     ELSE /\ ContactFreeFor(p)
          /\ Writes(p, [SeenContact(p) EXCEPT !.status = StatusFor(Why(p))], "ready")

\* COMMIT: the event's row and all it did, together.
Commit(p) ==
  /\ request[p].stage = "ready"
  /\ stored' = stored \cup {Event(p)}
  /\ reason' = IF HoldsEntry(p) THEN request[p].entry ELSE reason
  /\ contact' = SeenContact(p)
  /\ masked' = IF request[p].masked THEN masked \cup {Event(p)} ELSE masked
  /\ request' = [request EXCEPT ![p].stage = "committed", ![p].entry = "none",
                                ![p].contact = Absent]
  /\ UNCHANGED <<owed, actions, kind, providerVars, claimed, announced, mishap,
                 faults>>

\* After the commit: the effects, then 200.
Announce(p) ==
  /\ request[p].stage = "committed"
  /\ announced' = [announced EXCEPT ![Event(p)] = @ + 1]
  /\ End(p, "acked")
  /\ UNCHANGED <<listVars, kind, attempts, claimed, stored, masked, mishap, faults>>

\* An effect that fails is not worth a retry: 200 all the same.
AnnounceFails(p) ==
  /\ Fault("effectLost")
  /\ request[p].stage = "committed"
  /\ End(p, "acked")
  /\ UNCHANGED <<listVars, kind, attempts, claimed, stored, ghostVars>>

-----------------------------------------------------------------------------
(* Failure *)

Abort(p) ==
  request' = [request EXCEPT ![p].stage = "failed", ![p].entry = "none",
                             ![p].contact = Absent]

\* Any statement of the transaction, or its commit, fails: nothing is kept.
RollBack(p) ==
  /\ Fault("rolledBack")
  /\ request[p].stage \in {"inserting"} \cup Inserted
  /\ Abort(p)
  /\ UNCHANGED <<listVars, kind, providerVars, claimed, stored, ghostVars>>

\* A hard bounce takes the entry, then the contact; a soft bounce at the limit
\* takes the contact, then the entry.  When two requests wait for each other the
\* database aborts one of them.
WaitsFor(p, q) ==
  \/ request[p].stage = "listing" /\ HoldsEntry(q)
  \/ request[p].stage = "marking" /\ HoldsContact(q)

DeadlockVictim(p) ==
  /\ \E q \in Requests \ {p} : WaitsFor(p, q) /\ WaitsFor(q, p)
  /\ Abort(p)
  /\ UNCHANGED <<listVars, kind, providerVars, claimed, stored, ghostVars, faults>>

\* Unless the provider still waits, it will not hear that the event was not kept.
Unheard(p) ==
  mishap' = IF request[p].awaited THEN mishap ELSE mishap \cup {Event(p)}

\* A mistake: the claim is not handed back.
KeepClaim(p) ==
  /\ request[p].stage = "failed"
  /\ Unheard(p)
  /\ End(p, "due")
  /\ UNCHANGED <<listVars, kind, attempts, claimed, stored, masked, announced, faults>>

\* releaseClaim, then 500.
ReleaseClaim(p) ==
  /\ request[p].stage = "failed"
  /\ claimed' = claimed \ {Event(p)}
  /\ Unheard(p)
  /\ End(p, "due")
  /\ UNCHANGED <<listVars, kind, attempts, stored, masked, announced, faults>>

\* Redis cannot be reached to hand the claim back: 500 all the same.
ReleaseFailsOpen(p) ==
  /\ Fault("releaseLost")
  /\ request[p].stage = "failed"
  /\ mishap' = mishap \cup {Event(p)}
  /\ End(p, "due")
  /\ UNCHANGED <<listVars, kind, attempts, claimed, stored, masked, announced>>

\* The process dies: an open transaction is undone, the claim stays.
Die(p) ==
  /\ Fault("died")
  /\ request[p] # Idle
  /\ mishap' = IF request[p].stage \in {"claiming", "committed"} THEN mishap
               ELSE mishap \cup {Event(p)}
  /\ End(p, "due")
  /\ UNCHANGED <<listVars, kind, attempts, claimed, stored, masked, announced>>

\* The claim's TTL ends, or Redis needs the memory.
Evict(e) ==
  /\ Fault("evicted")
  /\ e \in claimed
  /\ claimed' = claimed \ {e}
  /\ UNCHANGED <<listVars, kind, providerVars, request, stored, ghostVars>>

-----------------------------------------------------------------------------
(* People.  Their statements wait for the requests' locks as well. *)

PeopleAct ==
  /\ \/ ContactFree /\ AddContact
     \/ EntryFree /\ \E why \in Reasons : AddSuppression(why)
     \/ RemoveSuppression
     \/ ContactFree /\ ReactivateContact
     \/ ContactFree /\ UnsubscribeContact
     \/ EntryFree /\ EnlistUnsubscribed
     \/ \E statement \in owed : SecondStatementLost(statement)
  /\ UNCHANGED <<kind, providerVars, request, claimed, stored, ghostVars, faults>>

Init ==
  /\ ListInit
  /\ kind \in [Events -> Kinds]
  /\ provider = [e \in Events |-> "due"]
  /\ attempts = [e \in Events |-> 0]
  /\ request = [p \in Requests |-> Idle]
  /\ claimed = {}
  /\ stored = {}
  /\ masked = {}
  /\ announced = [e \in Events |-> 0]
  /\ mishap = {}
  /\ faults = 0

RequestStep(p) ==
  \/ Claim(p)
  \/ InsertEvent(p)
  \/ ResetCount(p)
  \/ CountBounce(p)
  \/ ListAddress(p)
  \/ MarkContact(p)
  \/ Commit(p)
  \/ Announce(p)
  \/ DeadlockVictim(p)
  \/ ReleaseClaim(p)

RequestFault(p) ==
  \/ ClaimFailsOpen(p)
  \/ AnnounceFails(p)
  \/ RollBack(p)
  \/ ReleaseFailsOpen(p)
  \/ Die(p)

Next ==
  \/ \E e \in Events, p \in Requests : Deliver(e, p)
  \/ \E e \in Events : TimesOut(e) \/ Evict(e)
  \/ \E p \in Requests : RequestStep(p) \/ RequestFault(p)
  \/ PeopleAct

Spec == Init /\ [][Next]_ingestVars

-----------------------------------------------------------------------------
(* Properties *)

\* A request that has passed the claim is at work on the event.
InWork(e) ==
  \E p \in Requests : request[p].stage \in Stages \ {"claiming"} /\ Event(p) = e

\* An event's effects run at most once, and only once its row is durable:
\* whatever duplicates arrive, at once or later, with Redis or without.
AnnouncedOnceAndStored ==
  \A e \in Events : announced[e] <= 1 /\ (announced[e] = 1 => e \in stored)

\* Every stored soft bounce of a known contact raises the count by one, two at a
\* time included, and nothing else raises it.
CountsEachSoftBounceOnce ==
  [][/\ contact'.count > contact.count =>
          /\ contact'.count = contact.count + 1
          /\ \E e \in stored' \ stored : kind[e] = "soft_bounce"
     /\ \A p \in Requests :
          /\ request[p].stage = "ready" /\ Kind(p) = "soft_bounce"
          /\ HoldsContact(p)
          /\ Event(p) \in stored' \ stored
          => contact'.count = contact.count + 1]_ingestVars

\* "The address never reaches the limit": it does, and is barred when it has.
AtTheLimitIsBarred ==
  contact.count >= SoftBounceLimit => contact.status # "active"

\* Evidence of a dead mailbox or a complaint leaves an entry nobody can remove,
\* unless it found a removable one in its place.
EvidenceStaysUnlessMasked ==
  \A e \in stored : kind[e] \in Evidence =>
    e \in masked \/ reason \in Reasons \ Removable

\* An event the provider considers delivered is stored or being stored, unless
\* its request died, could not hand the claim back, or failed when the provider
\* had stopped listening.
LossNeedsAMishap ==
  \A e \in Events :
    provider[e] = "acked" => e \in stored \/ InWork(e) \/ e \in mishap

=============================================================================
