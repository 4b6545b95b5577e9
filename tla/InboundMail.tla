----------------------------- MODULE InboundMail -----------------------------
(* How a received message gets into the inbox.  It arrives in two phases: a  *)
(* row of metadata, from the webhook or from a sync that asks the provider   *)
(* what it holds, and then its body, fetched by the fetch-inbound-email job  *)
(* or by the Sync button itself.                                             *)
(*                                                                          *)
(* Messages are numbered in the order in which the provider received them.   *)
(* Webhooks get lost, transactions roll back, processes die after a commit,  *)
(* job events are not accepted and jobs run out of retries.                  *)
EXTENDS Integers, FiniteSets

CONSTANTS
  Messages,      \* how many messages the provider receives
  Window,        \* how many of the newest a sync looks at: 500, or 200 inline
  StalledLimit,  \* how many rows without a body it repairs: 100
  Unreadable,    \* the messages whose body the provider never hands out
  MaxFaults      \* bound: what goes wrong in all

ASSUME InboundAssumption ==
  /\ Messages \in Nat \ {0}
  /\ Window \in Nat \ {0}
  /\ StalledLimit \in Nat \ {0}
  /\ Unreadable \subseteq 1..Messages
  /\ MaxFaults \in Nat

VARIABLES
  arrived,   \* the provider holds 1..arrived
  row,       \* inbound_emails, as far as it is committed
  hook,      \* the webhook of each message: how far its handling is
  jobs,      \* the hydrate jobs that are queued or running
  sync,      \* each sync: how far it is and what it holds
  faults

inboundVars == <<arrived, row, hook, jobs, sync, faults>>

Mail  == 1..Messages
Syncs == {"cron", "button"}   \* reconcile-inbound runs one at a time; syncInbox too

HookSteps == {"unsent", "due", "inserted", "announce", "done"}
SyncSteps == {"idle", "insert", "send", "select", "repair"}

Resting == [step |-> "idle", page |-> {}, announced |-> {}, pending |-> {}]

TypeOK ==
  /\ arrived \in 0..Messages
  /\ row \in [Mail -> {"none", "stub", "full"}]
  /\ hook \in [Mail -> HookSteps]
  /\ jobs \subseteq Mail
  /\ sync \in [Syncs -> [step : SyncSteps, page : SUBSET Mail,
                         announced : SUBSET Mail, pending : SUBSET Mail]]
  /\ faults \in 0..MaxFaults

Mishap == faults < MaxFaults /\ faults' = faults + 1

\* The newest n of a set of messages.
Newest(n, set) == {m \in set : Cardinality({x \in set : x > m}) < n}

Stubs == {m \in Mail : row[m] = "stub"}

-----------------------------------------------------------------------------
(* The provider and its webhook *)

Receive ==
  /\ arrived < Messages
  /\ arrived' = arrived + 1
  /\ hook' = [hook EXCEPT ![arrived'] = "due"]
  /\ UNCHANGED <<row, jobs, sync, faults>>

\* Mutant: the job's event is sent from inside the transaction.
RecordAndAnnounce(m) ==
  /\ hook[m] = "due"
  /\ hook' = [hook EXCEPT ![m] = IF row[m] = "none" THEN "inserted" ELSE "done"]
  /\ jobs' = IF row[m] = "none" THEN jobs \cup {m} ELSE jobs
  /\ UNCHANGED <<arrived, row, sync, faults>>

\* recordInboundEmail in the webhook's transaction: ON CONFLICT DO NOTHING.  A
\* message that has a row is announced to nobody.
Record(m) ==
  /\ hook[m] = "due"
  /\ hook' = [hook EXCEPT ![m] = IF row[m] = "none" THEN "inserted" ELSE "done"]
  /\ UNCHANGED <<arrived, row, jobs, sync, faults>>

Commit(m) ==
  /\ hook[m] = "inserted"
  /\ row' = [row EXCEPT ![m] = "stub"]
  /\ hook' = [hook EXCEPT ![m] = "announce"]
  /\ UNCHANGED <<arrived, jobs, sync, faults>>

\* Answered 500, the webhook is delivered again.
Rollback(m) ==
  /\ hook[m] = "inserted"
  /\ Mishap
  /\ hook' = [hook EXCEPT ![m] = "due"]
  /\ UNCHANGED <<arrived, row, jobs, sync>>

\* announceInboundEmail, after the commit: the job's event (and a push, left out).
Announce(m) ==
  /\ hook[m] = "announce"
  /\ jobs' = jobs \cup {m}
  /\ hook' = [hook EXCEPT ![m] = "done"]
  /\ UNCHANGED <<arrived, row, sync, faults>>

\* The webhook never arrives; or the event is not accepted, or the process dies,
\* past the commit, when a redelivery would be taken for a duplicate.
LoseHook(m) ==
  /\ hook[m] \in {"due", "announce"}
  /\ Mishap
  /\ hook' = [hook EXCEPT ![m] = "done"]
  /\ UNCHANGED <<arrived, row, jobs, sync>>

-----------------------------------------------------------------------------
(* The job: hydrateInboundEmail *)

\* One that finds no row fails for good.
Hydrate(m) ==
  /\ m \in jobs \ Unreadable
  /\ row' = IF row[m] = "none" THEN row ELSE [row EXCEPT ![m] = "full"]
  /\ jobs' = jobs \ {m}
  /\ UNCHANGED <<arrived, hook, sync, faults>>

\* Five retries did not get the body.
JobGivesUp(m) ==
  /\ m \in jobs
  /\ IF m \in Unreadable THEN UNCHANGED faults ELSE Mishap
  /\ jobs' = jobs \ {m}
  /\ UNCHANGED <<arrived, row, hook, sync>>

-----------------------------------------------------------------------------
(* syncInboundEmails *)

\* The pages of the list, newest first, up to the maximum.
Listed == Newest(Window, 1..arrived)

List(s) ==
  /\ sync[s].step = "idle"
  /\ sync' = [sync EXCEPT ![s].step = "insert", ![s].page = Listed]
  /\ UNCHANGED <<arrived, row, hook, jobs, faults>>

\* recordInboundPage: one INSERT, which waits for an uncommitted row of the same id.
InsertPage(s) ==
  /\ sync[s].step = "insert"
  /\ \A m \in sync[s].page : hook[m] # "inserted" \/ row[m] # "none"
  /\ LET created == {m \in sync[s].page : row[m] = "none"} IN
     /\ row' = [m \in Mail |-> IF m \in created THEN "stub" ELSE row[m]]
     /\ sync' = [sync EXCEPT ![s].step = "send", ![s].page = {}, ![s].announced = created]
  /\ UNCHANGED <<arrived, hook, jobs, faults>>

\* Their hydrate jobs, in one event.
SendPage(s) ==
  /\ sync[s].step = "send"
  /\ jobs' = jobs \cup sync[s].announced
  /\ sync' = [sync EXCEPT ![s].step = "select"]
  /\ UNCHANGED <<arrived, row, hook, faults>>

\* Mutant: only what this run imported is repaired.
StalledImported(s) == Newest(StalledLimit, Stubs \cap sync[s].announced)

\* The rows that never got a body, newest first, without those just announced.
Stalled(s) == Newest(StalledLimit, Stubs \ sync[s].announced)

SelectStalled(s) ==
  /\ sync[s].step = "select"
  /\ sync' = [sync EXCEPT ![s].step = "repair", ![s].pending = Stalled(s)]
  /\ UNCHANGED <<arrived, row, hook, jobs, faults>>

\* The button fetches some of the bodies itself; what it cannot fetch is queued.
HydrateInline(m) ==
  /\ sync["button"].step = "repair"
  /\ m \in sync["button"].pending \ Unreadable
  /\ row' = [row EXCEPT ![m] = "full"]
  /\ sync' = [sync EXCEPT !["button"].pending = @ \ {m}]
  /\ UNCHANGED <<arrived, hook, jobs, faults>>

SendStalled(s) ==
  /\ sync[s].step = "repair"
  /\ jobs' = jobs \cup sync[s].pending
  /\ sync' = [sync EXCEPT ![s] = Resting]
  /\ UNCHANGED <<arrived, row, hook, faults>>

\* The list or an event is refused, or the process dies: the run is over.  A retry
\* is another run.
SyncFails(s) ==
  /\ sync[s].step # "idle"
  /\ Mishap
  /\ sync' = [sync EXCEPT ![s] = Resting]
  /\ UNCHANGED <<arrived, row, hook, jobs>>

-----------------------------------------------------------------------------
Init ==
  /\ arrived = 0
  /\ row = [m \in Mail |-> "none"]
  /\ hook = [m \in Mail |-> "unsent"]
  /\ jobs = {}
  /\ sync = [s \in Syncs |-> Resting]
  /\ faults = 0

HookStep(m) == Record(m) \/ Commit(m) \/ Rollback(m) \/ Announce(m) \/ LoseHook(m)

SyncStep(s) ==
  InsertPage(s) \/ SendPage(s) \/ SelectStalled(s) \/ SendStalled(s) \/ SyncFails(s)

Next ==
  \/ Receive
  \/ \E m \in Mail : HookStep(m) \/ Hydrate(m) \/ JobGivesUp(m) \/ HydrateInline(m)
  \/ \E s \in Syncs : List(s) \/ SyncStep(s)

\* Handlers and jobs run to their end, and reconcile-inbound runs every hour.
Fairness ==
  /\ \A m \in Mail : WF_inboundVars(HookStep(m)) /\ WF_inboundVars(Hydrate(m) \/ JobGivesUp(m))
  /\ \A s \in Syncs : WF_inboundVars(SyncStep(s))
  /\ WF_inboundVars(List("cron"))

Spec == Init /\ [][Next]_inboundVars /\ Fairness

-----------------------------------------------------------------------------
(* Properties *)

\* A hydrate job finds the row it was started for: none is started from inside a
\* transaction that may still be rolled back, by the webhook or by a sync.
JobFindsItsRow == \A m \in jobs : row[m] # "none"

\* So many newer messages that no sync looks as far back.
Buried(m) == arrived >= m + Window

\* So many newer messages without a body for ever that the repair never gets to m.
Starved(m) == Cardinality({x \in Unreadable : m < x /\ x <= arrived}) >= StalledLimit

\* Every message the provider receives gets a row and, unless it has none to give, a
\* body, whatever is lost on the way.  Only what the webhook did not record before it
\* was buried gets no row, and only what is starved stays without its body.
EveryMailArrives ==
  \A m \in Mail :
    m <= arrived ~> [] \/ row[m] = "full"
                       \/ row[m] = "none" /\ hook[m] = "done" /\ Buried(m)
                       \/ row[m] = "stub" /\ (m \in Unreadable \/ Starved(m))

=============================================================================
