------------------------- MODULE CampaignPipeline -------------------------
(* One campaign from draft to sent: the Server Actions of                  *)
(* apps/web/src/actions/campaigns.ts, the queue, cancel and scheduler jobs *)
(* of packages/jobs, and the send worker of SendWorker, all of them        *)
(* reading and writing the same campaigns row and recipient rows.          *)
(*                                                                         *)
(* The Server Actions claim a transition with UPDATE ... WHERE status and  *)
(* then emit an event; the jobs are driven by events and by a cron.  A     *)
(* process may die between its UPDATE and its emit, and a step's answer    *)
(* may be lost after the step has committed.                               *)
EXTENDS SendWorker

CONSTANTS
  QueueRuns,   \* runs of queue-campaign that can be under way at a time
  MaxActions,  \* bound: Server Actions that change the campaign
  MaxFaults,   \* bound: faults
  Faults       \* the kinds of fault this instance has, of FaultKinds

FaultKinds ==
  {"emit",       \* a Server Action dies between its UPDATE and its event
   "dispatch",   \* the scheduler loses its claim's answer before it emits
   "claim",      \* claim-campaign committed, then threw or lost its answer
   "step",       \* a queue step uses up its retries
   "send"}       \* SendWorker's: attempts that fail, answers lost, rollbacks

ASSUME PipelineAssumption ==
  /\ MaxActions \in Nat
  /\ MaxFaults \in Nat
  /\ Faults \subseteq FaultKinds
  /\ WrittenStatuses = CampaignStatuses
  /\ Labels = {"suppressed", "cancelled"}

VARIABLES
  started,      \* campaigns.started_at is not NULL
  due,          \* campaigns.scheduled_at: NULL, to come, or reached
  fresh,        \* campaigns.updated_at is less than five minutes old
  queue,        \* each queue run's place
  cancelAsked,  \* a campaign/cancel.requested event is waiting
  actions,      \* Server Actions taken so far
  faults,       \* faults so far
  resumedEarly, \* ghost: a resume found recipients not yet materialised
  barred        \* ghost: contacts unsendable from the beginning until now

counters     == <<actions, faults>>
ghosts       == <<resumedEarly, barred>>
campaignTime == <<started, due, fresh>>
pipeVars     == <<campaignTime, queue, cancelAsked, counters, ghosts>>
pipelineVars == <<sendVars, pipeVars>>

\* What the send worker and its provider keep to themselves.
workerVars   == <<run, tx, providerVars, recorded>>

QueuePlaces == {"idle", "claim", "report", "insert", "suppress", "emit"}

Unmaterialised == {c \in Contacts : row[c] = "none"}

Pending == {c \in Contacts : row[c] = "pending"}

PipelineTypeOK ==
  /\ TypeOK
  /\ started \in BOOLEAN
  /\ due \in {"none", "future", "past"}
  /\ fresh \in BOOLEAN
  /\ queue \in [QueueRuns -> QueuePlaces]
  /\ cancelAsked \in BOOLEAN
  /\ actions \in 0..MaxActions
  /\ faults \in 0..MaxFaults
  /\ resumedEarly \in BOOLEAN
  /\ barred \subseteq Contacts

-----------------------------------------------------------------------------
(* Pieces *)

\* An UPDATE of the campaigns row; every one of them touches updated_at.
SetCampaign(newStatus, newStarted, newDue) ==
  /\ status' = newStatus
  /\ started' = newStarted
  /\ due' = newDue
  /\ fresh' = TRUE

Fault(kind) ==
  /\ kind \in Faults
  /\ faults < MaxFaults
  /\ faults' = faults + 1
  /\ UNCHANGED actions

QueueAt(q, place) == queue' = [queue EXCEPT ![q] = place]

\* campaign/queue.requested reaches the queue: some idle run will take it.
EmitQueue ==
  /\ \E q \in QueueRuns : queue[q] = "idle" /\ QueueAt(q, "claim")
  /\ UNCHANGED counters

LoseQueueEmit == Fault("dispatch") /\ UNCHANGED queue

\* campaign/send.requested starts a run of the send worker.
EmitSend ==
  \E r \in Runs :
    /\ run[r].pc = "unborn"
    /\ Goto(r, "load")

-----------------------------------------------------------------------------
(* Server Actions.  The transition and the emit that follows it are one    *)
(* step here, or the emit is lost: until it is taken, an event that has    *)
(* been emitted and one that is about to be look the same to everybody.    *)

Act == actions < MaxActions

Acted == actions' = actions + 1 /\ UNCHANGED faults

ActedButDied ==
  /\ "emit" \in Faults /\ faults < MaxFaults
  /\ actions' = actions + 1 /\ faults' = faults + 1

\* sendCampaignNow
SendCampaignNow ==
  /\ Act /\ status = "draft"
  /\ SetCampaign("scheduled", started, "past")
  /\ \/ \E q \in QueueRuns : queue[q] = "idle" /\ QueueAt(q, "claim") /\ Acted
     \/ UNCHANGED queue /\ ActedButDied
  /\ UNCHANGED <<unsendable, row, workerVars, cancelAsked, ghosts>>

\* A mistake: the UPDATE has no WHERE status.
ScheduleAnything ==
  /\ Act
  /\ SetCampaign("scheduled", started, "future")
  /\ Acted
  /\ UNCHANGED <<unsendable, row, workerVars, queue, cancelAsked, ghosts>>

\* scheduleCampaign with a date, which has to be in the future.
ScheduleCampaign ==
  /\ Act /\ status \in {"draft", "scheduled"}
  /\ SetCampaign("scheduled", started, "future")
  /\ Acted
  /\ UNCHANGED <<unsendable, row, workerVars, queue, cancelAsked, ghosts>>

PauseCampaign ==
  /\ Act /\ status \in {"sending", "scheduled"}
  /\ SetCampaign("paused", started, due)
  /\ Acted
  /\ UNCHANGED <<unsendable, row, workerVars, queue, cancelAsked, ghosts>>

ResumeCampaign ==
  /\ Act /\ status = "paused"
  /\ SetCampaign("sending", started, due)
  /\ \/ EmitSend /\ Acted
     \/ UNCHANGED run /\ ActedButDied
  /\ resumedEarly' = (resumedEarly \/ Unmaterialised # {})
  /\ UNCHANGED <<unsendable, row, tx, providerVars, recorded, queue,
                 cancelAsked, barred>>

CancelCampaignAction ==
  /\ Act /\ status \in {"draft", "scheduled", "sending", "paused"}
  /\ SetCampaign("cancelled", started, due)
  /\ \/ cancelAsked' = TRUE /\ Acted
     \/ UNCHANGED cancelAsked /\ ActedButDied
  /\ UNCHANGED <<unsendable, row, workerVars, queue, ghosts>>

ServerAction ==
  \/ SendCampaignNow
  \/ ScheduleCampaign
  \/ PauseCampaign
  \/ ResumeCampaign
  \/ CancelCampaignAction

-----------------------------------------------------------------------------
(* queue-campaign *)

\* A mistake: the claim is not one-shot.
ClaimAgain(q) ==
  /\ queue[q] = "claim"
  /\ status \in {"scheduled", "sending"}
  /\ SetCampaign("sending", TRUE, due)
  /\ QueueAt(q, "report")
  /\ UNCHANGED <<unsendable, row, workerVars, cancelAsked, counters, ghosts>>

\* claimCampaignForQueue: the one-shot guard is started_at IS NULL.
ClaimCampaignForQueue(q) ==
  /\ queue[q] = "claim"
  /\ status \in {"scheduled", "sending"} /\ ~started
  /\ SetCampaign("sending", TRUE, due)
  /\ QueueAt(q, "report")
  /\ UNCHANGED <<unsendable, row, workerVars, cancelAsked, counters, ghosts>>

\* Nothing to claim: NonRetriableError, the run is over.
ClaimRefused(q) ==
  /\ queue[q] = "claim"
  /\ started \/ status \notin {"scheduled", "sending"}
  /\ QueueAt(q, "idle")
  /\ UNCHANGED <<sendVars, campaignTime, cancelAsked, counters, ghosts>>

\* deliverabilityReport allows it, and the claim step's answer arrives.
ReportAllows(q) ==
  /\ queue[q] = "report"
  /\ QueueAt(q, "insert")
  /\ UNCHANGED <<sendVars, campaignTime, cancelAsked, counters, ghosts>>

\* A mistake: started_at stays, and with it the one-shot claim.
ReportKeepsClaim(q) ==
  /\ queue[q] = "report"
  /\ SetCampaign("draft", started, "none")
  /\ QueueAt(q, "idle")
  /\ UNCHANGED <<unsendable, row, workerVars, cancelAsked, counters, ghosts>>

\* The report forbids sending: back to draft, WHERE id = ... and nothing else.
ReportForbids(q) ==
  /\ queue[q] = "report"
  /\ SetCampaign("draft", FALSE, "none")
  /\ QueueAt(q, "idle")
  /\ UNCHANGED <<unsendable, row, workerVars, cancelAsked, counters, ghosts>>

\* The report throws, or the step's answer is lost: the step runs again.
ClaimStepFails(q) ==
  /\ queue[q] = "report"
  /\ Fault("claim")
  /\ QueueAt(q, "claim")
  /\ UNCHANGED <<sendVars, campaignTime, cancelAsked, ghosts>>

\* insert-recipients, for the audience "everyone".
MaterialiseRecipients(q) ==
  /\ queue[q] = "insert"
  /\ row' = Overwrite(Unmaterialised, Constantly("pending"))
  /\ QueueAt(q, "suppress")
  /\ UNCHANGED <<campaignVars, workerVars, campaignTime, cancelAsked, counters,
                 ghosts>>

\* apply-suppressions and update-totals.  The UPDATE waits for held rows.
ApplyQueueSuppressions(q) ==
  /\ queue[q] = "suppress"
  /\ \A c \in Pending \cap unsendable : ~Locked(c)
  /\ row' = Overwrite(Pending \cap unsendable, Constantly("suppressed"))
  /\ fresh' = TRUE
  /\ QueueAt(q, "emit")
  /\ UNCHANGED <<campaignVars, workerVars, started, due, cancelAsked, counters,
                 ghosts>>

\* start-sending
StartSending(q) ==
  /\ queue[q] = "emit"
  /\ EmitSend
  /\ QueueAt(q, "idle")
  /\ UNCHANGED <<campaignVars, row, tx, providerVars, recorded, campaignTime,
                 cancelAsked, counters, ghosts>>

\* A step has used up its retries: the run fails where it is.
QueueRunFails(q) ==
  /\ queue[q] # "idle"
  /\ Fault("step")
  /\ QueueAt(q, "idle")
  /\ UNCHANGED <<sendVars, campaignTime, cancelAsked, ghosts>>

QueueStep(q) ==
  \/ ClaimCampaignForQueue(q)
  \/ ClaimRefused(q)
  \/ ReportAllows(q)
  \/ ReportForbids(q)
  \/ ClaimStepFails(q)
  \/ MaterialiseRecipients(q)
  \/ ApplyQueueSuppressions(q)
  \/ StartSending(q)
  \/ QueueRunFails(q)

-----------------------------------------------------------------------------
(* The scheduler and cancel-campaign *)

\* claim-due, then queue-due; the answer of claim-due may be lost in between.
ClaimDue ==
  /\ status = "scheduled" /\ due = "past"
  /\ SetCampaign("sending", started, due)
  /\ EmitQueue \/ LoseQueueEmit
  /\ UNCHANGED <<unsendable, row, workerVars, cancelAsked, ghosts>>

\* A mistake: the recovery looks for what claim-due has not yet taken.
ReclaimScheduled ==
  /\ status = "scheduled" /\ ~started /\ ~fresh
  /\ fresh' = TRUE
  /\ EmitQueue \/ LoseQueueEmit
  /\ UNCHANGED <<sendVars, started, due, cancelAsked, ghosts>>

\* recover-stranded, then queue-due; it may lose its answer like claim-due.
ReclaimStranded ==
  /\ status = "sending" /\ ~started /\ ~fresh
  /\ fresh' = TRUE
  /\ EmitQueue \/ LoseQueueEmit
  /\ UNCHANGED <<sendVars, started, due, cancelAsked, ghosts>>

\* A mistake: rows that have been mailed are cancelled too.
CancelEverything ==
  /\ cancelAsked
  /\ row' = IF status = "cancelled"
            THEN Overwrite(Contacts \ Unmaterialised, Constantly("cancelled"))
            ELSE row
  /\ cancelAsked' = FALSE
  /\ UNCHANGED <<campaignVars, workerVars, campaignTime, queue, counters, ghosts>>

\* cancel-recipients: only for a campaign that is cancelled by now.
CancelRecipients ==
  /\ cancelAsked
  /\ status = "cancelled" => \A c \in Pending : ~Locked(c)
  /\ row' = IF status = "cancelled"
            THEN Overwrite(Pending, Constantly("cancelled")) ELSE row
  /\ cancelAsked' = FALSE
  /\ UNCHANGED <<campaignVars, workerVars, campaignTime, queue, counters, ghosts>>

\* The cancel run has used up its retries.
CancelRunFails ==
  /\ cancelAsked
  /\ Fault("step")
  /\ cancelAsked' = FALSE
  /\ UNCHANGED <<sendVars, campaignTime, queue, ghosts>>

\* The scheduled time comes; five minutes pass without an update.
TimeComes ==
  /\ due = "future" /\ due' = "past"
  /\ UNCHANGED <<sendVars, started, fresh, queue, cancelAsked, counters, ghosts>>

GraceEnds ==
  /\ fresh /\ fresh' = FALSE
  /\ UNCHANGED <<sendVars, started, due, queue, cancelAsked, counters, ghosts>>

Scheduler == ClaimDue \/ ReclaimStranded

-----------------------------------------------------------------------------
(* The send worker and the outside world *)

Touched == fresh' = (fresh \/ status' # status)

RunGoesOn(r) ==
  /\ \/ LoadCampaign(r)
     \/ ReleaseClaimed(r)
     \/ \E w \in Workers : StartAttempt(r, w)
     \/ Complete(r)
     \/ \E next \in Runs : Continue(r, next)
  /\ Touched
  /\ UNCHANGED <<started, due, queue, cancelAsked, counters, ghosts>>

RunFaults(r) ==
  /\ AttemptFails(r) \/ StepExhausted(r)
  /\ Fault("send")
  /\ UNCHANGED <<campaignTime, queue, cancelAsked, ghosts>>

WorkerGoesOn(w) ==
  /\ \/ SuppressLateArrivals(w)
     \/ \E S \in SUBSET Contacts : ClaimBatch(w, S)
     \/ \E S \in SUBSET tx[w].rows : ProviderAccepts(w, S)
     \/ ProviderCollapses(w)
  /\ UNCHANGED pipeVars

\* The UPDATE of the counters, if there is anything to count, touches
\* updated_at.
WorkerCommits(w) ==
  /\ CommitBatch(w, TRUE) \/ CommitEmpty(w, TRUE)
  /\ fresh' = (fresh \/ Holds(w) # {})
  /\ UNCHANGED <<started, due, queue, cancelAsked, counters, ghosts>>

WorkerFaults(w) ==
  /\ \/ RollBack(w) /\ fresh' = fresh
     \/ /\ CommitBatch(w, FALSE) \/ CommitEmpty(w, FALSE)
        /\ fresh' = (fresh \/ Holds(w) # {})
  /\ Fault("send")
  /\ UNCHANGED <<started, due, queue, cancelAsked, ghosts>>

ContactChanges(c) ==
  /\ DoNotSendChanges(c)
  /\ Act /\ Acted
  /\ barred' = barred \cap unsendable'
  /\ UNCHANGED <<campaignTime, queue, cancelAsked, resumedEarly>>

EventArrives(c, s) ==
  /\ EventApplies(c, s)
  /\ UNCHANGED pipeVars

-----------------------------------------------------------------------------
PipelineInit ==
  /\ Init
  /\ status = "draft"
  /\ started = FALSE
  /\ due = "none"
  /\ fresh = TRUE
  /\ queue = [q \in QueueRuns |-> "idle"]
  /\ cancelAsked = FALSE
  /\ actions = 0
  /\ faults = 0
  /\ resumedEarly = FALSE
  /\ barred = unsendable

PipelineNext ==
  \/ ServerAction
  \/ \E q \in QueueRuns : QueueStep(q)
  \/ Scheduler
  \/ CancelRecipients
  \/ CancelRunFails
  \/ TimeComes
  \/ GraceEnds
  \/ \E r \in Runs : RunGoesOn(r) \/ RunFaults(r)
  \/ \E w \in Workers : WorkerGoesOn(w) \/ WorkerCommits(w) \/ WorkerFaults(w)
  \/ \E c \in Contacts : ContactChanges(c)
  \/ \E c \in Contacts, s \in ReportedStatuses : EventArrives(c, s)

PipelineSpec == PipelineInit /\ [][PipelineNext]_pipelineVars

-----------------------------------------------------------------------------
(* Safety *)

\* The pipeline is a SendWorker: all that touches its rows and its campaign
\* stays within what the worker's environment may do.
ImplementsSendWorker == Spec

\* The run has claimed the campaign and is not yet done with it.
Materialising(q) == queue[q] \notin {"idle", "claim"}

\* "Materialised once": however many queue events the Server Action, the cron
\* and its recovery emit, one run at a time owns the materialisation, and a
\* recipient row exists only for a campaign that has been claimed.
MaterialisedOnce ==
  /\ \A p, q \in QueueRuns : Materialising(p) /\ Materialising(q) => p = q
  /\ Unmaterialised # Contacts => started

\* A campaign reports success only when every recipient is dealt with - so
\* long as nobody resumed it before its recipients were there.
SentCoversEverybody ==
  status = "sent" /\ ~resumedEarly => Unmaterialised = {} /\ Pending = {}

\* Suppression reaches every send path: a contact that has been unsendable all
\* along is never handed to the provider - under the same condition.
BarredIsNeverMailed ==
  ~resumedEarly => \A k \in Keys : payload[k] \cap barred = {}

\* Only a queue run whose deliverability report forbids sending takes a
\* finished campaign out of `sent` or `cancelled`.
OnlyTheReportRevives ==
  [][(status \in {"sent", "cancelled"} /\ status' # status) =>
       status' = "draft" /\ \E q \in QueueRuns : queue[q] = "report"
    ]_pipelineVars

\* No fault but the scheduler's lost answers has struck so far.
NothingFailed == faults = 0 \/ Faults \subseteq {"dispatch"}

\* Nobody is stranded: whatever was paused, resumed, cancelled, claimed twice or
\* half done, a started campaign that is sending is in somebody's hands - a queue run
\* that will request a send, or a send run that has not ended; two runs that finish
\* together do not each leave the campaign to the other.  And one that is not
\* started is still to be found by the scheduler.
CarriedOn ==
  NothingFailed /\ status = "sending" =>
    \/ ~started
    \/ \E q \in QueueRuns : Materialising(q)
    \/ \E r \in Runs : run[r].pc \in {"load", "batch", "running", "complete", "continue"}

\* pauseCampaign's guard is there so that a campaign "never sent to anybody"
\* cannot "sit in the list reporting success".
SentMeansMailed == status = "sent" => Unmaterialised = {} /\ Pending = {}

\* A campaign is not started before its date: scheduling emits no event, since
\* "emitting now would send it immediately".
NotBeforeDue == [][~started /\ started' => due # "future"]_pipelineVars

-----------------------------------------------------------------------------
(* Liveness *)

\* Every job goes on until it is done, the cron fires every minute, time
\* passes; nobody has to press a button and nothing has to fail.
Fairness ==
  /\ \A q \in QueueRuns : WF_pipelineVars(QueueStep(q))
  /\ WF_pipelineVars(Scheduler)
  /\ WF_pipelineVars(TimeComes)
  /\ WF_pipelineVars(GraceEnds)
  /\ \A r \in Runs : WF_pipelineVars(RunGoesOn(r))
  /\ \A w \in Workers : WF_pipelineVars(WorkerGoesOn(w) \/ WorkerCommits(w))

FairPipelineSpec == PipelineSpec /\ Fairness

\* A campaign the scheduler took and whose queue event was lost is not lost:
\* every scheduled or sending campaign comes to rest, even if the scheduler's
\* claim keeps losing its answer for a while.
SchedulingSettles ==
  status \in {"scheduled", "sending"}
    ~> status \in {"draft", "sent", "paused", "cancelled"}

=============================================================================
