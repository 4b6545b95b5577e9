--------------------------- MODULE SendWorker ---------------------------
(* packages/jobs/src/functions/send-campaign.ts: the job that mails the    *)
(* recipients of one campaign, batch by batch, together with the provider  *)
(* it mails them through and everything that may touch the same rows       *)
(* meanwhile.                                                              *)
(*                                                                         *)
(* A run of the job executes steps; a step that fails is tried again.  The *)
(* batch step is carried out by a worker process in one READ COMMITTED     *)
(* transaction, whose statements interleave with everybody else's:         *)
(*   suppressLateArrivals, claimBatch, the provider call, the writes and   *)
(*   COMMIT.                                                               *)
(* A worker may die before its commit, its answer may be lost after it,    *)
(* and it may still be at work when the job queue has given the attempt up *)
(* and started the next one.  The queue's limit of one executing step per  *)
(* campaign is not relied on: FOR UPDATE SKIP LOCKED has to suffice.       *)
(*                                                                         *)
(* The system is open: the campaign's status, the recipient rows and the   *)
(* do-not-send list also change by the environment actions, which          *)
(* CampaignPipeline implements with the other jobs and the Server Actions. *)
EXTENDS DeliveryLadder, FiniteSets

CONSTANTS
  Contacts,       \* the audience; a contact has at most one recipient row
  Runs,           \* runs of the job, one per campaign/send.requested event
  Workers,        \* processes that execute the batch step
  BatchSize,      \* SEND_BATCH_SIZE
  MaxBatches,     \* MAX_BATCHES_PER_RUN
  MaxAttempts,    \* 1 + retries of the function
  ReportedStatuses, \* statuses the provider's later events assert
  WrittenStatuses,  \* campaign statuses the other components write
  Labels            \* what other statements relabel a pending row to

CampaignStatuses ==
  {"draft", "scheduled", "sending", "paused", "sent", "cancelled", "failed"}

ASSUME SendAssumption ==
  /\ IsFiniteSet(Contacts)
  /\ BatchSize \in Nat \ {0}
  /\ MaxBatches \in Nat \ {0}
  /\ MaxAttempts \in Nat \ {0}
  /\ ReportedStatuses \subseteq
       {"sent", "delivered", "opened", "clicked"} \cup RecipientTerminal
  /\ WrittenStatuses \subseteq CampaignStatuses
  /\ Labels \subseteq {"suppressed", "cancelled"}

VARIABLES
  status,      \* campaigns.status
  row,         \* campaign_recipients.status by contact; "none": no row
  unsendable,  \* the contacts isUnsendable holds of
  run,         \* each run: where it is, its batch, the attempt at that batch
  tx,          \* each worker: its attempt and its open transaction
  payload,     \* provider: the recipients first sent under an idempotency key
  delivered,   \* provider: those of them it accepted
  recorded     \* ghost: the keys whose batch a worker has committed

campaignVars == <<status, unsendable>>
providerVars == <<payload, delivered>>
sendVars     == <<campaignVars, row, run, tx, providerVars, recorded>>

RowStatuses == RecipientStatuses \cup {"none"}

\* The statuses of a row that has not been handed to the provider.
Unmailed == {"none", "pending", "sending", "suppressed", "cancelled"}

\* campaign:{id}:{runId}:{batch}
Keys == Runs \X (0..MaxBatches-1)

RunPlaces ==
  {"unborn", "load", "release", "batch", "running", "complete", "continue",
   "ended"}

Stages == {"open", "checked", "claimed", "answered"}

\* A worker's transaction: the batch it serves, whether the run still waits for
\* this attempt's answer, the rows it has marked suppressed and the rows it has
\* claimed.  Nothing of it is visible to others.
Transactions ==
  [stage : Stages, run : Runs, batch : 0..MaxBatches-1, awaited : BOOLEAN,
   suppressed : SUBSET Contacts, rows : SUBSET Contacts]

Idle == [stage |-> "idle", suppressed |-> {}, rows |-> {}]

TypeOK ==
  /\ status \in CampaignStatuses
  /\ row \in [Contacts -> RowStatuses]
  /\ unsendable \subseteq Contacts
  /\ run \in [Runs -> [pc : RunPlaces, batch : 0..MaxBatches-1,
                       attempt : 1..MaxAttempts]]
  /\ tx \in [Workers -> Transactions \cup {Idle}]
  /\ payload \in [Keys -> SUBSET Contacts]
  /\ delivered \in [Keys -> SUBSET Contacts]
  /\ recorded \subseteq Keys

-----------------------------------------------------------------------------
(* Transactions *)

\* The rows a transaction holds: those it has written and those it has claimed.
Holds(w) == tx[w].suppressed \cup tx[w].rows

Locked(c) == \E w \in Workers : c \in Holds(w)

LockedByOther(w, c) == \E v \in Workers \ {w} : c \in Holds(v)

Key(w) == <<tx[w].run, tx[w].batch>>

Proceed(w, transaction) == tx' = [tx EXCEPT ![w] = transaction]

\* COMMIT or ROLLBACK: the worker is free and its locks are gone.
Release(w) == Proceed(w, Idle)

Goto(r, place) == run' = [run EXCEPT ![r].pc = place]

End(r) == run' = [run EXCEPT ![r].pc = "ended", ![r].attempt = 1]

Overwrite(S, new) == [c \in Contacts |-> IF c \in S THEN new[c] ELSE row[c]]

Constantly(value) == [c \in Contacts |-> value]

-----------------------------------------------------------------------------
(* A run's steps *)

\* load-campaign reads the status; a campaign that is not sending stops here.
LoadCampaign(r) ==
  /\ run[r].pc = "load"
  /\ Goto(r, IF status = "sending" THEN "batch" ELSE "release")
  /\ UNCHANGED <<campaignVars, row, tx, providerVars, recorded>>

\* A mistake: rows already sent are released as well.
ReleaseSent(r) ==
  /\ run[r].pc = "release"
  /\ row' = Overwrite({c \in Contacts : row[c] \in {"sending", "sent"}},
                      Constantly("pending"))
  /\ End(r)
  /\ UNCHANGED <<campaignVars, tx, providerVars, recorded>>

\* release-claimed: rows visibly `sending` go back to pending.
ReleaseClaimed(r) ==
  /\ run[r].pc = "release"
  /\ row' = Overwrite({c \in Contacts : row[c] = "sending"}, Constantly("pending"))
  /\ End(r)
  /\ UNCHANGED <<campaignVars, tx, providerVars, recorded>>

\* The queue hands the current attempt at the batch step to a free worker.
StartAttempt(r, w) ==
  /\ run[r].pc = "batch"
  /\ tx[w] = Idle
  /\ Proceed(w, [stage |-> "open", run |-> r, batch |-> run[r].batch,
                 awaited |-> TRUE, suppressed |-> {}, rows |-> {}])
  /\ Goto(r, "running")
  /\ UNCHANGED <<campaignVars, row, providerVars, recorded>>

\* The attempt threw, timed out or was lost with its answer; its worker may be
\* alive or not.  After the last attempt the run has failed.
AttemptFails(r) ==
  /\ run[r].pc = "running"
  /\ \/ /\ run[r].attempt < MaxAttempts
        /\ run' = [run EXCEPT ![r].pc = "batch", ![r].attempt = @ + 1]
     \/ /\ run[r].attempt = MaxAttempts
        /\ End(r)
  /\ tx' = [w \in Workers |->
       IF tx[w] # Idle /\ tx[w].run = r THEN [tx[w] EXCEPT !.awaited = FALSE]
       ELSE tx[w]]
  /\ UNCHANGED <<campaignVars, row, providerVars, recorded>>

\* A mistake: the campaign is completed without looking for rows left over.
CompleteRegardless(r) ==
  /\ run[r].pc = "complete"
  /\ status' = IF status = "sending" THEN "sent" ELSE status
  /\ End(r)
  /\ UNCHANGED <<unsendable, row, tx, providerVars, recorded>>

\* complete: `sent`, provided the campaign is still sending and nothing is left.
Complete(r) ==
  /\ run[r].pc = "complete"
  /\ status' = IF status = "sending"
                  /\ \A c \in Contacts : row[c] \notin {"pending", "sending"}
               THEN "sent" ELSE status
  /\ End(r)
  /\ UNCHANGED <<unsendable, row, tx, providerVars, recorded>>

\* continue: the per-run ceiling was reached; another run takes over.
Continue(r, next) ==
  /\ run[r].pc = "continue"
  /\ run[next].pc = "unborn"
  /\ run' = [run EXCEPT ![r].pc = "ended", ![next].pc = "load"]
  /\ UNCHANGED <<campaignVars, row, tx, providerVars, recorded>>

\* A step other than the batch has used up its retries.
StepExhausted(r) ==
  /\ run[r].pc \in {"load", "release", "complete", "continue"}
  /\ End(r)
  /\ UNCHANGED <<campaignVars, row, tx, providerVars, recorded>>

-----------------------------------------------------------------------------
(* The batch transaction, statement by statement *)

\* A mistake: the worker trusts the suppressions of the queue step.
SuppressNothing(w) ==
  /\ tx[w].stage = "open"
  /\ Proceed(w, [tx[w] EXCEPT !.stage = "checked"])
  /\ UNCHANGED <<campaignVars, row, run, providerVars, recorded>>

\* suppressLateArrivals.  The UPDATE waits for a row somebody else holds.
SuppressLateArrivals(w) ==
  LET late == {c \in unsendable : row[c] = "pending"}
  IN  /\ tx[w].stage = "open"
      /\ \A c \in late : ~LockedByOther(w, c)
      /\ Proceed(w, [tx[w] EXCEPT !.stage = "checked", !.suppressed = late])
      /\ UNCHANGED <<campaignVars, row, run, providerVars, recorded>>

\* Mistakes: the claim does not lock, or does not look at the row's status.
ClaimableUnlocked(w) ==
  {c \in Contacts : /\ status = "sending"
                    /\ row[c] = "pending"
                    /\ c \notin tx[w].suppressed}

ClaimableAnyStatus(w) ==
  {c \in Contacts : /\ status = "sending"
                    /\ row[c] # "none"
                    /\ c \notin tx[w].suppressed
                    /\ ~LockedByOther(w, c)}

\* What the claim's subquery can lock: pending rows nobody holds, and none at
\* all unless the campaign is sending.
Claimable(w) ==
  {c \in Contacts : /\ status = "sending"
                    /\ row[c] = "pending"
                    /\ c \notin tx[w].suppressed
                    /\ ~LockedByOther(w, c)}

\* claimBatch: any BatchSize of them (there is no ORDER BY), or all.
ClaimBatch(w, S) ==
  /\ tx[w].stage = "checked"
  /\ S \subseteq Claimable(w)
  /\ \/ Cardinality(S) = BatchSize
     \/ Cardinality(S) < BatchSize /\ S = Claimable(w)
  /\ Proceed(w, [tx[w] EXCEPT !.stage = "claimed", !.rows = S])
  /\ UNCHANGED <<campaignVars, row, run, providerVars, recorded>>

\* The provider sees the key for the first time: in permissive mode it accepts
\* some of the messages and reports the rest.
ProviderAccepts(w, accepted) ==
  /\ tx[w].stage = "claimed" /\ tx[w].rows # {}
  /\ payload[Key(w)] = {}
  /\ accepted \subseteq tx[w].rows
  /\ payload' = [payload EXCEPT ![Key(w)] = tx[w].rows]
  /\ delivered' = [delivered EXCEPT ![Key(w)] = accepted]
  /\ Proceed(w, [tx[w] EXCEPT !.stage = "answered"])
  /\ UNCHANGED <<campaignVars, row, run, recorded>>

\* A known key with the same payload collapses onto the first request.  With
\* another payload the provider refuses, sendBatch throws: RollBack.
ProviderCollapses(w) ==
  /\ tx[w].stage = "claimed" /\ tx[w].rows # {}
  /\ payload[Key(w)] = tx[w].rows
  /\ Proceed(w, [tx[w] EXCEPT !.stage = "answered"])
  /\ UNCHANGED <<campaignVars, row, run, providerVars, recorded>>

\* What follows the batch step once its result has reached the queue.
Advance(r, claimed) ==
  LET full == claimed = BatchSize
      last == run[r].batch = MaxBatches - 1
  IN  run' = [run EXCEPT ![r] =
        [pc      |-> IF ~full THEN "complete"
                     ELSE IF last THEN "continue" ELSE "batch",
         batch   |-> IF full /\ ~last THEN @.batch + 1 ELSE @.batch,
         attempt |-> 1]]

\* The queue takes an answer only from the attempt it waits for, and the
\* answer may be lost.
Reports(w, answerArrives) ==
  IF answerArrives /\ tx[w].awaited
  THEN Advance(tx[w].run, Cardinality(tx[w].rows))
  ELSE UNCHANGED run

\* Mistakes: the provider's per-message errors are ignored, or a refused row is
\* left for the next batch.
OutcomeAllSent(w) ==
  [c \in Contacts |-> IF c \in tx[w].suppressed THEN "suppressed" ELSE "sent"]

OutcomeRefusedStayPending(w) ==
  [c \in Contacts |->
     IF c \in tx[w].suppressed THEN "suppressed"
     ELSE IF c \in delivered[Key(w)] THEN "sent" ELSE "pending"]

\* The rows of a committed batch: sent or refused, each only if the row is
\* still `sending` (it is: the worker holds it), and the suppressed ones.
BatchOutcome(w) ==
  [c \in Contacts |->
     IF c \in tx[w].suppressed THEN "suppressed"
     ELSE IF c \in delivered[Key(w)] THEN "sent" ELSE "failed"]

CommitBatch(w, answerArrives) ==
  /\ tx[w].stage = "answered"
  /\ row' = Overwrite(Holds(w), BatchOutcome(w))
  /\ recorded' = recorded \cup {Key(w)}
  /\ Reports(w, answerArrives)
  /\ Release(w)
  /\ UNCHANGED <<campaignVars, providerVars>>

\* Zero rows claimed: only the suppressions are committed.
CommitEmpty(w, answerArrives) ==
  /\ tx[w].stage = "claimed" /\ tx[w].rows = {}
  /\ row' = Overwrite(tx[w].suppressed, Constantly("suppressed"))
  /\ Reports(w, answerArrives)
  /\ Release(w)
  /\ UNCHANGED <<campaignVars, providerVars, recorded>>

\* The transaction is undone: a render error, a refused key, a lost answer of
\* the provider, a failed write, a killed process.
RollBack(w) ==
  /\ tx[w] # Idle
  /\ Release(w)
  /\ UNCHANGED <<campaignVars, row, run, providerVars, recorded>>

-----------------------------------------------------------------------------
(* The environment *)

CampaignChanges(new) ==
  /\ status' = new
  /\ UNCHANGED <<unsendable, row, run, tx, providerVars, recorded>>

\* A campaign/send.requested event is received.
SendRequested(r) ==
  /\ run[r].pc = "unborn"
  /\ Goto(r, "load")
  /\ UNCHANGED <<campaignVars, row, tx, providerVars, recorded>>

\* resumeCampaign: the campaign is sending again, and a run is requested.
Resumed(r) ==
  /\ "sending" \in WrittenStatuses
  /\ status' = "sending"
  /\ run[r].pc = "unborn"
  /\ Goto(r, "load")
  /\ UNCHANGED <<unsendable, row, tx, providerVars, recorded>>

\* INSERT ... ON CONFLICT DO NOTHING: contacts without a row get a pending one.
Materialise(S) ==
  /\ S \subseteq {c \in Contacts : row[c] = "none"}
  /\ row' = Overwrite(S, Constantly("pending"))
  /\ UNCHANGED <<campaignVars, run, tx, providerVars, recorded>>

\* Pending rows relabelled by another statement, which waits for locks.
Relabel(S, label) ==
  /\ \A c \in S : row[c] = "pending" /\ ~Locked(c)
  /\ row' = Overwrite(S, Constantly(label))
  /\ UNCHANGED <<campaignVars, run, tx, providerVars, recorded>>

DoNotSendChanges(c) ==
  /\ unsendable' = IF c \in unsendable THEN unsendable \ {c}
                   ELSE unsendable \cup {c}
  /\ UNCHANGED <<status, row, run, tx, providerVars, recorded>>

\* A webhook or the reconciler applies an event about a message the provider
\* accepted.  It finds the row by the tag the message carried, whether or not
\* our transaction ever committed, and waits for the row's lock.
EventApplies(c, s) ==
  /\ \E k \in Keys : c \in delivered[k]
  /\ ~Locked(c)
  /\ row' = [row EXCEPT ![c] = NextRecipientStatus(@, s)]
  /\ UNCHANGED <<campaignVars, run, tx, providerVars, recorded>>

-----------------------------------------------------------------------------
Init ==
  /\ status \in WrittenStatuses
  /\ row = [c \in Contacts |-> "none"]
  /\ unsendable \in SUBSET Contacts
  /\ run = [r \in Runs |-> [pc |-> "unborn", batch |-> 0, attempt |-> 1]]
  /\ tx = [w \in Workers |-> Idle]
  /\ payload = [k \in Keys |-> {}]
  /\ delivered = [k \in Keys |-> {}]
  /\ recorded = {}

RunStep(r) ==
  \/ LoadCampaign(r)
  \/ ReleaseClaimed(r)
  \/ \E w \in Workers : StartAttempt(r, w)
  \/ AttemptFails(r)
  \/ Complete(r)
  \/ \E next \in Runs : Continue(r, next)
  \/ StepExhausted(r)

WorkerStep(w) ==
  \/ SuppressLateArrivals(w)
  \/ \E S \in SUBSET Contacts : ClaimBatch(w, S)
  \/ \E S \in SUBSET tx[w].rows : ProviderAccepts(w, S)
  \/ ProviderCollapses(w)
  \/ \E answerArrives \in BOOLEAN : CommitBatch(w, answerArrives)
  \/ \E answerArrives \in BOOLEAN : CommitEmpty(w, answerArrives)
  \/ RollBack(w)

Environment ==
  \/ \E new \in WrittenStatuses : CampaignChanges(new)
  \/ \E r \in Runs : SendRequested(r) \/ Resumed(r)
  \/ \E S \in SUBSET Contacts : Materialise(S)
  \/ \E S \in SUBSET Contacts, label \in Labels : Relabel(S, label)
  \/ \E c \in Contacts : DoNotSendChanges(c)
  \/ \E c \in Contacts, s \in ReportedStatuses : EventApplies(c, s)

Next ==
  \/ \E r \in Runs : RunStep(r)
  \/ \E w \in Workers : WorkerStep(w)
  \/ Environment

Spec == Init /\ [][Next]_sendVars

-----------------------------------------------------------------------------
(* Properties *)

\* "Two workers take disjoint slices": what open transactions hold is disjoint
\* and, to everybody else, still pending - a row is never visibly `sending`.
SlicesAreDisjoint ==
  /\ \A c \in Contacts : row[c] # "sending"
  /\ \A w \in Workers :
       /\ \A c \in Holds(w) : row[c] = "pending"
       /\ \A v \in Workers \ {w} : Holds(v) \cap Holds(w) = {}

\* The documented cost, and no more: a contact has two copies only of two
\* different runs, and only if the commit of one of the two batches was lost.
SecondCopyNeedsALostCommit ==
  \A j, k \in Keys :
    j # k /\ delivered[j] \cap delivered[k] # {} =>
      j[1] # k[1] /\ {j, k} \ recorded # {}

\* Once a committed batch holds a contact - accepted or refused - no message to
\* it is ever accepted again, by any run, retry or leftover worker.
NoCopyAfterRecord ==
  [][\A k \in Keys :
       (delivered'[k] \ delivered[k]) \cap UNION {payload[j] : j \in recorded} = {}
    ]_sendVars

\* A row says that a message left only if the provider has accepted one.
RowTellsTheTruth ==
  \A c \in Contacts :
    row[c] \in {"sent", "delivered", "opened", "clicked", "bounced", "complained"}
      => \E k \in Keys : c \in delivered[k]

\* What the worker promises its campaign: CampaignMail, with a contact closed
\* once its row says that its message is dealt with.
Mail == INSTANCE CampaignMail WITH
  offered  <- payload,
  accepted <- delivered,
  closed   <- {c \in Contacts : row[c] \notin Unmailed}

ImplementsCampaignMail == Mail!Spec

=============================================================================
