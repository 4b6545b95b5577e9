# Sendstack: a verification project

Sendstack is a self-hosted mail application: a shared inbox, one-off messages, and
campaigns to lists of contacts, sent through Resend.  It is a Next.js application
(`apps/web`) and a set of packages (`packages/*`) over Postgres, Redis and the Inngest
job queue.  This directory holds TLA+ modules of the parts of it whose correctness
depends on the order in which things happen, the TLC runs that check them on small
instances, and proofs that hold for every size.

Paths below are relative to the repository.  `PROJECT.json` lists, machine-readably,
the components, the runs, the definitions with the lines they model, a mutant for
each checked property, the findings, the hazards and the theorems.

## 1. Inventory

### Components, their state and operations

| Component | State | Operations | Where |
|---|---|---|---|
| Delivery ladders | none (pure) | `recipientStatusForEvent`, `outboundStatusForEvent`, `nextRecipientStatus`, `nextOutboundStatus`, `eventAdvances`, and the SQL `CASE`s generated from them | `packages/shared/src/delivery-status.ts`, `packages/jobs/src/delivery-sql.ts` |
| Delivery records | `campaign_recipients.status`, `outbound_messages.status`, `.last_event`, `.provider_message_id` | webhook `handleDelivery`; reconciler `advanceRecipients`, `advanceOutbound`, import; `sendClaimed` | `apps/web/src/app/api/webhooks/resend/route.ts`, `packages/jobs/src/outbound-store.ts`, `lib/send/one-to-one.ts` |
| Live badge | publications under way, `outboundEvents` in the tab, the rendered row | publish after commit, `apply`, `router.refresh`, reload | `stores/realtime-store.ts`, `hooks/use-realtime.ts`, `components/inbox/message-card.tsx` |
| Send worker | `campaign_recipients`, a run's place, open transactions, the provider's idempotency keys | `load-campaign`, `release-claimed`, `batch-*`, `complete-*`, `continue` | `packages/jobs/src/functions/send-campaign.ts`, `packages/email/src/send.ts` |
| Campaign lifecycle | `campaigns.status`, `started_at`, `scheduled_at`, `updated_at` | send now, schedule, pause, resume, cancel | `apps/web/src/actions/campaigns.ts` |
| Queueing and scheduling | the same rows | `queue-campaign`, `schedule-due-campaigns`, `cancel-campaign`, `reconcile-campaign-stats` | `packages/jobs/src/functions/{queue-campaign,scheduler}.ts` |
| Webhook ingest | Redis claims, `email_events`, `contacts.soft_bounce_count`, `suppressions` | claim, transaction, release, effects after the commit | `route.ts`, `packages/redis/src/once.ts` |
| Suppression | `suppressions`, `contacts.status` | `isUnsendable`, add, remove, automatic | `packages/db/src/suppression.ts`, `actions/suppressions.ts` |
| One-to-one sending | `outbound_messages` of one composition, the provider's keys | save draft, autosave, discard, claim, send, write back | `lib/send/one-to-one.ts`, `actions/{compose,thread}.ts`, `lib/queries/outbound.ts` |
| Offline outbox | the queue in IndexedDB, each tab's count of what waits | hand over, push, replay, requeue, tell every tab | `packages/pwa/src/{outbox.ts,sw/create.js}`, `components/compose/compose-dialog.tsx`, `stores/connectivity-store.ts` |
| Inbound mail | `inbound_emails`, hydrate jobs | webhook, hydrate, hourly and pressed sync, repair of what stalled | `packages/jobs/src/{inbound-store,reconcile}.ts`, `functions/fetch-inbound.ts`, `actions/inbox.ts` |
| Conversations | `inbound_emails.status` and `.thread_key`, `threads`, the unread badge | read, archive, mute, snooze, wake, reply, join on hydration | `lib/queries/thread.ts`, `actions/thread.ts`, `functions/fetch-inbound.ts` |
| Realtime transport | stored Redis settings, each instance's cache of them, its client, its subscriptions | `getConfig`, save, `redisBackend`, subscribe, publish, recycle, reconnect | `packages/config/src/config.ts`, `packages/redis/src/{backend,client,realtime}.ts`, `app/api/realtime/stream/route.ts`, `hooks/use-realtime.ts` |
| Others | sessions, contacts and lists, templates, PWA caches, UI | one statement per operation, I/O, or pure text | see `components` in `PROJECT.json` |

### How they interact

A person clicks; a *Server Action* claims a transition with `UPDATE ... WHERE status =
... RETURNING` and emits an event to Inngest.  A *job run* consists of steps; a step
that throws is tried again, a step whose answer has arrived is never run again.  The
`queue-campaign` job turns a campaign's audience into recipient rows; the
`send-campaign` job mails them batch by batch, each batch in one `READ COMMITTED`
transaction around the provider call; a cron dispatches campaigns that are due and
those that lost their queue event.  The provider reports back by *webhook*, for up to
ten hours and in any order, and an hourly *reconciler* reads its list API.  Both move
the same rows through the same ladders.  The webhook route publishes what a row now
holds over Redis pub/sub and server-sent events; the browser's store applies it over
the last server render.

A person who writes to one address goes another way: the composer autosaves a draft, a
*request* claims it, calls the provider in line and writes the answer back; a tab without
a connection hands the request to the *service worker*, which replays it later.  Received
mail is recorded as metadata by the webhook or by a sync, and a job fetches its body,
which is also what puts it into a conversation.  Each server instance caches the
configuration and holds a Redis client made from it; a browser's stream hangs on the
client of the instance that answered it.

### What is hard about it

* Everything is at-least-once: events, steps, webhooks; and some things are
  at-most-once: an emit after a committed UPDATE, a publication, a webhook that
  was claimed in Redis.
* A batch transaction stays open over a network call; a worker may outlive the attempt
  it serves.
* The actions, three jobs, the webhook and the reconciler write the same two tables
  with no lock of the application's own, only guarded UPDATEs and `SKIP LOCKED`.
* A browser tab is fed by two channels of different freshness.
* One composition is sent from several tabs, the outbox and a retried click, in several
  versions, while it is autosaved and discarded; the provider collapses repetitions for
  24 hours only.
* A message row is written by the provider's events and by the sends of the message,
  which are repeated, and neither asks what the other has done.
* A service worker may be killed between taking an entry from its queue and hearing the
  answer, and puts an entry back in two transactions.
* Statements on whole conversations race with each other and with the job that moves a
  message into the conversation, under a snapshot taken before the row locks.
* A change of configuration has to reach clients, subscriptions and other instances that
  are reading, joining or listening at that moment.

`hazards` in `PROJECT.json` lists each of these at the line where it bites.

### What makes each component correct

* *Ladders and records*: in any order of events, the row ends at the first failure or
  the furthest rung; the label is the first failure whatever is sent again, and until
  then agrees with the status.
* *Live badge*: no failure is shown that was not stored, none that is stored disappears,
  and what is published is the row, not the event - as far as nobody sends the message
  again.
* *Send worker*: a recipient whose batch was recorded is never mailed again; a second
  copy needs a lost commit; rows say only what happened; workers take disjoint slices.
* *Lifecycle and queueing*: recipients are materialised once; `sent` means that
  everybody was dealt with; suppressed people are not mailed; a finished campaign stays
  finished; nothing starts before its date; a campaign that was dispatched comes to
  rest.
* *Webhook ingest and suppression*: an event takes effect at most once, and is stored or
  retried unless its request died; every soft bounce is counted once; a third consecutive
  soft bounce, a hard bounce and a complaint bar the address, and stay.
* *One-to-one sending*: one composition is mailed at most once in a window of the
  provider's keys, and a second time only if somebody was left in doubt or the first was
  reported as failed; what was mailed stays on record; whoever was barred before the
  request began is not mailed.
* *Offline outbox*: an entry is in one place, is posted in order (but for one gap that
  the code has), and comes to an end of which every tab is told.
* *Inbound mail*: every received message gets its row and its body in the end, and no job
  runs ahead of its row's commit.
* *Conversations*: the badge is decremented only for what a write itself took out of
  unread; an undisturbed write moves its whole conversation; a snoozed one comes back.
* *Realtime transport*: no subscription outlives its stream; subscriptions end up on the
  stored target; a tab that missed something renders its page anew in the end.

## 2. Modules

| Module | Models | Extends / instantiates |
|---|---|---|
| `DeliveryLadder` | the vocabulary and the two ladders as constant operators | |
| `DeliveryRecords` | one recipient row and one message row under all their writers | `DeliveryLadder` |
| `LiveDelivery` | the badge of that message in a browser tab | `DeliveryRecords` |
| `CampaignMail` | *abstract*: what a campaign promises about mail | |
| `SendWorker` | the `send-campaign` job, its provider and an open environment | `DeliveryLadder`; refines `CampaignMail` |
| `CampaignPipeline` | Server Actions, queue, cancel and scheduler jobs around it | `SendWorker`, and refines `SendWorker!Spec` |
| `SuppressionList` | one address's entry and contact, and what people do to them | |
| `WebhookIngest` | the provider's events about that address: Redis, the transaction, failures | `SuppressionList` |
| `SendLedger` | *abstract*: what one-to-one sending promises of one composition | |
| `OneToOneSend` | composing and replying, drafts, the claim, the provider's keys and reports | refines `SendLedger`; `DeliveryLadder` |
| `MessageLine` | *abstract*: a line of messages of which only the first is served | |
| `Outbox` | the service worker's queue, its replays and the tabs' counts | refines `MessageLine` |
| `InboundMail` | how a received message gets its row and its body | |
| `Conversations` | status and flags of conversations under concurrent writes | |
| `RealtimeStream` | stored configuration, caches, Redis clients, streams and tabs | |
| `MC*` | constants, symmetries and definitions for TLC | the module of that name |
| `DeliveryProofs`, `PipelineProofs`, `WebhookProofs`, `OneToOneProofs`, `OutboxProofs`, `InboundProofs`, `ConversationProofs`, `RealtimeProofs` | theorems (`PipelineProofs`: of the worker and of the pipeline) | the module of that name |

### DeliveryLadder, DeliveryRecords

Events are in their bare form (`bareEvent` strips `email.` before each use); one extra
value, `Unrecognised`, stands for a name Resend adds later, which takes the `?? "sent"`
and the `ELSE true` arms.  `OutboundAdvances` is the conjunction of the status ladder
and the event ladder that both writers put in front of `last_event`.

`DeliveryRecords` keeps `recipient`, `outStatus`, `lastEvent` and `messageId` (whether
the row has its provider id yet, and whether it was imported), and four ghosts: the
furthest rung the provider has asserted and the first failure, for each row.  Its actions
are the two writers of events applied to either row, and the send paths.  Any event may
come at any time any number of times: that is the contract of Resend's retries and of its
list API.

The send paths differ.  A campaign's writes (`SendPathWrites`) touch pending recipients
only.  `sendClaimed` claims a message row of every status but `sent` (`SendClaims`), also
one that a bounce has failed, and after the call writes `sent` or `failed` over whatever
the row has become (`SendRecords`), or dies (`SendDies`); it stores the id and never looks
at `last_event`.  Several calls may be at work on the row (`calls`).  Events find the row
by its id, so before the first one is stored they change nothing.  A new id is stored by a
later call over the old one, and events may still be of either mail; the model lets them
be of any.  Two more ghosts say how far the columns can still be relied on: `rewritten`,
that a call has written to the row since it has an id, and `revived`, that one has taken
the row out of `failed`.  An imported row has an id and an event from the beginning and,
without a client key, is never sent.

### LiveDelivery

A webhook commits the row and makes one publication (`inflight`), which may arrive in
any order or not at all; the reconciler and `sendClaimed` move the row and publish
nothing.  `live` is
the store's entry for the message, `rendered` the row as the last server render read
it.  A refresh replaces `rendered` only; a reload empties the store as well.  `Badge`
and `ShowsFailure` are what the message card computes from the two.

The properties hold as long as nobody sends the message again.  Where it was sent again,
`LabelIsTheFirstFailure` remains, and `ShownFailureIsStored` says that a tab shows no
failure that was not stored at some time; what is lost is listed under the findings.

### SendWorker

A run is at a *place* (`load`, `batch`, `running`, `complete`, ...) with the number of
its batch and of the attempt at it.  The batch step is carried out by a worker whose
transaction `tx[w]` goes through stages: `open`, `checked` (after
`suppressLateArrivals`), `claimed` (after `claimBatch`), `answered` (after the provider
call), then `CommitBatch`, `CommitEmpty` or `RollBack`.  What a transaction has written
is in `tx[w]` and becomes visible in `row` at its commit; the rows it holds are locked.
`FOR UPDATE SKIP LOCKED` is `Claimable`; plain UPDATEs wait for locks.  `AttemptFails`
gives an attempt up without stopping its worker, so that the retry runs beside the
leftover.  The provider remembers per idempotency key the recipients first asked for
(`payload`) and those it took (`delivered`): the same key with the same payload
collapses, with another payload it is refused, and the worker rolls back.

The payload of a key is abstracted to its set of recipients: a contact edited between
two attempts changes the rendered text and has the same effect as a changed set.  A
committed row is never `sending`, since no campaign message is scheduled at the
provider (`ReportedStatuses` leaves the rung out); `release-claimed` exists for rows of
an earlier design and finds nothing, which `SlicesAreDisjoint` shows.

The environment actions (`CampaignChanges`, `SendRequested`, `Resumed`, `Materialise`,
`Relabel`, `DoNotSendChanges`, `EventApplies`) let everybody else do what they may do
to the same rows at any time.  `CampaignPipeline` shows that the other components do
nothing else.

### CampaignPipeline

Adds `started` (`started_at`), `due` (`scheduled_at`: none, to come, reached), `fresh`
(`updated_at` within five minutes), the queue runs and the cancel event.  A Server
Action and its emit are one step, or the emit is lost (`ActedButDied`): between the two
nobody can tell an event emitted from one about to be.  `queue-campaign` is taken step
by step, its claim step in three (claim, report, and the reset to draft that follows
the awaited report).  The cron is `ClaimDue` and `ReclaimStranded`; the answer of either
may be lost before the events are emitted.  Faults are of named kinds (`FaultKinds`), so
that an instance can say which it has.

`resumedEarly` and `barred` are ghosts: whether somebody resumed before the recipients
were there, and who has been unsendable from the beginning.

### SuppressionList and WebhookIngest

`SuppressionList` is one address: the reason of its `suppressions` row (`reason`), its
contact's status and soft-bounce count (`contact`), and the Server Actions on both.
`removeSuppression` and `unsubscribeContact` are two autocommitted statements each; the
second is owed (`owed`) until it runs or is lost.

`WebhookIngest` adds the provider (`provider`, `attempts`), Redis (`claimed`),
`email_events` (`stored`) and the requests at work.  A request carries one attempt at an
event through the stages of the route: claim, insertion of the event row, the statements
`handleDelivery`, `handleAccountEvent` and `suppress` make about the address, commit,
effects.  What its transaction has written (`entry`, `contact` in the request) becomes
visible at the commit and locks out others until then: an insertion waits for another of
the same event or address, an UPDATE for another of the same row.  A hard bounce takes
the entry before the contact, a soft bounce at the limit the contact before the entry;
of two requests that wait for each other one is the `DeadlockVictim`.  Where the code
reads what its own UPDATE returns (the count), the test is made on that.

`TimesOut` is the provider giving up on a request that goes on.  `FaultKinds` names
everything that may fail, from Redis being down to a lost effect.  The events are of
different messages: what they do to message rows is the subject of `DeliveryRecords`,
and the rows of different messages are independent.

Three ghosts: `masked` (stored evidence that found a removable entry), `announced` (how
often an event's effects have run) and `mishap` (events whose request failed without the
provider learning of it).

### SendLedger and OneToOneSend

The subject is one composition, known by the client key the browser mints.  A *request*
is one call of `sendSingleEmail` or `sendMessage`, the server half of pressing Send; the
same composition is sent by several, in several versions (`Contents`).  A request goes
through `check` (`assertNotSuppressed`), `adopt` and `save` (the two statements of
`upsertKeyedDraft`), `read` (a reply reads its row back and mails what it reads), `claim`,
`call` and `record`; composing checks first, replying checks the addressees of the row it
has read back, so the place of the check depends on `kind`.  `SaveUnkeyed`,
`AutosaveAdopts`, `AutosaveUpserts` and `DiscardDraft` are the composers going on
meanwhile.  `Accept` is the provider: under a key it remembers, it answers as it did then
if the content is the same and refuses otherwise; `NextDay` is its forgetting, and waits
for calls under way, which last seconds.  The write after the call does not look at the
row's status, and the model's does not either.

`ProviderReports` is the webhook or the reconciler: the row that has stored the id of a
mail moves on the status ladder, so that a settled row fails when its mail is reported as
bounced or complained of, and may be claimed again.  `reported` is a ghost of which mails
were.

`SendLedger` keeps only the mails with the day of each and what each request was told.

### MessageLine and Outbox

An entry is `handed` by a tab, `pushed` into IndexedDB and then settled: `sent`,
`dropped` (a final refusal), `expired` (a week old) or `lost` (in the hand of a worker
that was stopped).  A call of `replay` takes the first entry in two transactions
(`Find`, `Remove`), posts it, and either tells every window or puts it back and throws. 
Putting back is two transactions as well: workbox's `unshiftRequest` reads the first id
(`Look`) and then adds (`Requeue`), before that id, or at the end if the queue was found
empty; an entry that is pushed in between then stands before it.  `MayStart` is the
`draining` promise a second caller joins.  What the server makes of a second post of the
same entry is `OneToOneSend`.

`MessageLine` is what that adds up to: messages join a line at its end, only its first is
ever posted, and it leaves once, as `sent` or `dropped` only after a post.  One that stands
alone may step aside, and then falls behind those that join before it is back.  The line
is nowhere in the code; it is the queue preceded by whatever entry is in a hand
(`TheLine`).  Finding, deleting, putting back before others, throwing and being joined are
stutters of it.

Two history variables state the order: `older[e]`, what had been pushed before `e` was,
and `passedBy[x]`, what was pushed while `x` was being put back at the end.  `InOrder`
allows a post over an older waiting entry for the latter only.

### InboundMail

Messages are numbered in the order of reception.  `hook[m]` is the handling of a message's
webhook, before and after its transaction; `jobs` are the hydrate events; a sync (hourly,
or the button's) lists a window of the newest, inserts what is missing, announces it, and
repairs rows without a body, newest first and at most `StalledLimit` of them.  The pages of
the list API are taken as one list, read at one time.  `Unreadable`
are messages whose body the provider never hands out.  Publications and notifications are
left out: nothing here depends on them.

### Conversations

A message's conversation is its own id until it is hydrated, and the head of its
References afterwards (`Key`).  A status write is two steps, `BeginStatus` (the snapshot
and the rows its two arms select) and `FinishStatus` (the rows that still satisfy the arms
once locked): that is what READ COMMITTED does to the statement.  `UnreadDelta` is what it
tells the badge.  Mute and snooze are upserts of `threads`; un-snoozing makes the
conversation unread in a second statement, and so does the cron, in two statements that
are not one transaction.  `lost` is a ghost: whose waking died between the two.

### RealtimeStream

`getConfig` is a read of the settings, a read of the secrets and the resumption that
caches what was read, whatever has been saved since (`ReadSettings`, `ReadSecrets`,
`Resume`).  A save is a list of statements (`Plans`), after each of which the instance's
cache is emptied, and after the last its client is dropped.  `UseBackend` is
`redisBackend`, which replaces a client of another target and ends the subscriptions that
are tracked; one that is on its way (`join`) is not, and `late` remembers it.  A stream
belongs to a tab until the browser lets go of it, and is `open` until the server cleans
up.  `behind` says that what the tab's Server Components have rendered misses a change that
is in Postgres; `router.refresh` renders them anew.  The mailbox lists are TanStack queries,
which that refresh does not reach; they are not in the model and `EveryTabCatchesUp` claims
nothing of them.  Instances restart, publications get lost, sessions end (`Refuse`).

## 3. Runs

| Run | Configuration | Checks | Bounds |
|---|---|---|---|
| `live_delivery` | `MCLiveDelivery.cfg` | the fold, label against status and events, no false failure, a shown failure stays | 4 webhook events and 4 listed ones, one of each kind; 2 publications; 2 calls of `sendClaimed` at a time (about 1,170,000 states) |
| `send_worker` | `MCSendWorker.cfg` | disjoint slices, second copies, truthful rows, no copy after record, refinement of `CampaignMail` | 2 contacts, 2 runs, 2 workers, batches of 1, 2 batches a run, 2 attempts; the environment only ever sets the campaign `sending` again (about 750,000 states) |
| `campaign_pipeline` | `MCCampaignPipeline.cfg` | materialised once, `sent` covers everybody, barred people are not mailed, nobody is stranded, refinement of `SendWorker`, only the report revives | 2 contacts, 2 runs, 2 workers, 2 queue runs, 4 Server Actions, 1 fault of any kind |
| `pipeline_liveness` | `MCPipelineLiveness.cfg` | scheduled or sending leads to rest | 1 contact, 1 worker, 4 actions, 2 lost dispatches |
| `webhook_ingest` | `MCWebhookIngest.cfg` | effects once and after the commit, each soft bounce counted once, the limit bars, evidence stays unless masked, loss needs a mishap | 2 events of any two kinds, 2 requests, 2 attempts an event, limit 2, 1 action of a person, 2 faults of any kind (about 1,650,000 states) |
| `one_to_one` | `MCOneToOneSend.cfg` | mails on record, late mail not barred, second mail needs a doubt or a report, settled is final but for a report, refinement of `SendLedger` | 3 requests, 2 rows, 2 versions of which one has a barred addressee, keys forgotten once, any report at any time (about 980,000 states) |
| `outbox` | `MCOutbox.cfg` | one place, order, counts, refinement of `MessageLine`, everything settles | 2 entries, 2 tabs, 2 overlapping replays, 5 faults (about 57,000 states) |
| `inbound_mail` | `MCInboundMail.cfg` | jobs find their row, every mail arrives | 2 messages of which the newer has no body, a window of 1, a repair of 1, 2 faults (about 49,000 states) |
| `conversations` | `MCConversations.cfg` | decrements are earned, undisturbed writes are exact, snoozes remind | 2 messages of one conversation, 2 calls (about 16,000 states) |
| `realtime_stream` | `MCRealtimeStream.cfg` | nothing leaks, streams follow the client, tabs catch up, streams reach the target | 1 instance beside others that save, 2 requests, 1 tab, 1 save of 2 kinds, REST first and TCP in the environment (about 284,000 states) |
| `sent_means_mailed` | `MCPipelineSentMeansMailed.cfg` | *violated*: `sent` only when everybody was dealt with | 1 contact, no fault |
| `not_before_due` | `MCPipelineNotBeforeDue.cfg` | *violated*: nothing starts before its date | 1 contact, no fault |

Why the bounds suffice.  Two workers are the least that can race, and a third would only
repeat the roles of owner and leftover.  Two runs give a second run for a resume and one
for `continue`; two batches a run give a first batch, a last one and the ceiling; two
contacts with batches of one give a full batch with work remaining.  Two attempts give
a leftover and its retry.  The pipeline run keeps the worker's own concurrency small,
since `send_worker` has explored it with an environment at least as free.  Four Server
Actions are enough for send, pause, resume, cancel, and one fault is enough for each
single failure; `pipeline_liveness` has two, so that the recovery is lost once as well.
Two requests at the webhook are an attempt and its retry, or two events at once;
a limit of 2 and a contact that starts with a count of 0 or 1 reach the limit by one soft
bounce or by both; two faults are what each way of losing an event takes.  A longer
history of one address is covered by the proofs, which bound nothing.
The seven event names contain one of each rung but `opened`, three failures of which two
have the same recipient status, a name of the list API only and an unknown one; the
proofs cover all.  Two publications are what it takes for one to overtake another, and two
calls of `sendClaimed` for a late answer to be written over an earlier one; the number of
calls one after the other is not bounded, nor that of events.

Three requests are a first send that is left in doubt, its retry, and one that races with
the retry; two rows are the keyed one and a draft that was saved without the key or after
a discard; two versions are what a retry and an autosave may differ in.  Two entries give
the outbox an order, and with it the gap of putting back; two tabs one that did not hand
the entry over, two replays a second one to be joined, and five faults let both entries
fail more than once and a worker be stopped after.  A
window of 1 with two messages buries the older one, and a repair of 1 with an unreadable
newer one starves it: both exceptions in `EveryMailArrives` happen.  Two calls on two
messages of one conversation race with each other and with the hydration of the second.
One instance with streams is enough, since instances share nothing but what is stored:
the others appear as saves made elsewhere.  Two requests are the tab's stream and either
one it left behind or a publisher; the save replaces the target or takes it away, in two
statements each, so that torn reads exist.  The proofs of `OneToOneProofs`,
`OutboxProofs`, `InboundProofs`, `ConversationProofs` and `RealtimeProofs` bound none of it.

`CHECK_DEADLOCK FALSE` appears where the system may come to rest: a bounded pipeline
whose campaign is finished and whose actions are used up has nothing left to do; nor has
a webhook whose events are answered or out of attempts, a composition whose requests have
ended, an outbox that is empty, or a tab that has been refused and whose saves are over.

Symmetry is used on contacts, runs, workers and queue runs, on events and requests, and
on the requests and rows of a composition, in the four large safety runs, none of whose
properties names an element; never in a liveness run.

### Fairness

`FairPipelineSpec` assumes weak fairness of each queue run's steps, of the scheduler, of
each send run and worker, of time passing and of the five minutes' grace ending.  The
code justifies it: Inngest goes on executing a run until it has ended, the cron fires
every minute, and a clock runs.  Nothing is assumed of people: no Server Action has to
happen.  Faults are bounded and never forced.

`SchedulingSettles` holds with lost dispatches only.  It is not true under three other
faults, for which the code has no recovery: `claim-campaign` failing after its UPDATE
(then `started_at` is set and neither its retry nor `recover-stranded` takes the
campaign), an action dying before its emit, and a send run that uses up its retries. A
campaign then stays `sending` until somebody pauses and resumes it.

`Outbox`: messages to a worker are delivered, a replay gets on, the connection comes back,
and something wakes the worker again while entries wait.  The last is the weakest of the
four: Background Sync gives up after some attempts, and what is left is that the app is
opened or comes online again.

`InboundMail`: handlers, jobs and syncs get on, and `reconcile-inbound` runs every hour.
Nobody has to press Sync, and the webhook need not arrive.

`Conversations`: the cron fires every five minutes, and a statement that runs ends, by
succeeding or by dying.

`RealtimeStream`: requests get on, timers fire (the cache's ten seconds, a stream's four
minutes), and an `EventSource` that was not refused connects again.  That last fairness is
strong because the model has few request slots, which publishers may take in turn; a
server has no such limit.  Nobody has to save, change or reload anything, and saves are
bounded by `MaxSaves`: the configuration stops changing at some time.

## 4. Findings

* **`sent` with nobody mailed** (`sent_means_mailed`).  Schedule, pause, resume: the
  campaign is sending with no recipients, the send run finds none and completes it.
* **A rescheduled campaign starts at once** (`not_before_due`).  The queue claim does
  not read `scheduled_at`.

Other departures of the code from what is said of it.  They are not runs of their own;
the passing runs say how far each reaches.

Campaigns, webhooks and badges:

* A cancelled campaign comes back as a draft: the reset after the deliverability report is
  unconditional (`ARCHITECTURE.md:79`).  `OnlyTheReportRevives`: that is the only way out
  of `sent` and `cancelled`.
* A failed message row does not stay failed: "once failed it stays failed"
  (`delivery-status.ts:297`) is the ladder's word, and `sendClaimed` is not on it.  A
  message that bounced and is sent again by a retry (`one-to-one.ts:98-104,140-149`) is
  queued and then `sent`, with `last_event` still naming the bounce; later events find the
  label terminal and leave it.  `LabelTellsTheEvents` is therefore about rows that were
  not sent again, except for the label.  The tab that showed the failure may lose it or
  keep it, by its next render and whether its store has an event, and a late `delivered`
  that is published for such a row takes it off until the next refresh;
  `PublicationTellsTheRow` and `FailureStaysShown` have `~rewritten` for that reason.
* An event that comes before `sendClaimed` has stored the provider's id matches no row.
  The hourly list may come before the id as well, and then imports a twin of the row; the
  write of the id fails on the unique index, which the sender sees as a failed request
  (`SendDies`).
* A render does not reseed the badge: the tab's store wins over the row it has just read,
  and the reconciler never publishes (`ARCHITECTURE.md:82`).  `FailureStaysShown` and
  `ShownFailureIsStored`: short of a second sending, a stale badge is never about a failure.
* Redis answers "already seen" for an event that is never stored: the claim stands while
  the first attempt is at work, a retry in that time is answered 200, and the attempt may
  still roll back (`route.ts:50-52`).  `LossNeedsAMishap` names every way to lose one.
* A bounce can be un-suppressed: `ON CONFLICT DO NOTHING` leaves a manual or unsubscribe
  entry, whose reason can be removed (`ARCHITECTURE.md:272`).
  `EvidenceStaysUnlessMasked`: a removable entry in the place is the only way.
* `canceled` has no case in `DeliveryBadge`, which draws it as "Sent" beside a row that is
  failed; the comment at `route.ts:461-463` calls the `"sent"` arm of the publication
  unreachable, while a `scheduled` event after `sent` on a row with no label reaches it,
  harmlessly.

One-to-one sending and the outbox:

* "Sent is terminal" (`outbound.ts:333-334`) holds once no call is under way and until the
  provider reports a failure, which is what `SettledIsFinal` says: the write after a call
  is unconditional, so of two requests that race, a late `failed` overwrites `sent`; and a
  bounce or a complaint fails the row, which a retry may then claim and, past the 24 hours
  of the key, mail again, though every request was told of a success
  (`SecondMailNeedsADoubt`).
* `unshiftRequest` "puts it back at the *front*, which is what preserves order"
  (`create.js:860-862`) is not true of a queue it finds empty: an entry pushed between its
  two transactions is posted first.  `InOrder` has that exception and no other.
* A claim of zero rows is answered "already sent" (`one-to-one.ts:61-63,104`), and may
  mean that the draft was discarded.  `SendLedger` has the exception.
* A reply mails the row it reads back, which an autosave of another tab may have changed;
  composing mails what it was given, which then need not be what the row holds.
* The autosave of the compose dialog does not send the client key; racing with Send it
  leaves an orphan draft.
* A worker that is stopped with an entry in its hand has lost it, and its tab goes on
  counting one more until it is reloaded; "the message is still in Drafts rather than
  gone" (`compose-dialog.tsx:351-354`) is not true of one composed offline.
* The news of a settled entry decrements the count of every tab, also of those that did
  not hand it over; `NeverOvercounts` says that the error is on that side only.
* A lost answer followed by a final refusal of the replay (a session that has ended, a
  changed payload) is told as rejected though the message was mailed.

Inbound mail and conversations:

* More than a sync's window of messages in one outage of the webhook bury the oldest
  (`Buried`); a hundred rows whose body never comes starve older ones of the repair
  (`Starved`).
* "An existing id cannot produce zero" (`thread.ts:474-476`) is false of two writes to a
  conversation at once; `UndisturbedAreExact` says that only a race makes it so.
* A muted conversation marks itself unread when new mail arrives: no code keeps the
  promise of `schema/threads.ts:35-41`.
* Flags set while a message was a conversation of its own stay on that key when hydration
  moves it.  A reply's `threadKey` in the live store is its own id, so that
  `countedThreadKeys` (`realtime-store.ts:129-151`) never takes two messages for one.
* A step that dies between the two statements of `wakeSnoozedThreads` has lost the
  reminder: its retry finds nothing due.

Realtime and configuration:

* A `getConfig` under way when a save is answered caches what it had read, so that
  `config.ts:74-76` ("immediately on the instance that handled the write") is not kept;
  its two reads may be of different configurations.
* A subscription on its way while its client is dropped is not in the registry and ends
  with the four minutes of its stream; a target that was taken away leaves client and
  streams alone on every other instance (`client.ts:107`).
* The stream answers before it subscribes and a page's first connection does not refetch:
  what is published between render and subscription is missed until the next connection.
* A reconnect calls `router.refresh` only (`use-realtime.ts:78-92`), which reaches no
  TanStack query (`use-realtime.ts:143-148`): "nothing published in the gap is lost"
  (`stream/route.ts:27-29`) is true of what the server renders; the mailbox lists stay as
  they were until the next publication of their kind.
* While Redis is out of reach each recycled stream leaves a subscriber that goes on
  retrying; an `EventSource` that was answered otherwise than 200 never connects again
  (`refused`).

Met while reading, and in no module: `forgetSecret` for the Resend key, where magic links
are the only way to sign in, locks everybody out; `createList` and `createContactGroup`
look a name up and then insert, and two at once insert both.

## 5. Proofs

All theorems are checked by TLAPS, for every value of the constants that satisfies the
named assumptions: `EventsAssumption` (events come from the vocabularies),
`PublicationsAssumption`, `SendAssumption` (finitely many contacts, positive batch size,
batches and attempts, statuses from the enums), `PipelineAssumption`,
`SuppressionAssumption` (a positive limit), `IngestAssumption`, `OneToOneAssumption`,
`OutboxAssumption` (finitely many entries), `InboundAssumption` (positive window and
limit), `ConversationsAssumption` (finitely many messages, each with a first message of
its conversation) and `RealtimeAssumption` (seed, initial configurations and tried saves
are such).

* `DeliveryProofs`.  `RecordInv` is inductive: type, the fold of the recipient, that the
  label is the first failure, that a row without an id has met no event, and, until a call
  of `sendClaimed` writes to a row with an id, `Untouched`: the two properties of the label
  and that without an event the row is `sent`.  A reported failure has the row failed or
  `revived`.  `LiveInv` adds that each failure held anywhere - in flight, in the store, in
  the render - is the row's or was (`FailureHeld`), which a step never takes back, and that
  a rendered label of a failure stands beside a failed status unless the row was rewritten;
  that gives the two properties of the tab.
* `PipelineProofs`, the worker.  None of its four safety properties is inductive.
  `WorkerInv` adds what open transactions look like stage by stage and that their rows are
  pending (`RowsInv`); that at most one transaction of a run is awaited and leftovers
  belong to committed or current batches (`RunsInv`); that a key's answer belongs to its
  payload, a later key is unused and a committed key's recipients are mailed (`KeysInv`);
  and that the keys of one run, and any two committed keys, share no recipient
  (`CopiesInv`).  The refinement of `CampaignMail` maps `closed` to the contacts whose
  row has left the unmailed statuses.
* `PipelineProofs`, the pipeline.  Every step of the pipeline is a step of `SendWorker` or
  a stutter, so what was proved of the worker holds of the pipeline (`PipelineCopies`,
  `PipelineRows`, `PipelineImplementsCampaignMail`).  `MaterialisedOnce` is by `OwnerInv`:
  a queue run that has claimed implies `started`, and no row exists while a claimed run
  still waits for its report.  `CoverInv` is what `SentCoversEverybody` and
  `BarredIsNeverMailed` need: unless somebody resumed early, from the first send run on
  (`Born`) every contact has its row, a worker holds nobody who was barred from the
  beginning (`Spares`), no key's payload has one, and a campaign that is sent has nothing
  open.  Once gained each part stays (`CoverStays`), so each action only has to show what
  it adds.
* `PipelineProofs`, nobody is stranded.  `CarriedOn` (a campaign that is sending is not yet
  started, being queued, or worked on by a run) is not inductive: a run may end with rows
  pending, because what `complete` still counts is in the hands of another run.
  `CarriedInv` says of each pending row who will come by it (`Tended`): a run that has yet
  to look, a transaction that has not claimed yet, one so full that its run goes on, or one
  that holds the row and whose answer is awaited.  A worker that commits leaves those it
  did not take to one of these, and the last run to end therefore sees nothing pending.
  The last needs that nothing failed; with a failure the campaign may be stranded, which is
  why `CarriedOn` has `NothingFailed` in front, and lost dispatches do not count as such.
  `FinishedStaysFinished` and `RowsNeverReopen` are of single steps: the first holds of
  any, the second of those from states with `OwnerInv` and `WorkerInv`.
* `WebhookProofs`.  `IngestInv` is inductive.  It adds to the properties what a request's
  stage says of its event (`KindInv`); that at most one request is past the insertion of
  an event, which is not stored until it commits and not announced until it has
  (`EventsInv`); that one request holds the contact, that its copy carries the count the
  current row will have, and that a count at the limit has cost the status by the time
  it can be committed (`ContactInv`, which is where the row lock is used: without it the
  copy would be of an older row); that one request inserts the entry, and evidence about
  to commit has one or met one (`EntryInv`); and that a claim stands for an event that is
  stored, in work or lost to a mishap, and the provider waits for at most one request of
  an event (`ClaimsInv`).
* `OneToOneProofs`.  One row at most has the client key and only it is claimed
  (`OneKeyedRow`); a request holds that row or one that was discarded before its claim,
  and an answer of the day only past the call (`HoldsTheRow`); there is one mail a day,
  its row is claimed, and a row names a mail of its own (`MailsAreOfTheRow`); a late
  request past its check has nobody barred (`ClearedIfLate`); and as long as nobody was
  left in doubt, a mail that was not reported as failed is recorded or on its way into
  its row, and while one of an earlier day is not reported nobody is about to send again
  (`NoDoubtNoSecondMail`), from which the second-mail property follows.  The refinement
  of `SendLedger` rests on the same invariant.
* `OutboxProofs`.  `OutboxInv` says where an entry is: one call at most is at work
  (`Alone`), it has an entry exactly between finding and settling (`InItsHand`), what was
  found and not yet deleted is still first (`FoundIsFirst`), and an answer is awaited only
  for what was posted.  With it each step is a step of `MessageLine` or a stutter
  (`OutboxIsOneLine`), and what holds of every line (`LineInv`: a message stands in it
  exactly while it waits, and once; an answered one was posted) is proved once and read
  back through the mapping: `NoAnswerWithoutPost` and `EachIsHeldOnce` follow without
  another induction, and `SettledForGood` with `OutboxInv`.  `OldestFirst` is one of its
  own over the line: whoever stands before another was pushed before it, or while it was
  being put back at the end (`LineIsSorted`), and an entry that is being put back will have
  been passed by all who stand behind it (`JoinedMeanwhile`).  Since only the first of the
  line is posted, everything older than it is answered or let it pass.
  `NoTabOvercounts` has an invariant of its own: an answer takes one off what is
  outstanding in its owner's tab only, and one off the count of every tab that is above
  zero.
* `InboundProofs`.  Whatever is about to be announced or repaired has been committed
  (`HoldersAreRecorded`), so that no job ever runs ahead of its row.  `RowsInv` adds that an
  uncommitted row is its message's only one, which is what the waiting on the unique index
  is for: without it a late commit would put the bare row over a body (`NothingIsLost`).
  `SyncsListTheUnburied` computes the window, so that the exception of `EveryMailArrives`
  is shown to be exactly what the code does not look at.
* `ConversationProofs`.  A status write has selected at least the message it was called
  with (`SelectsSomething`).  The two properties are of actions, and are proved of one step
  from it; the exact change of the badge counts conversations, by the theorems on adding
  and removing an element, which is why the messages are finite.  `NoReminderIsForgotten`
  is the safe half of `SnoozeReminds`: a reminder is `Owed` while its snooze is over, the
  cron has it between its statements, or an un-snoozing call has; no step ends the debt
  but the ways that `SnoozeReminds` names.
* `RealtimeProofs`.  `Sound` says of each request what its step implies: who listens is
  open, tracked and on its instance's client, and who is joining is on its way to that
  client, unless it was caught when the client was dropped.

Every invariant, action property and refinement that a passing run checks is also a
theorem.  Only
model-checked are the six properties of liveness, which under fairness is beyond the
prover: `SchedulingSettles`, `EverythingSettles`, `EveryMailArrives`, `SnoozeReminds`,
`EveryTabCatchesUp` and `StreamsReachTheTarget`.

## 6. Plan

Done: the modules above, in the order ladders, records, badge, worker, pipeline, webhook
and suppression, one-to-one sending, outbox, inbound mail, conversations, realtime.

Left, in order of weight:

1. A module that joins `OneToOneSend` with `DeliveryRecords`, in which an event is of one
   mail: a webhook that comes before the provider's id is stored matches no row, and the
   hourly list repairs it in the end or imports a twin.
2. Liveness of `WebhookIngest`: a due event is eventually stored, given a provider that
   goes on trying and no mishap.
3. The safe half of the liveness properties that have none yet (`SchedulingSettles` has
   `CarriedOn`, `EveryMailArrives` has `SyncsListTheUnburied` and `NothingIsLost`,
   `SnoozeReminds` has `NoReminderIsForgotten`, `EverythingSettles` has `SettledForGood`):
   that a tab that is behind is off its stream or about to refetch.
4. The lists of the mailbox in `RealtimeStream`, by kind, and which of them a missed
   publication leaves stale.
5. The moment at which each contact was barred, in `SendWorker`, so that a contact barred
   between materialisation and her batch is told from one barred during it; and the lock
   order of its statements.
6. The faults that `SchedulingSettles` excludes, each with the person who repairs it.

## 7. Not modelled

* Identity, authentication and policy: they only refuse, in front of the actions; leaving
  them out adds behaviours and takes none away.
* Configuration other than the Redis target, the setup wizard and the deliverability
  report: the same two functions on settings that nobody holds a client of; the report's
  verdict is a free choice of the queue job's model.
* Rendering, templates and merge fields: pure text, of which no modelled guard reads
  anything.
* Contacts, lists, audience and pagination: one SQL statement per operation; what matters
  of them to sending, the audience and the do-not-send list, is in `SendWorker` and
  `SuppressionList`.
* The counters of a campaign: recomputed aggregates that no modelled guard reads.
  `reconcile-campaign-stats` also touches `updated_at`, but only of campaigns that have
  recipient rows, which have started by `MaterialisedOnce`, while the recovery looks at
  campaigns that have not.
* The service worker's caches, push, the theme and the pages: presentation.
* In modelled components: attachments, stars and assignment, the import of a twin of a
  message of our own, the mailbox lists of TanStack Query, the paging of the list API,
  `adoptLegacyOutbox` (`create.js:951-1009`, a one-time move of entries from an
  older store), the wording of notifications, and the counts and progress in the live
  store.  `draining` is one variable per worker instance; two instances during an update of
  the worker are not modelled.

Most of the repository's lines are of these kinds: pages, marketing, read-only queries,
rendering, schemas and single statements nobody races with.  The modules therefore map a
small part of its lines (`map` in `PROJECT.json`); what they cover are the places where
several actors write the same state in an order the code does not choose.
