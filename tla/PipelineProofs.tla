-------------------------- MODULE PipelineProofs --------------------------
(* First what the send worker keeps for every audience, every number of    *)
(* runs and workers, every batch size and every environment: the worker's  *)
(* part speaks of SendWorker's Spec and uses nothing of the pipeline.  Then *)
(* the pipeline: it is a send worker in that sense, so that all of the     *)
(* first part holds with the real jobs and Server Actions around it; a     *)
(* campaign's recipients are materialised by one queue run at a time, after *)
(* it was claimed; and a campaign that is sending is in somebody's hands.  *)
EXTENDS CampaignPipeline, FiniteSetTheorems, TLAPS

-----------------------------------------------------------------------------
(* Facts about the definitions *)

\* A transaction is open exactly if it has a stage.
LEMMA OpenOrIdle ==
  ASSUME TypeOK, NEW w \in Workers
  PROVE  /\ tx[w] = Idle \/ tx[w] \in Transactions
         /\ tx[w] # Idle <=> tx[w].stage \in Stages
         /\ tx[w].suppressed \subseteq Contacts /\ tx[w].rows \subseteq Contacts
  BY DEF TypeOK, Transactions, Idle, Stages

\* The provider's later events never take a row back among the unmailed.
LEMMA EventsMail ==
  ASSUME NEW old \in RowStatuses, NEW s \in ReportedStatuses
  PROVE  /\ NextRecipientStatus(old, s) \in RowStatuses \ Unmailed
         /\ NextRecipientStatus(old, s) \in {old, s}
  BY SendAssumption
  DEF NextRecipientStatus, RecipientRank, RecipientTerminal, RowStatuses,
      RecipientStatuses, Unmailed

\* An answer that reaches the queue ends the wait and moves at most to the next
\* batch, and that only if a whole batch was claimed.
LEMMA AdvanceType ==
  ASSUME TypeOK, NEW r \in Runs, NEW claimed, Advance(r, claimed)
  PROVE  /\ run' \in [Runs -> [pc : RunPlaces, batch : 0..MaxBatches-1,
                               attempt : 1..MaxAttempts]]
         /\ \A s \in Runs \ {r} : run'[s] = run[s]
         /\ run'[r].pc # "running"
         /\ \/ run'[r].batch = run[r].batch
            \/ claimed = BatchSize /\ run'[r].batch = run[r].batch + 1
<1> DEFINE next ==
      [pc      |-> IF ~(claimed = BatchSize) THEN "complete"
                   ELSE IF run[r].batch = MaxBatches - 1 THEN "continue" ELSE "batch",
       batch   |-> IF claimed = BatchSize /\ ~(run[r].batch = MaxBatches - 1)
                   THEN run[r].batch + 1 ELSE run[r].batch,
       attempt |-> 1]
<1>1. /\ run[r].batch \in 0..MaxBatches-1 /\ MaxBatches \in Nat \ {0}
      /\ 1 \in 1..MaxAttempts
  BY SendAssumption DEF TypeOK
<1>2. run' = [run EXCEPT ![r] = next]
  BY DEF Advance, TypeOK
<1>3. next \in [pc : RunPlaces, batch : 0..MaxBatches-1, attempt : 1..MaxAttempts]
  BY <1>1 DEF RunPlaces
<1>4. next.pc # "running"
  OBVIOUS
<1>5. \/ next.batch = run[r].batch
      \/ claimed = BatchSize /\ next.batch = run[r].batch + 1
  OBVIOUS
<1> HIDE DEF next
<1> QED
  BY <1>2, <1>3, <1>4, <1>5 DEF TypeOK

LEMMA EndType ==
  ASSUME TypeOK, NEW r \in Runs, End(r)
  PROVE  /\ run' \in [Runs -> [pc : RunPlaces, batch : 0..MaxBatches-1,
                               attempt : 1..MaxAttempts]]
         /\ \A s \in Runs \ {r} : run'[s] = run[s]
         /\ run'[r].pc = "ended" /\ run'[r].batch = run[r].batch
<1>1. 1 \in 1..MaxAttempts /\ "ended" \in RunPlaces
  BY SendAssumption DEF RunPlaces
<1> DEFINE next == [[run[r] EXCEPT !.pc = "ended"] EXCEPT !.attempt = 1]
<1>2. run' = [run EXCEPT ![r] = next]
  BY DEF End, TypeOK
<1>3. /\ next \in [pc : RunPlaces, batch : 0..MaxBatches-1, attempt : 1..MaxAttempts]
      /\ next.pc = "ended" /\ next.batch = run[r].batch
  BY <1>1 DEF TypeOK
<1> HIDE DEF next
<1> QED
  BY <1>2, <1>3 DEF TypeOK

\* Moving an open transaction on keeps it a transaction.
LEMMA ProceedType ==
  ASSUME TypeOK, NEW w \in Workers, NEW t \in Transactions \cup {Idle},
         Proceed(w, t)
  PROVE  /\ tx' \in [Workers -> Transactions \cup {Idle}]
         /\ tx'[w] = t
         /\ \A v \in Workers \ {w} : tx'[v] = tx[v]
  BY DEF TypeOK, Proceed

LEMMA TransactionMoves ==
  ASSUME NEW t \in Transactions, NEW stage \in Stages, NEW S \in SUBSET Contacts
  PROVE  /\ [t EXCEPT !.stage = stage] \in Transactions
         /\ [t EXCEPT !.stage = stage, !.suppressed = S] \in Transactions
         /\ [t EXCEPT !.stage = stage, !.rows = S] \in Transactions
         /\ [t EXCEPT !.awaited = FALSE] \in Transactions
  BY DEF Transactions

-----------------------------------------------------------------------------
(* Types *)

LEMMA TypeInit == Init => TypeOK
  BY SendAssumption
  DEF Init, TypeOK, CampaignStatuses, RowStatuses, RecipientStatuses, RunPlaces,
      Idle, Keys

LEMMA TypeNext == TypeOK /\ [Next]_sendVars => TypeOK'
<1> SUFFICES ASSUME TypeOK, [Next]_sendVars PROVE TypeOK'
  OBVIOUS
<1> USE SendAssumption
<1>1. ASSUME NEW r \in Runs, RunStep(r) PROVE TypeOK'
  <2>1. CASE LoadCampaign(r)
    BY <2>1 DEF TypeOK, LoadCampaign, Goto, RunPlaces, campaignVars, providerVars
  <2>2. CASE ReleaseClaimed(r)
    <3>1. row' \in [Contacts -> RowStatuses]
      BY <2>2 DEF TypeOK, ReleaseClaimed, Overwrite, Constantly, RowStatuses,
                  RecipientStatuses
    <3>2. run' \in [Runs -> [pc : RunPlaces, batch : 0..MaxBatches-1,
                             attempt : 1..MaxAttempts]]
      BY <2>2, EndType DEF ReleaseClaimed
    <3> QED
      BY <2>2, <3>1, <3>2 DEF TypeOK, ReleaseClaimed, campaignVars, providerVars
  <2>3. ASSUME NEW w \in Workers, StartAttempt(r, w) PROVE TypeOK'
    <3>1. [stage |-> "open", run |-> r, batch |-> run[r].batch,
           awaited |-> TRUE, suppressed |-> {}, rows |-> {}] \in Transactions
      BY DEF TypeOK, Transactions, Stages
    <3>2. tx' \in [Workers -> Transactions \cup {Idle}]
      BY <2>3, <3>1, ProceedType DEF StartAttempt
    <3> QED
      BY <2>3, <3>2 DEF TypeOK, StartAttempt, Goto, RunPlaces, campaignVars, providerVars
  <2>4. CASE AttemptFails(r)
    <3>1. tx' \in [Workers -> Transactions \cup {Idle}]
      BY <2>4, TransactionMoves DEF TypeOK, AttemptFails, Stages
    <3>2. run' \in [Runs -> [pc : RunPlaces, batch : 0..MaxBatches-1,
                             attempt : 1..MaxAttempts]]
      BY <2>4, EndType DEF TypeOK, AttemptFails, RunPlaces
    <3> QED
      BY <2>4, <3>1, <3>2 DEF TypeOK, AttemptFails, campaignVars, providerVars
  <2>5. CASE Complete(r)
    BY <2>5, EndType DEF TypeOK, Complete, CampaignStatuses, providerVars
  <2>6. ASSUME NEW next \in Runs, Continue(r, next) PROVE TypeOK'
    BY <2>6 DEF TypeOK, Continue, RunPlaces, campaignVars, providerVars
  <2>7. CASE StepExhausted(r)
    BY <2>7, EndType DEF TypeOK, StepExhausted, campaignVars, providerVars
  <2> QED
    BY <1>1, <2>1, <2>2, <2>3, <2>4, <2>5, <2>6, <2>7 DEF RunStep
<1>2. ASSUME NEW w \in Workers, WorkerStep(w) PROVE TypeOK'
  <2> DEFINE TxType == tx' \in [Workers -> Transactions \cup {Idle}]
  <2>0. tx[w] \in Transactions \/ (tx[w] = Idle /\ tx[w].stage = "idle")
    BY DEF TypeOK, Idle
  <2>1. CASE SuppressLateArrivals(w)
    <3>1. tx[w] \in Transactions /\ {c \in unsendable : row[c] = "pending"} \subseteq Contacts
      BY <2>0, <2>1 DEF SuppressLateArrivals, TypeOK
    <3>2. TxType
      BY <2>1, <3>1, TransactionMoves, ProceedType DEF SuppressLateArrivals, Stages
    <3> QED
      BY <2>1, <3>2 DEF TypeOK, SuppressLateArrivals, campaignVars, providerVars
  <2>2. ASSUME NEW S \in SUBSET Contacts, ClaimBatch(w, S) PROVE TypeOK'
    <3>1. TxType
      BY <2>0, <2>2, TransactionMoves, ProceedType DEF ClaimBatch, Stages
    <3> QED
      BY <2>2, <3>1 DEF TypeOK, ClaimBatch, campaignVars, providerVars
  <2>3. ASSUME NEW S \in SUBSET tx[w].rows, ProviderAccepts(w, S) PROVE TypeOK'
    <3>1. tx[w] \in Transactions
      BY <2>0, <2>3 DEF ProviderAccepts
    <3>2. TxType
      BY <2>3, <3>1, TransactionMoves, ProceedType DEF ProviderAccepts, Stages
    <3>3. Key(w) \in Keys /\ tx[w].rows \subseteq Contacts
      BY <3>1 DEF Transactions, Key, Keys
    <3> QED
      BY <2>3, <3>2, <3>3 DEF TypeOK, ProviderAccepts, campaignVars
  <2>4. CASE ProviderCollapses(w)
    <3>1. TxType
      BY <2>0, <2>4, TransactionMoves, ProceedType DEF ProviderCollapses, Stages
    <3> QED
      BY <2>4, <3>1 DEF TypeOK, ProviderCollapses, campaignVars, providerVars
  <2>5. ASSUME NEW a \in BOOLEAN, Reports(w, a), tx[w] # Idle
        PROVE  run' \in [Runs -> [pc : RunPlaces, batch : 0..MaxBatches-1,
                                  attempt : 1..MaxAttempts]]
    BY <2>5, AdvanceType, OpenOrIdle DEF Reports, Transactions, TypeOK
  <2>6. ASSUME NEW a \in BOOLEAN, CommitBatch(w, a) PROVE TypeOK'
    <3>1. tx[w] \in Transactions /\ tx[w] # Idle
      BY <2>0, <2>6 DEF CommitBatch, Idle
    <3>2. TxType
      BY <2>6, ProceedType DEF CommitBatch, Release
    <3>3. Key(w) \in Keys
      BY <3>1 DEF Transactions, Key, Keys
    <3>4. row' \in [Contacts -> RowStatuses]
      BY <2>6 DEF TypeOK, CommitBatch, Overwrite, BatchOutcome, RowStatuses,
                  RecipientStatuses, RecipientTerminal
    <3> QED
      BY <2>5, <2>6, <3>1, <3>2, <3>3, <3>4
      DEF TypeOK, CommitBatch, campaignVars, providerVars
  <2>7. ASSUME NEW a \in BOOLEAN, CommitEmpty(w, a) PROVE TypeOK'
    <3>1. tx[w] # Idle
      BY <2>0, <2>7 DEF CommitEmpty, Idle
    <3>2. TxType
      BY <2>7, ProceedType DEF CommitEmpty, Release
    <3>3. row' \in [Contacts -> RowStatuses]
      BY <2>7 DEF TypeOK, CommitEmpty, Overwrite, Constantly, RowStatuses,
                  RecipientStatuses
    <3> QED
      BY <2>5, <2>7, <3>1, <3>2, <3>3
      DEF TypeOK, CommitEmpty, campaignVars, providerVars
  <2>8. CASE RollBack(w)
    BY <2>8, ProceedType DEF TypeOK, RollBack, Release, campaignVars, providerVars
  <2> QED
    BY <1>2, <2>1, <2>2, <2>3, <2>4, <2>6, <2>7, <2>8 DEF WorkerStep
<1>3. CASE Environment
  <2>1. ASSUME NEW new \in WrittenStatuses, CampaignChanges(new) PROVE TypeOK'
    BY <2>1 DEF TypeOK, CampaignChanges, providerVars
  <2>2. ASSUME NEW r \in Runs, SendRequested(r) \/ Resumed(r) PROVE TypeOK'
    BY <2>2 DEF TypeOK, SendRequested, Resumed, Goto, RunPlaces, CampaignStatuses,
                campaignVars, providerVars
  <2>3. ASSUME NEW S \in SUBSET Contacts, Materialise(S) PROVE TypeOK'
    BY <2>3 DEF TypeOK, Materialise, Overwrite, Constantly, RowStatuses,
                RecipientStatuses, campaignVars, providerVars
  <2>4. ASSUME NEW S \in SUBSET Contacts, NEW label \in Labels, Relabel(S, label)
        PROVE  TypeOK'
    BY <2>4 DEF TypeOK, Relabel, Overwrite, Constantly, RowStatuses,
                RecipientStatuses, campaignVars, providerVars
  <2>5. ASSUME NEW c \in Contacts, DoNotSendChanges(c) PROVE TypeOK'
    BY <2>5 DEF TypeOK, DoNotSendChanges, providerVars
  <2>6. ASSUME NEW c \in Contacts, NEW s \in ReportedStatuses, EventApplies(c, s)
        PROVE  TypeOK'
    BY <2>6, EventsMail DEF TypeOK, EventApplies, campaignVars, providerVars
  <2> QED
    BY <1>3, <2>1, <2>2, <2>3, <2>4, <2>5, <2>6 DEF Environment
<1>4. CASE UNCHANGED sendVars
  BY <1>4 DEF TypeOK, sendVars, campaignVars, providerVars
<1> QED
  BY <1>1, <1>2, <1>3, <1>4 DEF Next

\* Every step of the worker and of its environment keeps the types.
THEOREM WorkerTypes == Spec => []TypeOK
<1> QED
  BY TypeInit, TypeNext, PTL DEF Spec

-----------------------------------------------------------------------------
(* The inductive invariant *)

Mailed(c) == row[c] \notin Unmailed

\* Rows: an open transaction holds visibly pending rows, nobody else holds them,
\* and what it suppressed it does not claim afterwards.
Orderly(t) ==
  /\ t.suppressed \cap t.rows = {}
  /\ t.stage = "open" => t.rows = {}

RowsInv ==
  /\ SlicesAreDisjoint
  /\ \A w \in Workers : Orderly(tx[w])

\* Runs: at most one transaction of a run is awaited, the one of its current
\* attempt; leftovers belong to the current batch or an earlier one; and an
\* earlier batch has been committed.
RunsInv ==
  /\ \A w \in Workers : tx[w] # Idle =>
       /\ tx[w].batch <= run[tx[w].run].batch
       /\ tx[w].awaited => /\ run[tx[w].run].pc = "running"
                           /\ tx[w].batch = run[tx[w].run].batch
  /\ \A v, w \in Workers :
       (v # w /\ tx[v] # Idle /\ tx[w] # Idle /\ tx[v].awaited /\ tx[w].awaited)
         => tx[v].run # tx[w].run
  /\ \A k \in Keys : k[2] < run[k[1]].batch => k \in recorded

\* Keys: the provider accepts only what it was asked for; a key of a later batch
\* is unused; a transaction that has its answer has it for its own rows; the
\* recipients of a committed key are mailed.
KeysInv ==
  /\ \A k \in Keys : /\ delivered[k] \subseteq payload[k]
                     /\ payload[k] # {} => k[2] <= run[k[1]].batch
  /\ \A w \in Workers : tx[w].stage = "answered" =>
       payload[Key(w)] = tx[w].rows /\ tx[w].rows # {}
  /\ \A k \in recorded : payload[k] # {} /\ \A c \in payload[k] : Mailed(c)

\* Copies: the keys of one run never share a recipient, nor do two committed keys.
CopiesInv ==
  \A j, k \in Keys :
    j # k /\ payload[j] \cap payload[k] # {} =>
      j[1] # k[1] /\ ~(j \in recorded /\ k \in recorded)

WorkerInv ==
  TypeOK /\ RowsInv /\ RunsInv /\ KeysInv /\ CopiesInv /\ RowTellsTheTruth

LEMMA WorkerInit == Init => WorkerInv
<1> SUFFICES ASSUME Init PROVE WorkerInv
  OBVIOUS
<1>1. TypeOK
  BY TypeInit
<1>2. /\ \A c \in Contacts : row[c] = "none"
      /\ \A w \in Workers : tx[w] = Idle /\ Holds(w) = {}
      /\ \A r \in Runs : run[r].batch = 0
      /\ \A k \in Keys : payload[k] = {} /\ delivered[k] = {}
      /\ recorded = {}
  BY DEF Init, Holds, Idle
<1>3. RowsInv
  BY <1>2 DEF RowsInv, SlicesAreDisjoint, Idle, Orderly
<1>4. RunsInv
  BY <1>2 DEF RunsInv, Keys
<1>5. KeysInv
  BY <1>2 DEF KeysInv, Idle
<1>6. CopiesInv /\ RowTellsTheTruth
  BY <1>2 DEF CopiesInv, RowTellsTheTruth
<1> QED
  BY <1>1, <1>3, <1>4, <1>5, <1>6 DEF WorkerInv

\* A step that leaves transactions, provider and batches alone, stops no running
\* attempt, and touches no held row: what it may do to a row is to move it on
\* among the unmailed, or to mail it on the provider's word.
QuietRow(c) ==
  \/ row'[c] = row[c]
  \/ /\ ~Locked(c)
     /\ row'[c] # "sending"
     /\ Mailed(c) => row'[c] \notin Unmailed
     /\ row'[c] \in Unmailed \/ \E k \in Keys : c \in delivered[k]

LEMMA QuietStep ==
  ASSUME WorkerInv, TypeOK', UNCHANGED <<tx, payload, delivered, recorded>>,
         \A r \in Runs : /\ run'[r].batch = run[r].batch
                         /\ run[r].pc = "running" => run'[r].pc = "running",
         \A c \in Contacts : QuietRow(c)
  PROVE  WorkerInv'
<1>1. /\ \A w \in Workers : Holds(w)' = Holds(w) /\ Key(w)' = Key(w)
      /\ \A w \in Workers : tx'[w] = tx[w]
      /\ \A w \in Workers : Holds(w) \subseteq Contacts
  BY DEF Holds, Key, WorkerInv, TypeOK, Transactions, Idle
<1>2. RowsInv'
  <2>1. \A c \in Contacts : row'[c] # "sending"
    BY DEF WorkerInv, RowsInv, SlicesAreDisjoint, QuietRow
  <2>2. \A w \in Workers : \A c \in Holds(w) : row'[c] = "pending"
    BY <1>1 DEF WorkerInv, RowsInv, SlicesAreDisjoint, QuietRow, Locked
  <2> QED
    BY <1>1, <2>1, <2>2 DEF WorkerInv, RowsInv, SlicesAreDisjoint
<1>3. RunsInv'
  <2>1. \A w \in Workers : tx[w] # Idle => tx[w].run \in Runs
    BY DEF WorkerInv, TypeOK, Transactions
  <2>2. \A k \in Keys : k[1] \in Runs
    BY DEF Keys
  <2> QED
    BY <1>1, <2>1, <2>2 DEF WorkerInv, RunsInv
<1>4. KeysInv'
  <2>1. \A k \in Keys : k[1] \in Runs
    BY DEF Keys
  <2>2. \A k \in recorded : payload[k] \subseteq Contacts
    BY DEF WorkerInv, TypeOK
  <2>3. \A k \in recorded : \A c \in payload[k] : row'[c] \notin Unmailed
    BY <2>2 DEF WorkerInv, KeysInv, QuietRow, Mailed
  <2> QED
    BY <1>1, <2>1, <2>3 DEF WorkerInv, KeysInv, Mailed
<1>5. CopiesInv'
  BY DEF WorkerInv, CopiesInv
<1>6. RowTellsTheTruth'
  BY DEF WorkerInv, RowTellsTheTruth, QuietRow, Unmailed
<1> QED
  BY <1>2, <1>3, <1>4, <1>5, <1>6 DEF WorkerInv

\* A step that moves one transaction on, to one that fits the others.
Fits(w, t) ==
  /\ \A c \in t.suppressed \cup t.rows : row[c] = "pending" /\ ~LockedByOther(w, c)
  /\ Orderly(t)
  /\ t # Idle =>
       /\ t.batch <= run'[t.run].batch
       /\ t.awaited =>
            /\ run'[t.run].pc = "running" /\ t.batch = run'[t.run].batch
            /\ \A v \in Workers \ {w} :
                 tx[v] # Idle /\ tx[v].awaited => tx[v].run # t.run
       /\ t.stage = "answered" => payload[<<t.run, t.batch>>] = t.rows /\ t.rows # {}

LEMMA TransactionStep ==
  ASSUME WorkerInv, TypeOK', NEW w \in Workers, NEW t \in Transactions \cup {Idle},
         Proceed(w, t), Fits(w, t),
         UNCHANGED <<row, payload, delivered, recorded>>,
         \A r \in Runs : /\ run'[r].batch = run[r].batch
                         /\ run[r].pc = "running" => run'[r].pc = "running"
  PROVE  WorkerInv'
<1>1. /\ tx'[w] = t
      /\ \A v \in Workers \ {w} : tx'[v] = tx[v]
  BY ProceedType DEF WorkerInv
<1>2. /\ Holds(w)' = t.suppressed \cup t.rows
      /\ \A v \in Workers \ {w} : Holds(v)' = Holds(v)
  BY <1>1 DEF Holds
<1>3. RowsInv'
  <2>1. \A v \in Workers : \A c \in Holds(v)' : row'[c] = "pending"
    BY <1>2 DEF WorkerInv, RowsInv, SlicesAreDisjoint, Fits
  <2>2. \A v \in Workers \ {w} : Holds(v)' \cap Holds(w)' = {}
    BY <1>2 DEF Fits, LockedByOther
  <2>3. \A u, v \in Workers : u # v => Holds(u)' \cap Holds(v)' = {}
    BY <1>2, <2>2 DEF WorkerInv, RowsInv, SlicesAreDisjoint
  <2>4. \A v \in Workers : Orderly(tx'[v])
    BY <1>1 DEF WorkerInv, RowsInv, Fits
  <2> QED
    BY <2>1, <2>3, <2>4 DEF WorkerInv, RowsInv, SlicesAreDisjoint
<1>4. RunsInv'
  <2>1. \A v \in Workers : tx[v] # Idle => tx[v].run \in Runs
    BY DEF WorkerInv, TypeOK, Transactions
  <2>2. \A v \in Workers : tx'[v] # Idle =>
          /\ tx'[v].batch <= run'[tx'[v].run].batch
          /\ tx'[v].awaited => /\ run'[tx'[v].run].pc = "running"
                               /\ tx'[v].batch = run'[tx'[v].run].batch
    BY <1>1, <2>1 DEF WorkerInv, RunsInv, Fits
  <2>3. \A u, v \in Workers :
          (u # v /\ tx'[u] # Idle /\ tx'[v] # Idle /\ tx'[u].awaited /\ tx'[v].awaited)
            => tx'[u].run # tx'[v].run
    BY <1>1 DEF WorkerInv, RunsInv, Fits
  <2>4. \A k \in Keys : k[2] < run'[k[1]].batch => k \in recorded'
    BY DEF WorkerInv, RunsInv, Keys
  <2> QED
    BY <2>2, <2>3, <2>4 DEF RunsInv
<1>5. KeysInv'
  <2>1. \A k \in Keys : k[1] \in Runs
    BY DEF Keys
  <2>2. \A v \in Workers : tx'[v].stage = "answered" =>
          payload[Key(v)'] = tx'[v].rows /\ tx'[v].rows # {}
    BY <1>1 DEF WorkerInv, KeysInv, Fits, Key, Idle
  <2> QED
    BY <2>1, <2>2 DEF WorkerInv, KeysInv, Mailed
<1>6. CopiesInv' /\ RowTellsTheTruth'
  BY DEF WorkerInv, CopiesInv, RowTellsTheTruth
<1> QED
  BY <1>3, <1>4, <1>5, <1>6 DEF WorkerInv

\* The run gives its attempt up: a live worker becomes a leftover one.
LEMMA AttemptFailsStep ==
  ASSUME WorkerInv, TypeOK', NEW r \in Runs, AttemptFails(r)
  PROVE  WorkerInv'
<1> USE DEF WorkerInv
<1>1. /\ \A s \in Runs : run'[s].batch = run[s].batch
      /\ \A s \in Runs \ {r} : run'[s] = run[s]
  BY EndType DEF AttemptFails, TypeOK
<1>2. \A w \in Workers :
        /\ tx'[w] # Idle <=> tx[w] # Idle
        /\ tx'[w].stage = tx[w].stage
        /\ tx'[w].suppressed = tx[w].suppressed /\ tx'[w].rows = tx[w].rows
        /\ tx[w] # Idle =>
             /\ tx'[w].run = tx[w].run /\ tx'[w].batch = tx[w].batch
             /\ tx'[w].awaited => tx[w].awaited /\ tx[w].run # r
  <2> SUFFICES ASSUME NEW w \in Workers
               PROVE  /\ tx'[w] # Idle <=> tx[w] # Idle
                      /\ tx'[w].stage = tx[w].stage
                      /\ tx'[w].suppressed = tx[w].suppressed /\ tx'[w].rows = tx[w].rows
                      /\ tx[w] # Idle =>
                           /\ tx'[w].run = tx[w].run /\ tx'[w].batch = tx[w].batch
                           /\ tx'[w].awaited => tx[w].awaited /\ tx[w].run # r
    OBVIOUS
  <2>1. tx'[w] = IF tx[w] # Idle /\ tx[w].run = r THEN [tx[w] EXCEPT !.awaited = FALSE]
                 ELSE tx[w]
    BY DEF AttemptFails
  <2>2. tx[w] \in Transactions \/ tx[w] = Idle
    BY DEF TypeOK
  <2>3. CASE tx[w] # Idle /\ tx[w].run = r
    BY <2>1, <2>2, <2>3 DEF Transactions, Idle, Stages
  <2>4. CASE ~(tx[w] # Idle /\ tx[w].run = r)
    BY <2>1, <2>4
  <2> QED
    BY <2>3, <2>4
<1>3. UNCHANGED <<row, payload, delivered, recorded>>
  BY DEF AttemptFails, providerVars
<1>4. \A w \in Workers : Holds(w)' = Holds(w)
  BY <1>2 DEF Holds
<1>5. RowsInv'
  BY <1>2, <1>3, <1>4 DEF RowsInv, SlicesAreDisjoint, Orderly
<1>6. RunsInv'
  <2>1. \A w \in Workers : tx[w] # Idle => tx[w].run \in Runs
    BY DEF TypeOK, Transactions
  <2>2. \A k \in Keys : k[2] < run'[k[1]].batch => k \in recorded'
    BY <1>1, <1>3 DEF RunsInv, Keys
  <2>3. \A w \in Workers : tx'[w] # Idle =>
          /\ tx'[w].batch <= run'[tx'[w].run].batch
          /\ tx'[w].awaited => /\ run'[tx'[w].run].pc = "running"
                               /\ tx'[w].batch = run'[tx'[w].run].batch
    BY <1>1, <1>2, <2>1 DEF RunsInv
  <2>4. \A v, w \in Workers :
          (v # w /\ tx'[v] # Idle /\ tx'[w] # Idle /\ tx'[v].awaited /\ tx'[w].awaited)
            => tx'[v].run # tx'[w].run
    BY <1>2 DEF RunsInv
  <2> QED
    BY <2>2, <2>3, <2>4 DEF RunsInv
<1>7. KeysInv'
  <2>1. \A k \in Keys : k[1] \in Runs
    BY DEF Keys
  <2>2. \A w \in Workers : tx'[w].stage = "answered" =>
          Key(w)' = Key(w) /\ tx'[w].rows = tx[w].rows /\ tx[w].stage = "answered"
    BY <1>2 DEF Key, TypeOK, Idle
  <2> QED
    BY <1>1, <1>3, <2>1, <2>2 DEF KeysInv, Mailed
<1>8. CopiesInv' /\ RowTellsTheTruth'
  BY <1>3 DEF CopiesInv, RowTellsTheTruth
<1> QED
  BY <1>5, <1>6, <1>7, <1>8

\* What the provider is asked under a new key is news to it: an earlier batch of
\* the run is committed and its recipients mailed, there is no later one, and
\* the recipients of every committed key are mailed too.
LEMMA FreshRows ==
  ASSUME WorkerInv, NEW w \in Workers, tx[w] # Idle
  PROVE  /\ Key(w) \in Keys
         /\ \A k \in recorded : payload[k] \cap tx[w].rows = {}
         /\ payload[Key(w)] = {} =>
              \A k \in Keys : k[1] = Key(w)[1] => payload[k] \cap tx[w].rows = {}
<1>1. tx[w] \in Transactions
  BY DEF WorkerInv, TypeOK
<1>2. Key(w) \in Keys /\ Key(w)[1] = tx[w].run /\ Key(w)[2] = tx[w].batch
      /\ tx[w].batch \in Nat /\ tx[w].run \in Runs
  BY <1>1, SendAssumption DEF Transactions, Key, Keys
<1>3. \A c \in tx[w].rows : row[c] \in Unmailed
  BY DEF WorkerInv, RowsInv, SlicesAreDisjoint, Holds, Unmailed
<1>4. \A k \in recorded : payload[k] \cap tx[w].rows = {}
  BY <1>3 DEF WorkerInv, KeysInv, Mailed
<1>5. ASSUME payload[Key(w)] = {}, NEW k \in Keys, k[1] = tx[w].run
      PROVE  payload[k] \cap tx[w].rows = {}
  <2>1. k = <<k[1], k[2]>> /\ k[2] \in Nat /\ run[tx[w].run].batch \in Nat
    BY <1>2, SendAssumption DEF Keys, WorkerInv, TypeOK
  <2>2. tx[w].batch <= run[tx[w].run].batch
    BY DEF WorkerInv, RunsInv
  <2>3. CASE k[2] < tx[w].batch
    <3>1. k \in recorded
      BY <1>2, <1>5, <2>1, <2>2, <2>3 DEF WorkerInv, RunsInv
    <3> QED
      BY <3>1, <1>4
  <2>4. CASE k[2] = tx[w].batch
    <3>1. k = Key(w)
      BY <1>5, <2>1, <2>4 DEF Key
    <3> QED
      BY <1>5, <3>1
  <2>5. CASE k[2] > tx[w].batch
    <3>1. payload[k] # {} => Key(w) \in recorded
      BY <1>2, <1>5, <2>1, <2>2, <2>5 DEF WorkerInv, RunsInv, KeysInv
    <3>2. Key(w) \notin recorded
      BY <1>5 DEF WorkerInv, KeysInv
    <3> QED
      BY <3>1, <3>2
  <2> QED
    BY <1>2, <2>1, <2>3, <2>4, <2>5
<1> QED
  BY <1>2, <1>4, <1>5

LEMMA ProviderAcceptsStep ==
  ASSUME WorkerInv, TypeOK', NEW w \in Workers, NEW A \in SUBSET tx[w].rows,
         ProviderAccepts(w, A)
  PROVE  WorkerInv'
<1> USE DEF WorkerInv
<1> DEFINE key == Key(w)
           t   == [tx[w] EXCEPT !.stage = "answered"]
<1>1. tx[w] # Idle /\ tx[w] \in Transactions /\ tx[w].stage = "claimed"
  BY DEF ProviderAccepts, TypeOK, Idle
<1>2. /\ key \in Keys /\ key[1] = tx[w].run /\ key[2] = tx[w].batch
      /\ payload[key] = {} /\ tx[w].rows # {}
      /\ \A k \in recorded : payload[k] \cap tx[w].rows = {}
      /\ \A k \in Keys : k[1] = key[1] => payload[k] \cap tx[w].rows = {}
  BY <1>1, FreshRows DEF ProviderAccepts, Key
<1>3. /\ t \in Transactions /\ t.stage = "answered" /\ t.run = tx[w].run
      /\ t.batch = tx[w].batch /\ t.awaited = tx[w].awaited
      /\ t.suppressed = tx[w].suppressed /\ t.rows = tx[w].rows
  BY <1>1 DEF Transactions, Stages
<1>4. /\ tx'[w] = t /\ \A v \in Workers \ {w} : tx'[v] = tx[v]
      /\ UNCHANGED <<row, run, recorded>>
      /\ payload'[key] = tx[w].rows /\ delivered'[key] = A
      /\ \A k \in Keys \ {key} : payload'[k] = payload[k] /\ delivered'[k] = delivered[k]
  BY <1>2 DEF ProviderAccepts, Proceed, TypeOK
<1> HIDE DEF key, t
<1>5. key \notin recorded
  BY <1>2 DEF KeysInv
<1>6. RowsInv'
  <2>1. \A v \in Workers : Holds(v)' = Holds(v)
    BY <1>3, <1>4 DEF Holds
  <2>2. \A v \in Workers : Orderly(tx'[v])
    BY <1>3, <1>4 DEF RowsInv, Orderly
  <2> QED
    BY <1>4, <2>1, <2>2 DEF RowsInv, SlicesAreDisjoint
<1>7. RunsInv'
  <2>1. t # Idle
    BY <1>3 DEF Idle
  <2> QED
    BY <1>1, <1>3, <1>4, <2>1 DEF RunsInv
<1>8. KeysInv'
  <2>1. \A v \in Workers : tx'[v].stage = "answered" =>
          payload'[Key(v)'] = tx'[v].rows /\ tx'[v].rows # {}
    <3>1. TAKE v \in Workers
    <3>2. CASE v = w
      BY <1>2, <1>3, <1>4, <3>2 DEF Key, key
    <3>3. CASE v # w
      <4>1. tx'[v] = tx[v] /\ Key(v)' = Key(v)
        BY <1>4, <3>3 DEF Key
      <4>2. tx[v].stage = "answered" =>
              /\ Key(v) \in Keys /\ payload[Key(v)] = tx[v].rows /\ tx[v].rows # {}
        BY FreshRows DEF KeysInv, Idle
      <4> QED
        BY <1>2, <1>4, <4>1, <4>2
    <3> QED
      BY <3>2, <3>3
  <2>2. \A k \in Keys : delivered'[k] \subseteq payload'[k]
    BY <1>4 DEF KeysInv
  <2>3. \A k \in Keys : payload'[k] # {} => k[2] <= run'[k[1]].batch
    BY <1>1, <1>2, <1>4 DEF KeysInv, RunsInv
  <2>4. \A k \in recorded : k \in Keys /\ payload'[k] = payload[k]
    BY <1>4, <1>5 DEF TypeOK
  <2> QED
    BY <1>4, <2>1, <2>2, <2>3, <2>4 DEF KeysInv, Mailed
<1>9. CopiesInv'
  BY <1>2, <1>4, <1>5 DEF CopiesInv
<1>10. RowTellsTheTruth'
  <2>1. \A k \in Keys : delivered[k] \subseteq delivered'[k]
    BY <1>2, <1>4 DEF KeysInv
  <2> QED
    BY <1>4, <2>1 DEF RowTellsTheTruth
<1> QED
  BY <1>6, <1>7, <1>8, <1>9, <1>10

\* A worker that is done leaves its run where it was, or moves it on if the run
\* was waiting for this very answer; an earlier batch is committed either way.
LEMMA ReportsStep ==
  ASSUME WorkerInv, TypeOK', NEW w \in Workers, NEW a \in BOOLEAN,
         tx[w] # Idle, Release(w), Reports(w, a),
         recorded \subseteq recorded',
         Cardinality(tx[w].rows) = BatchSize => Key(w) \in recorded'
  PROVE  /\ RunsInv'
         /\ \A r \in Runs : run[r].batch <= run'[r].batch
         /\ tx'[w] = Idle /\ \A v \in Workers \ {w} : tx'[v] = tx[v]
<1> USE DEF WorkerInv
<1>1. tx'[w] = Idle /\ \A v \in Workers \ {w} : tx'[v] = tx[v]
  BY ProceedType DEF Release
<1>2. /\ tx[w] \in Transactions /\ tx[w].run \in Runs /\ tx[w].batch \in Nat
      /\ Key(w) = <<tx[w].run, tx[w].batch>>
      /\ \A r \in Runs : run[r].batch \in Nat
      /\ \A v \in Workers : tx[v] # Idle => tx[v].run \in Runs /\ tx[v].batch \in Nat
  BY SendAssumption DEF TypeOK, Transactions, Key
<1>3. CASE UNCHANGED run
  BY <1>1, <1>2, <1>3 DEF RunsInv, Keys
<1>4. CASE tx[w].awaited /\ Advance(tx[w].run, Cardinality(tx[w].rows))
  <2>1. /\ \A r \in Runs \ {tx[w].run} : run'[r] = run[r]
        /\ \/ run'[tx[w].run].batch = run[tx[w].run].batch
           \/ /\ Cardinality(tx[w].rows) = BatchSize
              /\ run'[tx[w].run].batch = run[tx[w].run].batch + 1
    BY <1>2, <1>4, AdvanceType
  <2>2. tx[w].batch = run[tx[w].run].batch
    BY <1>4 DEF RunsInv
  <2>3. \A v \in Workers \ {w} :
          tx[v] # Idle /\ tx[v].awaited => tx[v].run # tx[w].run
    BY <1>4 DEF RunsInv
  <2>4. \A r \in Runs : run[r].batch <= run'[r].batch
    BY <1>2, <2>1
  <2>5. \A v \in Workers : tx'[v] # Idle =>
          /\ tx'[v].batch <= run'[tx'[v].run].batch
          /\ tx'[v].awaited => /\ run'[tx'[v].run].pc = "running"
                               /\ tx'[v].batch = run'[tx'[v].run].batch
    <3>1. TAKE v \in Workers
    <3>2. HAVE tx'[v] # Idle
    <3>3. v # w /\ tx'[v] = tx[v] /\ tx[v] # Idle
      BY <1>1, <3>2
    <3>4. tx[v].batch <= run[tx[v].run].batch
      BY <3>3 DEF RunsInv
    <3>5. run'[tx[v].run].batch \in Nat
      BY <1>2, <3>3, SendAssumption DEF TypeOK
    <3>6. tx[v].batch <= run'[tx[v].run].batch
      BY <1>2, <2>4, <3>3, <3>4, <3>5
    <3>7. tx[v].awaited => run'[tx[v].run] = run[tx[v].run]
      BY <1>2, <2>1, <2>3, <3>3
    <3> QED
      BY <3>3, <3>6, <3>7 DEF RunsInv
  <2>6. \A u, v \in Workers :
          (u # v /\ tx'[u] # Idle /\ tx'[v] # Idle /\ tx'[u].awaited /\ tx'[v].awaited)
            => tx'[u].run # tx'[v].run
    BY <1>1 DEF RunsInv
  <2>7. \A k \in Keys : k[2] < run'[k[1]].batch => k \in recorded'
    <3>1. TAKE k \in Keys
    <3>2. HAVE k[2] < run'[k[1]].batch
    <3>3. k = <<k[1], k[2]>> /\ k[1] \in Runs /\ k[2] \in Nat
      BY SendAssumption DEF Keys
    <3>4. CASE k[2] < run[k[1]].batch
      BY <3>4 DEF RunsInv
    <3>5. CASE ~(k[2] < run[k[1]].batch)
      <4>1. k[1] = tx[w].run
        BY <2>1, <3>2, <3>3, <3>5
      <4>2. /\ Cardinality(tx[w].rows) = BatchSize
            /\ k[2] = run[tx[w].run].batch
        BY <1>2, <2>1, <3>2, <3>3, <3>5, <4>1
      <4> QED
        BY <1>2, <2>2, <3>3, <4>1, <4>2
    <3> QED
      BY <3>4, <3>5
  <2> QED
    BY <1>1, <2>4, <2>5, <2>6, <2>7 DEF RunsInv
<1> QED
  BY <1>3, <1>4 DEF Reports

LEMMA CommitBatchStep ==
  ASSUME WorkerInv, TypeOK', NEW w \in Workers, NEW a \in BOOLEAN, CommitBatch(w, a)
  PROVE  WorkerInv'
<1> USE DEF WorkerInv
<1> DEFINE key == Key(w)
<1>1. tx[w] # Idle /\ tx[w].stage = "answered"
  BY DEF CommitBatch, Idle
<1>2. /\ key \in Keys /\ payload[key] = tx[w].rows /\ tx[w].rows # {}
      /\ delivered[key] \subseteq tx[w].rows
      /\ \A k \in recorded : payload[k] \cap tx[w].rows = {}
  BY <1>1, FreshRows DEF KeysInv
<1>3. recorded' = recorded \cup {key} /\ UNCHANGED <<payload, delivered>>
  BY DEF CommitBatch, providerVars
<1>4. /\ RunsInv'
      /\ \A r \in Runs : run[r].batch <= run'[r].batch
      /\ tx'[w] = Idle /\ \A v \in Workers \ {w} : tx'[v] = tx[v]
  BY <1>1, <1>3, ReportsStep DEF CommitBatch
<1>5. \A c \in Contacts :
        /\ c \notin Holds(w) => row'[c] = row[c]
        /\ c \in tx[w].suppressed => row'[c] = "suppressed"
        /\ c \in tx[w].rows => row'[c] = IF c \in delivered[key] THEN "sent" ELSE "failed"
  BY DEF CommitBatch, Overwrite, BatchOutcome, RowsInv, Holds, Orderly
<1>6. /\ Holds(w) \subseteq Contacts /\ Holds(w) = tx[w].suppressed \cup tx[w].rows
      /\ \A c \in Holds(w) : row[c] = "pending"
      /\ \A v \in Workers \ {w} : Holds(v) \cap Holds(w) = {}
  BY OpenOrIdle DEF Holds, RowsInv, SlicesAreDisjoint
<1> HIDE DEF key
\* Mailed rows stay mailed and the rows of the batch join them.
<1>7. \A c \in Contacts : row[c] \notin Unmailed => row'[c] \notin Unmailed
  BY <1>5, <1>6 DEF Unmailed
<1>8. \A c \in tx[w].rows : row'[c] \notin Unmailed
  BY <1>5, <1>6 DEF Unmailed
<1>9. RowsInv'
  <2>1. /\ Holds(w)' = {}
        /\ \A v \in Workers \ {w} : Holds(v)' = Holds(v) /\ Holds(v) \subseteq Contacts
    BY <1>4, OpenOrIdle DEF Holds, Idle
  <2>2. \A c \in Contacts : row'[c] # "sending"
    BY <1>5, <1>6 DEF RowsInv, SlicesAreDisjoint
  <2>3. \A v \in Workers \ {w} : \A c \in Holds(v) : row'[c] = "pending"
    BY <1>5, <1>6, <2>1 DEF RowsInv, SlicesAreDisjoint
  <2>4. \A u, v \in Workers : u # v => Holds(u)' \cap Holds(v)' = {}
    BY <2>1 DEF RowsInv, SlicesAreDisjoint
  <2>5. \A v \in Workers : Orderly(tx'[v])
    BY <1>4 DEF RowsInv, Idle, Orderly
  <2> QED
    BY <2>1, <2>2, <2>3, <2>4, <2>5 DEF RowsInv, SlicesAreDisjoint
<1>10. KeysInv'
  <2>1. \A v \in Workers : tx'[v].stage = "answered" =>
          payload'[Key(v)'] = tx'[v].rows /\ tx'[v].rows # {}
    BY <1>3, <1>4 DEF KeysInv, Key, Idle
  <2>2. \A k \in recorded' : /\ payload'[k] # {}
                             /\ \A c \in payload'[k] : row'[c] \notin Unmailed
    BY <1>2, <1>3, <1>7, <1>8 DEF KeysInv, Mailed, TypeOK
  <2>3. \A k \in Keys : payload'[k] # {} => k[2] <= run'[k[1]].batch
    <3>1. \A k \in Keys : k[1] \in Runs /\ k[2] \in Nat
      BY SendAssumption DEF Keys
    <3>2. \A r \in Runs : run[r].batch \in Nat /\ run'[r].batch \in Nat
      BY SendAssumption DEF TypeOK
    <3> QED
      BY <1>3, <1>4, <3>1, <3>2 DEF KeysInv
  <2> QED
    BY <1>3, <2>1, <2>2, <2>3 DEF KeysInv, Mailed
<1>11. CopiesInv'
  BY <1>2, <1>3 DEF CopiesInv
<1>12. RowTellsTheTruth'
  <2>1. ASSUME NEW c \in Contacts,
               row'[c] \in {"sent", "delivered", "opened", "clicked", "bounced",
                            "complained"}
        PROVE  \E k \in Keys : c \in delivered[k]
    <3>1. CASE c \in Holds(w)
      BY <1>2, <1>5, <1>6, <2>1, <3>1
    <3>2. CASE c \notin Holds(w)
      BY <1>5, <2>1, <3>2 DEF RowTellsTheTruth
    <3> QED
      BY <3>1, <3>2
  <2> QED
    BY <1>3, <2>1 DEF RowTellsTheTruth
<1> QED
  BY <1>4, <1>9, <1>10, <1>11, <1>12

LEMMA CommitEmptyStep ==
  ASSUME WorkerInv, TypeOK', NEW w \in Workers, NEW a \in BOOLEAN, CommitEmpty(w, a)
  PROVE  WorkerInv'
<1> USE DEF WorkerInv
<1>1. tx[w] # Idle /\ tx[w].rows = {}
  BY DEF CommitEmpty, Idle
<1>2. UNCHANGED <<recorded, payload, delivered>>
  BY DEF CommitEmpty, providerVars
<1>3. Cardinality(tx[w].rows) # BatchSize
  BY <1>1, FS_EmptySet, SendAssumption
<1>4. /\ RunsInv'
      /\ \A r \in Runs : run[r].batch <= run'[r].batch
      /\ tx'[w] = Idle /\ \A v \in Workers \ {w} : tx'[v] = tx[v]
  BY <1>1, <1>2, <1>3, ReportsStep DEF CommitEmpty
<1>5. \A c \in Contacts :
        /\ c \notin Holds(w) => row'[c] = row[c]
        /\ c \in Holds(w) => row'[c] = "suppressed"
  BY <1>1 DEF CommitEmpty, Overwrite, Constantly, Holds
<1>6. /\ Holds(w) \subseteq Contacts
      /\ \A c \in Holds(w) : row[c] = "pending"
      /\ \A v \in Workers \ {w} : Holds(v) \cap Holds(w) = {}
  BY OpenOrIdle DEF Holds, RowsInv, SlicesAreDisjoint
<1>7. \A c \in Contacts : row[c] \notin Unmailed => row'[c] \notin Unmailed
  BY <1>5, <1>6 DEF Unmailed
<1>8. RowsInv'
  <2>1. /\ Holds(w)' = {}
        /\ \A v \in Workers \ {w} : Holds(v)' = Holds(v) /\ Holds(v) \subseteq Contacts
    BY <1>4, OpenOrIdle DEF Holds, Idle
  <2>2. \A c \in Contacts : row'[c] # "sending"
    BY <1>5, <1>6 DEF RowsInv, SlicesAreDisjoint
  <2>3. \A v \in Workers \ {w} : \A c \in Holds(v) : row'[c] = "pending"
    BY <1>5, <1>6, <2>1 DEF RowsInv, SlicesAreDisjoint
  <2>4. \A u, v \in Workers : u # v => Holds(u)' \cap Holds(v)' = {}
    BY <2>1 DEF RowsInv, SlicesAreDisjoint
  <2>5. \A v \in Workers : Orderly(tx'[v])
    BY <1>4 DEF RowsInv, Idle, Orderly
  <2> QED
    BY <2>1, <2>2, <2>3, <2>4, <2>5 DEF RowsInv, SlicesAreDisjoint
<1>9. KeysInv'
  <2>1. \A v \in Workers : tx'[v].stage = "answered" =>
          payload'[Key(v)'] = tx'[v].rows /\ tx'[v].rows # {}
    BY <1>2, <1>4 DEF KeysInv, Key, Idle
  <2>2. \A k \in recorded : \A c \in payload[k] : row'[c] \notin Unmailed
    BY <1>7 DEF KeysInv, Mailed, TypeOK
  <2>3. \A k \in Keys : payload'[k] # {} => k[2] <= run'[k[1]].batch
    <3>1. \A k \in Keys : k[1] \in Runs /\ k[2] \in Nat
      BY SendAssumption DEF Keys
    <3>2. \A r \in Runs : run[r].batch \in Nat /\ run'[r].batch \in Nat
      BY SendAssumption DEF TypeOK
    <3> QED
      BY <1>2, <1>4, <3>1, <3>2 DEF KeysInv
  <2> QED
    BY <1>2, <2>1, <2>2, <2>3 DEF KeysInv, Mailed
<1>10. CopiesInv' /\ RowTellsTheTruth'
  BY <1>2, <1>5 DEF CopiesInv, RowTellsTheTruth
<1> QED
  BY <1>4, <1>8, <1>9, <1>10

LEMMA RunStep_Inv ==
  ASSUME WorkerInv, TypeOK', NEW r \in Runs, RunStep(r)
  PROVE  WorkerInv'
<1> DEFINE QuietRuns == \A s \in Runs : /\ run'[s].batch = run[s].batch
                                        /\ run[s].pc = "running" => run'[s].pc = "running"
<1>1. CASE LoadCampaign(r)
  <2>1. QuietRuns
    BY <1>1 DEF LoadCampaign, Goto, WorkerInv, TypeOK
  <2> QED
    BY <1>1, <2>1, QuietStep DEF LoadCampaign, QuietRow, providerVars
<1>2. CASE ReleaseClaimed(r)
  <2>1. QuietRuns
    BY <1>2, EndType DEF ReleaseClaimed, WorkerInv
  <2>2. \A c \in Contacts : row'[c] = row[c]
    BY <1>2 DEF ReleaseClaimed, Overwrite, WorkerInv, RowsInv, SlicesAreDisjoint
  <2> QED
    BY <1>2, <2>1, <2>2, QuietStep DEF ReleaseClaimed, QuietRow, providerVars
<1>3. ASSUME NEW w \in Workers, StartAttempt(r, w) PROVE WorkerInv'
  <2> DEFINE t == [stage |-> "open", run |-> r, batch |-> run[r].batch,
                   awaited |-> TRUE, suppressed |-> {}, rows |-> {}]
  <2>1. t \in Transactions
    BY DEF WorkerInv, TypeOK, Transactions, Stages
  <2>2. /\ QuietRuns
        /\ run'[r].pc = "running" /\ run'[r].batch = run[r].batch
        /\ run[r].pc = "batch" /\ run[r].batch \in Nat
    BY <1>3, SendAssumption DEF StartAttempt, Goto, WorkerInv, TypeOK
  <2>3. \A v \in Workers : tx[v] # Idle /\ tx[v].awaited => tx[v].run # r
    BY <2>2 DEF WorkerInv, RunsInv
  <2>4. Fits(w, t)
    BY <2>2, <2>3 DEF Fits, Orderly
  <2>5. Proceed(w, t) /\ UNCHANGED <<row, payload, delivered, recorded>>
    BY <1>3 DEF StartAttempt, providerVars
  <2> HIDE DEF t
  <2> QED
    BY <2>1, <2>2, <2>4, <2>5, TransactionStep
<1>4. CASE AttemptFails(r)
  BY <1>4, AttemptFailsStep
<1>5. CASE Complete(r)
  <2>1. QuietRuns
    BY <1>5, EndType DEF Complete, WorkerInv
  <2> QED
    BY <1>5, <2>1, QuietStep DEF Complete, QuietRow, providerVars
<1>6. ASSUME NEW next \in Runs, Continue(r, next) PROVE WorkerInv'
  <2>1. QuietRuns
    BY <1>6 DEF Continue, WorkerInv, TypeOK
  <2> QED
    BY <1>6, <2>1, QuietStep DEF Continue, QuietRow, providerVars
<1>7. CASE StepExhausted(r)
  <2>1. QuietRuns
    BY <1>7, EndType DEF StepExhausted, WorkerInv
  <2> QED
    BY <1>7, <2>1, QuietStep DEF StepExhausted, QuietRow, providerVars
<1> QED
  BY <1>1, <1>2, <1>3, <1>4, <1>5, <1>6, <1>7 DEF RunStep

LEMMA WorkerStep_Inv ==
  ASSUME WorkerInv, TypeOK', NEW w \in Workers, WorkerStep(w)
  PROVE  WorkerInv'
<1> DEFINE QuietRuns == \A s \in Runs : /\ run'[s].batch = run[s].batch
                                        /\ run[s].pc = "running" => run'[s].pc = "running"
<1>0. /\ tx[w] \in Transactions \/ (tx[w] = Idle /\ tx[w].stage = "idle")
      /\ tx[w] # Idle =>
           /\ tx[w].batch <= run[tx[w].run].batch
           /\ tx[w].awaited =>
                /\ run[tx[w].run].pc = "running"
                /\ tx[w].batch = run[tx[w].run].batch
                /\ \A v \in Workers \ {w} :
                     tx[v] # Idle /\ tx[v].awaited => tx[v].run # tx[w].run
      /\ \A c \in Holds(w) : row[c] = "pending" /\ ~LockedByOther(w, c)
      /\ Orderly(tx[w])
  BY DEF WorkerInv, TypeOK, Idle, RunsInv, RowsInv, SlicesAreDisjoint, LockedByOther
<1>1. CASE SuppressLateArrivals(w)
  <2> DEFINE late == {c \in unsendable : row[c] = "pending"}
             t == [tx[w] EXCEPT !.stage = "checked", !.suppressed = late]
  <2>1. tx[w] \in Transactions /\ tx[w] # Idle /\ late \in SUBSET Contacts
    BY <1>0, <1>1 DEF SuppressLateArrivals, WorkerInv, TypeOK, Idle
  <2>2. /\ t \in Transactions /\ t.stage = "checked" /\ t.suppressed = late
        /\ t.rows = tx[w].rows /\ t.run = tx[w].run /\ t.batch = tx[w].batch
        /\ t.awaited = tx[w].awaited
    BY <2>1 DEF Transactions, Stages
  <2>3. Proceed(w, t) /\ UNCHANGED <<row, run, payload, delivered, recorded>>
        /\ \A c \in late : row[c] = "pending" /\ ~LockedByOther(w, c)
    BY <1>1 DEF SuppressLateArrivals, providerVars
  <2>4. tx[w].rows = {}
    BY <1>0, <1>1 DEF SuppressLateArrivals, Orderly
  <2> HIDE DEF t, late
  <2>5. Fits(w, t)
    BY <1>0, <2>1, <2>2, <2>3, <2>4 DEF Fits, Holds, Orderly
  <2> QED
    BY <2>2, <2>3, <2>5, TransactionStep
<1>2. ASSUME NEW S \in SUBSET Contacts, ClaimBatch(w, S) PROVE WorkerInv'
  <2> DEFINE t == [tx[w] EXCEPT !.stage = "claimed", !.rows = S]
  <2>1. tx[w] \in Transactions /\ tx[w] # Idle
    BY <1>0, <1>2 DEF ClaimBatch, Idle
  <2>2. /\ t \in Transactions /\ t.stage = "claimed" /\ t.rows = S
        /\ t.suppressed = tx[w].suppressed /\ t.run = tx[w].run
        /\ t.batch = tx[w].batch /\ t.awaited = tx[w].awaited
    BY <2>1 DEF Transactions, Stages
  <2>3. Proceed(w, t) /\ UNCHANGED <<row, run, payload, delivered, recorded>>
    BY <1>2 DEF ClaimBatch, providerVars
  <2>4. \A c \in S : row[c] = "pending" /\ ~LockedByOther(w, c) /\ c \notin tx[w].suppressed
    BY <1>2 DEF ClaimBatch, Claimable
  <2> HIDE DEF t
  <2>5. Fits(w, t)
    BY <1>0, <2>1, <2>2, <2>3, <2>4 DEF Fits, Holds, Orderly
  <2> QED
    BY <2>2, <2>3, <2>5, TransactionStep
<1>3. ASSUME NEW A \in SUBSET tx[w].rows, ProviderAccepts(w, A) PROVE WorkerInv'
  BY <1>3, ProviderAcceptsStep
<1>4. CASE ProviderCollapses(w)
  <2> DEFINE t == [tx[w] EXCEPT !.stage = "answered"]
  <2>1. tx[w] \in Transactions /\ tx[w] # Idle
    BY <1>0, <1>4 DEF ProviderCollapses, Idle
  <2>2. /\ t \in Transactions /\ t.stage = "answered" /\ t.rows = tx[w].rows
        /\ t.suppressed = tx[w].suppressed /\ t.run = tx[w].run
        /\ t.batch = tx[w].batch /\ t.awaited = tx[w].awaited
    BY <2>1 DEF Transactions, Stages
  <2>3. /\ Proceed(w, t) /\ UNCHANGED <<row, run, payload, delivered, recorded>>
        /\ tx[w].rows # {} /\ payload[<<tx[w].run, tx[w].batch>>] = tx[w].rows
    BY <1>4 DEF ProviderCollapses, providerVars, Key
  <2> HIDE DEF t
  <2>4. Fits(w, t)
    BY <1>0, <2>1, <2>2, <2>3 DEF Fits, Holds, Orderly
  <2> QED
    BY <2>2, <2>3, <2>4, TransactionStep
<1>5. ASSUME NEW a \in BOOLEAN, CommitBatch(w, a) PROVE WorkerInv'
  BY <1>5, CommitBatchStep
<1>6. ASSUME NEW a \in BOOLEAN, CommitEmpty(w, a) PROVE WorkerInv'
  BY <1>6, CommitEmptyStep
<1>7. CASE RollBack(w)
  <2>1. /\ Proceed(w, Idle) /\ UNCHANGED <<row, run, payload, delivered, recorded>>
    BY <1>7 DEF RollBack, Release, providerVars
  <2>2. Fits(w, Idle)
    BY DEF Fits, Idle, Orderly
  <2> QED
    BY <2>1, <2>2, TransactionStep
<1> QED
  BY <1>1, <1>2, <1>3, <1>4, <1>5, <1>6, <1>7 DEF WorkerStep

LEMMA Environment_Inv ==
  ASSUME WorkerInv, TypeOK', Environment
  PROVE  WorkerInv'
<1> DEFINE QuietRuns == \A s \in Runs : /\ run'[s].batch = run[s].batch
                                        /\ run[s].pc = "running" => run'[s].pc = "running"
<1>1. ASSUME NEW new \in WrittenStatuses, CampaignChanges(new) PROVE WorkerInv'
  BY <1>1, QuietStep DEF CampaignChanges, QuietRow, providerVars
<1>2. ASSUME NEW r \in Runs, SendRequested(r) \/ Resumed(r) PROVE WorkerInv'
  <2>1. QuietRuns /\ UNCHANGED <<row, tx, payload, delivered, recorded>>
    BY <1>2 DEF SendRequested, Resumed, Goto, WorkerInv, TypeOK, providerVars
  <2> QED
    BY <2>1, QuietStep DEF QuietRow
<1>3. ASSUME NEW S \in SUBSET Contacts, Materialise(S) PROVE WorkerInv'
  <2>1. \A c \in Contacts : QuietRow(c)
    <3>1. TAKE c \in Contacts
    <3>2. CASE c \in S
      <4>1. row[c] = "none" /\ row'[c] = "pending"
        BY <1>3, <3>2 DEF Materialise, Overwrite, Constantly
      <4>2. ~Locked(c)
        BY <4>1 DEF Locked, WorkerInv, RowsInv, SlicesAreDisjoint
      <4> QED
        BY <4>1, <4>2 DEF QuietRow, Mailed, Unmailed
    <3>3. CASE c \notin S
      BY <1>3, <3>3 DEF Materialise, Overwrite, QuietRow
    <3> QED
      BY <3>2, <3>3
  <2> QED
    BY <1>3, <2>1, QuietStep DEF Materialise, providerVars
<1>4. ASSUME NEW S \in SUBSET Contacts, NEW label \in Labels, Relabel(S, label)
      PROVE  WorkerInv'
  <2>1. label \in {"suppressed", "cancelled"}
    BY SendAssumption
  <2>2. \A c \in Contacts : QuietRow(c)
    BY <1>4, <2>1
    DEF Relabel, Overwrite, Constantly, QuietRow, Mailed, Unmailed
  <2> QED
    BY <1>4, <2>2, QuietStep DEF Relabel, providerVars
<1>5. ASSUME NEW c \in Contacts, DoNotSendChanges(c) PROVE WorkerInv'
  BY <1>5, QuietStep DEF DoNotSendChanges, QuietRow, providerVars
<1>6. ASSUME NEW c \in Contacts, NEW s \in ReportedStatuses, EventApplies(c, s)
      PROVE  WorkerInv'
  <2>1. row[c] \in RowStatuses /\ row \in [Contacts -> RowStatuses]
    BY DEF WorkerInv, TypeOK
  <2>2. /\ row'[c] = NextRecipientStatus(row[c], s)
        /\ \A d \in Contacts \ {c} : row'[d] = row[d]
        /\ ~Locked(c) /\ \E k \in Keys : c \in delivered[k]
    BY <1>6, <2>1 DEF EventApplies
  <2>3. row'[c] \notin Unmailed /\ row'[c] # "sending"
    BY <2>1, <2>2, EventsMail DEF Unmailed
  <2>4. \A d \in Contacts : QuietRow(d)
    BY <2>2, <2>3 DEF QuietRow
  <2> QED
    BY <1>6, <2>4, QuietStep DEF EventApplies, providerVars
<1> QED
  BY <1>1, <1>2, <1>3, <1>4, <1>5, <1>6 DEF Environment

LEMMA WorkerNext == WorkerInv /\ [Next]_sendVars => WorkerInv'
<1> SUFFICES ASSUME WorkerInv, [Next]_sendVars PROVE WorkerInv'
  OBVIOUS
<1>1. TypeOK'
  BY TypeNext DEF WorkerInv
<1>2. CASE UNCHANGED sendVars
  BY <1>1, <1>2, QuietStep DEF sendVars, campaignVars, providerVars, QuietRow
<1> QED
  BY <1>1, <1>2, RunStep_Inv, WorkerStep_Inv, Environment_Inv DEF Next

LEMMA WorkerHolds == Spec => []WorkerInv
<1> QED
  BY WorkerInit, WorkerNext, PTL DEF Spec

-----------------------------------------------------------------------------
(* What it buys *)

\* Two workers, however they came to be alive, hold disjoint slices of pending
\* rows, and no row is ever visibly `sending`.
THEOREM DisjointSlices == Spec => []SlicesAreDisjoint
<1>1. WorkerInv => SlicesAreDisjoint
  BY DEF WorkerInv, RowsInv
<1> QED
  BY <1>1, WorkerHolds, PTL

\* A second copy takes another run and a batch that was taken but not recorded.
THEOREM SecondCopies == Spec => []SecondCopyNeedsALostCommit
<1>1. WorkerInv => SecondCopyNeedsALostCommit
  <2> SUFFICES ASSUME WorkerInv, NEW j \in Keys, NEW k \in Keys, j # k,
                      delivered[j] \cap delivered[k] # {}
               PROVE  j[1] # k[1] /\ {j, k} \ recorded # {}
    BY DEF SecondCopyNeedsALostCommit
  <2>1. payload[j] \cap payload[k] # {}
    BY DEF WorkerInv, KeysInv
  <2> QED
    BY <2>1 DEF WorkerInv, CopiesInv
<1> QED
  BY <1>1, WorkerHolds, PTL

\* A row claims that a message left only if the provider took one.
THEOREM TruthfulRows == Spec => []RowTellsTheTruth
<1>1. WorkerInv => RowTellsTheTruth
  BY DEF WorkerInv
<1> QED
  BY <1>1, WorkerHolds, PTL

\* Whoever is in a committed batch is never mailed again, by any run, retry or
\* leftover worker.
THEOREM RecordedOnce == Spec => NoCopyAfterRecord
<1> DEFINE NoCopy == \A k \in Keys :
      (delivered'[k] \ delivered[k]) \cap UNION {payload[j] : j \in recorded} = {}
<1>1. WorkerInv /\ [Next]_sendVars => [NoCopy]_sendVars
  <2> SUFFICES ASSUME WorkerInv, Next PROVE NoCopy
    OBVIOUS
  <2>1. CASE UNCHANGED delivered
    BY <2>1
  <2>2. ASSUME NEW w \in Workers, NEW A \in SUBSET tx[w].rows, ProviderAccepts(w, A)
        PROVE  NoCopy
    <3>1. tx[w] # Idle
      BY <2>2 DEF ProviderAccepts, Idle
    <3>2. \A j \in recorded : payload[j] \cap tx[w].rows = {}
      BY <3>1, FreshRows
    <3>3. \A k \in Keys : delivered'[k] \ delivered[k] \subseteq tx[w].rows
      BY <2>2 DEF ProviderAccepts, WorkerInv, TypeOK
    <3> QED
      BY <3>2, <3>3
  <2> QED
    BY <2>1, <2>2
    DEF Next, RunStep, WorkerStep, Environment, LoadCampaign, ReleaseClaimed,
        StartAttempt, AttemptFails, Complete, Continue, StepExhausted,
        SuppressLateArrivals, ClaimBatch, ProviderCollapses, CommitBatch,
        CommitEmpty, RollBack, CampaignChanges, SendRequested, Resumed,
        Materialise, Relabel, DoNotSendChanges, EventApplies, providerVars
<1> QED
  BY <1>1, WorkerHolds, PTL DEF Spec, NoCopyAfterRecord

-----------------------------------------------------------------------------
(* The worker implements CampaignMail *)

Closed == {c \in Contacts : row[c] \notin Unmailed}

LEMMA MailInit == Init => Mail!Init
  BY DEF Init, Mail!Init, Keys, Mail!Keys, Unmailed

\* A step that asks the provider nothing closes at most recipients it was asked
\* about.
LEMMA CloseStep ==
  ASSUME UNCHANGED <<payload, delivered>>,
         Closed \subseteq Closed',
         \A c \in Closed' \ Closed : \E k \in Keys : c \in payload[k]
  PROVE  [Mail!Next]_(Mail!mailVars)
<1>1. PICK S \in SUBSET Contacts : S = Closed' \ Closed
  BY DEF Closed
<1>2. Closed' = Closed \cup S
  BY <1>1
<1>3. \A c \in S : \E k \in Mail!Keys : c \in payload[k]
  BY <1>1 DEF Keys, Mail!Keys
<1>4. Mail!Close(S)
  BY <1>2, <1>3 DEF Mail!Close, Closed
<1> QED
  BY <1>4 DEF Mail!Next

LEMMA MailNext == WorkerInv /\ [Next]_sendVars => [Mail!Next]_(Mail!mailVars)
<1> SUFFICES ASSUME WorkerInv, [Next]_sendVars PROVE [Mail!Next]_(Mail!mailVars)
  OBVIOUS
<1>1. CASE UNCHANGED <<row, payload, delivered>>
  BY <1>1, CloseStep DEF Closed
\* The one step that mails.
<1>2. ASSUME NEW w \in Workers, NEW A \in SUBSET tx[w].rows, ProviderAccepts(w, A)
      PROVE  [Mail!Next]_(Mail!mailVars)
  <2> DEFINE key == Key(w)
  <2>1. tx[w] # Idle /\ tx[w].rows \subseteq Contacts
    BY <1>2, OpenOrIdle DEF ProviderAccepts, Idle, WorkerInv
  <2>2. /\ key \in Keys /\ payload[key] = {}
        /\ \A k \in Keys : k[1] = key[1] => payload[k] \cap tx[w].rows = {}
    BY <1>2, <2>1, FreshRows DEF ProviderAccepts
  <2>3. tx[w].rows \cap Closed = {}
    BY DEF WorkerInv, RowsInv, SlicesAreDisjoint, Holds, Closed, Unmailed
  <2>4. /\ payload' = [payload EXCEPT ![key] = tx[w].rows]
        /\ delivered' = [delivered EXCEPT ![key] = A]
        /\ Closed' = Closed
    BY <1>2 DEF ProviderAccepts, Closed
  <2>5. Keys = Mail!Keys
    BY DEF Keys, Mail!Keys
  <2> HIDE DEF key
  <2>6. Mail!Offer(key, tx[w].rows, A)
    BY <2>2, <2>3, <2>4, <2>5 DEF Mail!Offer, Closed
  <2> QED
    BY <2>1, <2>2, <2>5, <2>6 DEF Mail!Next
\* The one step that records: it closes the recipients of its batch.
<1>3. ASSUME NEW w \in Workers, NEW a \in BOOLEAN, CommitBatch(w, a)
      PROVE  [Mail!Next]_(Mail!mailVars)
  <2>1. tx[w] # Idle /\ tx[w].stage = "answered"
    BY <1>3 DEF CommitBatch, Idle
  <2>2. Key(w) \in Keys /\ payload[Key(w)] = tx[w].rows
    BY <2>1, FreshRows DEF WorkerInv, KeysInv
  <2>3. \A c \in Contacts :
          /\ c \notin Holds(w) => row'[c] = row[c]
          /\ c \in tx[w].suppressed => row'[c] = "suppressed"
          /\ c \in Holds(w) => row[c] = "pending"
    BY <1>3 DEF CommitBatch, Overwrite, BatchOutcome, Holds, WorkerInv, RowsInv,
                SlicesAreDisjoint
  <2>4. Closed \subseteq Closed'
    BY <2>3 DEF Closed, Holds, Unmailed
  <2>5. Closed' \ Closed \subseteq tx[w].rows
    BY <2>3 DEF Closed, Holds, Unmailed
  <2>6. UNCHANGED <<payload, delivered>>
    BY <1>3 DEF CommitBatch, providerVars
  <2> QED
    BY <2>2, <2>4, <2>5, <2>6, CloseStep
\* An event closes the recipient of a message the provider took.
<1>4. ASSUME NEW c \in Contacts, NEW s \in ReportedStatuses, EventApplies(c, s)
      PROVE  [Mail!Next]_(Mail!mailVars)
  <2>1. row[c] \in RowStatuses /\ row \in [Contacts -> RowStatuses]
    BY DEF WorkerInv, TypeOK
  <2>2. /\ row' = [row EXCEPT ![c] = NextRecipientStatus(row[c], s)]
        /\ \E k \in Keys : c \in delivered[k]
        /\ UNCHANGED <<payload, delivered>>
    BY <1>4 DEF EventApplies, providerVars
  <2>3. NextRecipientStatus(row[c], s) \notin Unmailed
    BY <2>1, EventsMail
  <2>4. \E k \in Keys : c \in payload[k]
    BY <2>2 DEF WorkerInv, KeysInv
  <2>5. Closed \subseteq Closed' /\ Closed' \ Closed \subseteq {c}
    BY <2>1, <2>2, <2>3 DEF Closed
  <2> QED
    BY <2>2, <2>4, <2>5, CloseStep
\* Everything else moves rows among the unmailed.
<1>5. ASSUME UNCHANGED <<payload, delivered>>,
             \A c \in Contacts : \/ row'[c] = row[c]
                                 \/ row[c] \in Unmailed /\ row'[c] \in Unmailed
      PROVE  [Mail!Next]_(Mail!mailVars)
  <2>1. Closed' = Closed
    BY <1>5 DEF Closed
  <2> QED
    BY <1>5, <2>1, CloseStep
<1>6. ASSUME NEW r \in Runs, ReleaseClaimed(r) PROVE [Mail!Next]_(Mail!mailVars)
  BY <1>5, <1>6 DEF ReleaseClaimed, Overwrite, Constantly, Unmailed, providerVars
<1>7. ASSUME NEW w \in Workers, NEW a \in BOOLEAN, CommitEmpty(w, a)
      PROVE  [Mail!Next]_(Mail!mailVars)
  <2>1. \A c \in tx[w].suppressed : row[c] = "pending"
    BY DEF WorkerInv, RowsInv, SlicesAreDisjoint, Holds
  <2> QED
    BY <1>5, <1>7, <2>1 DEF CommitEmpty, Overwrite, Constantly, Unmailed, providerVars
<1>8. ASSUME NEW S \in SUBSET Contacts, Materialise(S)
      PROVE  [Mail!Next]_(Mail!mailVars)
  BY <1>5, <1>8 DEF Materialise, Overwrite, Constantly, Unmailed, providerVars
<1>9. ASSUME NEW S \in SUBSET Contacts, NEW label \in Labels, Relabel(S, label)
      PROVE  [Mail!Next]_(Mail!mailVars)
  BY <1>5, <1>9, SendAssumption
  DEF Relabel, Overwrite, Constantly, Unmailed, providerVars
<1> QED
  BY <1>1, <1>2, <1>3, <1>4, <1>6, <1>7, <1>8, <1>9
  DEF Next, RunStep, WorkerStep, Environment, LoadCampaign, StartAttempt,
      AttemptFails, Complete, Continue, StepExhausted, SuppressLateArrivals,
      ClaimBatch, ProviderCollapses, RollBack, CampaignChanges, SendRequested,
      Resumed, DoNotSendChanges, providerVars, sendVars

\* Every behaviour of the worker is a behaviour of CampaignMail.
THEOREM WorkerImplementsCampaignMail == Spec => ImplementsCampaignMail
<1> QED
  BY MailInit, MailNext, WorkerHolds, PTL DEF Spec, ImplementsCampaignMail, Mail!Spec

-----------------------------------------------------------------------------
(* Each step is one of the worker, one its environment may take, or none   *)
(* of its business                                                         *)

LEMMA ServerActionIsEnvironment == ServerAction => [Next]_sendVars
<1> USE PipelineAssumption DEF SetCampaign, workerVars
<1>1. CASE SendCampaignNow
  <2>1. CampaignChanges("scheduled")
    BY <1>1 DEF SendCampaignNow, CampaignChanges
  <2> QED
    BY <2>1 DEF Next, Environment, CampaignStatuses
<1>2. CASE ScheduleCampaign
  <2>1. CampaignChanges("scheduled")
    BY <1>2 DEF ScheduleCampaign, CampaignChanges
  <2> QED
    BY <2>1 DEF Next, Environment, CampaignStatuses
<1>3. CASE PauseCampaign
  <2>1. CampaignChanges("paused")
    BY <1>3 DEF PauseCampaign, CampaignChanges
  <2> QED
    BY <2>1 DEF Next, Environment, CampaignStatuses
<1>4. CASE ResumeCampaign
  <2>1. CASE EmitSend
    <3>1. \E r \in Runs : Resumed(r)
      BY <1>4, <2>1 DEF ResumeCampaign, EmitSend, Resumed, CampaignStatuses
    <3> QED
      BY <3>1 DEF Next, Environment
  <2>2. CASE UNCHANGED run
    <3>1. CampaignChanges("sending")
      BY <1>4, <2>2 DEF ResumeCampaign, CampaignChanges
    <3> QED
      BY <3>1 DEF Next, Environment, CampaignStatuses
  <2> QED
    BY <1>4, <2>1, <2>2 DEF ResumeCampaign
<1>5. CASE CancelCampaignAction
  <2>1. CampaignChanges("cancelled")
    BY <1>5 DEF CancelCampaignAction, CampaignChanges
  <2> QED
    BY <2>1 DEF Next, Environment, CampaignStatuses
<1> QED
  BY <1>1, <1>2, <1>3, <1>4, <1>5 DEF ServerAction

LEMMA QueueStepIsEnvironment ==
  ASSUME NEW q \in QueueRuns, QueueStep(q)
  PROVE  [Next]_sendVars
<1> USE PipelineAssumption DEF SetCampaign, workerVars
<1>1. CASE ClaimCampaignForQueue(q)
  <2>1. CampaignChanges("sending")
    BY <1>1 DEF ClaimCampaignForQueue, CampaignChanges
  <2> QED
    BY <2>1 DEF Next, Environment, CampaignStatuses
<1>2. CASE ReportForbids(q)
  <2>1. CampaignChanges("draft")
    BY <1>2 DEF ReportForbids, CampaignChanges
  <2> QED
    BY <2>1 DEF Next, Environment, CampaignStatuses
<1>3. CASE MaterialiseRecipients(q)
  <2>1. Materialise(Unmaterialised) /\ Unmaterialised \in SUBSET Contacts
    BY <1>3 DEF MaterialiseRecipients, Materialise, Unmaterialised
  <2> QED
    BY <2>1 DEF Next, Environment
<1>4. CASE ApplyQueueSuppressions(q)
  <2>1. Relabel(Pending \cap unsendable, "suppressed")
        /\ Pending \cap unsendable \in SUBSET Contacts
    BY <1>4 DEF ApplyQueueSuppressions, Relabel, Pending
  <2> QED
    BY <2>1 DEF Next, Environment
<1>5. CASE StartSending(q)
  <2>1. \E r \in Runs : SendRequested(r)
    BY <1>5 DEF StartSending, EmitSend, SendRequested
  <2> QED
    BY <2>1 DEF Next, Environment
<1> QED
  BY <1>1, <1>2, <1>3, <1>4, <1>5
  DEF QueueStep, ClaimRefused, ReportAllows, ClaimStepFails, QueueRunFails

LEMMA JobsAreEnvironment ==
  Scheduler \/ CancelRecipients \/ CancelRunFails \/ TimeComes \/ GraceEnds
    => [Next]_sendVars
<1> USE PipelineAssumption DEF SetCampaign, workerVars
<1>1. CASE ClaimDue
  <2>1. CampaignChanges("sending")
    BY <1>1 DEF ClaimDue, CampaignChanges
  <2> QED
    BY <2>1 DEF Next, Environment, CampaignStatuses
<1>2. CASE CancelRecipients /\ status = "cancelled"
  <2>1. Relabel(Pending, "cancelled") /\ Pending \in SUBSET Contacts
    BY <1>2 DEF CancelRecipients, Relabel, Pending
  <2> QED
    BY <2>1 DEF Next, Environment
<1>3. CASE CancelRecipients /\ status # "cancelled"
  BY <1>3 DEF CancelRecipients, sendVars, campaignVars
<1>4. CASE ReclaimStranded \/ CancelRunFails \/ TimeComes \/ GraceEnds
  BY <1>4 DEF ReclaimStranded, CancelRunFails, TimeComes, GraceEnds
<1> QED
  BY <1>1, <1>2, <1>3, <1>4 DEF Scheduler

LEMMA PipelineStepIsWorkerStep == [PipelineNext]_pipelineVars => [Next]_sendVars
<1>1. ASSUME NEW r \in Runs, RunGoesOn(r) \/ RunFaults(r) PROVE Next
  BY <1>1 DEF RunGoesOn, RunFaults, RunStep, Next
<1>2. ASSUME NEW w \in Workers, WorkerGoesOn(w) \/ WorkerCommits(w) \/ WorkerFaults(w)
      PROVE  Next
  BY <1>2 DEF WorkerGoesOn, WorkerCommits, WorkerFaults, WorkerStep, Next
<1>3. ASSUME NEW c \in Contacts, ContactChanges(c) PROVE Next
  BY <1>3 DEF ContactChanges, Environment, Next
<1>4. ASSUME NEW c \in Contacts, NEW s \in ReportedStatuses, EventArrives(c, s)
      PROVE  Next
  BY <1>4 DEF EventArrives, Environment, Next
<1>5. UNCHANGED pipelineVars => UNCHANGED sendVars
  BY DEF pipelineVars
<1> QED
  BY <1>1, <1>2, <1>3, <1>4, <1>5, ServerActionIsEnvironment,
     QueueStepIsEnvironment, JobsAreEnvironment
  DEF PipelineNext

\* The pipeline implements the open system of SendWorker: all that the Server
\* Actions and the other jobs do to its rows and its campaign is within what the
\* worker has been shown to withstand.
THEOREM PipelineIsSendWorker == PipelineSpec => ImplementsSendWorker
<1>1. PipelineInit => Init
  BY DEF PipelineInit
<1> QED
  BY <1>1, PipelineStepIsWorkerStep, PTL
  DEF PipelineSpec, ImplementsSendWorker, Spec

\* With the real jobs around it, the worker still mails nobody twice but at the
\* documented cost, and nobody whose batch has been recorded.
THEOREM PipelineCopies ==
  PipelineSpec => []SecondCopyNeedsALostCommit /\ NoCopyAfterRecord
<1> QED
  BY PipelineIsSendWorker, SecondCopies, RecordedOnce, PTL DEF ImplementsSendWorker

-----------------------------------------------------------------------------
(* Materialised once *)

\* One run owns the materialisation, and owns it before there is a row; a
\* recipient the provider was asked about has a row.
OwnerInv ==
  /\ queue \in [QueueRuns -> QueuePlaces]
  /\ MaterialisedOnce
  /\ \A q \in QueueRuns : Materialising(q) => started
  /\ \A q \in QueueRuns : queue[q] = "report" => Unmaterialised = Contacts
  /\ \A k \in Keys : \A c \in payload[k] : row[c] # "none"

\* A step that neither makes a row nor takes one away, and asks the provider
\* only about rows there are.
RowsStay ==
  /\ Unmaterialised' = Unmaterialised
  /\ \A k \in Keys : payload'[k] = payload[k]
                     \/ \A c \in payload'[k] : row'[c] # "none"

LEMMA OwnerStays ==
  ASSUME OwnerInv, RowsStay, WorkerInv, started => started',
         \A q \in QueueRuns : queue'[q] = queue[q] \/ queue'[q] \in {"idle", "claim"},
         queue' \in [QueueRuns -> QueuePlaces]
  PROVE  OwnerInv'
<1>1. \A q \in QueueRuns : queue'[q] \notin {"idle", "claim"} => queue'[q] = queue[q]
  OBVIOUS
<1>2. MaterialisedOnce'
  BY <1>1 DEF OwnerInv, MaterialisedOnce, Materialising, RowsStay
<1>3. \A k \in Keys : payload[k] \subseteq Contacts
  BY DEF WorkerInv, TypeOK
<1>4. \A k \in Keys : \A c \in payload'[k] : row'[c] # "none"
  BY <1>3 DEF OwnerInv, RowsStay, Unmaterialised
<1> QED
  BY <1>1, <1>2, <1>4 DEF OwnerInv, Materialising, RowsStay

\* Only insert-recipients makes rows.
LEMMA WorkerRowsStay ==
  ASSUME OwnerInv, WorkerInv, WorkerInv'
  PROVE  /\ \A r \in Runs : RunStep(r) => RowsStay
         /\ \A w \in Workers : WorkerStep(w) => RowsStay
         /\ \A c \in Contacts, s \in ReportedStatuses : EventApplies(c, s) => RowsStay
<1>1. ASSUME NEW r \in Runs, RunStep(r) PROVE RowsStay
  <2>1. UNCHANGED payload
    BY <1>1 DEF RunStep, LoadCampaign, ReleaseClaimed, StartAttempt, AttemptFails,
                Complete, Continue, StepExhausted, providerVars
  <2>2. CASE UNCHANGED row
    BY <2>1, <2>2 DEF RowsStay, Unmaterialised
  <2>3. CASE ReleaseClaimed(r)
    BY <2>1, <2>3 DEF RowsStay, Unmaterialised, ReleaseClaimed, Overwrite, Constantly
  <2> QED
    BY <1>1, <2>2, <2>3
    DEF RunStep, LoadCampaign, StartAttempt, AttemptFails, Complete, Continue,
        StepExhausted
<1>2. ASSUME NEW w \in Workers, WorkerStep(w) PROVE RowsStay
  <2>1. \A c \in Holds(w) : c \in Contacts /\ row[c] = "pending"
    BY OpenOrIdle DEF WorkerInv, RowsInv, SlicesAreDisjoint, Holds
  <2>2. CASE UNCHANGED <<row, payload>>
    BY <2>2 DEF RowsStay, Unmaterialised
  <2>3. ASSUME NEW A \in SUBSET tx[w].rows, ProviderAccepts(w, A) PROVE RowsStay
    BY <2>1, <2>3
    DEF ProviderAccepts, RowsStay, Unmaterialised, WorkerInv, TypeOK, Holds
  <2>4. ASSUME NEW a \in BOOLEAN, CommitBatch(w, a) PROVE RowsStay
    <3>1. \A c \in Contacts :
            /\ c \notin Holds(w) => row'[c] = row[c]
            /\ c \in Holds(w) => row'[c] \in {"suppressed", "sent", "failed"}
      BY <2>4 DEF CommitBatch, Overwrite, BatchOutcome
    <3>2. Unmaterialised' = Unmaterialised
      BY <2>1, <3>1 DEF Unmaterialised
    <3> QED
      BY <2>4, <3>2 DEF CommitBatch, RowsStay, providerVars
  <2>5. ASSUME NEW a \in BOOLEAN, CommitEmpty(w, a) PROVE RowsStay
    BY <2>1, <2>5
    DEF CommitEmpty, RowsStay, Unmaterialised, Overwrite, Constantly, Holds,
        providerVars
  <2> QED
    BY <1>2, <2>2, <2>3, <2>4, <2>5
    DEF WorkerStep, SuppressLateArrivals, ClaimBatch, ProviderCollapses, RollBack,
        providerVars
<1>3. ASSUME NEW c \in Contacts, NEW s \in ReportedStatuses, EventApplies(c, s)
      PROVE  RowsStay
  <2>1. row[c] \in RowStatuses /\ row \in [Contacts -> RowStatuses]
    BY DEF WorkerInv, TypeOK
  <2>2. row' = [row EXCEPT ![c] = NextRecipientStatus(row[c], s)]
        /\ UNCHANGED payload /\ \E k \in Keys : c \in delivered[k]
    BY <1>3 DEF EventApplies, providerVars
  <2>3. row[c] # "none"
    BY <2>2 DEF OwnerInv, WorkerInv, KeysInv
  <2>4. NextRecipientStatus(row[c], s) # "none"
    BY <2>1, EventsMail DEF Unmailed
  <2> QED
    BY <2>1, <2>2, <2>3, <2>4 DEF RowsStay, Unmaterialised
<1> QED
  BY <1>1, <1>2, <1>3

LEMMA OwnerInit == PipelineInit => OwnerInv
<1> SUFFICES ASSUME PipelineInit PROVE OwnerInv
  OBVIOUS
<1>1. /\ queue = [q \in QueueRuns |-> "idle"]
      /\ \A c \in Contacts : row[c] = "none"
      /\ \A k \in Keys : payload[k] = {}
  BY DEF PipelineInit, Init
<1> QED
  BY <1>1
  DEF OwnerInv, MaterialisedOnce, Materialising, Unmaterialised, QueuePlaces

LEMMA OwnerNext ==
  OwnerInv /\ WorkerInv /\ WorkerInv' /\ [PipelineNext]_pipelineVars => OwnerInv'
<1> SUFFICES ASSUME OwnerInv, WorkerInv, WorkerInv', [PipelineNext]_pipelineVars
             PROVE  OwnerInv'
  OBVIOUS
<1>1. UNCHANGED <<row, payload>> => RowsStay
  BY DEF RowsStay, Unmaterialised
<1>2. queue \in [QueueRuns -> QueuePlaces]
  BY DEF OwnerInv
<1> DEFINE QueueQuiet ==
      /\ queue' \in [QueueRuns -> QueuePlaces]
      /\ \A q \in QueueRuns : queue'[q] = queue[q] \/ queue'[q] \in {"idle", "claim"}
<1>3. ASSUME NEW q \in QueueRuns,
             queue' = queue \/ QueueAt(q, "claim") \/ QueueAt(q, "idle")
      PROVE  QueueQuiet
  BY <1>2, <1>3 DEF QueueAt, QueuePlaces
<1>4. UNCHANGED queue => QueueQuiet
  BY <1>2
<1>5. CASE ServerAction
  <2>1. UNCHANGED <<row, payload, started>>
    BY <1>5 DEF ServerAction, SendCampaignNow, ScheduleCampaign, PauseCampaign,
                ResumeCampaign, CancelCampaignAction, SetCampaign, workerVars,
                providerVars
  <2>2. QueueQuiet
    BY <1>3, <1>4, <1>5
    DEF ServerAction, SendCampaignNow, ScheduleCampaign, PauseCampaign,
        ResumeCampaign, CancelCampaignAction
  <2> QED
    BY <1>1, <2>1, <2>2, OwnerStays
<1>6. ASSUME NEW q \in QueueRuns, QueueStep(q) PROVE OwnerInv'
  <2>1. CASE ClaimCampaignForQueue(q)
    <3>1. /\ queue[q] = "claim" /\ ~started /\ started'
          /\ queue'[q] = "report" /\ queue' \in [QueueRuns -> QueuePlaces]
          /\ \A p \in QueueRuns \ {q} : queue'[p] = queue[p]
          /\ UNCHANGED <<row, payload>>
      BY <1>2, <2>1
      DEF ClaimCampaignForQueue, SetCampaign, QueueAt, QueuePlaces, workerVars,
          providerVars
    <3>2. /\ Unmaterialised = Contacts /\ Unmaterialised' = Contacts
          /\ \A p \in QueueRuns : ~Materialising(p)
      BY <3>1 DEF OwnerInv, MaterialisedOnce, Unmaterialised
    <3> QED
      BY <3>1, <3>2 DEF OwnerInv, MaterialisedOnce, Materialising
  <2>2. CASE ReportForbids(q)
    <3>1. /\ queue[q] = "report" /\ queue'[q] = "idle"
          /\ queue' \in [QueueRuns -> QueuePlaces]
          /\ \A p \in QueueRuns \ {q} : queue'[p] = queue[p]
          /\ UNCHANGED <<row, payload>>
      BY <1>2, <2>2
      DEF ReportForbids, QueueAt, QueuePlaces, workerVars, providerVars
    <3>2. /\ Unmaterialised = Contacts /\ Unmaterialised' = Contacts
          /\ \A p \in QueueRuns \ {q} : ~Materialising(p)
      BY <3>1 DEF OwnerInv, MaterialisedOnce, Unmaterialised, Materialising
    <3> QED
      BY <3>1, <3>2 DEF OwnerInv, MaterialisedOnce, Materialising
  <2>3. CASE ClaimRefused(q) \/ ClaimStepFails(q) \/ QueueRunFails(q)
    <3>1. UNCHANGED <<row, payload, started>>
      BY <2>3 DEF ClaimRefused, ClaimStepFails, QueueRunFails, sendVars,
                  providerVars, campaignTime
    <3>2. QueueQuiet
      BY <1>3, <2>3 DEF ClaimRefused, ClaimStepFails, QueueRunFails
    <3> QED
      BY <1>1, <3>1, <3>2, OwnerStays
  <2>4. CASE ReportAllows(q)
    <3>1. /\ queue[q] = "report" /\ queue'[q] = "insert"
          /\ queue' \in [QueueRuns -> QueuePlaces]
          /\ \A p \in QueueRuns \ {q} : queue'[p] = queue[p]
          /\ UNCHANGED <<row, payload, started>>
      BY <1>2, <2>4
      DEF ReportAllows, QueueAt, QueuePlaces, sendVars, providerVars, campaignTime
    <3> QED
      BY <3>1 DEF OwnerInv, MaterialisedOnce, Materialising, Unmaterialised
  <2>5. CASE MaterialiseRecipients(q)
    <3>1. /\ queue[q] = "insert" /\ queue'[q] = "suppress"
          /\ queue' \in [QueueRuns -> QueuePlaces]
          /\ \A p \in QueueRuns \ {q} : queue'[p] = queue[p]
          /\ UNCHANGED <<payload, started>>
          /\ \A c \in Contacts : row'[c] # "none"
      BY <1>2, <2>5
      DEF MaterialiseRecipients, Overwrite, Constantly, Unmaterialised, QueueAt,
          QueuePlaces, workerVars, providerVars, campaignTime
    <3>2. started /\ \A p \in QueueRuns \ {q} : ~Materialising(p)
      BY <3>1 DEF OwnerInv, MaterialisedOnce, Materialising
    <3>3. \A k \in Keys : payload[k] \subseteq Contacts
      BY DEF WorkerInv, TypeOK
    <3> QED
      BY <3>1, <3>2, <3>3 DEF OwnerInv, MaterialisedOnce, Materialising
  <2>6. CASE ApplyQueueSuppressions(q)
    <3>1. /\ queue[q] = "suppress" /\ queue'[q] = "emit"
          /\ queue' \in [QueueRuns -> QueuePlaces]
          /\ \A p \in QueueRuns \ {q} : queue'[p] = queue[p]
          /\ UNCHANGED <<payload, started>>
      BY <1>2, <2>6
      DEF ApplyQueueSuppressions, QueueAt, QueuePlaces, workerVars, providerVars
    <3>2. \A c \in Contacts : row'[c] = "none" <=> row[c] = "none"
      BY <2>6 DEF ApplyQueueSuppressions, Overwrite, Constantly, Pending
    <3>3. Unmaterialised' = Unmaterialised
      BY <3>2 DEF Unmaterialised
    <3>4. \A k \in Keys : payload[k] \subseteq Contacts
      BY DEF WorkerInv, TypeOK
    <3> QED
      BY <3>1, <3>2, <3>3, <3>4 DEF OwnerInv, MaterialisedOnce, Materialising
  <2>7. CASE StartSending(q)
    <3>1. UNCHANGED <<row, payload, started>>
      BY <2>7 DEF StartSending, providerVars, campaignTime
    <3>2. QueueQuiet
      BY <1>3, <2>7 DEF StartSending
    <3> QED
      BY <1>1, <3>1, <3>2, OwnerStays
  <2> QED
    BY <1>6, <2>1, <2>2, <2>3, <2>4, <2>5, <2>6, <2>7 DEF QueueStep
<1>7. CASE Scheduler
  <2>1. UNCHANGED <<row, payload, started>>
    BY <1>7 DEF Scheduler, ClaimDue, ReclaimStranded, SetCampaign, sendVars,
                workerVars, providerVars
  <2>2. QueueQuiet
    BY <1>3, <1>4, <1>7
    DEF Scheduler, ClaimDue, ReclaimStranded, EmitQueue, LoseQueueEmit
  <2> QED
    BY <1>1, <2>1, <2>2, OwnerStays
<1>8. CASE CancelRecipients
  <2>1. UNCHANGED <<payload, started, queue>>
    BY <1>8 DEF CancelRecipients, workerVars, providerVars, campaignTime
  <2>2. RowsStay
    BY <1>8, <2>1
    DEF CancelRecipients, RowsStay, Unmaterialised, Overwrite, Constantly, Pending
  <2> QED
    BY <1>4, <2>1, <2>2, OwnerStays
<1>9. CASE CancelRunFails \/ TimeComes \/ GraceEnds \/ UNCHANGED pipelineVars
  <2>1. UNCHANGED <<row, payload, started, queue>>
    BY <1>9 DEF CancelRunFails, TimeComes, GraceEnds, pipelineVars, pipeVars,
                sendVars, providerVars, campaignTime
  <2> QED
    BY <1>1, <1>4, <2>1, OwnerStays
<1>10. ASSUME NEW r \in Runs, RunGoesOn(r) \/ RunFaults(r) PROVE OwnerInv'
  <2>1. RunStep(r) /\ UNCHANGED <<started, queue>>
    BY <1>10 DEF RunGoesOn, RunFaults, RunStep, campaignTime
  <2> QED
    BY <1>4, <2>1, WorkerRowsStay, OwnerStays
<1>11. ASSUME NEW w \in Workers,
              WorkerGoesOn(w) \/ WorkerCommits(w) \/ WorkerFaults(w)
       PROVE  OwnerInv'
  <2>1. WorkerStep(w) /\ UNCHANGED <<started, queue>>
    BY <1>11 DEF WorkerGoesOn, WorkerCommits, WorkerFaults, WorkerStep, pipeVars,
                 campaignTime
  <2> QED
    BY <1>4, <2>1, WorkerRowsStay, OwnerStays
<1>12. ASSUME NEW c \in Contacts, ContactChanges(c) PROVE OwnerInv'
  <2>1. UNCHANGED <<row, payload, started, queue>>
    BY <1>12 DEF ContactChanges, DoNotSendChanges, providerVars, campaignTime
  <2> QED
    BY <1>1, <1>4, <2>1, OwnerStays
<1>13. ASSUME NEW c \in Contacts, NEW s \in ReportedStatuses, EventArrives(c, s)
       PROVE  OwnerInv'
  <2>1. EventApplies(c, s) /\ UNCHANGED <<started, queue>>
    BY <1>13 DEF EventArrives, pipeVars, campaignTime
  <2> QED
    BY <1>4, <2>1, WorkerRowsStay, OwnerStays
<1> QED
  BY <1>5, <1>6, <1>7, <1>8, <1>9, <1>10, <1>11, <1>12, <1>13 DEF PipelineNext

\* However many queue events are emitted, one run at a time materialises, and
\* only for a campaign that has been claimed.
THEOREM OneOwner == PipelineSpec => []MaterialisedOnce
<1>1. PipelineSpec => []WorkerInv
  BY PipelineIsSendWorker, WorkerHolds, PTL DEF ImplementsSendWorker
<1>2. PipelineSpec => []OwnerInv
  BY <1>1, OwnerInit, OwnerNext, PTL DEF PipelineSpec
<1>3. OwnerInv => MaterialisedOnce
  BY DEF OwnerInv
<1> QED
  BY <1>2, <1>3, PTL

-----------------------------------------------------------------------------
(* Everybody is dealt with, and nobody barred is mailed *)

\* A row is opened once, when it is made; nothing takes it back to pending.
NoRowReopens ==
  \A c \in Contacts :
    /\ row'[c] = "pending" => row[c] \in {"pending", "none"}
    /\ row'[c] = "none" => row[c] = "none"

LEMMA RowsDrain ==
  ASSUME OwnerInv, WorkerInv, [PipelineNext]_pipelineVars
  PROVE  NoRowReopens
<1>1. [Next]_sendVars
  BY PipelineStepIsWorkerStep
<1>2. CASE UNCHANGED row
  BY <1>2 DEF NoRowReopens
<1>3. ASSUME NEW r \in Runs, ReleaseClaimed(r) PROVE NoRowReopens
  BY <1>3
  DEF ReleaseClaimed, Overwrite, NoRowReopens, WorkerInv, RowsInv, SlicesAreDisjoint
<1>4. ASSUME NEW w \in Workers, NEW a \in BOOLEAN, CommitBatch(w, a)
      PROVE  NoRowReopens
  BY <1>4 DEF CommitBatch, Overwrite, BatchOutcome, NoRowReopens
<1>5. ASSUME NEW w \in Workers, NEW a \in BOOLEAN, CommitEmpty(w, a)
      PROVE  NoRowReopens
  BY <1>5 DEF CommitEmpty, Overwrite, Constantly, NoRowReopens
<1>6. ASSUME NEW S \in SUBSET Contacts, Materialise(S) PROVE NoRowReopens
  BY <1>6 DEF Materialise, Overwrite, Constantly, NoRowReopens
<1>7. ASSUME NEW S \in SUBSET Contacts, NEW label \in Labels, Relabel(S, label)
      PROVE  NoRowReopens
  BY <1>7, PipelineAssumption DEF Relabel, Overwrite, Constantly, NoRowReopens
<1>8. ASSUME NEW c \in Contacts, NEW s \in ReportedStatuses, EventApplies(c, s)
      PROVE  NoRowReopens
  <2>1. row[c] \in RowStatuses /\ row \in [Contacts -> RowStatuses]
    BY DEF WorkerInv, TypeOK
  <2>2. NextRecipientStatus(row[c], s) \notin {"pending", "none"}
    BY <2>1, EventsMail DEF Unmailed
  <2>3. row' = [row EXCEPT ![c] = NextRecipientStatus(row[c], s)]
    BY <1>8 DEF EventApplies
  <2> QED
    BY <2>1, <2>2, <2>3 DEF NoRowReopens
<1> QED
  BY <1>1, <1>2, <1>3, <1>4, <1>5, <1>6, <1>7, <1>8
  DEF Next, RunStep, WorkerStep, Environment, LoadCampaign, StartAttempt,
      AttemptFails, Complete, Continue, StepExhausted, SuppressLateArrivals,
      ClaimBatch, ProviderAccepts, ProviderCollapses, RollBack, CampaignChanges,
      SendRequested, Resumed, DoNotSendChanges, sendVars

\* A send run has been requested.
Born == \E r \in Runs : run[r].pc # "unborn"

\* A transaction that has checked the list has suppressed every barred row it
\* could still claim, and one that has claimed holds nobody barred.
Spares(w) ==
  /\ tx[w].stage = "checked" =>
       \A c \in barred : row[c] = "pending" => c \in tx[w].suppressed
  /\ tx[w].stage = "claimed" => tx[w].rows \cap barred = {}

\* Unless a resume comes early, no run is born before the rows are there: so
\* no row is made behind the back of a worker's check or of `complete`.
CoverInv ==
  /\ barred \subseteq unsendable
  /\ \A q \in QueueRuns : queue[q] \in {"suppress", "emit"} => Unmaterialised = {}
  /\ \A w \in Workers : tx[w] # Idle => Born
  /\ resumedEarly \in BOOLEAN
  /\ ~resumedEarly =>
       /\ Born => Unmaterialised = {}
       /\ status = "sent" => Unmaterialised = {} /\ Pending = {}
       /\ \A w \in Workers : Spares(w)
       /\ \A k \in Keys : payload[k] \cap barred = {}

\* What a worker's transaction holds and has checked stays as it was.
Quiet(w) ==
  \/ tx'[w].stage \notin {"checked", "claimed"}
  \/ /\ tx'[w].stage = tx[w].stage
     /\ tx'[w].suppressed = tx[w].suppressed
     /\ tx'[w].rows = tx[w].rows

LEMMA CoverStays ==
  ASSUME CoverInv, TypeOK, NoRowReopens,
         barred' \subseteq barred, barred' \subseteq unsendable',
         resumedEarly' \in BOOLEAN, resumedEarly => resumedEarly',
         \A q \in QueueRuns : queue'[q] \in {"suppress", "emit"} =>
           queue[q] \in {"suppress", "emit"} \/ Unmaterialised' = {},
         \A w \in Workers : tx'[w] # Idle => Born',
         Born' /\ ~resumedEarly' => Born \/ Unmaterialised = {},
         ~resumedEarly /\ status' = "sent" =>
           status = "sent" \/ (Unmaterialised = {} /\ Pending = {}),
         \A w \in Workers : Quiet(w) \/ (~resumedEarly => Spares(w)'),
         \A k \in Keys : payload'[k] = payload[k]
                          \/ (~resumedEarly => payload'[k] \cap barred' = {})
  PROVE  CoverInv'
<1>1. Unmaterialised = {} => Unmaterialised' = {}
  BY DEF NoRowReopens, Unmaterialised
<1>2. Unmaterialised = {} /\ Pending = {} => Pending' = {}
  BY DEF NoRowReopens, Unmaterialised, Pending
<1>3. ASSUME ~resumedEarly'
      PROVE  /\ Born' => Unmaterialised' = {}
             /\ status' = "sent" => Unmaterialised' = {} /\ Pending' = {}
             /\ \A k \in Keys : payload'[k] \cap barred' = {}
  <2>1. ~resumedEarly
    BY <1>3
  <2>2. \A k \in Keys : payload[k] \cap barred = {}
    BY <2>1 DEF CoverInv
  <2>3. \A k \in Keys : payload'[k] \cap barred' = {}
    BY <2>1, <2>2
  <2>4. Born => Unmaterialised = {}
    BY <2>1 DEF CoverInv
  <2>5. status = "sent" => Unmaterialised = {} /\ Pending = {}
    BY <2>1 DEF CoverInv
  <2> QED
    BY <1>1, <1>2, <1>3, <2>1, <2>3, <2>4, <2>5
<1>4. ASSUME ~resumedEarly', NEW w \in Workers PROVE Spares(w)'
  <2>1. ~resumedEarly /\ Spares(w)
    BY <1>4 DEF CoverInv
  <2>2. CASE Spares(w)'
    BY <2>2
  <2>3. CASE Quiet(w) /\ tx'[w].stage \notin {"checked", "claimed"}
    BY <2>3 DEF Spares
  <2>4. CASE Quiet(w) /\ tx'[w].stage = "checked" /\ tx[w].stage = "checked"
                     /\ tx'[w].suppressed = tx[w].suppressed
    <3>1. Unmaterialised = {} /\ barred \subseteq Contacts
      BY <2>1, <2>4 DEF CoverInv, Idle, TypeOK
    <3>2. \A c \in barred' : row'[c] = "pending" => row[c] = "pending"
      BY <3>1 DEF NoRowReopens, Unmaterialised
    <3> QED
      BY <2>1, <2>4, <3>2 DEF Spares
  <2>5. CASE Quiet(w) /\ tx'[w].stage = "claimed" /\ tx[w].stage = "claimed"
                     /\ tx'[w].rows = tx[w].rows
    BY <2>1, <2>5 DEF Spares
  <2> QED
    BY <2>1, <2>2, <2>3, <2>4, <2>5 DEF Quiet
<1>5. \A q \in QueueRuns : queue'[q] \in {"suppress", "emit"} => Unmaterialised' = {}
  BY <1>1 DEF CoverInv
<1> QED
  BY <1>3, <1>4, <1>5 DEF CoverInv

LEMMA CoverInit == PipelineInit => CoverInv
<1> SUFFICES ASSUME PipelineInit PROVE CoverInv
  OBVIOUS
<1>1. /\ \A r \in Runs : run[r].pc = "unborn"
      /\ \A w \in Workers : tx[w] = Idle
      /\ \A k \in Keys : payload[k] = {}
      /\ \A q \in QueueRuns : queue[q] = "idle"
      /\ status = "draft" /\ resumedEarly = FALSE /\ barred = unsendable
  BY DEF PipelineInit, Init
<1>2. ~Born /\ (\A w \in Workers : Spares(w))
  BY <1>1 DEF Born, Spares, Idle
<1>3. \A k \in Keys : payload[k] \cap barred = {}
  BY <1>1
<1> QED
  BY <1>1, <1>2, <1>3 DEF CoverInv

\* The steps that touch neither a transaction nor the provider.
LEMMA CoverJobs ==
  ASSUME CoverInv, TypeOK, OwnerInv, NoRowReopens,
         \/ ServerAction
         \/ \E q \in QueueRuns : QueueStep(q)
         \/ Scheduler \/ CancelRecipients \/ CancelRunFails \/ TimeComes \/ GraceEnds
         \/ \E c \in Contacts : ContactChanges(c)
         \/ \E c \in Contacts, s \in ReportedStatuses : EventArrives(c, s)
         \/ UNCHANGED pipelineVars
  PROVE  CoverInv'
<1> DEFINE Settled ==
      /\ UNCHANGED <<tx, payload>>
      /\ barred' \subseteq barred /\ barred' \subseteq unsendable'
      /\ resumedEarly' \in BOOLEAN /\ (resumedEarly => resumedEarly')
      /\ status' = "sent" => status = "sent"
      /\ \A q \in QueueRuns : queue'[q] \in {"suppress", "emit"} =>
           queue[q] \in {"suppress", "emit"} \/ Unmaterialised' = {}
      /\ Born => Born'
      /\ Born' /\ ~resumedEarly' => Born \/ Unmaterialised = {}
<1>1. ASSUME Settled PROVE CoverInv'
  <2>1. \A w \in Workers : Quiet(w)
    BY <1>1 DEF Quiet
  <2>2. \A w \in Workers : tx'[w] # Idle => Born'
    BY <1>1 DEF CoverInv
  <2>3. /\ \A k \in Keys : payload'[k] = payload[k]
        /\ barred' \subseteq barred /\ barred' \subseteq unsendable'
        /\ resumedEarly' \in BOOLEAN /\ (resumedEarly => resumedEarly')
        /\ Born' /\ ~resumedEarly' => Born \/ Unmaterialised = {}
        /\ status' = "sent" => status = "sent"
        /\ \A q \in QueueRuns : queue'[q] \in {"suppress", "emit"} =>
             queue[q] \in {"suppress", "emit"} \/ Unmaterialised' = {}
    BY <1>1
  <2>4. ~resumedEarly /\ status' = "sent" =>
          status = "sent" \/ (Unmaterialised = {} /\ Pending = {})
    BY <2>3
  <2>5. \A w \in Workers : Quiet(w) \/ (~resumedEarly => Spares(w)')
    BY <2>1
  <2>6. \A k \in Keys : payload'[k] = payload[k]
                        \/ (~resumedEarly => payload'[k] \cap barred' = {})
    BY <2>3
  <2> HIDE DEF Settled
  <2> QED
    BY <2>2, <2>3, <2>4, <2>5, <2>6, CoverStays
<1> DEFINE RunsQuiet == UNCHANGED <<run, resumedEarly>>
<1>2. RunsQuiet => /\ Born => Born'
                   /\ Born' => Born
                   /\ resumedEarly' \in BOOLEAN /\ (resumedEarly => resumedEarly')
  BY DEF Born, CoverInv
<1>3. EmitSend => (Born => Born')
  BY DEF EmitSend, Goto, Born, TypeOK, RunPlaces
<1>4. queue \in [QueueRuns -> QueuePlaces]
  BY DEF OwnerInv
<1>5. ASSUME NEW q \in QueueRuns,
             queue' = queue \/ QueueAt(q, "claim") \/ QueueAt(q, "idle")
                \/ QueueAt(q, "report") \/ QueueAt(q, "insert")
      PROVE  \A p \in QueueRuns : queue'[p] \in {"suppress", "emit"} =>
               queue[p] \in {"suppress", "emit"}
  BY <1>4, <1>5 DEF QueueAt
<1>6. barred \subseteq unsendable
  BY DEF CoverInv
<1>7. CASE ServerAction
  <2>1. /\ UNCHANGED <<tx, payload, barred, unsendable>>
        /\ status' # "sent"
    BY <1>7
    DEF ServerAction, SendCampaignNow, ScheduleCampaign, PauseCampaign,
        ResumeCampaign, CancelCampaignAction, SetCampaign, workerVars,
        providerVars, ghosts
  <2>2. \A p \in QueueRuns : queue'[p] \in {"suppress", "emit"} =>
          queue[p] \in {"suppress", "emit"}
    BY <1>5, <1>7
    DEF ServerAction, SendCampaignNow, ScheduleCampaign, PauseCampaign,
        ResumeCampaign, CancelCampaignAction
  <2>3. CASE ResumeCampaign
    <3>1. resumedEarly' = (resumedEarly \/ Unmaterialised # {})
      BY <2>3 DEF ResumeCampaign
    <3>2. EmitSend \/ UNCHANGED run
      BY <2>3 DEF ResumeCampaign
    <3>3. Born => Born'
      BY <1>3, <3>2 DEF Born
    <3> QED
      BY <1>1, <1>6, <2>1, <2>2, <3>1, <3>3
  <2>4. CASE RunsQuiet
    BY <1>1, <1>2, <1>6, <2>1, <2>2, <2>4
  <2> QED
    BY <1>7, <2>3, <2>4
    DEF ServerAction, SendCampaignNow, ScheduleCampaign, PauseCampaign,
        CancelCampaignAction, workerVars, ghosts
<1>8. ASSUME NEW q \in QueueRuns, QueueStep(q) PROVE CoverInv'
  <2>1. UNCHANGED <<tx, payload, barred, unsendable, resumedEarly>>
        /\ (status' = "sent" => status = "sent")
    BY <1>8
    DEF QueueStep, ClaimCampaignForQueue, ClaimRefused, ReportAllows,
        ReportForbids, ClaimStepFails, MaterialiseRecipients,
        ApplyQueueSuppressions, StartSending, QueueRunFails, SetCampaign,
        workerVars, providerVars, ghosts, sendVars, campaignVars
  <2>2. CASE StartSending(q)
    <3>1. EmitSend /\ QueueAt(q, "idle") /\ queue[q] = "emit"
      BY <2>2 DEF StartSending
    <3>2. Unmaterialised = {}
      BY <3>1 DEF CoverInv
    <3>3. resumedEarly' \in BOOLEAN /\ (resumedEarly => resumedEarly')
      BY <2>1 DEF CoverInv
    <3> QED
      BY <1>1, <1>3, <1>5, <1>6, <2>1, <3>1, <3>2, <3>3
  <2>3. CASE RunsQuiet
    <3>1. CASE MaterialiseRecipients(q)
      <4>1. Unmaterialised' = {}
        BY <3>1 DEF MaterialiseRecipients, Unmaterialised, Overwrite, Constantly
      <4> QED
        BY <1>1, <1>2, <1>6, <2>1, <2>3, <4>1
    <3>2. CASE ApplyQueueSuppressions(q)
      <4>1. \A p \in QueueRuns : queue'[p] \in {"suppress", "emit"} =>
              queue[p] \in {"suppress", "emit"}
        BY <1>4, <3>2 DEF ApplyQueueSuppressions, QueueAt
      <4> QED
        BY <1>1, <1>2, <1>6, <2>1, <2>3, <4>1
    <3>3. CASE queue' = queue \/ QueueAt(q, "claim") \/ QueueAt(q, "idle")
                 \/ QueueAt(q, "report") \/ QueueAt(q, "insert")
      <4>1. \A p \in QueueRuns : queue'[p] \in {"suppress", "emit"} =>
              queue[p] \in {"suppress", "emit"}
        BY <1>5, <3>3
      <4> QED
        BY <1>1, <1>2, <1>6, <2>1, <2>3, <4>1
    <3> QED
      BY <1>8, <3>1, <3>2, <3>3
      DEF QueueStep, ClaimCampaignForQueue, ClaimRefused, ReportAllows,
          ReportForbids, ClaimStepFails, StartSending, QueueRunFails
  <2> QED
    BY <1>8, <2>2, <2>3
    DEF QueueStep, ClaimCampaignForQueue, ClaimRefused, ReportAllows,
        ReportForbids, ClaimStepFails, MaterialiseRecipients,
        ApplyQueueSuppressions, QueueRunFails, workerVars, ghosts, sendVars
<1>9. CASE Scheduler \/ CancelRecipients \/ CancelRunFails \/ TimeComes
        \/ GraceEnds \/ UNCHANGED pipelineVars
  <2>1. /\ UNCHANGED <<tx, payload, barred, unsendable>> /\ RunsQuiet
        /\ (status' = "sent" => status = "sent")
    BY <1>9
    DEF Scheduler, ClaimDue, ReclaimStranded, CancelRecipients, CancelRunFails,
        TimeComes, GraceEnds, SetCampaign, pipelineVars, pipeVars, sendVars,
        workerVars, providerVars, ghosts, campaignVars
  <2>2. \A p \in QueueRuns : queue'[p] \in {"suppress", "emit"} =>
          queue[p] \in {"suppress", "emit"}
    BY <1>5, <1>9
    DEF Scheduler, ClaimDue, ReclaimStranded, EmitQueue, LoseQueueEmit,
        CancelRecipients, CancelRunFails, TimeComes, GraceEnds, pipelineVars,
        pipeVars
  <2> QED
    BY <1>1, <1>2, <1>6, <2>1, <2>2
<1>10. ASSUME NEW c \in Contacts, ContactChanges(c) PROVE CoverInv'
  <2>1. /\ UNCHANGED <<tx, payload, queue, status>> /\ RunsQuiet
        /\ barred' = barred \cap unsendable'
    BY <1>10 DEF ContactChanges, DoNotSendChanges, providerVars
  <2> QED
    BY <1>1, <1>2, <2>1
<1>11. ASSUME NEW c \in Contacts, NEW s \in ReportedStatuses, EventArrives(c, s)
       PROVE  CoverInv'
  <2>1. UNCHANGED <<tx, payload, queue, status, barred, unsendable>> /\ RunsQuiet
    BY <1>11 DEF EventArrives, EventApplies, providerVars, pipeVars, ghosts,
                 campaignVars
  <2> QED
    BY <1>1, <1>2, <1>6, <2>1
<1> QED
  BY <1>7, <1>8, <1>9, <1>10, <1>11

LEMMA CoverRun ==
  ASSUME CoverInv, WorkerInv, NoRowReopens, NEW r \in Runs,
         RunGoesOn(r) \/ RunFaults(r)
  PROVE  CoverInv'
<1> USE DEF CoverInv
<1>1. /\ UNCHANGED <<payload, queue, barred, unsendable, resumedEarly>>
      /\ RunStep(r)
  BY DEF RunGoesOn, RunFaults, RunStep, LoadCampaign, ReleaseClaimed, StartAttempt,
         AttemptFails, Complete, Continue, StepExhausted, campaignVars,
         providerVars, ghosts
<1>2. TypeOK /\ run[r].pc # "unborn"
  BY DEF RunGoesOn, RunFaults, LoadCampaign, ReleaseClaimed, StartAttempt,
         AttemptFails, Complete, Continue, StepExhausted, WorkerInv
<1>3. Born
  BY <1>2 DEF Born
<1>4. run'[r].pc # "unborn"
  <2>1. CASE End(r)
    BY <1>2, <2>1, EndType
  <2>2. CASE ~End(r)
    BY <1>1, <1>2, <2>2
    DEF RunStep, LoadCampaign, ReleaseClaimed, StartAttempt, AttemptFails,
        Complete, Continue, StepExhausted, Goto, TypeOK
  <2> QED
    BY <2>1, <2>2
<1>5. Born'
  BY <1>4 DEF Born
<1>6. \A w \in Workers : Quiet(w)
  <2>1. CASE UNCHANGED tx
    BY <2>1 DEF Quiet
  <2>2. ASSUME NEW w \in Workers, StartAttempt(r, w) PROVE \A v \in Workers : Quiet(v)
    BY <1>2, <2>2 DEF StartAttempt, Proceed, Quiet, TypeOK
  <2>3. CASE AttemptFails(r)
    <3> SUFFICES ASSUME NEW w \in Workers PROVE Quiet(w)
      OBVIOUS
    <3>1. CASE tx[w] = Idle
      BY <2>3, <3>1 DEF AttemptFails, Quiet
    <3>2. CASE tx[w] \in Transactions
      BY <2>3, <3>2 DEF AttemptFails, Quiet, Transactions
    <3> QED
      BY <1>2, <3>1, <3>2 DEF TypeOK
  <2> QED
    BY <1>1, <2>1, <2>2, <2>3
    DEF RunStep, LoadCampaign, ReleaseClaimed, Complete, Continue, StepExhausted
<1>7. ~resumedEarly /\ status' = "sent" =>
        status = "sent" \/ (Unmaterialised = {} /\ Pending = {})
  <2>1. CASE Complete(r)
    BY <1>3, <2>1 DEF Complete, Pending
  <2>2. CASE UNCHANGED status
    BY <2>2
  <2> QED
    BY <1>1, <2>1, <2>2
    DEF RunStep, LoadCampaign, ReleaseClaimed, StartAttempt, AttemptFails,
        Continue, StepExhausted, campaignVars
<1>8. /\ barred' \subseteq barred /\ barred' \subseteq unsendable'
      /\ resumedEarly' \in BOOLEAN /\ (resumedEarly => resumedEarly')
      /\ \A k \in Keys : payload'[k] = payload[k]
  BY <1>1
<1> HIDE DEF CoverInv
<1> QED
  BY <1>1, <1>2, <1>3, <1>5, <1>6, <1>7, <1>8, CoverStays

LEMMA CoverWorker ==
  ASSUME CoverInv, WorkerInv, WorkerInv', NoRowReopens, NEW w \in Workers,
         WorkerGoesOn(w) \/ WorkerCommits(w) \/ WorkerFaults(w)
  PROVE  CoverInv'
<1>1. /\ UNCHANGED <<queue, barred, unsendable, resumedEarly, status>>
      /\ WorkerStep(w)
  BY DEF WorkerGoesOn, WorkerCommits, WorkerFaults, WorkerStep,
         SuppressLateArrivals, ClaimBatch, ProviderAccepts, ProviderCollapses,
         CommitBatch, CommitEmpty, RollBack, campaignVars, pipeVars, ghosts
<1>2. TypeOK /\ TypeOK' /\ tx[w] # Idle
  <2>1. tx[w].stage \in {"open", "checked", "claimed", "answered"} \/ tx[w] # Idle
    BY <1>1
    DEF WorkerStep, SuppressLateArrivals, ClaimBatch, ProviderAccepts,
        ProviderCollapses, CommitBatch, CommitEmpty, RollBack
  <2>2. tx[w] # Idle
    BY <2>1 DEF Idle
  <2> QED
    BY <2>2 DEF WorkerInv
<1>3. Born
  BY <1>2 DEF CoverInv
<1>4. Born'
  <2>1. CASE UNCHANGED run
    BY <1>3, <2>1 DEF Born
  <2>2. CASE Advance(tx[w].run, Cardinality(tx[w].rows))
    <3>1. tx[w].run \in Runs
      BY <1>2 DEF TypeOK, Transactions
    <3>2. run'[tx[w].run].pc \in {"complete", "continue", "batch"}
      BY <1>2, <2>2, <3>1 DEF Advance, TypeOK
    <3> QED
      BY <3>1, <3>2 DEF Born
  <2> QED
    BY <1>1, <2>1, <2>2
    DEF WorkerStep, SuppressLateArrivals, ClaimBatch, ProviderAccepts,
        ProviderCollapses, CommitBatch, CommitEmpty, RollBack, Reports
<1>5. \A v \in Workers \ {w} : tx'[v] = tx[v]
  BY <1>1, <1>2
  DEF WorkerStep, SuppressLateArrivals, ClaimBatch, ProviderAccepts,
      ProviderCollapses, CommitBatch, CommitEmpty, RollBack, Release, Proceed, TypeOK
<1>6. ASSUME Quiet(w) \/ (~resumedEarly => Spares(w)'),
             \A k \in Keys : payload'[k] = payload[k]
                              \/ (~resumedEarly => payload'[k] \cap barred' = {})
      PROVE  CoverInv'
  <2>1. \A v \in Workers : Quiet(v) \/ (~resumedEarly => Spares(v)')
    BY <1>5, <1>6 DEF Quiet
  <2>2. /\ barred' \subseteq barred /\ barred' \subseteq unsendable'
        /\ resumedEarly' \in BOOLEAN /\ (resumedEarly => resumedEarly')
    BY <1>1 DEF CoverInv
  <2> QED
    BY <1>1, <1>2, <1>3, <1>4, <1>6, <2>1, <2>2, CoverStays
<1>7. CASE SuppressLateArrivals(w)
  <2> DEFINE late == {c \in unsendable : row[c] = "pending"}
  <2>1. tx'[w] = [tx[w] EXCEPT !.stage = "checked", !.suppressed = late]
        /\ UNCHANGED <<row, payload>>
    BY <1>2, <1>7 DEF SuppressLateArrivals, Proceed, TypeOK, providerVars
  <2>2. tx'[w].stage = "checked" /\ tx'[w].suppressed = late
    BY <1>2, <2>1 DEF TypeOK, Transactions
  <2>3. Spares(w)'
    BY <1>1, <2>1, <2>2 DEF Spares, CoverInv
  <2> QED
    BY <1>6, <2>1, <2>3
<1>8. ASSUME NEW S \in SUBSET Contacts, ClaimBatch(w, S) PROVE CoverInv'
  <2>1. /\ tx'[w].stage = "claimed" /\ tx'[w].rows = S
        /\ UNCHANGED payload /\ tx[w].stage = "checked"
        /\ \A c \in S : row[c] = "pending" /\ c \notin tx[w].suppressed
    BY <1>2, <1>8
    DEF ClaimBatch, Claimable, Proceed, TypeOK, Transactions, providerVars
  <2>2. ~resumedEarly => Spares(w)'
    BY <1>1, <2>1 DEF Spares, CoverInv
  <2> QED
    BY <1>6, <2>1, <2>2
<1>9. ASSUME NEW A \in SUBSET tx[w].rows, ProviderAccepts(w, A) PROVE CoverInv'
  <2>1. /\ tx'[w].stage = "answered" /\ tx[w].stage = "claimed"
        /\ payload' = [payload EXCEPT ![Key(w)] = tx[w].rows]
    BY <1>2, <1>9 DEF ProviderAccepts, Proceed, TypeOK, Transactions
  <2>2. Quiet(w)
    BY <2>1 DEF Quiet
  <2>3. ~resumedEarly => tx[w].rows \cap barred' = {}
    BY <1>1, <2>1 DEF CoverInv, Spares
  <2>4. \A k \in Keys : payload'[k] = payload[k] \/ payload'[k] = tx[w].rows
    BY <1>2, <2>1 DEF TypeOK
  <2> QED
    BY <1>6, <2>2, <2>3, <2>4
<1>10. CASE ProviderCollapses(w)
  <2>1. tx'[w].stage = "answered" /\ UNCHANGED payload
    BY <1>2, <1>10
    DEF ProviderCollapses, Proceed, TypeOK, Transactions, providerVars
  <2> QED
    BY <1>6, <2>1 DEF Quiet
<1>11. CASE Release(w) /\ UNCHANGED payload
  <2>1. tx'[w] = Idle
    BY <1>2, <1>11 DEF Release, Proceed, TypeOK
  <2> QED
    BY <1>6, <1>11, <2>1 DEF Quiet, Idle
<1> QED
  BY <1>1, <1>7, <1>8, <1>9, <1>10, <1>11
  DEF WorkerStep, CommitBatch, CommitEmpty, RollBack, providerVars

LEMMA PipelineHolds == PipelineSpec => [](WorkerInv /\ OwnerInv /\ CoverInv)
<1>1. PipelineSpec => []WorkerInv
  BY PipelineIsSendWorker, WorkerHolds, PTL DEF ImplementsSendWorker
<1>2. OwnerInv /\ CoverInv /\ WorkerInv /\ WorkerInv' /\ [PipelineNext]_pipelineVars
        => CoverInv'
  <2> SUFFICES ASSUME OwnerInv, CoverInv, WorkerInv, WorkerInv',
                      [PipelineNext]_pipelineVars
               PROVE  CoverInv'
    OBVIOUS
  <2>1. NoRowReopens /\ TypeOK
    BY RowsDrain DEF WorkerInv
  <2>2. ASSUME NEW r \in Runs, RunGoesOn(r) \/ RunFaults(r) PROVE CoverInv'
    BY <2>1, <2>2, CoverRun
  <2>3. ASSUME NEW w \in Workers,
               WorkerGoesOn(w) \/ WorkerCommits(w) \/ WorkerFaults(w)
        PROVE  CoverInv'
    BY <2>1, <2>3, CoverWorker
  <2> QED
    BY <2>1, <2>2, <2>3, CoverJobs DEF PipelineNext
<1> QED
  BY <1>1, <1>2, OwnerInit, OwnerNext, CoverInit, PTL DEF PipelineSpec

\* A campaign that reports success has dealt with every recipient, whatever was
\* lost, retried or pressed on the way - unless a resume came early.
THEOREM SentMeansCovered == PipelineSpec => []SentCoversEverybody
<1>1. CoverInv => SentCoversEverybody
  BY DEF CoverInv, SentCoversEverybody
<1> QED
  BY <1>1, PipelineHolds, PTL

\* Whoever was on the list all along is in no request to the provider, by any
\* run or leftover worker - under the same condition.
THEOREM BarredAreSpared == PipelineSpec => []BarredIsNeverMailed
<1>1. CoverInv => BarredIsNeverMailed
  BY DEF CoverInv, BarredIsNeverMailed
<1> QED
  BY <1>1, PipelineHolds, PTL

-----------------------------------------------------------------------------
(* Types *)

\* What PipelineTypeOK says beyond the worker's types and the other invariants.
CampaignTypes ==
  /\ started \in BOOLEAN
  /\ due \in {"none", "future", "past"}
  /\ fresh \in BOOLEAN
  /\ cancelAsked \in BOOLEAN
  /\ actions \in 0..MaxActions
  /\ faults \in 0..MaxFaults

LEMMA CampaignTypesNext == CampaignTypes /\ [PipelineNext]_pipelineVars => CampaignTypes'
<1> SUFFICES ASSUME CampaignTypes, [PipelineNext]_pipelineVars PROVE CampaignTypes'
  OBVIOUS
<1>1. actions' \in 0..MaxActions /\ faults' \in 0..MaxFaults
  <2>1. \/ UNCHANGED counters
        \/ actions < MaxActions /\ actions' = actions + 1 /\ faults' = faults
        \/ faults < MaxFaults /\ faults' = faults + 1 /\ actions' = actions
        \/ /\ actions < MaxActions /\ actions' = actions + 1
           /\ faults < MaxFaults /\ faults' = faults + 1
    BY DEF PipelineNext, ServerAction, SendCampaignNow, ScheduleCampaign,
           PauseCampaign, ResumeCampaign, CancelCampaignAction, Act, Acted,
           ActedButDied, QueueStep, ClaimCampaignForQueue, ClaimRefused,
           ReportAllows, ReportForbids, ClaimStepFails, MaterialiseRecipients,
           ApplyQueueSuppressions, StartSending, QueueRunFails, Fault, Scheduler,
           ClaimDue, ReclaimStranded, EmitQueue, LoseQueueEmit, CancelRecipients,
           CancelRunFails, TimeComes, GraceEnds, RunGoesOn, RunFaults,
           WorkerGoesOn, WorkerCommits, WorkerFaults, ContactChanges,
           EventArrives, counters, pipeVars, pipelineVars
  <2> QED
    BY <2>1, PipelineAssumption DEF CampaignTypes, counters
<1>2. started' \in BOOLEAN /\ cancelAsked' \in BOOLEAN
  <2>1. started' \in {started, TRUE, FALSE} /\ cancelAsked' \in {cancelAsked, TRUE, FALSE}
    BY DEF PipelineNext, ServerAction, SendCampaignNow, ScheduleCampaign,
           PauseCampaign, ResumeCampaign, CancelCampaignAction, SetCampaign,
           QueueStep, ClaimCampaignForQueue, ClaimRefused, ReportAllows,
           ReportForbids, ClaimStepFails, MaterialiseRecipients,
           ApplyQueueSuppressions, StartSending, QueueRunFails, Scheduler,
           ClaimDue, ReclaimStranded, CancelRecipients, CancelRunFails, TimeComes,
           GraceEnds, RunGoesOn, RunFaults, WorkerGoesOn, WorkerCommits,
           WorkerFaults, ContactChanges, EventArrives, campaignTime, pipeVars,
           pipelineVars
  <2> QED
    BY <2>1 DEF CampaignTypes
<1>3. due' \in {"none", "future", "past"}
  BY DEF CampaignTypes, PipelineNext, ServerAction, SendCampaignNow,
         ScheduleCampaign, PauseCampaign, ResumeCampaign, CancelCampaignAction,
         SetCampaign, QueueStep, ClaimCampaignForQueue, ClaimRefused,
         ReportAllows, ReportForbids, ClaimStepFails, MaterialiseRecipients,
         ApplyQueueSuppressions, StartSending, QueueRunFails, Scheduler,
         ClaimDue, ReclaimStranded, CancelRecipients, CancelRunFails, TimeComes,
         GraceEnds, RunGoesOn, RunFaults, WorkerGoesOn, WorkerCommits,
         WorkerFaults, ContactChanges, EventArrives, campaignTime, pipeVars,
         pipelineVars
<1>4. fresh' \in BOOLEAN
  BY DEF CampaignTypes, PipelineNext, ServerAction, SendCampaignNow,
         ScheduleCampaign, PauseCampaign, ResumeCampaign, CancelCampaignAction,
         SetCampaign, QueueStep, ClaimCampaignForQueue, ClaimRefused,
         ReportAllows, ReportForbids, ClaimStepFails, MaterialiseRecipients,
         ApplyQueueSuppressions, StartSending, QueueRunFails, Scheduler,
         ClaimDue, ReclaimStranded, CancelRecipients, CancelRunFails, TimeComes,
         GraceEnds, RunGoesOn, RunFaults, WorkerGoesOn, WorkerCommits,
         WorkerFaults, ContactChanges, EventArrives, Touched, campaignTime,
         pipeVars, pipelineVars
<1> QED
  BY <1>1, <1>2, <1>3, <1>4 DEF CampaignTypes

LEMMA CampaignTypesInit == PipelineInit => CampaignTypes
<1> SUFFICES ASSUME PipelineInit PROVE CampaignTypes
  OBVIOUS
<1>1. started = FALSE /\ fresh = TRUE /\ cancelAsked = FALSE
  BY DEF PipelineInit
<1>2. started \in BOOLEAN /\ fresh \in BOOLEAN /\ cancelAsked \in BOOLEAN
  BY <1>1
<1>3. actions \in 0..MaxActions /\ faults \in 0..MaxFaults
  BY PipelineAssumption DEF PipelineInit
<1> QED
  BY <1>2, <1>3 DEF PipelineInit, CampaignTypes

\* Type correctness of the whole pipeline.
THEOREM PipelineTypes == PipelineSpec => []PipelineTypeOK
<1>1. WorkerInv /\ OwnerInv /\ CoverInv /\ CampaignTypes => PipelineTypeOK
  BY DEF WorkerInv, OwnerInv, CoverInv, CampaignTypes, PipelineTypeOK, TypeOK
<1> QED
  BY <1>1, CampaignTypesInit, CampaignTypesNext, PipelineHolds, PTL DEF PipelineSpec

-----------------------------------------------------------------------------
(* Nobody is stranded *)

Alive(r) == run[r].pc \in {"load", "batch", "running", "complete", "continue"}

\* A worker's transaction will still look for c, has left so full a batch that its
\* run goes on to another, or has c in its hands.
Tending(w, c) ==
  /\ tx[w] # Idle
  /\ \/ tx[w].stage \in {"open", "checked"}
     \/ Cardinality(tx[w].rows) = BatchSize
     \/ c \in Holds(w)

\* Someone who has yet to look for work will come by c, or has it.
Tended(c) ==
  \/ \E r \in Runs : run[r].pc \in {"load", "batch", "continue"}
  \/ \E w \in Workers : Tending(w, c)

Attended ==
  /\ \E r \in Runs : Alive(r)
  /\ \A c \in Pending : Tended(c)

Kept == (\E q \in QueueRuns : Materialising(q)) \/ Attended

\* CarriedOn alone is not inductive: the last run may end only because a pending row
\* that `complete` sees is in the hands of somebody else, whose answer is awaited.
CarriedInv ==
  /\ status \in {"draft", "scheduled"} => ~started
  /\ NothingFailed => \A w \in Workers : tx[w] # Idle => tx[w].awaited
  /\ NothingFailed /\ status = "sending" /\ started => Kept

LEMMA CarriedInit == PipelineInit => CarriedInv
  BY DEF PipelineInit, Init, CarriedInv, Idle

\* A fault is counted, so that one that failed something is never forgotten.
LEMMA FailureShows ==
  ASSUME CampaignTypes, [PipelineNext]_pipelineVars
  PROVE  NothingFailed' => NothingFailed
<1>1. faults \in Nat /\ faults' \in {faults, faults + 1}
  <2>1. \/ UNCHANGED counters
        \/ faults' \in {faults, faults + 1}
    BY DEF PipelineNext, ServerAction, SendCampaignNow, ScheduleCampaign,
           PauseCampaign, ResumeCampaign, CancelCampaignAction, Act, Acted,
           ActedButDied, QueueStep, ClaimCampaignForQueue, ClaimRefused,
           ReportAllows, ReportForbids, ClaimStepFails, MaterialiseRecipients,
           ApplyQueueSuppressions, StartSending, QueueRunFails, Fault, Scheduler,
           ClaimDue, ReclaimStranded, EmitQueue, LoseQueueEmit, CancelRecipients,
           CancelRunFails, TimeComes, GraceEnds, RunGoesOn, RunFaults,
           WorkerGoesOn, WorkerCommits, WorkerFaults, ContactChanges,
           EventArrives, counters, pipeVars, pipelineVars
  <2> QED
    BY <2>1 DEF CampaignTypes, counters
<1> QED
  BY <1>1 DEF NothingFailed

\* No fault but "dispatch" leaves NothingFailed as it was.
LEMMA FaultShows ==
  ASSUME CampaignTypes,
         \/ \E kind \in FaultKinds \ {"dispatch"} : Fault(kind)
         \/ ActedButDied
  PROVE  ~NothingFailed'
<1>1. faults \in Nat /\ faults' = faults + 1
  BY DEF CampaignTypes, Fault, ActedButDied
<1>2. ~(Faults \subseteq {"dispatch"})
  BY DEF Fault, ActedButDied, FaultKinds
<1> QED
  BY <1>1, <1>2 DEF NothingFailed

\* A run that has been asked for tends to everybody.
LEMMA SendIsRequested ==
  ASSUME TypeOK, EmitSend
  PROVE  Attended'
<1>1. PICK r \in Runs : run' = [run EXCEPT ![r].pc = "load"]
  BY DEF EmitSend, Goto
<1>2. run'[r].pc = "load"
  BY <1>1 DEF TypeOK
<1> QED
  BY <1>2 DEF Attended, Alive, Tended

\* What is left alone stays attended: the rows only drain.
LEMMA AttendedStays ==
  ASSUME Attended, UNCHANGED <<run, tx>>, Pending' \subseteq Pending
  PROVE  Attended'
  BY DEF Attended, Alive, Tended, Tending, Holds

\* Rows that are not made are not opened.
LEMMA PendingDrains ==
  ASSUME NoRowReopens, Unmaterialised' = Unmaterialised
  PROVE  Pending' \subseteq Pending
  BY DEF NoRowReopens, Unmaterialised, Pending

LEMMA CarriedAction ==
  ASSUME CarriedInv, WorkerInv, CampaignTypes, ServerAction,
         NothingFailed' => NothingFailed
  PROVE  CarriedInv'
<1>1. UNCHANGED tx
  BY DEF ServerAction, SendCampaignNow, ScheduleCampaign, PauseCampaign,
         ResumeCampaign, CancelCampaignAction, workerVars
<1>2. status' \in {"draft", "scheduled"} => ~started'
  BY DEF CarriedInv, ServerAction, SendCampaignNow, ScheduleCampaign, PauseCampaign,
         ResumeCampaign, CancelCampaignAction, SetCampaign
<1>3. CASE ResumeCampaign
  <2>1. CASE EmitSend
    BY <1>1, <1>2, <2>1, SendIsRequested DEF CarriedInv, Kept, WorkerInv
  <2>2. CASE ActedButDied
    BY <1>2, <2>2, FaultShows DEF CarriedInv
  <2> QED
    BY <1>3, <2>1, <2>2 DEF ResumeCampaign
<1>4. CASE ~ResumeCampaign
  <2>1. status' # "sending"
    BY <1>4 DEF ServerAction, SendCampaignNow, ScheduleCampaign, PauseCampaign,
                CancelCampaignAction, SetCampaign
  <2> QED
    BY <1>1, <1>2, <2>1 DEF CarriedInv
<1> QED
  BY <1>3, <1>4

LEMMA CarriedQueue ==
  ASSUME CarriedInv, WorkerInv, OwnerInv, CampaignTypes, NoRowReopens,
         NEW q \in QueueRuns, QueueStep(q), NothingFailed' => NothingFailed
  PROVE  CarriedInv'
<1>1. queue \in [QueueRuns -> QueuePlaces]
  BY DEF OwnerInv
<1>2. UNCHANGED tx
  BY DEF QueueStep, ClaimCampaignForQueue, ClaimRefused, ReportAllows, ReportForbids,
         ClaimStepFails, MaterialiseRecipients, ApplyQueueSuppressions, StartSending,
         QueueRunFails, workerVars, sendVars
<1>3. CASE ClaimStepFails(q) \/ QueueRunFails(q)
  <2>1. ~NothingFailed'
    BY <1>3, FaultShows DEF ClaimStepFails, QueueRunFails, FaultKinds
  <2>2. UNCHANGED <<status, started>>
    BY <1>3 DEF ClaimStepFails, QueueRunFails, sendVars, campaignVars, campaignTime
  <2> QED
    BY <2>1, <2>2 DEF CarriedInv
<1>4. CASE ClaimCampaignForQueue(q)
  <2>1. status' = "sending" /\ queue'[q] = "report"
    BY <1>1, <1>4 DEF ClaimCampaignForQueue, SetCampaign, QueueAt
  <2> QED
    BY <1>2, <2>1 DEF CarriedInv, Kept, Materialising
<1>5. CASE ReportForbids(q)
  <2>1. status' = "draft" /\ ~started'
    BY <1>5 DEF ReportForbids, SetCampaign
  <2> QED
    BY <1>2, <2>1 DEF CarriedInv
<1>6. CASE ReportAllows(q) \/ MaterialiseRecipients(q) \/ ApplyQueueSuppressions(q)
  <2>1. queue'[q] \in {"insert", "suppress", "emit"}
    BY <1>1, <1>6
    DEF ReportAllows, MaterialiseRecipients, ApplyQueueSuppressions, QueueAt
  <2>2. UNCHANGED <<status, started>>
    BY <1>6 DEF ReportAllows, MaterialiseRecipients, ApplyQueueSuppressions, sendVars,
                campaignVars, campaignTime
  <2> QED
    BY <1>2, <2>1, <2>2 DEF CarriedInv, Kept, Materialising
<1>7. CASE StartSending(q)
  <2>1. EmitSend /\ UNCHANGED <<status, started>>
    BY <1>7 DEF StartSending, campaignVars, campaignTime
  <2> QED
    BY <1>2, <2>1, SendIsRequested DEF CarriedInv, Kept, WorkerInv
<1>8. CASE ClaimRefused(q)
  <2>1. /\ queue[q] = "claim" /\ queue' = [queue EXCEPT ![q] = "idle"]
        /\ UNCHANGED <<status, started, row, run>>
    BY <1>8 DEF ClaimRefused, QueueAt, sendVars, campaignVars, campaignTime
  <2>2. \A p \in QueueRuns : Materialising(p) => Materialising(p)'
    BY <1>1, <2>1 DEF Materialising
  <2>3. Attended => Attended'
    BY <1>2, <2>1, AttendedStays DEF Pending
  <2> QED
    BY <1>2, <2>1, <2>2, <2>3 DEF CarriedInv, Kept
<1> QED
  BY <1>3, <1>4, <1>5, <1>6, <1>7, <1>8 DEF QueueStep

\* The jobs and events that touch no run and no transaction.
LEMMA CarriedQuiet ==
  ASSUME CarriedInv, UNCHANGED <<run, tx, queue, status, started>>,
         Pending' \subseteq Pending, NothingFailed' => NothingFailed
  PROVE  CarriedInv'
<1>1. \A q \in QueueRuns : Materialising(q) => Materialising(q)'
  BY DEF Materialising
<1>2. Attended => Attended'
  BY AttendedStays
<1> QED
  BY <1>1, <1>2 DEF CarriedInv, Kept

LEMMA CarriedJobs ==
  ASSUME CarriedInv, NothingFailed' => NothingFailed,
         Scheduler \/ CancelRecipients \/ CancelRunFails \/ TimeComes \/ GraceEnds
  PROVE  CarriedInv'
<1>1. CASE Scheduler
  <2>1. ~started /\ UNCHANGED <<started, tx>>
    BY <1>1 DEF Scheduler, ClaimDue, ReclaimStranded, SetCampaign, CarriedInv,
                workerVars, sendVars
  <2> QED
    BY <2>1 DEF CarriedInv
<1>2. CASE CancelRecipients
  <2>1. UNCHANGED <<run, tx, queue, status, started>>
    BY <1>2 DEF CancelRecipients, workerVars, campaignVars, campaignTime
  <2>2. Pending' \subseteq Pending
    BY <1>2 DEF CancelRecipients, Pending, Overwrite, Constantly
  <2> QED
    BY <2>1, <2>2, CarriedQuiet
<1>3. CASE CancelRunFails \/ TimeComes \/ GraceEnds
  <2>1. UNCHANGED <<run, tx, queue, status, started, row>>
    BY <1>3 DEF CancelRunFails, TimeComes, GraceEnds, sendVars, campaignVars,
                campaignTime
  <2> QED
    BY <2>1, CarriedQuiet DEF Pending
<1> QED
  BY <1>1, <1>2, <1>3

\* A row that nobody holds at the moment `complete` looks at it is none that is left.
LEMMA CarriedComplete ==
  ASSUME CarriedInv, WorkerInv, NoRowReopens, NEW r \in Runs, Complete(r),
         UNCHANGED <<started, queue>>, NothingFailed' => NothingFailed
  PROVE  CarriedInv'
<1>1. /\ run[r].pc = "complete" /\ UNCHANGED <<row, tx>>
      /\ status' \in {status, "sent"}
      /\ \A x \in Runs \ {r} : run'[x] = run[x]
  BY DEF Complete, End, WorkerInv, TypeOK
<1>2. CASE status' # "sending"
  BY <1>1, <1>2 DEF CarriedInv
<1>3. CASE status' = "sending" /\ NothingFailed' /\ started
  <2>1. status = "sending" /\ NothingFailed
    BY <1>1, <1>3
  <2>2. Pending # {}
    BY <1>3, <2>1 DEF Complete, Pending, WorkerInv, RowsInv, SlicesAreDisjoint
  <2>3. CASE \E q \in QueueRuns : Materialising(q)
    BY <1>1, <1>3, <2>1, <2>3 DEF CarriedInv, Kept, Materialising
  <2>4. CASE Attended
    <3>1. \A c \in Pending : Tended(c) => Tended(c)'
      BY <1>1 DEF Tended, Tending, Holds
    <3>2. PICK c \in Pending : Tended(c)
      BY <2>2, <2>4 DEF Attended
    <3>3. CASE \E x \in Runs : run[x].pc \in {"load", "batch", "continue"}
      <4>1. \E x \in Runs : Alive(x)'
        BY <1>1, <3>3 DEF Alive
      <4> QED
        BY <1>1, <2>1, <2>4, <3>1, <4>1 DEF CarriedInv, Kept, Attended, Pending
    <3>4. CASE \E w \in Workers : Tending(w, c)
      <4>1. PICK w \in Workers : tx[w] # Idle /\ tx[w].awaited
        BY <2>1, <3>4 DEF CarriedInv, Tending
      <4>2. tx[w].run \in Runs /\ run[tx[w].run].pc = "running"
        BY <4>1, OpenOrIdle DEF WorkerInv, RunsInv, TypeOK, Transactions
      <4>3. Alive(tx[w].run)'
        BY <1>1, <4>2 DEF Alive
      <4>4. \E x \in Runs : Alive(x)'
        BY <1>1, <4>2, <4>3
      <4> QED
        BY <1>1, <2>1, <2>4, <3>1, <4>4 DEF CarriedInv, Kept, Attended, Pending
    <3> QED
      BY <3>2, <3>3, <3>4 DEF Tended
  <2> QED
    BY <1>3, <2>1, <2>3, <2>4 DEF CarriedInv, Kept
<1> QED
  BY <1>1, <1>2, <1>3 DEF CarriedInv

LEMMA CarriedRun ==
  ASSUME CarriedInv, WorkerInv, NoRowReopens, NEW r \in Runs, RunGoesOn(r),
         NothingFailed' => NothingFailed
  PROVE  CarriedInv'
<1>1. UNCHANGED <<started, queue>> /\ TypeOK
  BY DEF RunGoesOn, WorkerInv
<1>2. ASSUME UNCHANGED <<status, row>>, tx' = tx,
             \E x \in Runs : run'[x].pc \in {"load", "batch", "continue"}
      PROVE  CarriedInv'
  BY <1>1, <1>2 DEF CarriedInv, Kept, Attended, Alive, Tended
<1>3. CASE LoadCampaign(r)
  <2>1. UNCHANGED <<status, row>> /\ tx' = tx
    BY <1>3 DEF LoadCampaign, campaignVars
  <2>2. CASE status = "sending"
    <3>1. run'[r].pc = "batch"
      BY <1>1, <1>3, <2>2 DEF LoadCampaign, Goto, TypeOK
    <3> QED
      BY <1>2, <2>1, <3>1
  <2>3. CASE status # "sending"
    BY <1>1, <2>1, <2>3 DEF CarriedInv
  <2> QED
    BY <2>2, <2>3
<1>4. CASE ReleaseClaimed(r)
  <2>1. /\ run[r].pc = "release" /\ UNCHANGED status /\ tx' = tx
        /\ \A x \in Runs \ {r} : run'[x] = run[x]
    BY <1>1, <1>4 DEF ReleaseClaimed, End, TypeOK, campaignVars
  <2>2. Pending' = Pending
    BY <1>4 DEF ReleaseClaimed, Pending, Overwrite, Constantly, WorkerInv, RowsInv,
                SlicesAreDisjoint
  <2>3. Attended => Attended'
    <3>1. \A x \in Runs : Alive(x) => Alive(x)'
      BY <2>1 DEF Alive
    <3>2. \A c \in Contacts : Tended(c) => Tended(c)'
      BY <2>1 DEF Tended, Tending, Holds
    <3> QED
      BY <2>2, <3>1, <3>2 DEF Attended, Pending
  <2> QED
    BY <1>1, <2>1, <2>3 DEF CarriedInv, Kept, Materialising
<1>5. ASSUME NEW w \in Workers, StartAttempt(r, w)
      PROVE  CarriedInv'
  <2> DEFINE mine == [stage |-> "open", run |-> r, batch |-> run[r].batch,
                      awaited |-> TRUE, suppressed |-> {}, rows |-> {}]
  <2>1. /\ UNCHANGED <<status, row>>
        /\ run'[r].pc = "running"
        /\ tx' = [tx EXCEPT ![w] = mine]
    BY <1>1, <1>5 DEF StartAttempt, Goto, Proceed, TypeOK, campaignVars
  <2>2. /\ tx'[w] = mine /\ tx'[w].stage = "open" /\ tx'[w].awaited
        /\ \A v \in Workers \ {w} : tx'[v] = tx[v]
    BY <1>1, <2>1 DEF TypeOK
  <2>3. tx'[w] # Idle
    BY <2>2 DEF Idle
  <2>4. Attended'
    BY <2>1, <2>2, <2>3 DEF Attended, Alive, Tended, Tending
  <2> HIDE DEF mine
  <2> QED
    BY <1>1, <2>1, <2>2, <2>4 DEF CarriedInv, Kept
<1>6. CASE Complete(r)
  BY <1>1, <1>6, CarriedComplete
<1>7. ASSUME NEW next \in Runs, Continue(r, next)
      PROVE  CarriedInv'
  <2>1. run'[next].pc = "load" /\ UNCHANGED <<status, row>> /\ tx' = tx
    BY <1>1, <1>7 DEF Continue, TypeOK, campaignVars
  <2> QED
    BY <1>2, <2>1
<1> QED
  BY <1>3, <1>4, <1>5, <1>6, <1>7 DEF RunGoesOn

\* While nothing has failed, what a claim leaves behind is claimed by others whose
\* answers are awaited, or there is a whole batch of it.
LEMMA CarriedWorker ==
  ASSUME CarriedInv, WorkerInv, NEW w \in Workers, WorkerGoesOn(w),
         NothingFailed' => NothingFailed
  PROVE  CarriedInv'
<1>1. /\ UNCHANGED <<started, queue, run, row, status>> /\ TypeOK
      /\ Pending' = Pending
  BY DEF WorkerGoesOn, SuppressLateArrivals, ClaimBatch, ProviderAccepts,
         ProviderCollapses, pipeVars, campaignTime, campaignVars, WorkerInv, Pending
<1>2. tx[w].stage \in Stages
  BY DEF WorkerGoesOn, SuppressLateArrivals, ClaimBatch, ProviderAccepts,
         ProviderCollapses, Stages
<1>3. tx[w] \in Transactions /\ tx[w] # Idle
  BY <1>1, <1>2, OpenOrIdle
<1>4. ASSUME NEW stage \in Stages, NEW suppressed \in SUBSET Contacts,
             NEW rows \in SUBSET Contacts,
             tx' = [tx EXCEPT ![w] = [tx[w] EXCEPT !.stage = stage,
                                        !.suppressed = suppressed, !.rows = rows]],
             NothingFailed /\ status = "sending" =>
               \A c \in Pending : Tending(w, c) =>
                 \/ stage \in {"open", "checked"}
                 \/ Cardinality(rows) = BatchSize
                 \/ c \in suppressed \cup rows
                 \/ \E v \in Workers \ {w} : c \in Holds(v)
      PROVE  CarriedInv'
  <2>1. /\ tx'[w].stage = stage /\ tx'[w].suppressed = suppressed /\ tx'[w].rows = rows
        /\ tx'[w].awaited = tx[w].awaited
        /\ \A v \in Workers \ {w} : tx'[v] = tx[v]
    BY <1>1, <1>3, <1>4 DEF TypeOK, Transactions
  <2>2. tx'[w] # Idle
    BY <2>1 DEF Idle, Stages
  <2>3. NothingFailed /\ status = "sending" /\ Attended => Attended'
    <3> SUFFICES ASSUME NothingFailed, status = "sending", Attended,
                        NEW c \in Pending
                 PROVE  Tended(c)'
      BY <1>1 DEF Attended, Alive
    <3>1. CASE \E x \in Runs : run[x].pc \in {"load", "batch", "continue"}
      BY <1>1, <3>1 DEF Tended
    <3>2. ASSUME NEW v \in Workers \ {w}, Tending(v, c)
          PROVE  Tended(c)'
      BY <2>1, <3>2 DEF Tended, Tending, Holds
    <3>3. CASE Tending(w, c)
      <4>1. CASE \E v \in Workers \ {w} : c \in Holds(v)
        <5>1. PICK v \in Workers \ {w} : c \in Holds(v)
          BY <4>1
        <5>2. tx[v] # Idle
          BY <5>1 DEF Holds, Idle
        <5> QED
          BY <2>1, <5>1, <5>2 DEF Tended, Tending, Holds
      <4>2. CASE \/ stage \in {"open", "checked"}
                 \/ Cardinality(rows) = BatchSize
                 \/ c \in suppressed \cup rows
        BY <2>1, <2>2, <4>2 DEF Tended, Tending, Holds
      <4> QED
        BY <1>4, <3>3, <4>1, <4>2
    <3> QED
      BY <3>1, <3>2, <3>3 DEF Attended, Tended
  <2> QED
    BY <1>1, <1>3, <2>1, <2>3 DEF CarriedInv, Kept, Materialising
<1>5. ASSUME NEW stage \in Stages
      PROVE  [tx[w] EXCEPT !.stage = stage]
               = [tx[w] EXCEPT !.stage = stage, !.suppressed = tx[w].suppressed,
                               !.rows = tx[w].rows]
  BY <1>3 DEF Transactions
<1>6. tx[w].suppressed \in SUBSET Contacts /\ tx[w].rows \in SUBSET Contacts
  BY <1>3 DEF Transactions
<1>7. CASE SuppressLateArrivals(w)
  <2> DEFINE late == {c \in unsendable : row[c] = "pending"}
  <2>1. tx' = [tx EXCEPT ![w] = [tx[w] EXCEPT !.stage = "checked", !.suppressed = late]]
    BY <1>7 DEF SuppressLateArrivals, Proceed
  <2>2. [tx[w] EXCEPT !.stage = "checked", !.suppressed = late]
          = [tx[w] EXCEPT !.stage = "checked", !.suppressed = late, !.rows = tx[w].rows]
    BY <1>3 DEF Transactions
  <2>3. late \in SUBSET Contacts
    BY <1>1 DEF TypeOK
  <2> HIDE DEF late
  <2> QED
    BY <1>4, <1>6, <2>1, <2>2, <2>3 DEF Stages
<1>8. ASSUME NEW S \in SUBSET Contacts, ClaimBatch(w, S)
      PROVE  CarriedInv'
  <2>1. tx' = [tx EXCEPT ![w] = [tx[w] EXCEPT !.stage = "claimed", !.rows = S]]
    BY <1>8 DEF ClaimBatch, Proceed
  <2>2. [tx[w] EXCEPT !.stage = "claimed", !.rows = S]
          = [tx[w] EXCEPT !.stage = "claimed", !.suppressed = tx[w].suppressed, !.rows = S]
    BY <1>3 DEF Transactions
  <2>3. status = "sending" =>
          \A c \in Pending : \/ Cardinality(S) = BatchSize
                             \/ c \in tx[w].suppressed \cup S
                             \/ \E v \in Workers \ {w} : c \in Holds(v)
    BY <1>8 DEF ClaimBatch, Claimable, LockedByOther, Pending
  <2> QED
    BY <1>4, <1>6, <2>1, <2>2, <2>3 DEF Stages
<1>9. ASSUME NEW A \in SUBSET tx[w].rows, ProviderAccepts(w, A) \/ ProviderCollapses(w)
      PROVE  CarriedInv'
  <2>1. /\ tx' = [tx EXCEPT ![w] = [tx[w] EXCEPT !.stage = "answered"]]
        /\ tx[w].stage = "claimed"
    BY <1>9 DEF ProviderAccepts, ProviderCollapses, Proceed
  <2>2. \A c \in Pending : Tending(w, c) => \/ Cardinality(tx[w].rows) = BatchSize
                                            \/ c \in tx[w].suppressed \cup tx[w].rows
    BY <2>1 DEF Tending, Holds
  <2>3. tx' = [tx EXCEPT ![w] = [tx[w] EXCEPT !.stage = "answered",
                                   !.suppressed = tx[w].suppressed, !.rows = tx[w].rows]]
    BY <1>5, <2>1 DEF Stages
  <2> QED
    BY <1>4, <1>6, <2>2, <2>3 DEF Stages
<1> QED
  BY <1>7, <1>8, <1>9 DEF WorkerGoesOn

\* The rows of a batch that is committed are closed, and its run goes on: to the next
\* batch, to the run that takes over, or to look for what is left.
LEMMA CarriedCommit ==
  ASSUME CarriedInv, WorkerInv, NEW w \in Workers, WorkerCommits(w),
         NothingFailed' => NothingFailed
  PROVE  CarriedInv'
<1>1. UNCHANGED <<started, queue, status>> /\ TypeOK
  BY DEF WorkerCommits, CommitBatch, CommitEmpty, campaignVars, WorkerInv
<1>2. tx[w].stage \in {"claimed", "answered"} /\ tx[w] \in Transactions /\ tx[w] # Idle
  <2>1. tx[w].stage \in {"claimed", "answered"}
    BY DEF WorkerCommits, CommitBatch, CommitEmpty
  <2> QED
    BY <1>1, <2>1, OpenOrIdle DEF Stages
<1>3. /\ tx'[w] = Idle
      /\ \A v \in Workers \ {w} : tx'[v] = tx[v]
  BY <1>1 DEF WorkerCommits, CommitBatch, CommitEmpty, Release, Proceed, TypeOK
<1>4. Pending' \subseteq Pending \ Holds(w)
  <2>1. \A c \in Contacts : /\ c \in Holds(w) => row'[c] # "pending"
                            /\ c \notin Holds(w) => row'[c] = row[c]
    BY DEF WorkerCommits, CommitBatch, CommitEmpty, Overwrite, BatchOutcome, Constantly,
           Holds
  <2> QED
    BY <2>1 DEF Pending
<1>5. CASE NothingFailed
  <2> PICK r \in Runs : r = tx[w].run
    BY <1>2 DEF Transactions
  <2>1. tx[w].awaited /\ run[r].pc = "running"
    BY <1>2, <1>5 DEF CarriedInv, WorkerInv, RunsInv
  <2>2. Advance(r, Cardinality(tx[w].rows))
    BY <2>1 DEF WorkerCommits, CommitBatch, CommitEmpty, Reports
  <2>3. /\ run'[r].pc \in {"batch", "continue", "complete"}
        /\ Cardinality(tx[w].rows) = BatchSize => run'[r].pc \in {"batch", "continue"}
        /\ \A x \in Runs \ {r} : run'[x] = run[x]
    BY <1>1, <2>1, <2>2 DEF Advance, TypeOK
  <2>4. ASSUME Attended
        PROVE  Attended'
    <3>1. Alive(r)'
      BY <2>3 DEF Alive
    <3>2. ASSUME NEW c \in Pending'
          PROVE  Tended(c)'
      <4>1. c \in Pending /\ c \notin Holds(w) /\ Tended(c)
        BY <1>4, <2>4 DEF Attended
      <4>2. CASE \E x \in Runs : run[x].pc \in {"load", "batch", "continue"}
        BY <2>1, <2>3, <4>2 DEF Tended
      <4>3. ASSUME NEW v \in Workers \ {w}, Tending(v, c)
            PROVE  Tended(c)'
        BY <1>3, <4>3 DEF Tended, Tending, Holds
      <4>4. CASE Tending(w, c)
        <5>1. Cardinality(tx[w].rows) = BatchSize
          BY <1>2, <4>1, <4>4 DEF Tending
        <5> QED
          BY <2>1, <2>3, <5>1 DEF Tended
      <4> QED
        BY <4>1, <4>2, <4>3, <4>4 DEF Tended
    <3> QED
      BY <2>1, <3>1, <3>2 DEF Attended
  <2> QED
    BY <1>1, <1>3, <2>4 DEF CarriedInv, Kept, Materialising
<1>6. CASE ~NothingFailed
  BY <1>1, <1>6 DEF CarriedInv
<1> QED
  BY <1>5, <1>6

LEMMA CarriedNext ==
  CarriedInv /\ WorkerInv /\ OwnerInv /\ CampaignTypes /\ [PipelineNext]_pipelineVars
    => CarriedInv'
<1> SUFFICES ASSUME CarriedInv, WorkerInv, OwnerInv, CampaignTypes,
                    [PipelineNext]_pipelineVars
             PROVE  CarriedInv'
  OBVIOUS
<1>1. (NothingFailed' => NothingFailed) /\ NoRowReopens
  BY FailureShows, RowsDrain
<1>2. CASE ServerAction
  BY <1>1, <1>2, CarriedAction
<1>3. ASSUME NEW q \in QueueRuns, QueueStep(q) PROVE CarriedInv'
  BY <1>1, <1>3, CarriedQueue
<1>4. CASE Scheduler \/ CancelRecipients \/ CancelRunFails \/ TimeComes \/ GraceEnds
  BY <1>1, <1>4, CarriedJobs
<1>5. ASSUME NEW r \in Runs, RunGoesOn(r) PROVE CarriedInv'
  BY <1>1, <1>5, CarriedRun
<1>6. ASSUME NEW w \in Workers, WorkerGoesOn(w) PROVE CarriedInv'
  BY <1>1, <1>6, CarriedWorker
<1>7. ASSUME NEW w \in Workers, WorkerCommits(w) PROVE CarriedInv'
  BY <1>1, <1>7, CarriedCommit
<1>8. ASSUME Fault("send"), UNCHANGED started,
             status' = status
      PROVE  CarriedInv'
  BY <1>8, FaultShows DEF CarriedInv, FaultKinds
<1>9. ASSUME NEW r \in Runs, RunFaults(r) PROVE CarriedInv'
  BY <1>8, <1>9 DEF RunFaults, AttemptFails, StepExhausted, campaignVars, campaignTime
<1>10. ASSUME NEW w \in Workers, WorkerFaults(w) PROVE CarriedInv'
  BY <1>8, <1>10 DEF WorkerFaults, RollBack, CommitBatch, CommitEmpty, campaignVars
<1>11. ASSUME NEW c \in Contacts, ContactChanges(c) PROVE CarriedInv'
  <2>1. UNCHANGED <<run, tx, queue, status, started, row>>
    BY <1>11 DEF ContactChanges, DoNotSendChanges, campaignTime
  <2> QED
    BY <1>1, <2>1, CarriedQuiet DEF Pending
<1>12. ASSUME NEW c \in Contacts, NEW s \in ReportedStatuses, EventArrives(c, s)
       PROVE  CarriedInv'
  <2>1. UNCHANGED <<run, tx, queue, status, started>>
    BY <1>12 DEF EventArrives, EventApplies, pipeVars, campaignTime, campaignVars
  <2>2. Pending' \subseteq Pending
    <3>1. row[c] \in RowStatuses /\ row \in [Contacts -> RowStatuses]
      BY DEF WorkerInv, TypeOK
    <3>2. NextRecipientStatus(row[c], s) # "pending"
      BY <3>1, EventsMail DEF Unmailed
    <3>3. row' = [row EXCEPT ![c] = NextRecipientStatus(row[c], s)]
      BY <1>12 DEF EventArrives, EventApplies
    <3> QED
      BY <3>1, <3>2, <3>3 DEF Pending
  <2> QED
    BY <1>1, <2>1, <2>2, CarriedQuiet
<1>13. CASE UNCHANGED pipelineVars
  <2>1. UNCHANGED <<run, tx, queue, status, started, row>>
    BY <1>13 DEF pipelineVars, pipeVars, sendVars, campaignVars, campaignTime
  <2> QED
    BY <1>1, <2>1, CarriedQuiet DEF Pending
<1> QED
  BY <1>2, <1>3, <1>4, <1>5, <1>6, <1>7, <1>9, <1>10, <1>11, <1>12, <1>13
  DEF PipelineNext

\* As long as nothing fails but the scheduler's claims, no campaign that is sending is
\* ever left without a run to finish it: not by pausing and resuming, not by a second
\* queue event, not by two runs that end while each other's rows are still pending.
THEOREM NobodyIsStranded == PipelineSpec => []CarriedOn
<1>1. CarriedInv => CarriedOn
  BY DEF CarriedInv, CarriedOn, Kept, Attended, Alive
<1>2. PipelineSpec => []CampaignTypes
  BY CampaignTypesInit, CampaignTypesNext, PTL DEF PipelineSpec
<1> QED
  BY <1>1, <1>2, CarriedInit, CarriedNext, PipelineHolds, PTL DEF PipelineSpec

-----------------------------------------------------------------------------
(* Action properties, and what the pipeline has from its worker *)

\* A campaign that is finished stays so, but for a queue run whose report forbids it:
\* the claims of the Server Actions and of the scheduler exclude it, `complete` ends
\* only one that is sending, and no fault writes a status.
THEOREM FinishedStaysFinished == PipelineSpec => OnlyTheReportRevives
<1> DEFINE Revival == (status \in {"sent", "cancelled"} /\ status' # status) =>
                        status' = "draft" /\ \E q \in QueueRuns : queue[q] = "report"
<1>1. [PipelineNext]_pipelineVars => [Revival]_pipelineVars
  <2> SUFFICES ASSUME PipelineNext, status \in {"sent", "cancelled"}, status' # status
               PROVE  status' = "draft" /\ \E q \in QueueRuns : queue[q] = "report"
    OBVIOUS
  <2>1. ~ServerAction
    BY DEF ServerAction, SendCampaignNow, ScheduleCampaign, PauseCampaign,
           ResumeCampaign, CancelCampaignAction, SetCampaign
  <2>2. ASSUME NEW q \in QueueRuns, QueueStep(q)
        PROVE  ReportForbids(q)
    BY <2>2 DEF QueueStep, ClaimCampaignForQueue, ClaimRefused, ReportAllows,
                ClaimStepFails, MaterialiseRecipients, ApplyQueueSuppressions,
                StartSending, QueueRunFails, sendVars, campaignVars
  <2>3. ~(Scheduler \/ CancelRecipients \/ CancelRunFails \/ TimeComes \/ GraceEnds)
    BY DEF Scheduler, ClaimDue, ReclaimStranded, CancelRecipients, CancelRunFails,
           TimeComes, GraceEnds, sendVars, campaignVars
  <2>4. ~\E r \in Runs : RunGoesOn(r) \/ RunFaults(r)
    BY DEF RunGoesOn, RunFaults, LoadCampaign, ReleaseClaimed, StartAttempt, Complete,
           Continue, AttemptFails, StepExhausted, campaignVars
  <2>5. ~\E w \in Workers : WorkerGoesOn(w) \/ WorkerCommits(w) \/ WorkerFaults(w)
    BY DEF WorkerGoesOn, WorkerCommits, WorkerFaults, SuppressLateArrivals, ClaimBatch,
           ProviderAccepts, ProviderCollapses, CommitBatch, CommitEmpty, RollBack,
           campaignVars
  <2>6. ~\E c \in Contacts : ContactChanges(c)
    BY DEF ContactChanges, DoNotSendChanges
  <2>7. ~\E c \in Contacts, s \in ReportedStatuses : EventArrives(c, s)
    BY DEF EventArrives, EventApplies, campaignVars
  <2>8. PICK q \in QueueRuns : ReportForbids(q)
    BY <2>1, <2>2, <2>3, <2>4, <2>5, <2>6, <2>7 DEF PipelineNext
  <2> QED
    BY <2>8 DEF ReportForbids, SetCampaign
<1> QED
  BY <1>1, PTL DEF PipelineSpec, OnlyTheReportRevives

\* With the real jobs around it: two batches at work at a time hold different rows,
\* and no row says that a message left which the provider never took.
THEOREM PipelineRows == PipelineSpec => []SlicesAreDisjoint /\ []RowTellsTheTruth
  BY PipelineIsSendWorker, DisjointSlices, TruthfulRows, PTL DEF ImplementsSendWorker

\* From the buttons of the dashboard down to the provider: the whole pipeline does no
\* more mail than CampaignMail allows.
THEOREM PipelineImplementsCampaignMail == PipelineSpec => ImplementsCampaignMail
  BY PipelineIsSendWorker, WorkerImplementsCampaignMail, PTL DEF ImplementsSendWorker

\* The row of a recipient is opened once: whatever is sent, failed, suppressed,
\* cancelled or reported is never pending again, so that no later batch claims it,
\* and no row disappears.
THEOREM RowsNeverReopen == PipelineSpec => [][NoRowReopens]_pipelineVars
<1>1. OwnerInv /\ WorkerInv /\ [PipelineNext]_pipelineVars => [NoRowReopens]_pipelineVars
  BY RowsDrain
<1> QED
  BY <1>1, PipelineHolds, PTL DEF PipelineSpec

=============================================================================
