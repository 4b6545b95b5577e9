---------------------------- MODULE InboundProofs ----------------------------
(* What holds of received mail for any number of messages, every window and  *)
(* limit of the syncs, and whatever gets lost.                                *)
EXTENDS InboundMail, FiniteSetTheorems, TLAPS

Recorded == {m \in Mail : row[m] # "none"}

\* Whatever is about to be announced, or repaired, has been committed.
HoldersAreRecorded ==
  /\ \A m \in Mail : hook[m] = "announce" => m \in Recorded
  /\ \A s \in Syncs : sync[s].announced \subseteq Recorded /\ sync[s].pending \subseteq Recorded

IInv == TypeOK /\ JobFindsItsRow /\ HoldersAreRecorded

-----------------------------------------------------------------------------
(* Facts about the definitions *)

LEMMA MishapType == TypeOK /\ Mishap => faults' \in 0..MaxFaults
  BY InboundAssumption DEF TypeOK, Mishap

SyncStates == [step : SyncSteps, page : SUBSET Mail,
               announced : SUBSET Mail, pending : SUBSET Mail]

LEMMA SyncForm ==
  ASSUME TypeOK, NEW s \in Syncs
  PROVE  sync[s] \in SyncStates /\ sync \in [Syncs -> SyncStates]
  BY DEF TypeOK, SyncStates

LEMMA RestingType == Resting \in SyncStates
  BY DEF Resting, SyncStates, SyncSteps

LEMMA PagesAreMail ==
  /\ TypeOK => Listed \subseteq Mail
  /\ \A s \in Syncs : Stalled(s) \subseteq Stubs
  /\ Stubs \subseteq Recorded
  /\ Recorded \subseteq Mail
  BY InboundAssumption DEF TypeOK, Listed, Newest, Mail, Stalled, Stubs, Recorded

\* Of a step that changes no row and one sync: the new state of that sync is enough.
LEMMA SyncMoves ==
  ASSUME IInv, NEW s \in Syncs, NEW new \in SyncStates,
         sync' = [sync EXCEPT ![s] = new],
         UNCHANGED <<arrived, hook>>,
         row' \in [Mail -> {"none", "stub", "full"}],
         Recorded \subseteq Recorded',
         new.announced \subseteq Recorded', new.pending \subseteq Recorded',
         faults' \in 0..MaxFaults,
         jobs' \subseteq Recorded'
  PROVE  IInv'
  <1>1. sync' \in [Syncs -> SyncStates]
    BY SyncForm DEF IInv
  <1>2. TypeOK'
    BY <1>1 DEF IInv, TypeOK, SyncStates, Recorded
  <1>3. JobFindsItsRow'
    BY DEF JobFindsItsRow, Recorded
  <1>4. \A x \in Syncs : sync'[x].announced \subseteq Recorded' /\ sync'[x].pending \subseteq Recorded'
    BY SyncForm DEF IInv, HoldersAreRecorded
  <1>5. HoldersAreRecorded'
    BY <1>4 DEF IInv, HoldersAreRecorded
  <1> QED
    BY <1>2, <1>3, <1>5 DEF IInv

-----------------------------------------------------------------------------
(* The inductive invariant *)

LEMMA InvInit == Init => IInv
<1> SUFFICES ASSUME Init PROVE IInv
  OBVIOUS
<1>1. TypeOK
  BY InboundAssumption, RestingType DEF Init, TypeOK, SyncStates, HookSteps
<1> QED
  BY <1>1 DEF Init, IInv, JobFindsItsRow, HoldersAreRecorded, Resting

LEMMA HookStepKeeps ==
  ASSUME IInv, NEW m \in Mail, HookStep(m) PROVE IInv'
<1> USE DEF IInv
<1>1. CASE Record(m) \/ Announce(m)
  BY <1>1 DEF Record, Announce, TypeOK, JobFindsItsRow, HoldersAreRecorded, Recorded, HookSteps
<1>2. CASE Commit(m)
  BY <1>2 DEF Commit, TypeOK, JobFindsItsRow, HoldersAreRecorded, Recorded, HookSteps
<1>3. CASE Rollback(m) \/ LoseHook(m)
  <2>1. faults' \in 0..MaxFaults
    BY <1>3, MishapType DEF Rollback, LoseHook
  <2> QED
    BY <1>3, <2>1 DEF Rollback, LoseHook, TypeOK, JobFindsItsRow, HoldersAreRecorded, Recorded,
       HookSteps
<1> QED
  BY <1>1, <1>2, <1>3 DEF HookStep

LEMMA SyncStepKeeps ==
  ASSUME IInv, NEW s \in Syncs, List(s) \/ SyncStep(s) PROVE IInv'
<1> USE DEF IInv
<1>1. sync[s] \in SyncStates /\ jobs \subseteq Recorded
  BY SyncForm DEF TypeOK, JobFindsItsRow, Recorded
<1>2. sync[s].announced \subseteq Recorded /\ sync[s].pending \subseteq Recorded
  BY DEF HoldersAreRecorded
<1>3. CASE List(s)
  <2> DEFINE new == [sync[s] EXCEPT !.step = "insert", !.page = Listed]
  <2>1. new \in SyncStates /\ new.announced = sync[s].announced /\ new.pending = sync[s].pending
    BY <1>1, PagesAreMail DEF SyncStates, SyncSteps
  <2>2. sync' = [sync EXCEPT ![s] = new]
    BY <1>3, <1>1 DEF List, SyncStates, TypeOK
  <2>3. Recorded' = Recorded
    BY <1>3 DEF List, Recorded
  <2> HIDE DEF new
  <2> QED
    BY <1>1, <1>2, <1>3, <2>1, <2>2, <2>3, SyncMoves DEF List, TypeOK
<1>4. CASE InsertPage(s)
  <2> DEFINE created == {m \in sync[s].page : row[m] = "none"}
             new == [sync[s] EXCEPT !.step = "send", !.page = {}, !.announced = created]
  <2>1. row' = [m \in Mail |-> IF m \in created THEN "stub" ELSE row[m]]
    BY <1>4 DEF InsertPage
  <2>2. created \subseteq Recorded' /\ Recorded \subseteq Recorded'
        /\ row' \in [Mail -> {"none", "stub", "full"}]
    BY <1>1, <2>1 DEF Recorded, SyncStates, TypeOK
  <2>3. new \in SyncStates /\ new.announced = created /\ new.pending = sync[s].pending
    BY <1>1 DEF SyncStates, SyncSteps
  <2>4. sync' = [sync EXCEPT ![s] = new]
    BY <1>1, <1>4 DEF InsertPage, SyncStates, TypeOK
  <2> HIDE DEF new, created
  <2> QED
    BY <1>1, <1>2, <1>4, <2>2, <2>3, <2>4, SyncMoves DEF InsertPage, TypeOK
<1>5. CASE SendPage(s)
  <2> DEFINE new == [sync[s] EXCEPT !.step = "select"]
  <2>1. new \in SyncStates /\ new.announced = sync[s].announced /\ new.pending = sync[s].pending
    BY <1>1 DEF SyncStates, SyncSteps
  <2>2. sync' = [sync EXCEPT ![s] = new]
    BY <1>5, <1>1 DEF SendPage, SyncStates, TypeOK
  <2>3. Recorded' = Recorded
    BY <1>5 DEF SendPage, Recorded
  <2> HIDE DEF new
  <2> QED
    BY <1>1, <1>2, <1>5, <2>1, <2>2, <2>3, SyncMoves DEF SendPage, TypeOK
<1>6. CASE SelectStalled(s)
  <2> DEFINE new == [sync[s] EXCEPT !.step = "repair", !.pending = Stalled(s)]
  <2>1. new \in SyncStates /\ new.announced = sync[s].announced /\ new.pending = Stalled(s)
    BY <1>1, PagesAreMail DEF SyncStates, SyncSteps
  <2>2. sync' = [sync EXCEPT ![s] = new]
    BY <1>6, <1>1 DEF SelectStalled, SyncStates, TypeOK
  <2>3. Recorded' = Recorded
    BY <1>6 DEF SelectStalled, Recorded
  <2>4. new.announced \subseteq Recorded' /\ new.pending \subseteq Recorded'
    BY <1>2, <2>1, <2>3, PagesAreMail
  <2>5. UNCHANGED <<arrived, row, hook, jobs, faults>>
    BY <1>6 DEF SelectStalled
  <2>6. row' \in [Mail -> {"none", "stub", "full"}] /\ faults' \in 0..MaxFaults
    BY <2>5 DEF TypeOK
  <2> HIDE DEF new
  <2> QED
    BY <1>1, <2>1, <2>2, <2>3, <2>4, <2>5, <2>6, SyncMoves
<1>7. CASE SendStalled(s)
  <2>1. Recorded' = Recorded
    BY <1>7 DEF SendStalled, Recorded
  <2>2. Resting.announced = {} /\ Resting.pending = {}
    BY DEF Resting
  <2> QED
    BY <1>1, <1>2, <1>7, <2>1, <2>2, RestingType, SyncMoves DEF SendStalled, TypeOK
<1>8. CASE SyncFails(s)
  <2>1. Recorded' = Recorded /\ faults' \in 0..MaxFaults
    BY <1>8, MishapType DEF SyncFails, Recorded
  <2>2. Resting.announced = {} /\ Resting.pending = {}
    BY DEF Resting
  <2> QED
    BY <1>1, <1>8, <2>1, <2>2, RestingType, SyncMoves DEF SyncFails, TypeOK
<1> QED
  BY <1>3, <1>4, <1>5, <1>6, <1>7, <1>8 DEF SyncStep

LEMMA InvStep == IInv /\ [Next]_inboundVars => IInv'
<1> SUFFICES ASSUME IInv, [Next]_inboundVars PROVE IInv'
  OBVIOUS
<1>1. CASE Receive
  <2>1. arrived' \in 1..Messages /\ hook' = [hook EXCEPT ![arrived'] = "due"]
    BY <1>1, InboundAssumption DEF Receive, IInv, TypeOK
  <2> QED
    BY <1>1, <2>1 DEF Receive, IInv, TypeOK, JobFindsItsRow, HoldersAreRecorded, Recorded,
       HookSteps, Mail
<1>2. ASSUME NEW m \in Mail, Hydrate(m) PROVE IInv'
  <2>1. row' \in [Mail -> {"none", "stub", "full"}] /\ Recorded \subseteq Recorded'
    BY <1>2 DEF Hydrate, IInv, TypeOK, Recorded
  <2> QED
    BY <1>2, <2>1 DEF Hydrate, IInv, TypeOK, JobFindsItsRow, HoldersAreRecorded, Recorded
<1>3. ASSUME NEW m \in Mail, JobGivesUp(m) PROVE IInv'
  <2>1. faults' \in 0..MaxFaults
    BY <1>3, MishapType DEF JobGivesUp, IInv, TypeOK
  <2> QED
    BY <1>3, <2>1 DEF JobGivesUp, IInv, TypeOK, JobFindsItsRow, HoldersAreRecorded, Recorded
<1>4. ASSUME NEW m \in Mail, HydrateInline(m) PROVE IInv'
  <2> DEFINE new == [sync["button"] EXCEPT !.pending = @ \ {m}]
  <2>1. "button" \in Syncs
    BY DEF Syncs
  <2>2. sync["button"] \in SyncStates
    BY <2>1, SyncForm DEF IInv
  <2>3. new \in SyncStates /\ new.announced = sync["button"].announced
        /\ new.pending \subseteq sync["button"].pending
    BY <2>2 DEF SyncStates
  <2>4. sync' = [sync EXCEPT !["button"] = new]
    BY <1>4, <2>1, <2>2 DEF HydrateInline, SyncStates, IInv, TypeOK
  <2>5. row' \in [Mail -> {"none", "stub", "full"}] /\ Recorded \subseteq Recorded'
    BY <1>4 DEF HydrateInline, IInv, TypeOK, Recorded
  <2>6. sync["button"].announced \subseteq Recorded /\ sync["button"].pending \subseteq Recorded
    BY <2>1 DEF IInv, HoldersAreRecorded
  <2>7. jobs' \subseteq Recorded'
    BY <1>4, <2>5 DEF HydrateInline, IInv, JobFindsItsRow, Recorded, TypeOK
  <2> HIDE DEF new
  <2> QED
    BY <1>4, <2>1, <2>3, <2>4, <2>5, <2>6, <2>7, SyncMoves DEF HydrateInline, IInv, TypeOK
<1>5. CASE UNCHANGED inboundVars
  BY <1>5 DEF inboundVars, IInv, TypeOK, JobFindsItsRow, HoldersAreRecorded, Recorded
<1> QED
  BY <1>1, <1>2, <1>3, <1>4, <1>5, HookStepKeeps, SyncStepKeeps DEF Next

LEMMA Invariant == Spec => []IInv
  BY InvInit, InvStep, PTL DEF Spec

\* The rows, the jobs and what both syncs hold in hand are of their types.
THEOREM TypeCorrect == Spec => []TypeOK
<1>1. IInv => TypeOK
  BY DEF IInv
<1> QED
  BY Invariant, <1>1, PTL

\* No hydrate job is started for a row that is not committed: neither by a webhook's
\* transaction that may yet roll back, nor by a sync (inbound-store.ts:90-95).
THEOREM JobsFindTheirRows == Spec => []JobFindsItsRow
<1>1. IInv => JobFindsItsRow
  BY DEF IInv
<1> QED
  BY Invariant, <1>1, PTL

-----------------------------------------------------------------------------
(* What the inbox holds *)

\* An uncommitted row is the only one of its message: the unique index made every
\* other insertion wait for it.
InsertedIsAlone == \A m \in Mail : hook[m] = "inserted" => row[m] = "none"

\* Nobody holds, and nothing is stored of, what the provider has not received.
OnlyWhatArrived ==
  /\ \A m \in Mail : hook[m] # "unsent" \/ row[m] # "none" => m <= arrived
  /\ \A s \in Syncs : sync[s].page \subseteq 1..arrived

BodiesAreGiven == \A m \in Mail : row[m] = "full" => m \notin Unreadable

RowsInv == IInv /\ InsertedIsAlone /\ OnlyWhatArrived /\ BodiesAreGiven

\* A step never removes a row, nor a body.
KeepsRows ==
  \A m \in Mail : (row[m] # "none" => row'[m] # "none") /\ (row[m] = "full" => row'[m] = "full")

LEMMA RowsInit == Init => RowsInv
<1> SUFFICES ASSUME Init PROVE RowsInv
  OBVIOUS
<1> QED
  BY InvInit DEF Init, RowsInv, InsertedIsAlone, OnlyWhatArrived, BodiesAreGiven, Resting

LEMMA RowsHookStep ==
  ASSUME RowsInv, NEW m \in Mail, HookStep(m)
  PROVE  InsertedIsAlone' /\ OnlyWhatArrived' /\ BodiesAreGiven' /\ KeepsRows
<1> USE DEF RowsInv, IInv, TypeOK
<1>1. CASE Commit(m)
  <2>1. row[m] = "none" /\ m <= arrived
    BY <1>1 DEF Commit, InsertedIsAlone, OnlyWhatArrived
  <2> QED
    BY <1>1, <2>1 DEF Commit, InsertedIsAlone, OnlyWhatArrived, BodiesAreGiven, KeepsRows
<1>2. CASE Record(m)
  BY <1>2 DEF Record, InsertedIsAlone, OnlyWhatArrived, BodiesAreGiven, KeepsRows
<1>3. CASE Rollback(m) \/ Announce(m) \/ LoseHook(m)
  BY <1>3 DEF Rollback, Announce, LoseHook, InsertedIsAlone, OnlyWhatArrived, BodiesAreGiven,
     KeepsRows
<1> QED
  BY <1>1, <1>2, <1>3 DEF HookStep

LEMMA RowsSyncStep ==
  ASSUME RowsInv, NEW s \in Syncs, List(s) \/ SyncStep(s)
  PROVE  InsertedIsAlone' /\ OnlyWhatArrived' /\ BodiesAreGiven' /\ KeepsRows
<1> USE DEF RowsInv
<1>1. sync[s] \in SyncStates /\ sync \in [Syncs -> SyncStates]
  BY SyncForm DEF IInv
<1>2. CASE List(s)
  <2>1. sync' = [sync EXCEPT ![s] = [sync[s] EXCEPT !.step = "insert", !.page = Listed]]
    BY <1>1, <1>2 DEF List, SyncStates
  <2>2. Listed \subseteq 1..arrived
    BY DEF Listed, Newest
  <2>3. sync'[s].page = Listed /\ \A x \in Syncs \ {s} : sync'[x] = sync[x]
    BY <1>1, <2>1 DEF SyncStates
  <2> QED
    BY <1>2, <2>2, <2>3 DEF List, InsertedIsAlone, OnlyWhatArrived, BodiesAreGiven, KeepsRows
<1>3. CASE InsertPage(s)
  <2> DEFINE created == {m \in sync[s].page : row[m] = "none"}
  <2>1. row' = [m \in Mail |-> IF m \in created THEN "stub" ELSE row[m]]
    BY <1>3 DEF InsertPage
  <2>2. sync[s].page \subseteq 1..arrived
    BY DEF OnlyWhatArrived
  <2>3. \A m \in created : hook[m] # "inserted"
    BY <1>3 DEF InsertPage
  <2>4. \A x \in Syncs : sync'[x].page \subseteq sync[x].page
    BY <1>1, <1>3 DEF InsertPage, SyncStates
  <2>5. UNCHANGED <<arrived, hook>>
    BY <1>3 DEF InsertPage
  <2>6. InsertedIsAlone'
    BY <2>1, <2>3, <2>5 DEF InsertedIsAlone
  <2>7. OnlyWhatArrived'
    BY <2>1, <2>2, <2>4, <2>5 DEF OnlyWhatArrived, IInv, TypeOK
  <2> QED
    BY <2>1, <2>6, <2>7 DEF BodiesAreGiven, KeepsRows
<1>4. CASE SendPage(s) \/ SelectStalled(s) \/ SendStalled(s) \/ SyncFails(s)
  <2>1. \A x \in Syncs : sync'[x].page \subseteq sync[x].page
    BY <1>1, <1>4 DEF SendPage, SelectStalled, SendStalled, SyncFails, SyncStates, Resting
  <2>2. UNCHANGED <<arrived, row, hook>>
    BY <1>4 DEF SendPage, SelectStalled, SendStalled, SyncFails
  <2> QED
    BY <2>1, <2>2 DEF InsertedIsAlone, OnlyWhatArrived, BodiesAreGiven, KeepsRows
<1> QED
  BY <1>2, <1>3, <1>4 DEF SyncStep

LEMMA RowsStep ==
  ASSUME RowsInv, [Next]_inboundVars
  PROVE  RowsInv' /\ KeepsRows
<1>1. IInv'
  BY InvStep DEF RowsInv
<1>2. CASE Receive
  <2>1. arrived' = arrived + 1 /\ arrived \in Nat /\ arrived' \in Mail
    BY <1>2, InboundAssumption DEF Receive, RowsInv, IInv, TypeOK, Mail
  <2>2. hook' = [hook EXCEPT ![arrived'] = "due"] /\ UNCHANGED <<row, sync>>
    BY <1>2 DEF Receive
  <2>3. OnlyWhatArrived'
    BY <2>1, <2>2 DEF RowsInv, IInv, TypeOK, OnlyWhatArrived, Mail
  <2>4. InsertedIsAlone'
    BY <2>1, <2>2 DEF RowsInv, IInv, TypeOK, InsertedIsAlone
  <2> QED
    BY <1>1, <2>2, <2>3, <2>4 DEF RowsInv, BodiesAreGiven, KeepsRows
<1>3. ASSUME NEW m \in Mail, Hydrate(m) PROVE RowsInv' /\ KeepsRows
  BY <1>1, <1>3
  DEF Hydrate, RowsInv, IInv, TypeOK, InsertedIsAlone, OnlyWhatArrived, BodiesAreGiven, KeepsRows
<1>4. ASSUME NEW m \in Mail, JobGivesUp(m) PROVE RowsInv' /\ KeepsRows
  BY <1>1, <1>4
  DEF JobGivesUp, RowsInv, InsertedIsAlone, OnlyWhatArrived, BodiesAreGiven, KeepsRows
<1>5. ASSUME NEW m \in Mail, HydrateInline(m) PROVE RowsInv' /\ KeepsRows
  <2>1. "button" \in Syncs /\ sync["button"] \in SyncStates /\ sync \in [Syncs -> SyncStates]
    BY SyncForm DEF Syncs, RowsInv, IInv
  <2>2. row[m] # "none" /\ m \notin Unreadable /\ row' = [row EXCEPT ![m] = "full"]
    BY <1>5, <2>1 DEF HydrateInline, RowsInv, IInv, HoldersAreRecorded, Recorded
  <2>3. \A x \in Syncs : sync'[x].page = sync[x].page
    BY <1>5, <2>1 DEF HydrateInline, SyncStates
  <2>4. UNCHANGED <<arrived, hook>>
    BY <1>5 DEF HydrateInline
  <2> QED
    BY <1>1, <2>2, <2>3, <2>4
    DEF RowsInv, IInv, TypeOK, InsertedIsAlone, OnlyWhatArrived, BodiesAreGiven, KeepsRows
<1>6. CASE UNCHANGED inboundVars
  BY <1>1, <1>6
  DEF inboundVars, RowsInv, InsertedIsAlone, OnlyWhatArrived, BodiesAreGiven, KeepsRows
<1> QED
  BY <1>1, <1>2, <1>3, <1>4, <1>5, <1>6, RowsHookStep, RowsSyncStep DEF Next, RowsInv

LEMMA RowsInvariant == Spec => []RowsInv
<1>1. RowsInv /\ [Next]_inboundVars => RowsInv'
  BY RowsStep
<1> QED
  BY RowsInit, <1>1, PTL DEF Spec

\* The inbox holds nothing the provider never received, and a body only where the
\* provider gave one.
THEOREM NothingFromNowhere ==
  Spec => []((\A m \in Mail : row[m] # "none" => m <= arrived) /\ BodiesAreGiven)
<1>1. RowsInv => (\A m \in Mail : row[m] # "none" => m <= arrived) /\ BodiesAreGiven
  BY DEF RowsInv, OnlyWhatArrived
<1> QED
  BY RowsInvariant, <1>1, PTL

\* A row once committed stays, and so does a body: a webhook that is committed after
\* a sync recorded the same message does not put the bare row back over the body
\* (the unique index and ON CONFLICT DO NOTHING, inbound-store.ts:98-115).
THEOREM NothingIsLost == Spec => [][KeepsRows]_inboundVars
<1>1. RowsInv /\ [Next]_inboundVars => [KeepsRows]_inboundVars
  BY RowsStep
<1> QED
  BY RowsInvariant, <1>1, PTL DEF Spec

-----------------------------------------------------------------------------
(* How far a sync looks back *)

LEMMA NewerThan ==
  ASSUME NEW n \in Nat, NEW m \in 1..n
  PROVE  Cardinality({x \in 1..n : x > m}) = n - m
<1>1. {x \in 1..n : x > m} = (m + 1)..n
  OBVIOUS
<1>2. Cardinality((m + 1)..n) = n - m
  BY FS_Interval
<1> QED
  BY <1>1, <1>2

LEMMA ListedValue ==
  ASSUME TypeOK
  PROVE  Listed = {m \in 1..arrived : ~Buried(m)}
<1>1. arrived \in Nat /\ Window \in Nat
  BY InboundAssumption DEF TypeOK
<1>2. \A m \in 1..arrived : Cardinality({x \in 1..arrived : x > m}) = arrived - m
  BY <1>1, NewerThan
<1>3. \A m \in 1..arrived : arrived - m < Window <=> ~Buried(m)
  BY <1>1 DEF Buried
<1> QED
  BY <1>2, <1>3 DEF Listed, Newest

\* A sync lists exactly the messages that are not buried: the exception that
\* EveryMailArrives makes is as narrow as the code's window (inbound-store.ts:540-548).
THEOREM SyncsListTheUnburied == Spec => [](Listed = {m \in 1..arrived : ~Buried(m)})
<1>1. IInv => Listed = {m \in 1..arrived : ~Buried(m)}
  BY ListedValue DEF IInv
<1> QED
  BY Invariant, <1>1, PTL

=============================================================================
