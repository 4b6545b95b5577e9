------------------------------- MODULE Outbox -------------------------------
(* The offline outbox: a tab without a connection hands a message to the    *)
(* service worker, which keeps it in a queue in IndexedDB and replays the   *)
(* queue, oldest first, when something wakes it: Background Sync, the tab   *)
(* that is online again, or its own start.                                  *)
(*                                                                         *)
(* The queue survives; the worker does not, and what it holds between       *)
(* taking an entry from the queue and hearing the answer dies with it.  To  *)
(* post an entry twice is harmless only because the server collapses the    *)
(* requests of one client key, which is the subject of OneToOneSend.        *)
EXTENDS Integers, FiniteSets, Sequences

CONSTANTS
  Entries,     \* messages, each with the client key minted for it
  Tabs,
  Drains,      \* calls of replay
  MaxFaults,   \* bound: connections lost, failures of the server and workers killed
  None

ASSUME OutboxAssumption ==
  /\ IsFiniteSet(Entries)
  /\ MaxFaults \in Nat
  /\ None \notin Entries \cup Tabs

VARIABLES
  network,   \* "up" or "down"
  fate,      \* what became of each message
  owner,     \* the tab that handed it over
  queue,     \* the queue in IndexedDB
  older,     \* history: the entries that had been pushed before each entry was
  passedBy,  \* history: the entries pushed while each was being put back at the end
  drain,     \* each call of replay: how far it is and the entry in its hand
  posted,    \* the entries that have been posted at least once
  waiting,   \* each tab's count of sends that have not come back
  faults

outboxVars ==
  <<network, fate, owner, queue, older, passedBy, drain, posted, waiting, faults>>

Open     == {"handed", "pushed"}
Settled  == {"sent", "dropped", "expired", "lost"}
InHandPhases == {"fetch", "wait", "requeue", "front", "back"}
Phases   == {"idle", "find", "remove"} \cup InHandPhases

Idle == [phase |-> "idle", entry |-> None]

TypeOK ==
  /\ network \in {"up", "down"}
  /\ fate \in [Entries -> {"new"} \cup Open \cup Settled]
  /\ owner \in [Entries -> Tabs \cup {None}]
  /\ queue \in Seq(Entries)
  /\ older \in [Entries -> SUBSET Entries]
  /\ passedBy \in [Entries -> SUBSET Entries]
  /\ drain \in [Drains -> [phase : Phases, entry : Entries \cup {None}]]
  /\ posted \subseteq Entries
  /\ waiting \in [Tabs -> Nat]
  /\ faults \in 0..MaxFaults

\* A call that has an entry in its hand, out of the queue and not yet answered.
Holding(d) == drain[d].phase \in InHandPhases

InHand == {drain[d].entry : d \in {x \in Drains : Holding(x)}}

-----------------------------------------------------------------------------
(* The tab *)

\* Send, in a tab that believes it is offline: queueSend, and enqueue.
HandOver(t, e) ==
  /\ fate[e] = "new"
  /\ fate' = [fate EXCEPT ![e] = "handed"]
  /\ owner' = [owner EXCEPT ![e] = t]
  /\ waiting' = [waiting EXCEPT ![t] = @ + 1]
  /\ UNCHANGED <<network, queue, older, passedBy, drain, posted, faults>>

-----------------------------------------------------------------------------
(* The worker *)

\* The entries that have been pushed at some time.
Pushed == {e \in Entries : fate[e] \notin {"new", "handed"}}

\* An entry that is being put back into a queue that was found empty.
PutAtEnd(x) == \E d \in Drains : drain[d] = [phase |-> "back", entry |-> x]

\* queue-request: pushRequest, at the end.
Push(e) ==
  /\ fate[e] = "handed"
  /\ fate' = [fate EXCEPT ![e] = "pushed"]
  /\ queue' = Append(queue, e)
  /\ older' = [older EXCEPT ![e] = Pushed]
  /\ passedBy' = [x \in Entries |-> IF PutAtEnd(x) THEN passedBy[x] \cup {e} ELSE passedBy[x]]
  /\ UNCHANGED <<network, owner, drain, posted, waiting, faults>>

\* The calls under way.
Running == {d \in Drains : drain[d].phase # "idle"}

\* Mutant of MayStart: every waker starts a call of its own.
MayStartAlways == TRUE

\* A second call while one is running joins that one.
MayStart == Running = {}

\* sync, flush-queue, or the start of the worker.
Wake(d) ==
  /\ MayStart
  /\ drain[d].phase = "idle"
  /\ drain' = [drain EXCEPT ![d].phase = "find"]
  /\ UNCHANGED <<network, fate, owner, queue, older, passedBy, posted, waiting, faults>>

\* shiftRequest reads the first entry, and then deletes it.
Find(d) ==
  /\ drain[d].phase = "find"
  /\ drain' = [drain EXCEPT
       ![d] = IF queue = <<>> THEN Idle ELSE [phase |-> "remove", entry |-> Head(queue)]]
  /\ UNCHANGED <<network, fate, owner, queue, older, passedBy, posted, waiting, faults>>

\* One that has been kept for a week is deleted and no more is said about it.
Remove(d) ==
  /\ drain[d].phase = "remove"
  /\ queue' = IF queue # <<>> /\ Head(queue) = drain[d].entry THEN Tail(queue) ELSE queue
  /\ \/ /\ drain' = [drain EXCEPT ![d].phase = "fetch"]
        /\ UNCHANGED fate
     \/ /\ drain' = [drain EXCEPT ![d] = [phase |-> "find", entry |-> None]]
        /\ fate' = [fate EXCEPT ![drain[d].entry] = "expired"]
  /\ UNCHANGED <<network, owner, older, passedBy, posted, waiting, faults>>

\* Mutant of Fetch: a fetch that rejects is taken for an answer that rejects.
FetchGivesUp(d) ==
  /\ drain[d].phase = "fetch"
  /\ IF network = "up"
     THEN /\ drain' = [drain EXCEPT ![d].phase = "wait"]
          /\ posted' = posted \cup {drain[d].entry}
          /\ UNCHANGED fate
     ELSE /\ drain' = [drain EXCEPT ![d] = [phase |-> "find", entry |-> None]]
          /\ fate' = [fate EXCEPT ![drain[d].entry] = "dropped"]
          /\ UNCHANGED posted
  /\ UNCHANGED <<network, owner, queue, older, passedBy, waiting, faults>>

\* fetch reaches the server, or rejects at once.
Fetch(d) ==
  /\ drain[d].phase = "fetch"
  /\ IF network = "up"
     THEN /\ drain' = [drain EXCEPT ![d].phase = "wait"]
          /\ posted' = posted \cup {drain[d].entry}
     ELSE /\ drain' = [drain EXCEPT ![d].phase = "requeue"]
          /\ UNCHANGED posted
  /\ UNCHANGED <<network, fate, owner, queue, older, passedBy, waiting, faults>>

\* settleQueued, in every window: the news does not say whose message it was.
SettleQueued == waiting' = [t \in Tabs |-> IF waiting[t] > 0 THEN waiting[t] - 1 ELSE 0]

\* Mutant of Broadcast: a message that was rejected is not news.
BroadcastSent(outcome) == IF outcome = "sent" THEN SettleQueued ELSE UNCHANGED waiting

\* Which outcomes of a posted entry every window is told of.
Broadcast(outcome) == SettleQueued

\* An answer that is final: 2xx, or a 4xx that is neither 408 nor 429.
Answered(d, outcome) ==
  /\ drain[d].phase = "wait"
  /\ network = "up"
  /\ drain' = [drain EXCEPT ![d] = [phase |-> "find", entry |-> None]]
  /\ fate' = [fate EXCEPT ![drain[d].entry] = outcome]
  /\ Broadcast(outcome)
  /\ UNCHANGED <<network, owner, queue, older, passedBy, posted, faults>>

\* 5xx, 408 or 429.
Retryable(d) ==
  /\ drain[d].phase = "wait"
  /\ faults < MaxFaults
  /\ faults' = faults + 1
  /\ drain' = [drain EXCEPT ![d].phase = "requeue"]
  /\ UNCHANGED <<network, fate, owner, queue, older, passedBy, posted, waiting>>

\* The connection is lost while the answer is under way.
FetchRejects(d) ==
  /\ drain[d].phase = "wait"
  /\ network = "down"
  /\ drain' = [drain EXCEPT ![d].phase = "requeue"]
  /\ UNCHANGED <<network, fate, owner, queue, older, passedBy, posted, waiting, faults>>

\* unshiftRequest is two transactions.  The first one reads the id of the first entry.
Look(d) ==
  /\ drain[d].phase = "requeue"
  /\ drain' = [drain EXCEPT ![d].phase = IF queue = <<>> THEN "back" ELSE "front"]
  /\ UNCHANGED <<network, fate, owner, queue, older, passedBy, posted, waiting, faults>>

\* Mutant of Requeued: pushRequest, at the end.
RequeuedAtEnd(d) == Append(queue, drain[d].entry)

\* The second one adds the entry under the id that comes before the one read or, when
\* none was read, under the next id of the store, which is behind whatever was pushed
\* in between.
Requeued(d) ==
  IF drain[d].phase = "front" THEN <<drain[d].entry>> \o queue
                              ELSE Append(queue, drain[d].entry)

\* Mutant of Thrown: draining is cleared only by a call that returns.
ThrownDraining == [phase |-> "thrown", entry |-> None]

\* What is left of a call that throws: `finally` clears draining.
Thrown == Idle

Requeue(d) ==
  /\ drain[d].phase \in {"front", "back"}
  /\ queue' = Requeued(d)
  /\ drain' = [drain EXCEPT ![d] = Thrown]
  /\ UNCHANGED <<network, fate, owner, older, passedBy, posted, waiting, faults>>

-----------------------------------------------------------------------------
(* What happens to them *)

\* The browser stops the worker, or the phone dies.
Kill ==
  /\ Running # {}
  /\ faults < MaxFaults
  /\ faults' = faults + 1
  /\ drain' = [d \in Drains |-> Idle]
  /\ fate' = [e \in Entries |-> IF e \in InHand THEN "lost" ELSE fate[e]]
  /\ UNCHANGED <<network, owner, queue, older, passedBy, posted, waiting>>

Disconnect ==
  /\ network = "up"
  /\ faults < MaxFaults
  /\ faults' = faults + 1
  /\ network' = "down"
  /\ UNCHANGED <<fate, owner, queue, older, passedBy, drain, posted, waiting>>

Connect ==
  /\ network = "down"
  /\ network' = "up"
  /\ UNCHANGED <<fate, owner, queue, older, passedBy, drain, posted, waiting, faults>>

Init ==
  /\ network \in {"up", "down"}
  /\ fate = [e \in Entries |-> "new"]
  /\ owner = [e \in Entries |-> None]
  /\ queue = <<>>
  /\ older = [e \in Entries |-> {}] /\ passedBy = [e \in Entries |-> {}]
  /\ drain = [d \in Drains |-> Idle]
  /\ posted = {}
  /\ waiting = [t \in Tabs |-> 0]
  /\ faults = 0

Replay(d) ==
  \/ Find(d) \/ Remove(d) \/ Fetch(d)
  \/ Answered(d, "sent") \/ Answered(d, "dropped")
  \/ Retryable(d) \/ FetchRejects(d) \/ Look(d) \/ Requeue(d)

Next ==
  \/ \E e \in Entries : Push(e) \/ \E t \in Tabs : HandOver(t, e)
  \/ \E d \in Drains : Wake(d) \/ Replay(d)
  \/ Kill \/ Disconnect \/ Connect

\* The browser delivers messages and lets a replay run; the connection comes back;
\* and as long as entries wait, something wakes the worker again: the tab comes
\* online, the browser syncs, the app is opened.
Fairness ==
  /\ \A e \in Entries : WF_outboxVars(Push(e))
  /\ WF_outboxVars(\E d \in Drains : Wake(d))
  /\ \A d \in Drains : WF_outboxVars(Replay(d))
  /\ WF_outboxVars(Connect)

Spec == Init /\ [][Next]_outboxVars /\ Fairness

-----------------------------------------------------------------------------
(* Properties *)

\* Which entries a call holds that is not going to find them in the queue any more.
Holders(e) == {d \in Drains : drain[d].entry = e /\ drain[d].phase # "remove"}

\* An entry that was pushed and has not been answered is in one place, the queue or
\* one hand, however often it failed; one that has been answered is in none, so
\* that it is never posted again.
HeldOnce ==
  /\ \A i, j \in DOMAIN queue : queue[i] = queue[j] => i = j
  /\ \A e \in Entries :
       /\ \A d, x \in Holders(e) : d = x
       /\ fate[e] = "pushed" <=> (\E i \in DOMAIN queue : queue[i] = e) \/ Holders(e) # {}
       /\ ~((\E i \in DOMAIN queue : queue[i] = e) /\ Holders(e) # {})

\* Oldest first, with the exception that the two transactions of putting an entry back
\* make: nothing is posted while an entry that was pushed before it is still to be
\* answered, unless it was itself pushed between them.
InOrder ==
  \A e \in posted : \A x \in older[e] : fate[x] = "pushed" => e \in passedBy[x]

\* The sends that a tab handed over and has not been told of.
Outstanding(t) == {e \in Entries : owner[e] = t /\ fate[e] \notin {"sent", "dropped"}}

\* No tab goes on saying that more is waiting than it has handed over and not been
\* told of, nor ever less than nothing, though the news of every send goes to all
\* of them.
NeverOvercounts == \A t \in Tabs : waiting[t] \in 0..Cardinality(Outstanding(t))

\* The entry in a hand stands before the queue.
Hand == IF InHand = {} THEN <<>> ELSE <<CHOOSE e \in InHand : TRUE>>

TheLine == Hand \o queue

\* The entry in a hand is being put back at the end.
Moving == \E d \in Drains : drain[d].phase = "back"

Line == INSTANCE MessageLine WITH line <- TheLine, moving <- Moving

\* Calls that overlap, connections that drop, entries put back and workers killed
\* come to one line, served from its front: only its first message is posted, it
\* leaves once, it leaves as sent or dropped only after it has been posted, and it
\* loses its place only to the messages that join while it is put back alone.
ImplementsMessageLine == Line!Spec

\* Every message that was handed over is settled in the end.
EverythingSettles == \A e \in Entries : fate[e] = "handed" ~> fate[e] \in Settled

=============================================================================
