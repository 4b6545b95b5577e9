---------------------------- MODULE Conversations ----------------------------
(* The conversations of the inbox: the status every received message carries *)
(* and the flags a conversation carries, under concurrent Server Actions, the *)
(* hydration that moves a message into the conversation it answers, and the  *)
(* cron that wakes snoozed conversations.                                    *)
(*                                                                          *)
(* A conversation is known by its thread key, the id of its first message;   *)
(* until its body is fetched a message is a conversation of its own.  Every  *)
(* statement runs at READ COMMITTED: one that has to wait for a row checks    *)
(* its WHERE again on the row it then finds, and never looks at rows that its *)
(* snapshot did not select.                                                  *)
EXTENDS Integers, FiniteSets

CONSTANTS
  Mail,       \* the received messages
  Root,       \* the first message of each one's conversation, from References
  Calls       \* bound: the Server Actions, each called once

ASSUME ConversationsAssumption ==
  /\ IsFiniteSet(Mail)
  /\ Root \in [Mail -> Mail]

VARIABLES
  got,      \* inbound_emails: no row, metadata only, or the body as well
  status,   \* inbound_emails.status
  flags,    \* threads: snoozed_until and muted of a conversation
  call,     \* each Server Action: its next statement and what it holds
  waking,   \* wakeSnoozedThreads: the conversations its first statement returned
  lost      \* history: conversations whose waking died between two statements

conversationVars == <<got, status, flags, call, waking, lost>>

Statuses == {"read", "unread", "archived"}   \* spam and trash are as archived

Idle == [step |-> "idle"]
Done == [step |-> "done"]
StatusCalls == [step : {"write"}, key : Mail, to : Statuses,
                moved : SUBSET Mail, rest : SUBSET Mail]
FlagCalls   == [step : {"flag", "unread"}, key : Mail]

\* The two arms of a status write never select one row, which Postgres would not
\* update twice in one statement (thread.ts:463-465).
TypeOK ==
  /\ got \in [Mail -> {"none", "stub", "full"}]
  /\ status \in [Mail -> Statuses]
  /\ flags \in [Mail -> [snooze : {"none", "later", "due"}, muted : BOOLEAN]]
  /\ call \in [Calls -> {Idle, Done} \cup StatusCalls \cup FlagCalls]
  /\ \A c \in Calls : call[c].step = "write" => call[c].moved \cap call[c].rest = {}
  /\ waking \subseteq Mail
  /\ lost \subseteq Mail

-----------------------------------------------------------------------------
(* Which conversation a message is in *)

\* deriveThreadKey: the head of References, which only the body's headers tell.
Key(m) == IF got[m] = "full" THEN Root[m] ELSE m

Conversation(k) == {m \in Mail : got[m] # "none" /\ Key(m) = k}

UnreadConversations ==
  {k \in Mail : \E m \in Conversation(k) : status[m] = "unread"}

\* recordInboundEmail
Record(m) ==
  /\ got[m] = "none"
  /\ got' = [got EXCEPT ![m] = "stub"]
  /\ status' = [status EXCEPT ![m] = "unread"]
  /\ UNCHANGED <<flags, call, waking, lost>>

\* storeInboundContent moves the row to its conversation and leaves its status; the
\* flags stay with the key they were set on.
Hydrate(m) ==
  /\ got[m] = "stub"
  /\ got' = [got EXCEPT ![m] = "full"]
  /\ UNCHANGED <<status, flags, call, waking, lost>>

Marked(set, to) == [m \in Mail |-> IF m \in set THEN to ELSE status[m]]

-----------------------------------------------------------------------------
(* applyThreadStatus, for setThreadStatus and markThreadRead *)

\* What the arm for messages that are not unread selects.
Others(k) == {m \in Conversation(k) : status[m] # "unread"}

\* The snapshot: the key of the message, and the rows of the two arms.
BeginStatus(c, m, to) ==
  /\ call[c] = Idle
  /\ got[m] # "none"
  /\ LET k == Key(m) IN
     call' = [call EXCEPT ![c] =
       [step  |-> "write", key |-> k, to |-> to,
        moved |-> {x \in Conversation(k) : status[x] = "unread"},
        rest  |-> Others(k)]]
  /\ UNCHANGED <<got, status, flags, waking, lost>>

\* The rows each arm still finds as it selected them, once it holds their locks.
\* Mutant: what the snapshot counted.
CountedMoved(c) == call[c].moved
Moved(c) == {m \in call[c].moved : Key(m) = call[c].key /\ status[m] = "unread"}

Rest(c)  == {m \in call[c].rest : Key(m) = call[c].key /\ status[m] # "unread"}

FinishStatus(c) ==
  /\ call[c].step = "write"
  /\ status' = Marked(Moved(c) \cup Rest(c), call[c].to)
  /\ call' = [call EXCEPT ![c] = Done]
  /\ UNCHANGED <<got, flags, waking, lost>>

Touched(c) == Moved(c) \cup Rest(c)

\* Mutant: anything that is not unread takes one off, as the store once assumed.
DeltaFromStatus(c) == IF call[c].to = "unread" THEN 1 ELSE -1

\* unreadDeltaFor: what the finished write tells the badge of every open client.
UnreadDelta(c) ==
  IF call[c].to = "unread"
  THEN IF Moved(c) # {} \/ Touched(c) = {} THEN 0 ELSE 1
  ELSE IF Moved(c) # {} THEN -1 ELSE 0

\* sendMessage, once the reply has gone out: the key is the draft's.
ReplyMarksRead(k) ==
  /\ Conversation(k) # {}
  /\ status' = Marked({m \in Conversation(k) : status[m] = "unread"}, "read")
  /\ UNCHANGED <<got, flags, call, waking, lost>>

-----------------------------------------------------------------------------
(* toggleMute and snoozeThread *)

\* threadKeyOf
BeginFlag(c, m) ==
  /\ call[c] = Idle
  /\ got[m] # "none"
  /\ call' = [call EXCEPT ![c] = [step |-> "flag", key |-> Key(m)]]
  /\ UNCHANGED <<got, status, flags, waking, lost>>

\* setFlags: an upsert of the one flag.
SetMuted(c, muted) ==
  /\ call[c].step = "flag"
  /\ flags' = [flags EXCEPT ![call[c].key].muted = muted]
  /\ call' = [call EXCEPT ![c] = Done]
  /\ UNCHANGED <<got, status, waking, lost>>

Snooze(c) ==
  /\ call[c].step = "flag"
  /\ flags' = [flags EXCEPT ![call[c].key].snooze = "later"]
  /\ call' = [call EXCEPT ![c] = Done]
  /\ UNCHANGED <<got, status, waking, lost>>

Unsnooze(c) ==
  /\ call[c].step = "flag"
  /\ flags' = [flags EXCEPT ![call[c].key].snooze = "none"]
  /\ call' = [call EXCEPT ![c].step = "unread"]
  /\ UNCHANGED <<got, status, waking, lost>>

UnreadAgain(c) ==
  /\ call[c].step = "unread"
  /\ status' = Marked({m \in Conversation(call[c].key) : status[m] = "read"}, "unread")
  /\ call' = [call EXCEPT ![c] = Done]
  /\ UNCHANGED <<got, flags, waking, lost>>

\* The process dies, or Postgres ends one of two statements that wait for each other.
CallFails(c) ==
  /\ call[c] \notin {Idle, Done}
  /\ call' = [call EXCEPT ![c] = Done]
  /\ lost' = IF call[c].step = "unread" THEN lost \cup {call[c].key} ELSE lost
  /\ UNCHANGED <<got, status, flags, waking>>

-----------------------------------------------------------------------------
(* wakeSnoozedThreads *)

SnoozeElapses(k) ==
  /\ flags[k].snooze = "later"
  /\ flags' = [flags EXCEPT ![k].snooze = "due"]
  /\ UNCHANGED <<got, status, call, waking, lost>>

Due == {k \in Mail : flags[k].snooze = "due"}

WakeBegin ==
  /\ waking = {}
  /\ Due # {}
  /\ waking' = Due
  /\ flags' = [k \in Mail |-> IF k \in Due THEN [flags[k] EXCEPT !.snooze = "none"] ELSE flags[k]]
  /\ UNCHANGED <<got, status, call, lost>>

\* Mutant: the second statement looks for due conversations again.
WokenDue == waking \cap Due

\* The conversations the second statement is about.
Woken == {k \in waking : ~flags[k].muted}

WakeFinish ==
  /\ waking # {}
  /\ status' = Marked({m \in Mail : /\ got[m] # "none"
                                   /\ Key(m) \in Woken
                                   /\ status[m] = "read"}, "unread")
  /\ waking' = {}
  /\ UNCHANGED <<got, flags, call, lost>>

\* The step is tried again, and its first statement finds nothing due.
WakeDies ==
  /\ waking # {}
  /\ waking' = {}
  /\ lost' = lost \cup waking
  /\ UNCHANGED <<got, status, flags, call>>

-----------------------------------------------------------------------------
Init ==
  /\ got = [m \in Mail |-> "none"]
  /\ status = [m \in Mail |-> "unread"]
  /\ flags = [k \in Mail |-> [snooze |-> "none", muted |-> FALSE]]
  /\ call = [c \in Calls |-> Idle]
  /\ waking = {}
  /\ lost = {}

CallStep(c) == FinishStatus(c) \/ UnreadAgain(c) \/ CallFails(c)

Next ==
  \/ \E m \in Mail : Record(m) \/ Hydrate(m) \/ ReplyMarksRead(m) \/ SnoozeElapses(m)
  \/ \E c \in Calls, m \in Mail :
       BeginFlag(c, m) \/ \E to \in Statuses : BeginStatus(c, m, to)
  \/ \E c \in Calls :
       CallStep(c) \/ Snooze(c) \/ Unsnooze(c) \/ \E muted \in BOOLEAN : SetMuted(c, muted)
  \/ WakeBegin \/ WakeFinish \/ WakeDies

\* The cron fires every five minutes; what runs ends, by its last statement or not.
Fairness ==
  /\ WF_conversationVars(WakeBegin)
  /\ WF_conversationVars(WakeFinish \/ WakeDies)
  /\ \A c \in Calls : WF_conversationVars(CallStep(c))

Spec == Init /\ [][Next]_conversationVars /\ Fairness

-----------------------------------------------------------------------------
(* Properties *)

\* A write takes one off the badge exactly when it took a message out of unread
\* itself, however many other calls were at the same messages (thread.ts:453-459).
DecrementIsEarned ==
  \A c \in Calls : FinishStatus(c) =>
    (UnreadDelta(c) = -1 <=> \E m \in Mail : status[m] = "unread" /\ status'[m] # "unread")

DecrementsAreEarned == [][DecrementIsEarned]_conversationVars

\* The rows of the conversation are still as the snapshot saw them.
Undisturbed(c) ==
  /\ call[c].moved \cup call[c].rest = Conversation(call[c].key)
  /\ \A m \in Mail : (m \in call[c].moved) <=> (m \in Conversation(call[c].key) /\ status[m] = "unread")

\* Only a race makes a write wrong: one whose conversation nobody touched meanwhile
\* moves all of it, never answers "Thread not found", and tells the badge by how much
\* the number of unread conversations has changed.
UndisturbedIsExact ==
  \A c \in Calls : FinishStatus(c) /\ Undisturbed(c) =>
    /\ Touched(c) # {}
    /\ \A m \in Conversation(call[c].key) : status'[m] = call[c].to
    /\ UnreadDelta(c) = Cardinality(UnreadConversations') - Cardinality(UnreadConversations)

UndisturbedAreExact == [][UndisturbedIsExact]_conversationVars

\* A conversation whose snooze is over has nothing read left in it at some time
\* after, unless it is muted, snoozed again, or a statement of its waking was lost.
SnoozeReminds ==
  \A k \in Mail : flags[k].snooze = "due" ~>
    \/ flags[k].snooze = "none" /\ \A m \in Conversation(k) : status[m] # "read"
    \/ flags[k].snooze = "later"
    \/ flags[k].muted
    \/ k \in lost

=============================================================================
