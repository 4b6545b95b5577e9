------------------------- MODULE ConversationProofs -------------------------
(* What status writes do for any number of messages, conversations and      *)
(* concurrent calls.                                                         *)
EXTENDS Conversations, FiniteSetTheorems, TLAPS

\* A status write has selected at least the message that it was called with, and
\* its first arm only what is unread.
SelectsSomething ==
  \A c \in Calls : call[c].step = "write" => call[c].moved \cup call[c].rest # {}

IInv == TypeOK /\ SelectsSomething

-----------------------------------------------------------------------------
(* Facts about the definitions *)

LEMMA CallForm ==
  ASSUME TypeOK, NEW c \in Calls
  PROVE  /\ call[c].step \in {"idle", "done", "write", "flag", "unread"}
         /\ call[c].step = "write" => call[c] \in StatusCalls
         /\ call[c].step \in {"flag", "unread"} => call[c] \in FlagCalls
  BY DEF TypeOK, Idle, Done, StatusCalls, FlagCalls

LEMMA DoneIsNoWrite == Done.step # "write"
  BY DEF Done

LEMMA KeyType == ASSUME TypeOK, NEW m \in Mail PROVE Key(m) \in Mail
  BY ConversationsAssumption DEF TypeOK, Key

LEMMA MarkedType ==
  ASSUME TypeOK, NEW set, NEW to \in Statuses
  PROVE  Marked(set, to) \in [Mail -> Statuses]
  BY DEF TypeOK, Marked

-----------------------------------------------------------------------------
(* The inductive invariant *)

LEMMA InvInit == Init => IInv
  BY DEF Init, IInv, TypeOK, SelectsSomething, Idle, Statuses

LEMMA InvStep == IInv /\ [Next]_conversationVars => IInv'
<1> SUFFICES ASSUME IInv, [Next]_conversationVars PROVE IInv'
  OBVIOUS
<1> USE DEF IInv
<1>1. ASSUME NEW m \in Mail, Record(m) PROVE IInv'
  BY <1>1 DEF Record, TypeOK, SelectsSomething, Statuses
<1>2. ASSUME NEW m \in Mail, Hydrate(m) PROVE IInv'
  BY <1>2 DEF Hydrate, TypeOK, SelectsSomething
<1>3. ASSUME NEW k \in Mail, ReplyMarksRead(k) PROVE IInv'
  <2>1. status' \in [Mail -> Statuses]
    BY <1>3, MarkedType DEF ReplyMarksRead, Statuses
  <2> QED
    BY <1>3, <2>1 DEF ReplyMarksRead, TypeOK, SelectsSomething
<1>4. ASSUME NEW k \in Mail, SnoozeElapses(k) PROVE IInv'
  BY <1>4 DEF SnoozeElapses, TypeOK, SelectsSomething
<1>5. ASSUME NEW c \in Calls, NEW m \in Mail, BeginFlag(c, m) PROVE IInv'
  <2>1. call' = [call EXCEPT ![c] = [step |-> "flag", key |-> Key(m)]]
    BY <1>5 DEF BeginFlag
  <2>2. [step |-> "flag", key |-> Key(m)] \in FlagCalls
    BY KeyType DEF FlagCalls
  <2> QED
    BY <1>5, <2>1, <2>2 DEF BeginFlag, TypeOK, SelectsSomething
<1>6. ASSUME NEW c \in Calls, NEW m \in Mail, NEW to \in Statuses, BeginStatus(c, m, to)
      PROVE IInv'
  <2> DEFINE moved == {x \in Conversation(Key(m)) : status[x] = "unread"}
             new   == [step |-> "write", key |-> Key(m), to |-> to,
                       moved |-> moved, rest |-> Others(Key(m))]
  <2>1. call' = [call EXCEPT ![c] = new]
    BY <1>6 DEF BeginStatus
  <2>2. new \in StatusCalls /\ new.moved \cap new.rest = {}
    BY KeyType DEF StatusCalls, Conversation, Others
  <2>3. new.moved \cup new.rest # {}
    <3>1. m \in Conversation(Key(m))
      BY <1>6 DEF BeginStatus, Conversation
    <3> QED
      BY <3>1 DEF Others
  <2> HIDE DEF new
  <2> QED
    BY <1>6, <2>1, <2>2, <2>3 DEF BeginStatus, TypeOK, SelectsSomething
<1>7. ASSUME NEW c \in Calls, FinishStatus(c) PROVE IInv'
  <2>1. status' \in [Mail -> Statuses]
    BY <1>7, MarkedType, CallForm DEF FinishStatus, StatusCalls
  <2>2. call' = [call EXCEPT ![c] = Done]
    BY <1>7 DEF FinishStatus
  <2> QED
    BY <1>7, <2>1, <2>2, DoneIsNoWrite DEF FinishStatus, TypeOK, SelectsSomething
<1>8. ASSUME NEW c \in Calls, UnreadAgain(c) PROVE IInv'
  <2>1. status' \in [Mail -> Statuses]
    BY <1>8, MarkedType DEF UnreadAgain, Statuses
  <2> QED
    BY <1>8, <2>1 DEF UnreadAgain, TypeOK, SelectsSomething, Done
<1>9. ASSUME NEW c \in Calls, CallFails(c) PROVE IInv'
  BY <1>9, CallForm DEF CallFails, TypeOK, SelectsSomething, Done, FlagCalls
<1>10. ASSUME NEW c \in Calls, Snooze(c) PROVE IInv'
  BY <1>10, CallForm DEF Snooze, TypeOK, SelectsSomething, Done, FlagCalls
<1>11. ASSUME NEW c \in Calls, Unsnooze(c) PROVE IInv'
  <2>1. [call[c] EXCEPT !.step = "unread"] \in FlagCalls
    BY <1>11, CallForm DEF Unsnooze, FlagCalls
  <2>2. call' = [call EXCEPT ![c] = [call[c] EXCEPT !.step = "unread"]]
    BY <1>11 DEF Unsnooze
  <2>3. flags' \in [Mail -> [snooze : {"none", "later", "due"}, muted : BOOLEAN]]
    BY <1>11, CallForm DEF Unsnooze, TypeOK, FlagCalls
  <2> QED
    BY <1>11, <2>1, <2>2, <2>3 DEF Unsnooze, TypeOK, SelectsSomething, FlagCalls
<1>12. ASSUME NEW c \in Calls, NEW muted \in BOOLEAN, SetMuted(c, muted) PROVE IInv'
  <2>1. flags' \in [Mail -> [snooze : {"none", "later", "due"}, muted : BOOLEAN]]
    BY <1>12, CallForm DEF SetMuted, TypeOK, FlagCalls
  <2> QED
    BY <1>12, <2>1 DEF SetMuted, TypeOK, SelectsSomething, Done
<1>13. ASSUME WakeBegin PROVE IInv'
  <2>1. flags' \in [Mail -> [snooze : {"none", "later", "due"}, muted : BOOLEAN]]
    BY <1>13 DEF WakeBegin, TypeOK
  <2> QED
    BY <1>13, <2>1 DEF WakeBegin, TypeOK, SelectsSomething, Due
<1>14. ASSUME WakeFinish PROVE IInv'
  <2>1. status' \in [Mail -> Statuses]
    BY <1>14, MarkedType DEF WakeFinish, Statuses
  <2> QED
    BY <1>14, <2>1 DEF WakeFinish, TypeOK, SelectsSomething
<1>15. ASSUME WakeDies PROVE IInv'
  BY <1>15 DEF WakeDies, TypeOK, SelectsSomething
<1>16. CASE UNCHANGED conversationVars
  BY <1>16 DEF conversationVars, TypeOK, SelectsSomething
<1> QED
  BY <1>1, <1>2, <1>3, <1>4, <1>5, <1>6, <1>7, <1>8, <1>9, <1>10, <1>11, <1>12, <1>13,
     <1>14, <1>15, <1>16 DEF Next, CallStep

LEMMA Invariant == Spec => []IInv
  BY InvInit, InvStep, PTL DEF Spec

\* Rows, statuses, flags and the snapshots of calls keep their types, and the two
\* arms of a status write never select one row (thread.ts:463-465).
THEOREM TypeCorrect == Spec => []TypeOK
<1>1. IInv => TypeOK
  BY DEF IInv
<1> QED
  BY Invariant, <1>1, PTL

-----------------------------------------------------------------------------
(* What a status write does *)

LEMMA FinishFacts ==
  ASSUME IInv, NEW c \in Calls, FinishStatus(c)
  PROVE  /\ call[c] \in StatusCalls
         /\ Moved(c) \subseteq Mail /\ Rest(c) \subseteq Mail
         /\ call[c].key \in Mail /\ call[c].to \in Statuses
         /\ got' = got
         /\ \A m \in Mail : status'[m] = IF m \in Touched(c) THEN call[c].to ELSE status[m]
  <1>1. call[c] \in StatusCalls
    BY CallForm DEF IInv, FinishStatus
  <1>2. status' = Marked(Touched(c), call[c].to) /\ got' = got
    BY DEF FinishStatus, Touched
  <1> QED
    BY <1>1, <1>2 DEF StatusCalls, Marked, Moved, Rest

\* A write takes one off the badge exactly when it took a message out of unread
\* itself, whatever other calls do between its snapshot and its locks.
THEOREM EveryDecrementIsEarned == Spec => DecrementsAreEarned
<1>1. ASSUME IInv, [Next]_conversationVars PROVE DecrementIsEarned
  <2> SUFFICES ASSUME NEW c \in Calls, FinishStatus(c)
               PROVE  UnreadDelta(c) = -1
                        <=> \E m \in Mail : status[m] = "unread" /\ status'[m] # "unread"
    BY DEF DecrementIsEarned
  <2>1. \A m \in Mail : status'[m] = IF m \in Touched(c) THEN call[c].to ELSE status[m]
    BY <1>1, FinishFacts
  <2>2. Moved(c) \subseteq Mail /\ \A m \in Moved(c) : status[m] = "unread"
    BY <1>1, FinishFacts DEF Moved
  <2>3. \A m \in Rest(c) : status[m] # "unread"
    BY DEF Rest
  <2>4. CASE call[c].to = "unread"
    BY <2>1, <2>4 DEF UnreadDelta
  <2>5. CASE call[c].to # "unread"
    BY <2>1, <2>2, <2>3, <2>5 DEF UnreadDelta, Touched
  <2> QED
    BY <2>4, <2>5
<1> QED
  BY Invariant, <1>1, PTL DEF Spec, DecrementsAreEarned

\* A write whose conversation nobody touched meanwhile moves all of it and leaves
\* every other conversation alone.
LEMMA UndisturbedMovesAll ==
  ASSUME IInv, NEW c \in Calls, FinishStatus(c), Undisturbed(c)
  PROVE  /\ Touched(c) = Conversation(call[c].key)
         /\ Touched(c) # {}
         /\ Moved(c) = {m \in Conversation(call[c].key) : status[m] = "unread"}
         /\ \A m \in Conversation(call[c].key) : status'[m] = call[c].to
  <1> DEFINE k == call[c].key
  <1>1. call[c].moved \cup call[c].rest = Conversation(k)
    BY DEF Undisturbed
  <1>2. \A m \in Mail : (m \in call[c].moved) <=> (m \in Conversation(k) /\ status[m] = "unread")
    BY DEF Undisturbed
  <1>3. Conversation(k) \subseteq Mail /\ \A m \in Conversation(k) : Key(m) = k
    BY DEF Conversation
  <1>4. call[c].moved \subseteq Mail /\ call[c].rest \subseteq Mail
    BY FinishFacts DEF StatusCalls
  <1>5. Moved(c) = call[c].moved
    BY <1>2, <1>3, <1>4 DEF Moved
  <1>6. call[c].moved \cap call[c].rest = {} /\ call[c].moved \cup call[c].rest # {}
    BY DEF IInv, TypeOK, SelectsSomething, FinishStatus
  <1>7. Rest(c) = call[c].rest
    BY <1>1, <1>2, <1>3, <1>4, <1>6 DEF Rest
  <1>8. Touched(c) = Conversation(k) /\ Touched(c) # {}
    BY <1>1, <1>5, <1>6, <1>7 DEF Touched
  <1>9. Moved(c) = {m \in Conversation(k) : status[m] = "unread"}
    BY <1>2, <1>3, <1>4, <1>5
  <1> QED
    BY <1>3, <1>8, <1>9, FinishFacts

LEMMA KeysUnchanged ==
  ASSUME IInv, NEW c \in Calls, FinishStatus(c)
  PROVE  \A k : Conversation(k)' = Conversation(k)
  BY FinishFacts DEF Conversation, Key

\* The unread conversations after such a write: the one it is about has joined them,
\* or has left them.
LEMMA UndisturbedUnread ==
  ASSUME IInv, NEW c \in Calls, FinishStatus(c), Undisturbed(c)
  PROVE  UnreadConversations' = IF call[c].to = "unread"
                                THEN UnreadConversations \cup {call[c].key}
                                ELSE UnreadConversations \ {call[c].key}
  <1> DEFINE k == call[c].key
  <1>1. k \in Mail /\ \A x : Conversation(x)' = Conversation(x)
    BY FinishFacts, KeysUnchanged
  <1>2. /\ Conversation(k) # {}
        /\ \A m \in Conversation(k) : status'[m] = call[c].to
    BY UndisturbedMovesAll
  <1>3. \A x \in Mail \ {k} : \A m \in Conversation(x) : status'[m] = status[m]
    <2>1. \A x \in Mail \ {k} : \A m \in Conversation(x) : m \in Mail /\ m \notin Conversation(k)
      BY DEF Conversation
    <2> QED
      BY <2>1, UndisturbedMovesAll, FinishFacts
  <1>4. UnreadConversations' = {x \in Mail : \E m \in Conversation(x) : status'[m] = "unread"}
    BY <1>1 DEF UnreadConversations
  <1> QED
    BY <1>1, <1>2, <1>3, <1>4 DEF UnreadConversations

\* A status write whose conversation nobody touched between its snapshot and its locks
\* moves all of it, finds it, and tells the badge by how much the number of unread
\* conversations has changed: only a race can make the badge wrong.
THEOREM EveryUndisturbedIsExact == Spec => UndisturbedAreExact
<1>1. ASSUME IInv, [Next]_conversationVars PROVE UndisturbedIsExact
  <2> SUFFICES ASSUME NEW c \in Calls, FinishStatus(c), Undisturbed(c)
               PROVE  /\ Touched(c) # {}
                      /\ \A m \in Conversation(call[c].key) : status'[m] = call[c].to
                      /\ UnreadDelta(c) = Cardinality(UnreadConversations')
                                            - Cardinality(UnreadConversations)
    BY DEF UndisturbedIsExact
  <2> DEFINE k == call[c].key
             unread == UnreadConversations
  <2>1. k \in Mail /\ unread \subseteq Mail
    BY <1>1, FinishFacts DEF UnreadConversations
  <2>2. IsFiniteSet(unread) /\ Cardinality(unread) \in Nat
    BY <2>1, ConversationsAssumption, FS_Subset, FS_CardinalityType
  <2>3. k \in unread <=> Moved(c) # {}
    BY <1>1, <2>1, UndisturbedMovesAll DEF UnreadConversations
  <2>4. Touched(c) # {} /\ \A m \in Conversation(k) : status'[m] = call[c].to
    BY <1>1, UndisturbedMovesAll
  <2>5. CASE call[c].to = "unread"
    <3>1. unread' = unread \cup {k}
      BY <1>1, <2>5, UndisturbedUnread
    <3>2. Cardinality(unread') = IF k \in unread THEN Cardinality(unread)
                                                 ELSE Cardinality(unread) + 1
      BY <2>2, <3>1, FS_AddElement
    <3> QED
      BY <2>2, <2>3, <2>4, <2>5, <3>2 DEF UnreadDelta
  <2>6. CASE call[c].to # "unread"
    <3>1. unread' = unread \ {k}
      BY <1>1, <2>6, UndisturbedUnread
    <3>2. Cardinality(unread') = IF k \in unread THEN Cardinality(unread) - 1
                                                 ELSE Cardinality(unread)
      BY <2>2, <3>1, FS_RemoveElement
    <3> QED
      BY <2>2, <2>3, <2>4, <2>6, <3>2 DEF UnreadDelta
  <2> QED
    BY <2>5, <2>6
<1> QED
  BY Invariant, <1>1, PTL DEF Spec, UndisturbedAreExact

-----------------------------------------------------------------------------
(* Reminders *)

\* A conversation whose snooze is over and which somebody has yet to mark unread: the
\* cron has not begun with it, or is between its statements, or a call is.
Owed(k) ==
  \/ flags[k].snooze = "due"
  \/ k \in waking
  \/ \E c \in Calls : call[c].step = "unread" /\ call[c].key = k

NothingRead(k) == \A m \in Conversation(k) : status[m] # "read"

\* A reminder stays owed until it is given; or it is put off, or the conversation is
\* muted, or the statement that would have given it is known to be lost.
StaysOwed(k) ==
  Owed(k) =>
    \/ Owed(k)' \/ NothingRead(k)'
    \/ flags'[k].snooze = "later" \/ flags[k].muted \/ k \in lost'

LEMMA MarkedUnread ==
  ASSUME TypeOK, NEW k \in Mail, NEW set, UNCHANGED got,
         status' = Marked(set, "unread"),
         {m \in Conversation(k) : status[m] = "read"} \subseteq set
  PROVE  NothingRead(k)'
<1>1. Conversation(k)' = Conversation(k)
  BY DEF Conversation, Key
<1>2. \A m \in Conversation(k) : status'[m] # "read"
  BY DEF Marked, Conversation
<1> QED
  BY <1>1, <1>2 DEF NothingRead

\* What leaves the flags, the cron and the calls alone, or only begins a call, lets
\* every debt stand.
LEMMA DebtsStand ==
  ASSUME NEW k \in Mail, UNCHANGED waking,
         flags[k].snooze = "due" => flags'[k].snooze = "due",
         \A c \in Calls : call[c].step = "unread" => call'[c] = call[c]
  PROVE  StaysOwed(k)
  BY DEF StaysOwed, Owed

LEMMA ReminderStep ==
  ASSUME IInv, NEW k \in Mail, [Next]_conversationVars
  PROVE  StaysOwed(k)
<1> USE DEF IInv
<1>1. CASE \E m \in Mail : Record(m) \/ Hydrate(m) \/ ReplyMarksRead(m)
  BY <1>1, DebtsStand DEF Record, Hydrate, ReplyMarksRead
<1>2. ASSUME NEW j \in Mail, SnoozeElapses(j) PROVE StaysOwed(k)
  BY <1>2, DebtsStand DEF SnoozeElapses, TypeOK
<1>3. ASSUME NEW c \in Calls, NEW m \in Mail, BeginFlag(c, m) PROVE StaysOwed(k)
  BY <1>3, DebtsStand DEF BeginFlag, TypeOK, Idle
<1>4. ASSUME NEW c \in Calls, NEW m \in Mail, NEW to \in Statuses, BeginStatus(c, m, to)
      PROVE  StaysOwed(k)
  BY <1>4, DebtsStand DEF BeginStatus, TypeOK, Idle
<1>5. ASSUME NEW c \in Calls, FinishStatus(c) PROVE StaysOwed(k)
  BY <1>5, DebtsStand DEF FinishStatus, TypeOK
<1>6. ASSUME NEW c \in Calls, NEW muted \in BOOLEAN, SetMuted(c, muted) PROVE StaysOwed(k)
  <2>1. flags'[k].snooze = flags[k].snooze
    BY <1>6, CallForm DEF SetMuted, FlagCalls, TypeOK
  <2> QED
    BY <1>6, <2>1, DebtsStand DEF SetMuted, TypeOK
<1>7. ASSUME NEW c \in Calls, Snooze(c) PROVE StaysOwed(k)
  <2>1. call[c].key \in Mail
    BY <1>7, CallForm DEF Snooze, FlagCalls
  <2>2. CASE call[c].key = k
    BY <1>7, <2>1, <2>2 DEF Snooze, TypeOK, StaysOwed
  <2>3. CASE call[c].key # k
    BY <1>7, <2>1, <2>3, DebtsStand DEF Snooze, TypeOK
  <2> QED
    BY <2>2, <2>3
<1>8. ASSUME NEW c \in Calls, Unsnooze(c) PROVE StaysOwed(k)
  <2>1. call[c] \in FlagCalls /\ call[c].key \in Mail
    BY <1>8, CallForm DEF Unsnooze, FlagCalls
  <2>2. call'[c].step = "unread" /\ call'[c].key = call[c].key
    BY <1>8, <2>1 DEF Unsnooze, TypeOK, FlagCalls
  <2>3. CASE call[c].key = k
    BY <2>2, <2>3 DEF StaysOwed, Owed
  <2>4. CASE call[c].key # k
    BY <1>8, <2>1, <2>4, DebtsStand DEF Unsnooze, TypeOK
  <2> QED
    BY <2>3, <2>4
<1>9. ASSUME NEW c \in Calls, UnreadAgain(c) PROVE StaysOwed(k)
  <2>1. CASE call[c].key = k
    <3>1. NothingRead(k)'
      BY <1>9, <2>1, MarkedUnread DEF UnreadAgain
    <3> QED
      BY <3>1 DEF StaysOwed
  <2>2. CASE call[c].key # k
    BY <1>9, <2>2 DEF UnreadAgain, TypeOK, StaysOwed, Owed
  <2> QED
    BY <2>1, <2>2
<1>10. ASSUME NEW c \in Calls, CallFails(c) PROVE StaysOwed(k)
  BY <1>10 DEF CallFails, TypeOK, StaysOwed, Owed
<1>11. CASE WakeBegin
  <2>1. ASSUME flags[k].snooze = "due" PROVE k \in waking'
    BY <1>11, <2>1 DEF WakeBegin, Due
  <2>2. waking = {} /\ UNCHANGED call
    BY <1>11 DEF WakeBegin
  <2> QED
    BY <2>1, <2>2 DEF StaysOwed, Owed
<1>12. CASE WakeFinish
  <2>1. CASE k \in Woken
    <3>1. NothingRead(k)'
      BY <1>12, <2>1, MarkedUnread DEF WakeFinish, Conversation
    <3> QED
      BY <3>1 DEF StaysOwed
  <2>2. CASE k \in waking /\ flags[k].muted
    BY <2>2 DEF StaysOwed
  <2>3. CASE k \notin waking
    BY <1>12, <2>3 DEF WakeFinish, StaysOwed, Owed
  <2> QED
    BY <2>1, <2>2, <2>3 DEF Woken
<1>13. CASE WakeDies
  BY <1>13 DEF WakeDies, StaysOwed, Owed
<1>14. CASE UNCHANGED conversationVars
  BY <1>14, DebtsStand DEF conversationVars
<1> QED
  BY <1>1, <1>2, <1>3, <1>4, <1>5, <1>6, <1>7, <1>8, <1>9, <1>10, <1>11, <1>12, <1>13,
     <1>14 DEF Next, CallStep

\* A reminder that is owed is never forgotten: the two statements of the cron and of
\* un-snoozing hand it over without a gap, whatever is written, hydrated or snoozed
\* in between.  Only a lost second statement ends it, and is remembered as such: that
\* is what SnoozeReminds has left to fairness.
THEOREM NoReminderIsForgotten ==
  Spec => [][\A k \in Mail : StaysOwed(k)]_conversationVars
<1>1. IInv /\ [Next]_conversationVars => [\A k \in Mail : StaysOwed(k)]_conversationVars
  BY ReminderStep
<1> QED
  BY Invariant, <1>1, PTL DEF Spec

=============================================================================
