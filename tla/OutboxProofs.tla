---------------------------- MODULE OutboxProofs ----------------------------
(* Proofs about the offline outbox: it is one line of messages, served from *)
(* its front, and no tab counts more sends than it is waiting for.          *)
EXTENDS Outbox, FiniteSetTheorems, SequenceTheorems, TLAPS

-----------------------------------------------------------------------------
(* Sequences: one without its first, and with its first at the end.         *)

LEMMA WithoutFirst ==
  ASSUME NEW S, NEW s \in Seq(S), s # <<>>
  PROVE  /\ Len(s) \in Nat /\ Len(s) >= 1
         /\ Head(s) = s[1] /\ Head(s) \in S
         /\ Tail(s) \in Seq(S) /\ Len(Tail(s)) = Len(s) - 1
         /\ \A i \in 1..(Len(s) - 1) : i + 1 \in 1..Len(s) /\ Tail(s)[i] = s[i + 1]
<1>1. Len(s) \in Nat /\ Len(s) >= 1
  BY EmptySeq, LenProperties
<1>2. Tail(s) \in Seq(S) /\ Len(Tail(s)) = Len(s) - 1 /\ Head(s) = s[1] /\ Head(s) \in S
  BY HeadTailProperties
<1> QED
  BY <1>1, <1>2, HeadTailProperties

LEMMA FirstToTheEnd ==
  ASSUME NEW S, NEW s \in Seq(S), s # <<>>, NEW t, t = Append(Tail(s), Head(s))
  PROVE  /\ t \in Seq(S) /\ Len(t) = Len(s) /\ t # <<>>
         /\ t[Len(s)] = s[1]
         /\ \A i \in 1..(Len(s) - 1) : i + 1 \in 1..Len(s) /\ t[i] = s[i + 1]
<1>1. /\ t \in Seq(S) /\ Len(t) = Len(Tail(s)) + 1 /\ t[Len(Tail(s)) + 1] = Head(s)
      /\ \A i \in 1..Len(Tail(s)) : t[i] = Tail(s)[i]
  BY WithoutFirst, AppendProperties
<1>2. Len(t) = Len(s) /\ t[Len(s)] = s[1]
  BY <1>1, WithoutFirst
<1>3. t # <<>>
  BY <1>1, <1>2, WithoutFirst, EmptySeq
<1> QED
  BY <1>1, <1>2, <1>3, WithoutFirst

\* An entry before a sequence: what is first and what is behind it.
LEMMA OneBefore ==
  ASSUME NEW S, NEW e \in S, NEW s \in Seq(S)
  PROVE  /\ <<e>> \o s \in Seq(S) /\ <<e>> \o s # <<>> /\ Len(<<e>> \o s) = Len(s) + 1
         /\ Head(<<e>> \o s) = e /\ Tail(<<e>> \o s) = s
         /\ (<<e>> \o s)[1] = e /\ \A i \in 1..Len(s) : (<<e>> \o s)[i + 1] = s[i]
<1> DEFINE t == <<e>> \o s
<1>1. <<e>> \in Seq(S) /\ Len(<<e>>) = 1 /\ <<e>>[1] = e /\ Len(s) \in Nat
  BY LenProperties
<1>2. t \in Seq(S) /\ Len(t) = Len(s) + 1
  BY <1>1, ConcatProperties
<1>3. t # <<>>
  BY <1>1, <1>2, EmptySeq
<1>4. \A i \in 1..Len(t) : t[i] = IF i <= 1 THEN <<e>>[i] ELSE s[i - 1]
  BY <1>1, <1>2, ConcatProperties
<1>5. t[1] = e
  BY <1>1, <1>2, <1>4
<1>6. \A i \in 1..Len(s) : t[i + 1] = s[i]
  <2> SUFFICES ASSUME NEW i \in 1..Len(s)
               PROVE  t[i + 1] = s[i]
    OBVIOUS
  <2>1. i + 1 \in 1..Len(t) /\ ~(i + 1 <= 1) /\ (i + 1) - 1 = i
    BY <1>1, <1>2
  <2> QED
    BY <1>4, <2>1
<1> HIDE DEF t
<1>7. Head(t) = e
  BY <1>2, <1>3, <1>5, WithoutFirst
<1>8. Tail(t) = s
  <2>1. Tail(t) \in Seq(S) /\ Len(Tail(t)) = Len(s)
    BY <1>1, <1>2, <1>3, WithoutFirst
  <2>2. \A i \in 1..Len(s) : Tail(t)[i] = s[i]
    BY <1>1, <1>2, <1>3, <1>6, WithoutFirst
  <2> QED
    BY <2>1, <2>2, SeqEqual
<1> QED
  BY <1>2, <1>3, <1>5, <1>6, <1>7, <1>8 DEF t

\* To take the first away and put it before the rest changes nothing.
LEMMA FirstAndRest ==
  ASSUME NEW S, NEW s \in Seq(S), s # <<>>
  PROVE  <<Head(s)>> \o Tail(s) = s
<1> DEFINE t == <<Head(s)>> \o Tail(s)
<1>1. /\ t \in Seq(S) /\ Len(t) = Len(s) /\ t[1] = s[1]
      /\ \A i \in 1..(Len(s) - 1) : t[i + 1] = s[i + 1]
  BY WithoutFirst, OneBefore
<1>2. \A i \in 1..Len(s) : t[i] = s[i]
  <2> SUFFICES ASSUME NEW i \in 1..Len(s), i # 1
               PROVE  t[i] = s[i]
    BY <1>1
  <2>1. i - 1 \in 1..(Len(s) - 1) /\ (i - 1) + 1 = i
    BY WithoutFirst
  <2> QED
    BY <1>1, <2>1
<1> HIDE DEF t
<1>3. t = s
  BY <1>1, <1>2, SeqEqual
<1> QED
  BY <1>3 DEF t

-----------------------------------------------------------------------------
(* The abstract line: a message stands in it exactly while it waits, and    *)
(* once.                                                                    *)

LEMMA LineInit == Line!Init => Line!LineInv
<1> SUFFICES ASSUME Line!Init
             PROVE  Line!LineInv
  OBVIOUS
<1>1. TheLine \in Seq(Entries) /\ Len(TheLine) = 0
  BY EmptySeq DEF Line!Init
<1>2. Line!LineTypeOK /\ Line!MovingStands
  BY <1>1 DEF Line!Init, Line!LineTypeOK, Line!MovingStands
<1>3. Line!StandsOnce /\ Line!AnsweredWasPosted
  BY <1>1 DEF Line!Init, Line!StandsOnce, Line!AnsweredWasPosted
<1> QED
  BY <1>2, <1>3 DEF Line!LineInv

LEMMA LineHanded ==
  ASSUME Line!LineInv, NEW e \in Entries, Line!Handed(e)
  PROVE  Line!LineInv'
  BY DEF Line!Handed, Line!LineInv, Line!LineTypeOK, Line!StandsOnce, Line!MovingStands,
         Line!AnsweredWasPosted

LEMMA LineJoin ==
  ASSUME Line!LineInv, NEW e \in Entries, Line!Join(e)
  PROVE  Line!LineInv'
<1> USE DEF Line!Join, Line!LineInv
<1>1. /\ Len(TheLine') = Len(TheLine) + 1 /\ TheLine'[Len(TheLine) + 1] = e
      /\ \A i \in 1..Len(TheLine) : TheLine'[i] = TheLine[i]
      /\ TheLine' \in Seq(Entries) /\ TheLine' # <<>>
  BY AppendProperties DEF Line!LineTypeOK
<1>2. Len(TheLine) \in Nat
  BY LenProperties DEF Line!LineTypeOK
<1>3. \A i \in 1..Len(TheLine) : TheLine[i] # e /\ TheLine[i] \in Entries
  BY DEF Line!StandsOnce, Line!LineTypeOK
<1>4. Line!LineTypeOK' /\ Line!MovingStands' /\ Line!AnsweredWasPosted'
  BY <1>1 DEF Line!LineTypeOK, Line!MovingStands, Line!AnsweredWasPosted
<1>5. Line!StandsOnce'
  BY <1>1, <1>2, <1>3 DEF Line!LineTypeOK, Line!StandsOnce
<1> QED
  BY <1>4, <1>5

LEMMA LinePost ==
  ASSUME Line!LineInv, Line!Post
  PROVE  Line!LineInv'
<1>1. Head(TheLine) \in Entries /\ fate[Head(TheLine)] = "pushed"
  BY WithoutFirst DEF Line!Post, Line!LineInv, Line!LineTypeOK, Line!StandsOnce
<1> QED
  BY <1>1 DEF Line!Post, Line!LineInv, Line!LineTypeOK, Line!StandsOnce, Line!MovingStands,
              Line!AnsweredWasPosted

LEMMA LineLeave ==
  ASSUME Line!LineInv,
         NEW outcome \in {"sent", "dropped", "expired", "lost"}, Line!Leave(outcome)
  PROVE  Line!LineInv'
<1> USE DEF Line!Leave, Line!LineInv
<1> DEFINE first == Head(TheLine)
<1>1. /\ Len(TheLine) \in Nat /\ Len(TheLine) >= 1 /\ first = TheLine[1] /\ first \in Entries
      /\ TheLine' \in Seq(Entries) /\ Len(TheLine') = Len(TheLine) - 1
      /\ \A i \in 1..(Len(TheLine) - 1) : i + 1 \in 1..Len(TheLine) /\ TheLine'[i] = TheLine[i + 1]
  BY WithoutFirst DEF Line!LineTypeOK
<1>2. /\ fate[first] = "pushed" /\ fate' = [fate EXCEPT ![first] = outcome]
      /\ posted' = posted /\ Moving' = FALSE
      /\ outcome \in {"sent", "dropped"} => first \in posted
  BY <1>1 DEF Line!StandsOnce
<1> HIDE DEF first
<1>3. Line!LineTypeOK' /\ Line!MovingStands' /\ Line!AnsweredWasPosted'
  <2>1. Line!LineTypeOK'
    <3>1. fate' \in [Entries -> {"new", "handed", "pushed", "sent", "dropped", "expired", "lost"}]
      BY <1>1, <1>2 DEF Line!LineTypeOK
    <3>2. Moving' \in BOOLEAN
      BY <1>2
    <3> QED
      BY <1>1, <1>2, <3>1, <3>2 DEF Line!LineTypeOK
  <2>2. Line!MovingStands'
    BY <1>2 DEF Line!MovingStands
  <2>3. Line!AnsweredWasPosted'
    BY <1>1, <1>2 DEF Line!LineTypeOK, Line!AnsweredWasPosted
  <2> QED
    BY <2>1, <2>2, <2>3
<1>4. \A i, j \in 1..Len(TheLine') : TheLine'[i] = TheLine'[j] => i = j
  <2> SUFFICES ASSUME NEW i \in 1..(Len(TheLine) - 1), NEW j \in 1..(Len(TheLine) - 1),
                      TheLine[i + 1] = TheLine[j + 1]
               PROVE  i = j
    BY <1>1
  <2>1. i + 1 = j + 1
    BY <1>1 DEF Line!StandsOnce
  <2> QED
    BY <2>1
<1>5. ASSUME NEW e \in Entries
      PROVE  fate'[e] = "pushed" <=> \E i \in 1..Len(TheLine') : TheLine'[i] = e
  <2>1. CASE e = first
    <3>1. \A i \in 1..(Len(TheLine) - 1) : TheLine[i + 1] # first
      <4> SUFFICES ASSUME NEW i \in 1..(Len(TheLine) - 1), TheLine[i + 1] = first
                   PROVE  FALSE
        OBVIOUS
      <4>1. i + 1 = 1
        BY <1>1 DEF Line!StandsOnce
      <4> QED
        BY <4>1
    <3> QED
      BY <1>1, <1>2, <2>1, <3>1 DEF Line!LineTypeOK
  <2>2. CASE e # first
    <3>1. fate'[e] = "pushed" <=> \E i \in 1..Len(TheLine) : TheLine[i] = e
      BY <1>2, <2>2 DEF Line!LineTypeOK, Line!StandsOnce
    <3>2. ASSUME NEW i \in 1..Len(TheLine), TheLine[i] = e
          PROVE  i - 1 \in 1..Len(TheLine') /\ TheLine'[i - 1] = e
      <4>1. i - 1 \in 1..(Len(TheLine) - 1) /\ (i - 1) + 1 = i
        BY <1>1, <2>2, <3>2
      <4> QED
        BY <1>1, <3>2, <4>1
    <3> QED
      BY <1>1, <3>1, <3>2
  <2> QED
    BY <2>1, <2>2
<1> QED
  BY <1>3, <1>4, <1>5 DEF Line!StandsOnce

LEMMA LineStepAside ==
  ASSUME Line!LineInv, Line!StepAside
  PROVE  Line!LineInv'
<1>1. TheLine # <<>>
  BY EmptySeq DEF Line!StepAside
<1> QED
  BY <1>1 DEF Line!StepAside, Line!LineInv, Line!LineTypeOK, Line!StandsOnce,
              Line!MovingStands, Line!AnsweredWasPosted

LEMMA LineFallBehind ==
  ASSUME Line!LineInv, Line!FallBehind
  PROVE  Line!LineInv'
<1> USE DEF Line!FallBehind, Line!LineInv
<1> DEFINE n == Len(TheLine)
<1>1. TheLine # <<>> /\ TheLine \in Seq(Entries)
  BY DEF Line!MovingStands, Line!LineTypeOK
<1>2. /\ TheLine' \in Seq(Entries) /\ Len(TheLine') = n /\ TheLine' # <<>>
      /\ TheLine'[n] = TheLine[1]
      /\ \A i \in 1..(n - 1) : i + 1 \in 1..n /\ TheLine'[i] = TheLine[i + 1]
      /\ n \in Nat /\ n >= 1
  BY <1>1, FirstToTheEnd, WithoutFirst
<1> HIDE DEF n
<1>3. Line!LineTypeOK' /\ Line!MovingStands' /\ Line!AnsweredWasPosted'
  BY <1>2 DEF Line!LineTypeOK, Line!MovingStands, Line!AnsweredWasPosted
<1>4. \A i \in 1..n : \E k \in 1..n :
        /\ TheLine'[i] = TheLine[k]
        /\ k = IF i = n THEN 1 ELSE i + 1
  BY <1>2
<1>5. \A k \in 1..n : \E i \in 1..n : TheLine'[i] = TheLine[k]
  <2> SUFFICES ASSUME NEW k \in 1..n
               PROVE  \E i \in 1..n : TheLine'[i] = TheLine[k]
    OBVIOUS
  <2>1. CASE k = 1
    BY <1>2, <2>1
  <2>2. CASE k # 1
    <3>1. k - 1 \in 1..(n - 1) /\ k - 1 \in 1..n /\ (k - 1) + 1 = k
      BY <1>2, <2>2
    <3> QED
      BY <1>2, <3>1
  <2> QED
    BY <2>1, <2>2
<1>6. \A i, j \in 1..n : TheLine'[i] = TheLine'[j] => i = j
  <2> SUFFICES ASSUME NEW i \in 1..n, NEW j \in 1..n, TheLine'[i] = TheLine'[j]
               PROVE  i = j
    OBVIOUS
  <2>1. PICK k \in 1..n : TheLine'[i] = TheLine[k] /\ k = IF i = n THEN 1 ELSE i + 1
    BY <1>4
  <2>2. PICK m \in 1..n : TheLine'[j] = TheLine[m] /\ m = IF j = n THEN 1 ELSE j + 1
    BY <1>4
  <2>3. k = m
    BY <2>1, <2>2 DEF Line!StandsOnce, n
  <2> QED
    BY <1>2, <2>1, <2>2, <2>3
<1>7. \A e \in Entries : fate'[e] = "pushed" <=> \E i \in 1..n : TheLine'[i] = e
  <2>1. \A e \in Entries : fate'[e] = "pushed" <=> \E i \in 1..n : TheLine[i] = e
    BY DEF Line!StandsOnce, n
  <2>2. ASSUME NEW e \in Entries
        PROVE  (\E i \in 1..n : TheLine[i] = e) <=> (\E i \in 1..n : TheLine'[i] = e)
    <3>1. ASSUME NEW k \in 1..n, TheLine[k] = e
          PROVE  \E i \in 1..n : TheLine'[i] = e
      BY <1>5, <3>1
    <3>2. ASSUME NEW i \in 1..n, TheLine'[i] = e
          PROVE  \E k \in 1..n : TheLine[k] = e
      BY <1>4, <3>2
    <3> QED
      BY <3>1, <3>2
  <2> QED
    BY <2>1, <2>2
<1> QED
  BY <1>2, <1>3, <1>6, <1>7 DEF Line!StandsOnce

LEMMA LineStep == Line!LineInv /\ [Line!Next]_(Line!lineVars) => Line!LineInv'
<1> SUFFICES ASSUME Line!LineInv, [Line!Next]_(Line!lineVars)
             PROVE  Line!LineInv'
  OBVIOUS
<1>1. ASSUME NEW e \in Entries, Line!Handed(e)
      PROVE  Line!LineInv'
  BY <1>1, LineHanded
<1>2. ASSUME NEW e \in Entries, Line!Join(e)
      PROVE  Line!LineInv'
  BY <1>2, LineJoin
<1>3. CASE Line!Post
  BY <1>3, LinePost
<1>4. CASE Line!StepAside
  BY <1>4, LineStepAside
<1>5. CASE Line!FallBehind
  BY <1>5, LineFallBehind
<1>6. ASSUME NEW outcome \in {"sent", "dropped", "expired", "lost"}, Line!Leave(outcome)
      PROVE  Line!LineInv'
  BY <1>6, LineLeave
<1>7. CASE UNCHANGED Line!lineVars
  BY <1>7 DEF Line!lineVars, Line!LineInv, Line!LineTypeOK, Line!StandsOnce,
       Line!MovingStands, Line!AnsweredWasPosted
<1> QED
  BY <1>1, <1>2, <1>3, <1>4, <1>5, <1>6, <1>7 DEF Line!Next, Line!Serve

\* Whatever refines the line has its invariant.
LEMMA LineInvariant == Line!Spec => []Line!LineInv
  BY LineInit, LineStep, PTL DEF Line!Spec

-----------------------------------------------------------------------------
(* The outbox: what its calls have in their hands.                          *)

\* One call at a time replays the queue.
Alone == \A d, x \in Running : d = x

\* A call has an entry exactly when it is not looking for one.
InItsHand == \A d \in Drains : drain[d].entry = None <=> drain[d].phase \in {"idle", "find"}

\* What a call has read and not yet deleted is still the first of the queue.
FoundIsFirst ==
  \A d \in Drains : drain[d].phase = "remove" => queue # <<>> /\ Head(queue) = drain[d].entry

\* An answer is only awaited for what has been posted.
AwaitedWasPosted ==
  \A d \in Drains : drain[d].phase = "wait" => drain[d].entry \in posted

OutboxInv == TypeOK /\ Alone /\ InItsHand /\ FoundIsFirst /\ AwaitedWasPosted

\* A running call is alone, and the line is what it holds before the queue.
LEMMA OnlyIHold ==
  ASSUME OutboxInv, NEW d \in Drains, drain[d].phase # "idle"
  PROVE  /\ \A x \in Drains : x # d => drain[x] = Idle
         /\ drain[d].phase \in Phases
         /\ drain[d].phase \notin {"idle", "find"} => drain[d].entry \in Entries
<1>1. \A x \in Drains : x # d => drain[x].phase = "idle"
  BY DEF OutboxInv, Alone, Running
<1>2. \A x \in Drains : drain[x] \in [phase : Phases, entry : Entries \cup {None}]
  BY DEF OutboxInv, TypeOK
<1>3. \A x \in Drains : x # d => drain[x] = Idle
  BY <1>1, <1>2 DEF OutboxInv, InItsHand, Idle
<1> QED
  BY <1>2, <1>3 DEF OutboxInv, InItsHand

\* The hand of calls that are all at rest but one.
LEMMA HandOf ==
  ASSUME NEW d \in Drains, \A x \in Drains : x # d => drain[x] = Idle
  PROVE  /\ Moving = (drain[d].phase = "back")
         /\ Hand = IF Holding(d) THEN <<drain[d].entry>> ELSE <<>>
         /\ InHand = IF Holding(d) THEN {drain[d].entry} ELSE {}
<1>1. InHand = IF Holding(d) THEN {drain[d].entry} ELSE {}
  BY DEF InHand, Holding, Idle, InHandPhases
<1>2. (CHOOSE e \in {drain[d].entry} : TRUE) = drain[d].entry
  OBVIOUS
<1>3. Moving = (drain[d].phase = "back")
  <2>1. Moving <=> drain[d].phase = "back"
    BY DEF Moving, Idle
  <2>2. Moving \in BOOLEAN
    BY DEF Moving
  <2> QED
    BY <2>1, <2>2
<1>4. CASE Holding(d)
  <2>1. InHand = {drain[d].entry}
    BY <1>1, <1>4
  <2>2. Hand = <<drain[d].entry>>
    BY <1>2, <2>1 DEF Hand
  <2> QED
    BY <1>3, <1>4, <2>1, <2>2
<1>5. CASE ~Holding(d)
  BY <1>1, <1>3, <1>5 DEF Hand
<1> QED
  BY <1>4, <1>5

\* The same when the step is taken.
LEMMA HandAfter ==
  ASSUME NEW d \in Drains, \A x \in Drains : x # d => drain'[x] = Idle,
         NEW p, NEW e, drain'[d] = [phase |-> p, entry |-> e]
  PROVE  /\ Moving' = (p = "back")
         /\ Hand' = IF p \in InHandPhases THEN <<e>> ELSE <<>>
<1>1. InHand' = IF p \in InHandPhases THEN {e} ELSE {}
  BY DEF InHand, Holding, Idle, InHandPhases
<1>2. (CHOOSE x \in {e} : TRUE) = e
  OBVIOUS
<1>3. Moving' = (p = "back")
  <2>1. Moving' <=> p = "back"
    BY DEF Moving, Idle
  <2>2. Moving' \in BOOLEAN
    BY DEF Moving
  <2> QED
    BY <2>1, <2>2
<1> QED
  BY <1>1, <1>2, <1>3 DEF Hand

\* While every call is at rest, or looks for an entry, the line is the queue.
LEMMA NobodyHolds ==
  ASSUME queue \in Seq(Entries), \A d \in Drains : ~Holding(d)
  PROVE  TheLine = queue /\ Moving = FALSE /\ InHand = {}
<1>1. InHand = {}
  BY DEF InHand
<1>2. TheLine = queue
  BY <1>1, ConcatEmptySeq DEF TheLine, Hand
<1> QED
  BY <1>1, <1>2 DEF Moving, Holding, InHandPhases

LEMMA IHold ==
  ASSUME OutboxInv, NEW d \in Drains, Holding(d)
  PROVE  /\ drain[d].entry \in Entries /\ InHand = {drain[d].entry}
         /\ Hand = <<drain[d].entry>>
         /\ Moving = (drain[d].phase = "back")
         /\ TheLine = <<drain[d].entry>> \o queue
         /\ TheLine \in Seq(Entries) /\ TheLine # <<>> /\ Len(TheLine) = Len(queue) + 1
         /\ Head(TheLine) = drain[d].entry /\ Tail(TheLine) = queue
<1>1. drain[d].phase # "idle" /\ drain[d].phase \notin {"idle", "find"}
  BY DEF Holding, InHandPhases
<1>2. /\ drain[d].entry \in Entries
      /\ \A x \in Drains : x # d => drain[x] = Idle
  BY <1>1, OnlyIHold
<1>3. /\ InHand = {drain[d].entry} /\ Hand = <<drain[d].entry>>
      /\ Moving = (drain[d].phase = "back")
  BY <1>2, HandOf
<1>4. TheLine = <<drain[d].entry>> \o queue
  BY <1>3 DEF TheLine
<1> QED
  BY <1>2, <1>3, <1>4, OneBefore DEF OutboxInv, TypeOK

LEMMA SomebodyOrNobody ==
  ASSUME OutboxInv
  PROVE  TheLine \in Seq(Entries) /\ queue \in Seq(Entries)
<1>1. queue \in Seq(Entries)
  BY DEF OutboxInv, TypeOK
<1>2. CASE \E d \in Drains : Holding(d)
  BY <1>1, <1>2, IHold
<1>3. CASE \A d \in Drains : ~Holding(d)
  BY <1>1, <1>3, NobodyHolds
<1> QED
  BY <1>1, <1>2, <1>3

-----------------------------------------------------------------------------
(* The invariant, action by action.                                         *)

LEMMA OutboxInit == Init => OutboxInv
  BY OutboxAssumption, EmptySeq
  DEF Init, OutboxInv, TypeOK, Alone, InItsHand, FoundIsFirst, AwaitedWasPosted,
      Running, Idle, Phases

LEMMA PushInv ==
  ASSUME OutboxInv, NEW e \in Entries, Push(e)
  PROVE  OutboxInv'
<1>1. queue \in Seq(Entries) /\ queue' = Append(queue, e)
  BY DEF OutboxInv, TypeOK, Push
<1>2. queue' \in Seq(Entries)
  BY <1>1, AppendProperties
<1>3. /\ older' \in [Entries -> SUBSET Entries]
      /\ passedBy' \in [Entries -> SUBSET Entries]
  BY DEF OutboxInv, TypeOK, Push, Pushed
<1>4. TypeOK'
  BY <1>2, <1>3 DEF OutboxInv, TypeOK, Push, Open
<1>5. FoundIsFirst'
  <2> SUFFICES ASSUME NEW d \in Drains, drain[d].phase = "remove"
               PROVE  queue' # <<>> /\ Head(queue') = drain[d].entry
    BY DEF Push, FoundIsFirst
  <2>1. queue # <<>> /\ Head(queue) = drain[d].entry
    BY DEF OutboxInv, FoundIsFirst
  <2>2. queue' # <<>> /\ queue'[1] = queue[1]
    BY <1>1, <2>1, AppendProperties, WithoutFirst
  <2> QED
    BY <1>1, <1>2, <2>1, <2>2, WithoutFirst
<1> QED
  BY <1>4, <1>5 DEF OutboxInv, Push, Alone, Running, InItsHand, AwaitedWasPosted

LEMMA WakeInv ==
  ASSUME OutboxInv, NEW d \in Drains, Wake(d)
  PROVE  OutboxInv'
<1>1. Running = {} /\ drain[d].entry = None
  BY DEF OutboxInv, Wake, MayStart, InItsHand
<1>2. \A x \in Drains : drain'[x].phase = IF x = d THEN "find" ELSE "idle"
  BY <1>1 DEF Wake, Running, OutboxInv, TypeOK
<1>3. \A x \in Drains : drain'[x].entry = drain[x].entry
  BY DEF Wake, OutboxInv, TypeOK
<1> QED
  BY <1>1, <1>2, <1>3
  DEF Wake, OutboxInv, TypeOK, Alone, InItsHand, FoundIsFirst, AwaitedWasPosted,
      Running, Phases

\* A call that goes from one phase to another keeps what is in its hand.
LEMMA SetPhase ==
  ASSUME TypeOK, NEW d \in Drains, NEW p, drain' = [drain EXCEPT ![d].phase = p]
  PROVE  drain' = [drain EXCEPT ![d] = [phase |-> p, entry |-> drain[d].entry]]
<1>1. drain \in [Drains -> [phase : Phases, entry : Entries \cup {None}]]
  BY DEF TypeOK
<1>2. drain[d] \in [phase : Phases, entry : Entries \cup {None}]
  BY <1>1
<1>3. [drain[d] EXCEPT !.phase = p] = [phase |-> p, entry |-> drain[d].entry]
  BY <1>2
<1> QED
  BY <1>1, <1>2, <1>3

\* What a step of a call has to show: the other calls stay idle, so that only this
\* one can break anything.
LEMMA CallInv ==
  ASSUME OutboxInv, NEW d \in Drains, drain[d].phase # "idle",
         NEW p \in Phases, NEW e \in Entries \cup {None},
         drain' = [drain EXCEPT ![d] = [phase |-> p, entry |-> e]],
         e = None <=> p \in {"idle", "find"},
         network' \in {"up", "down"},
         fate' \in [Entries -> {"new"} \cup Open \cup Settled],
         queue' \in Seq(Entries), posted' \in SUBSET Entries,
         waiting' \in [Tabs -> Nat], faults' \in 0..MaxFaults,
         UNCHANGED <<owner, older, passedBy>>,
         p = "remove" => queue' # <<>> /\ Head(queue') = e,
         p = "wait" => e \in posted'
  PROVE  OutboxInv'
<1>1. /\ drain'[d] = [phase |-> p, entry |-> e]
      /\ \A x \in Drains : x # d => drain'[x] = Idle
      /\ drain' \in [Drains -> [phase : Phases, entry : Entries \cup {None}]]
  BY OnlyIHold DEF OutboxInv, TypeOK
<1>2. TypeOK'
  BY <1>1 DEF OutboxInv, TypeOK
<1> QED
  BY <1>1, <1>2 DEF OutboxInv, Alone, InItsHand, FoundIsFirst, AwaitedWasPosted,
              Running, Idle

\* A call at work in any other way than with an entry in its hand leaves the line to
\* the queue.
LEMMA CallHolds ==
  ASSUME OutboxInv, NEW d \in Drains, drain[d].phase \in {"find", "remove"}
  PROVE  TheLine = queue /\ Moving = FALSE /\ queue \in Seq(Entries)
<1>1. \A x \in Drains : ~Holding(x)
  BY OnlyIHold DEF Holding, Idle, InHandPhases
<1> QED
  BY <1>1, NobodyHolds DEF OutboxInv, TypeOK

\* What the line is after a step of a call.
LEMMA CallLine ==
  ASSUME OutboxInv, NEW d \in Drains, drain[d].phase # "idle", NEW p, NEW e,
         drain' = [drain EXCEPT ![d] = [phase |-> p, entry |-> e]],
         queue' \in Seq(Entries)
  PROVE  /\ Moving' = (p = "back")
         /\ TheLine' = IF p \in InHandPhases THEN <<e>> \o queue' ELSE queue'
<1>1. drain'[d] = [phase |-> p, entry |-> e] /\ \A x \in Drains : x # d => drain'[x] = Idle
  BY OnlyIHold DEF OutboxInv, TypeOK
<1>2. /\ Moving' = (p = "back")
      /\ Hand' = IF p \in InHandPhases THEN <<e>> ELSE <<>>
  BY <1>1, HandAfter
<1>3. <<>> \o queue' = queue'
  BY ConcatEmptySeq
<1> QED
  BY <1>2, <1>3 DEF TheLine

\* From phase to phase with the entry in the hand and the queue as it was.
LEMMA KeepInv ==
  ASSUME OutboxInv, NEW d \in Drains, Holding(d), NEW p \in InHandPhases,
         drain' = [drain EXCEPT ![d].phase = p],
         UNCHANGED <<network, fate, owner, queue, older, passedBy, waiting>>,
         posted' \in SUBSET Entries, faults' \in 0..MaxFaults,
         p = "wait" => drain[d].entry \in posted'
  PROVE  /\ OutboxInv'
         /\ TheLine' = TheLine /\ Moving' = (p = "back")
<1> DEFINE e == drain[d].entry
<1>1. drain' = [drain EXCEPT ![d] = [phase |-> p, entry |-> e]]
  BY SetPhase DEF OutboxInv
<1>2. e \in Entries /\ e # None /\ TheLine = <<e>> \o queue /\ queue' = queue
  BY IHold, OutboxAssumption
<1>3. drain[d].phase # "idle" /\ p \in Phases /\ p \notin {"idle", "find", "remove"}
  BY DEF Holding, InHandPhases, Phases
<1>4. /\ network' \in {"up", "down"} /\ fate' \in [Entries -> {"new"} \cup Open \cup Settled]
      /\ queue' \in Seq(Entries) /\ waiting' \in [Tabs -> Nat]
  BY DEF OutboxInv, TypeOK
<1>5. p = "wait" => e \in posted'
  OBVIOUS
<1> HIDE DEF e
<1>6. OutboxInv'
  BY <1>1, <1>2, <1>3, <1>4, <1>5, CallInv
<1>7. TheLine' = <<e>> \o queue' /\ Moving' = (p = "back")
  BY <1>1, <1>3, <1>4, CallLine
<1> QED
  BY <1>2, <1>6, <1>7

\* A call that is done with its entry, or finds none.
LEMMA LetGoInv ==
  ASSUME OutboxInv, NEW d \in Drains, drain[d].phase # "idle", NEW p \in {"idle", "find"},
         drain' = [drain EXCEPT ![d] = [phase |-> p, entry |-> None]],
         fate' \in [Entries -> {"new"} \cup Open \cup Settled],
         queue' \in Seq(Entries), waiting' \in [Tabs -> Nat],
         UNCHANGED <<network, owner, older, passedBy, posted, faults>>
  PROVE  OutboxInv' /\ TheLine' = queue' /\ Moving' = FALSE
<1>1. /\ network' \in {"up", "down"} /\ posted' \in SUBSET Entries /\ faults' \in 0..MaxFaults
      /\ None \in Entries \cup {None} /\ p \in Phases
  BY DEF OutboxInv, TypeOK, Phases
<1>2. OutboxInv'
  BY <1>1, CallInv
<1>3. TheLine' = queue' /\ Moving' = (p = "back")
  BY CallLine DEF InHandPhases
<1> QED
  BY <1>2, <1>3

LEMMA FindInv ==
  ASSUME OutboxInv, NEW d \in Drains, Find(d)
  PROVE  OutboxInv' /\ TheLine' = TheLine /\ Moving = FALSE /\ Moving' = FALSE
<1>1. TheLine = queue /\ Moving = FALSE /\ queue' \in Seq(Entries) /\ queue' = queue
  BY CallHolds DEF Find
<1>2. CASE queue = <<>>
  <2>1. drain' = [drain EXCEPT ![d] = [phase |-> "idle", entry |-> None]]
    BY <1>2 DEF Find, Idle
  <2>2. /\ fate' \in [Entries -> {"new"} \cup Open \cup Settled]
        /\ waiting' \in [Tabs -> Nat]
    BY DEF Find, OutboxInv, TypeOK
  <2> QED
    BY <1>1, <2>1, <2>2, LetGoInv DEF Find
<1>3. CASE queue # <<>>
  <2>1. Head(queue) \in Entries /\ Head(queue) # None
    BY <1>1, <1>3, WithoutFirst, OutboxAssumption
  <2>2. drain' = [drain EXCEPT ![d] = [phase |-> "remove", entry |-> Head(queue)]]
    BY <1>3 DEF Find
  <2>3. /\ fate' \in [Entries -> {"new"} \cup Open \cup Settled]
        /\ network' \in {"up", "down"} /\ posted' \in SUBSET Entries
        /\ waiting' \in [Tabs -> Nat] /\ faults' \in 0..MaxFaults
        /\ UNCHANGED <<owner, older, passedBy>> /\ drain[d].phase # "idle"
    BY DEF Find, OutboxInv, TypeOK
  <2>4. /\ "remove" \in Phases /\ "remove" \notin InHandPhases
        /\ "remove" \notin {"idle", "find"} /\ "remove" # "wait" /\ "remove" # "back"
    BY DEF Phases, InHandPhases
  <2>5. OutboxInv'
    BY <1>1, <1>3, <2>1, <2>2, <2>3, <2>4, CallInv
  <2>6. TheLine' = queue' /\ Moving' = (("remove") = "back")
    BY <1>1, <2>2, <2>3, <2>4, CallLine
  <2> QED
    BY <1>1, <2>4, <2>5, <2>6
<1> QED
  BY <1>2, <1>3

\* From the front of the queue into the hand the line stays what it was; to find it
\* too old is to take it out of the line.
LEMMA RemoveInv ==
  ASSUME OutboxInv, NEW d \in Drains, Remove(d)
  PROVE  /\ OutboxInv'
         /\ \/ fate' = fate /\ TheLine' = TheLine /\ Moving = FALSE /\ Moving' = FALSE
            \/ Line!Leave("expired")
<1> DEFINE e == drain[d].entry
<1>1. /\ drain[d].phase = "remove" /\ queue # <<>> /\ Head(queue) = e /\ queue' = Tail(queue)
      /\ UNCHANGED <<network, owner, older, passedBy, posted, waiting, faults>>
  BY DEF Remove, OutboxInv, FoundIsFirst
<1>2. TheLine = queue /\ Moving = FALSE /\ queue \in Seq(Entries)
  BY <1>1, CallHolds
<1>3. queue' \in Seq(Entries) /\ e \in Entries /\ e # None /\ <<e>> \o queue' = queue
  BY <1>1, <1>2, WithoutFirst, FirstAndRest, OutboxAssumption
<1>4. CASE drain' = [drain EXCEPT ![d].phase = "fetch"] /\ UNCHANGED fate
  <2>1. drain' = [drain EXCEPT ![d] = [phase |-> "fetch", entry |-> e]]
    BY <1>4, SetPhase DEF OutboxInv
  <2> HIDE DEF e
  <2>2. OutboxInv'
    <3>1. /\ fate' \in [Entries -> {"new"} \cup Open \cup Settled]
          /\ network' \in {"up", "down"} /\ posted' \in SUBSET Entries
          /\ waiting' \in [Tabs -> Nat] /\ faults' \in 0..MaxFaults
      BY <1>1, <1>4 DEF OutboxInv, TypeOK
    <3>2. "fetch" \in Phases /\ "fetch" \notin {"idle", "find", "remove", "wait"}
      BY DEF Phases, InHandPhases
    <3> QED
      BY <1>1, <1>3, <2>1, <3>1, <3>2, CallInv
  <2>3. TheLine' = <<e>> \o queue' /\ Moving' = FALSE
    BY <1>1, <1>3, <2>1, CallLine DEF InHandPhases
  <2> QED
    BY <1>2, <1>3, <1>4, <2>2, <2>3
<1>5. CASE /\ drain' = [drain EXCEPT ![d] = [phase |-> "find", entry |-> None]]
           /\ fate' = [fate EXCEPT ![e] = "expired"]
  <2>1. /\ fate' \in [Entries -> {"new"} \cup Open \cup Settled]
        /\ waiting' \in [Tabs -> Nat]
    BY <1>1, <1>5 DEF OutboxInv, TypeOK, Settled
  <2>2. OutboxInv' /\ TheLine' = queue' /\ Moving' = FALSE
    BY <1>1, <1>3, <1>5, <2>1, LetGoInv
  <2>3. Line!Leave("expired")
    BY <1>1, <1>2, <1>5, <2>2 DEF Line!Leave
  <2> QED
    BY <2>2, <2>3
<1> QED
  BY <1>4, <1>5 DEF Remove

LEMMA FetchInv ==
  ASSUME OutboxInv, NEW d \in Drains, Fetch(d)
  PROVE  /\ OutboxInv'
         /\ \/ Line!Post
            \/ posted' = posted /\ TheLine' = TheLine /\ Moving = FALSE /\ Moving' = FALSE
<1>1. Holding(d) /\ drain[d].phase = "fetch"
  BY DEF Fetch, Holding, InHandPhases
<1>2. /\ drain[d].entry \in Entries /\ Moving = FALSE
      /\ TheLine # <<>> /\ Head(TheLine) = drain[d].entry
  BY <1>1, IHold
<1>3. posted' \in SUBSET Entries /\ faults' \in 0..MaxFaults
  BY <1>2 DEF Fetch, OutboxInv, TypeOK
<1>4. CASE network = "up"
  <2>1. drain' = [drain EXCEPT ![d].phase = "wait"] /\ posted' = posted \cup {drain[d].entry}
    BY <1>4 DEF Fetch
  <2>2. OutboxInv' /\ TheLine' = TheLine /\ Moving' = FALSE
    BY <1>1, <1>3, <2>1, KeepInv DEF Fetch, InHandPhases
  <2>3. Line!Post
    BY <1>2, <2>1, <2>2 DEF Line!Post, Fetch
  <2> QED
    BY <2>2, <2>3
<1>5. CASE network # "up"
  <2>1. drain' = [drain EXCEPT ![d].phase = "requeue"] /\ posted' = posted
    BY <1>5 DEF Fetch
  <2>2. OutboxInv' /\ TheLine' = TheLine /\ Moving' = FALSE
    BY <1>1, <1>3, <2>1, KeepInv DEF Fetch, InHandPhases
  <2> QED
    BY <1>2, <2>1, <2>2
<1> QED
  BY <1>4, <1>5

\* The news that a message is settled leaves a count.
LEMMA SettleType ==
  ASSUME TypeOK, SettleQueued
  PROVE  waiting' \in [Tabs -> Nat]
<1>1. \A t \in Tabs : waiting[t] \in Nat
  BY DEF TypeOK
<1>2. \A t \in Tabs : (IF waiting[t] > 0 THEN waiting[t] - 1 ELSE 0) \in Nat
  BY <1>1
<1> QED
  BY <1>2 DEF SettleQueued

LEMMA AnsweredInv ==
  ASSUME OutboxInv, NEW d \in Drains, NEW outcome \in {"sent", "dropped"},
         Answered(d, outcome)
  PROVE  OutboxInv' /\ Line!Leave(outcome)
<1>1. Holding(d) /\ drain[d].phase = "wait" /\ drain[d].entry \in posted
  BY DEF Answered, Holding, InHandPhases, OutboxInv, AwaitedWasPosted
<1>2. /\ Moving = FALSE /\ TheLine # <<>> /\ Head(TheLine) = drain[d].entry /\ Tail(TheLine) = queue
  BY <1>1, IHold
<1>3. waiting' \in [Tabs -> Nat]
  BY SettleType DEF OutboxInv, Answered, Broadcast
<1>4. fate' \in [Entries -> {"new"} \cup Open \cup Settled]
  BY DEF OutboxInv, TypeOK, Answered, Settled
<1>5. OutboxInv' /\ TheLine' = queue' /\ Moving' = FALSE
  <2>1. drain' = [drain EXCEPT ![d] = [phase |-> "find", entry |-> None]]
    BY DEF Answered
  <2>2. queue' \in Seq(Entries) /\ UNCHANGED <<network, owner, older, passedBy, posted, faults>>
    BY DEF Answered, OutboxInv, TypeOK
  <2> QED
    BY <1>1, <1>3, <1>4, <2>1, <2>2, LetGoInv
<1>6. Line!Leave(outcome)
  BY <1>1, <1>2, <1>5 DEF Answered, Line!Leave
<1> QED
  BY <1>5, <1>6

LEMMA FailedInv ==
  ASSUME OutboxInv, NEW d \in Drains, Retryable(d) \/ FetchRejects(d)
  PROVE  OutboxInv' /\ TheLine' = TheLine /\ Moving = FALSE /\ Moving' = FALSE
<1>1. Holding(d) /\ drain[d].phase = "wait"
  BY DEF Retryable, FetchRejects, Holding, InHandPhases
<1>2. posted' \in SUBSET Entries /\ faults' \in 0..MaxFaults
  BY OutboxAssumption DEF Retryable, FetchRejects, OutboxInv, TypeOK
<1>3. drain' = [drain EXCEPT ![d].phase = "requeue"] /\ "requeue" \in InHandPhases
  BY DEF Retryable, FetchRejects, InHandPhases
<1> QED
  BY <1>1, <1>2, <1>3, KeepInv, IHold DEF Retryable, FetchRejects

\* The look at the queue: an entry that finds it empty stands alone in the line, and
\* may lose its place.
LEMMA LookInv ==
  ASSUME OutboxInv, NEW d \in Drains, Look(d)
  PROVE  /\ OutboxInv' /\ TheLine' = TheLine /\ Moving = FALSE
         /\ \/ Moving' = FALSE
            \/ Moving' = TRUE /\ Len(TheLine) = 1
<1>1. Holding(d) /\ drain[d].phase = "requeue"
  BY DEF Look, Holding, InHandPhases
<1>2. Moving = FALSE /\ Len(TheLine) = Len(queue) + 1
  BY <1>1, IHold
<1>3. posted' \in SUBSET Entries /\ faults' \in 0..MaxFaults
  BY DEF Look, OutboxInv, TypeOK
<1>4. CASE queue = <<>>
  <2>1. drain' = [drain EXCEPT ![d].phase = "back"] /\ "back" \in InHandPhases
    BY <1>4 DEF Look, InHandPhases
  <2>2. OutboxInv' /\ TheLine' = TheLine /\ Moving' = TRUE
    BY <1>1, <1>3, <2>1, KeepInv DEF Look
  <2>3. Len(TheLine) = 1
    BY <1>2, <1>4, EmptySeq
  <2> QED
    BY <1>2, <2>2, <2>3
<1>5. CASE queue # <<>>
  <2>1. drain' = [drain EXCEPT ![d].phase = "front"] /\ "front" \in InHandPhases
    BY <1>5 DEF Look, InHandPhases
  <2>2. OutboxInv' /\ TheLine' = TheLine /\ Moving' = FALSE
    BY <1>1, <1>3, <2>1, KeepInv DEF Look
  <2> QED
    BY <1>2, <2>2
<1> QED
  BY <1>4, <1>5

\* The entry is back where it came from, or behind those that were pushed meanwhile.
LEMMA RequeueInv ==
  ASSUME OutboxInv, NEW d \in Drains, Requeue(d)
  PROVE  /\ OutboxInv'
         /\ \/ TheLine' = TheLine /\ Moving = FALSE /\ Moving' = FALSE
            \/ Line!FallBehind
<1> DEFINE e == drain[d].entry
<1>1. Holding(d) /\ drain[d].phase \in {"front", "back"} /\ queue \in Seq(Entries)
  BY DEF Requeue, Holding, InHandPhases, OutboxInv, TypeOK
<1>2. /\ e \in Entries /\ TheLine = <<e>> \o queue
      /\ Head(TheLine) = e /\ Tail(TheLine) = queue
      /\ Moving = (drain[d].phase = "back")
  BY <1>1, IHold
<1>3. queue' = IF drain[d].phase = "front" THEN <<e>> \o queue ELSE Append(queue, e)
  BY DEF Requeue, Requeued
<1>4. queue' \in Seq(Entries)
  BY <1>1, <1>2, <1>3, OneBefore, AppendProperties
<1>5. OutboxInv' /\ TheLine' = queue' /\ Moving' = FALSE
  <2>1. drain' = [drain EXCEPT ![d] = [phase |-> "idle", entry |-> None]]
    BY DEF Requeue, Thrown, Idle
  <2>2. /\ fate' \in [Entries -> {"new"} \cup Open \cup Settled]
        /\ waiting' \in [Tabs -> Nat]
    BY DEF Requeue, OutboxInv, TypeOK
  <2> QED
    BY <1>1, <1>4, <2>1, <2>2, LetGoInv DEF Requeue
<1> HIDE DEF e
<1>6. CASE drain[d].phase = "front"
  BY <1>2, <1>3, <1>5, <1>6
<1>7. CASE drain[d].phase = "back"
  BY <1>2, <1>3, <1>5, <1>7 DEF Line!FallBehind, Requeue
<1> QED
  BY <1>1, <1>5, <1>6, <1>7

\* A worker that dies takes the first of the line with it, or nothing.
LEMMA KillInv ==
  ASSUME OutboxInv, Kill
  PROVE  /\ OutboxInv'
         /\ \/ UNCHANGED Line!lineVars
            \/ Line!Leave("lost")
<1>1. drain' = [d \in Drains |-> [phase |-> "idle", entry |-> None]]
  BY DEF Kill, Idle
<1>2. fate' \in [Entries -> {"new"} \cup Open \cup Settled]
  BY DEF OutboxInv, TypeOK, Kill, Settled
<1>3. TypeOK'
  BY <1>1, <1>2, OutboxAssumption DEF OutboxInv, TypeOK, Kill, Phases
<1>4. OutboxInv'
  BY <1>1, <1>3 DEF OutboxInv, Kill, Alone, InItsHand, FoundIsFirst, AwaitedWasPosted, Running
<1>5. TheLine' = queue' /\ Moving' = FALSE /\ queue' = queue /\ posted' = posted
  <2>1. InHand' = {}
    BY <1>1 DEF InHand, Holding, InHandPhases
  <2>2. Hand' = <<>> /\ queue' = queue /\ queue \in Seq(Entries) /\ posted' = posted
    BY <2>1 DEF Hand, Kill, OutboxInv, TypeOK
  <2>3. Moving' = FALSE
    BY <1>1 DEF Moving
  <2> QED
    BY <2>2, <2>3, ConcatEmptySeq DEF TheLine
<1>6. CASE \A d \in Drains : ~Holding(d)
  <2>1. TheLine = queue /\ Moving = FALSE /\ InHand = {}
    BY <1>6, NobodyHolds DEF OutboxInv, TypeOK
  <2>2. fate' = fate
    BY <2>1 DEF Kill, OutboxInv, TypeOK
  <2>3. Moving' = Moving
    BY <1>5, <2>1 DEF Moving
  <2> QED
    BY <1>4, <1>5, <2>1, <2>2, <2>3 DEF Line!lineVars
<1>7. CASE \E d \in Drains : Holding(d)
  <2>1. PICK d \in Drains : Holding(d)
    BY <1>7
  <2>2. /\ InHand = {Head(TheLine)} /\ Head(TheLine) \in Entries
        /\ TheLine # <<>> /\ Tail(TheLine) = queue
    BY <2>1, IHold
  <2>3. fate' = [fate EXCEPT ![Head(TheLine)] = "lost"]
    BY <2>2 DEF Kill, OutboxInv, TypeOK
  <2> QED
    BY <1>4, <1>5, <2>2, <2>3 DEF Line!Leave
<1> QED
  BY <1>6, <1>7

-----------------------------------------------------------------------------
(* The refinement.                                                          *)

LEMMA PushRefines ==
  ASSUME OutboxInv, NEW e \in Entries, Push(e)
  PROVE  Line!Join(e)
<1>1. Hand' = Hand /\ Moving' = Moving
  BY DEF Push, Hand, InHand, Holding, Moving
<1>2. Hand \in Seq(Entries) /\ queue \in Seq(Entries) /\ <<e>> \in Seq(Entries)
  <2>1. CASE \E d \in Drains : Holding(d)
    <3>1. PICK d \in Drains : Holding(d)
      BY <2>1
    <3>2. Hand = <<drain[d].entry>> /\ drain[d].entry \in Entries
      BY <3>1, IHold
    <3> QED
      BY <3>2 DEF OutboxInv, TypeOK
  <2>2. CASE \A d \in Drains : ~Holding(d)
    BY <2>2, EmptySeq DEF Hand, InHand, OutboxInv, TypeOK
  <2> QED
    BY <2>1, <2>2
<1>3. Hand \o Append(queue, e) = Append(Hand \o queue, e)
  <2>1. Append(queue, e) = queue \o <<e>> /\ Hand \o queue \in Seq(Entries)
    BY <1>2, AppendIsConcat, ConcatProperties
  <2>2. Append(Hand \o queue, e) = (Hand \o queue) \o <<e>>
    BY <2>1, AppendIsConcat
  <2>3. (Hand \o queue) \o <<e>> = Hand \o (queue \o <<e>>)
    BY <1>2, ConcatAssociative
  <2> QED
    BY <2>1, <2>2, <2>3
<1>4. TheLine' = Append(TheLine, e)
  BY <1>1, <1>3 DEF TheLine, Push
<1> QED
  BY <1>1, <1>4 DEF Push, Line!Join

LEMMA WakeRefines ==
  ASSUME OutboxInv, NEW d \in Drains, Wake(d)
  PROVE  UNCHANGED Line!lineVars
<1>1. \A x \in Drains : drain'[x].phase \in {"idle", "find"} /\ drain[x].phase = "idle"
  BY DEF Wake, MayStart, Running, OutboxInv, TypeOK
<1>2. Hand' = Hand /\ Moving' = Moving
  BY <1>1 DEF Hand, InHand, Holding, InHandPhases, Moving
<1> QED
  BY <1>2 DEF Wake, TheLine, Line!lineVars

\* The tab and the connection do not touch the queue or what is in the hands.
LEMMA OutsideInv ==
  ASSUME OutboxInv, UNCHANGED <<queue, drain, posted>>, TypeOK'
  PROVE  OutboxInv' /\ TheLine' = TheLine /\ Moving' = Moving
<1>1. OutboxInv'
  BY DEF OutboxInv, Alone, InItsHand, FoundIsFirst, AwaitedWasPosted, Running
<1>2. TheLine' = TheLine /\ Moving' = Moving
  BY DEF TheLine, Hand, InHand, Holding, Moving
<1> QED
  BY <1>1, <1>2

LEMMA HandOverInv ==
  ASSUME OutboxInv, NEW t \in Tabs, NEW e \in Entries, HandOver(t, e)
  PROVE  OutboxInv' /\ Line!Handed(e)
<1>1. waiting' \in [Tabs -> Nat]
  BY DEF OutboxInv, TypeOK, HandOver
<1>2. TypeOK'
  BY <1>1 DEF OutboxInv, TypeOK, HandOver, Open
<1>3. OutboxInv' /\ TheLine' = TheLine /\ Moving' = Moving
  BY <1>2, OutsideInv DEF HandOver
<1> QED
  BY <1>3 DEF HandOver, Line!Handed

LEMMA ConnectionInv ==
  ASSUME OutboxInv, Disconnect \/ Connect \/ UNCHANGED outboxVars
  PROVE  OutboxInv' /\ UNCHANGED Line!lineVars
<1>1. TypeOK'
  BY OutboxAssumption DEF Disconnect, Connect, outboxVars, OutboxInv, TypeOK
<1>2. UNCHANGED <<fate, queue, drain, posted>>
  BY DEF Disconnect, Connect, outboxVars
<1>3. OutboxInv' /\ TheLine' = TheLine /\ Moving' = Moving
  BY <1>1, <1>2, OutsideInv
<1> QED
  BY <1>2, <1>3 DEF Line!lineVars

\* One step of a call: the invariant, and the step of the line that it is.
LEMMA ReplayInv ==
  ASSUME OutboxInv, NEW d \in Drains, Replay(d)
  PROVE  OutboxInv' /\ (Line!Serve \/ UNCHANGED Line!lineVars) /\ UNCHANGED <<older, passedBy>>
<1> USE DEF Line!Serve
<1>1. CASE Find(d)
  BY <1>1, FindInv DEF Line!lineVars, Find
<1>2. CASE Remove(d)
  BY <1>2, RemoveInv DEF Line!lineVars, Remove
<1>3. CASE Fetch(d)
  BY <1>3, FetchInv DEF Line!lineVars, Fetch
<1>4. ASSUME NEW outcome \in {"sent", "dropped"}, Answered(d, outcome)
      PROVE  OutboxInv' /\ Line!Serve /\ UNCHANGED <<older, passedBy>>
  BY <1>4, AnsweredInv DEF Answered
<1>5. CASE Retryable(d) \/ FetchRejects(d)
  BY <1>5, FailedInv DEF Line!lineVars, Retryable, FetchRejects
<1>6. CASE Look(d)
  BY <1>6, LookInv DEF Line!lineVars, Look, Line!StepAside
<1>7. CASE Requeue(d)
  BY <1>7, RequeueInv DEF Line!lineVars, Requeue
<1> QED
  BY <1>1, <1>2, <1>3, <1>4, <1>5, <1>6, <1>7 DEF Replay

LEMMA OutboxStep ==
  ASSUME OutboxInv, [Next]_outboxVars
  PROVE  /\ OutboxInv'
         /\ \/ \E e \in Entries : Push(e) /\ Line!Join(e)
            \/ /\ UNCHANGED <<older, passedBy>>
               /\ (\E e \in Entries : Line!Handed(e)) \/ Line!Serve \/ UNCHANGED Line!lineVars
<1>1. ASSUME NEW e \in Entries, Push(e)
      PROVE  OutboxInv' /\ Line!Join(e)
  BY <1>1, PushInv, PushRefines
<1>2. ASSUME NEW t \in Tabs, NEW e \in Entries, HandOver(t, e)
      PROVE  OutboxInv' /\ Line!Handed(e) /\ UNCHANGED <<older, passedBy>>
  BY <1>2, HandOverInv DEF HandOver
<1>3. ASSUME NEW d \in Drains, Wake(d)
      PROVE  OutboxInv' /\ UNCHANGED Line!lineVars /\ UNCHANGED <<older, passedBy>>
  BY <1>3, WakeInv, WakeRefines DEF Wake
<1>4. ASSUME NEW d \in Drains, Replay(d)
      PROVE  OutboxInv' /\ (Line!Serve \/ UNCHANGED Line!lineVars) /\ UNCHANGED <<older, passedBy>>
  BY <1>4, ReplayInv
<1>5. ASSUME Kill
      PROVE  OutboxInv' /\ (Line!Serve \/ UNCHANGED Line!lineVars) /\ UNCHANGED <<older, passedBy>>
  BY <1>5, KillInv DEF Kill, Line!Serve
<1>6. ASSUME Disconnect \/ Connect \/ UNCHANGED outboxVars
      PROVE  OutboxInv' /\ UNCHANGED Line!lineVars /\ UNCHANGED <<older, passedBy>>
  BY <1>6, ConnectionInv DEF Disconnect, Connect, outboxVars
<1> QED
  BY <1>1, <1>2, <1>3, <1>4, <1>5, <1>6 DEF Next

LEMMA OutboxInvariant == Spec => []OutboxInv
  BY OutboxInit, OutboxStep, PTL DEF Spec

\* Every variable keeps its range: a count is a count, a call is in a phase that it
\* has, and nothing but entries is in the queue.
THEOREM OutboxTypes == Spec => []TypeOK
<1>1. OutboxInv => TypeOK
  BY DEF OutboxInv
<1> QED
  BY <1>1, OutboxInvariant, PTL

\* At the start nobody stands in the line.
LEMMA LineStarts == Init => Line!Init /\ TheLine = <<>> /\ ~Moving
<1> SUFFICES ASSUME Init
             PROVE  Line!Init /\ TheLine = <<>> /\ Moving = FALSE
  OBVIOUS
<1>1. \A d \in Drains : ~Holding(d)
  BY DEF Init, Holding, Idle, InHandPhases
<1>2. TheLine = queue /\ Moving = FALSE /\ queue = <<>>
  BY <1>1, NobodyHolds, EmptySeq DEF Init
<1> QED
  BY <1>2 DEF Init, Line!Init

\* The service worker's outbox, with its overlapping wakes, lost connections, entries
\* put back in two transactions and workers killed, is one line served from the front,
\* in which only one that stands alone can lose its place.
THEOREM OutboxIsOneLine == Spec => ImplementsMessageLine
<1>1. Init => Line!Init
  BY LineStarts
<1>2. OutboxInv /\ [Next]_outboxVars => [Line!Next]_(Line!lineVars)
  BY OutboxStep DEF Line!Next
<1> QED
  BY <1>1, <1>2, OutboxInvariant, PTL DEF Spec, ImplementsMessageLine, Line!Spec

LEMMA OutboxLine == Spec => []Line!LineInv
  BY OutboxIsOneLine, LineInvariant, PTL DEF ImplementsMessageLine

-----------------------------------------------------------------------------
(* The order of the line.                                                   *)

\* An entry that was pushed before another one was not pushed after it.
OlderWerePushed ==
  \A e, x \in Entries : x \in older[e] =>
    x \in Pushed /\ e \in Pushed /\ e \notin older[x]

\* Who stands before another was pushed before, or while that one was put back.
LineIsSorted ==
  \A i, j \in 1..Len(TheLine) : i < j =>
    \/ TheLine[i] \in older[TheLine[j]]
    \/ TheLine[i] \in passedBy[TheLine[j]]

\* Behind an entry that is put back at the end stand those that will pass it.
JoinedMeanwhile ==
  Moving => \A i \in 1..Len(TheLine) : i # 1 => TheLine[i] \in passedBy[TheLine[1]]

OrderInv == OlderWerePushed /\ LineIsSorted /\ JoinedMeanwhile /\ InOrder

\* The newest goes to the end, behind everybody and, should the first be on its way
\* to the end, before that one.
LEMMA PushOrder ==
  ASSUME OutboxInv, Line!LineInv, OrderInv, NEW e \in Entries, Push(e)
  PROVE  OrderInv'
<1>1. /\ fate[e] = "handed" /\ fate' = [fate EXCEPT ![e] = "pushed"]
      /\ fate \in [Entries -> {"new"} \cup Open \cup Settled]
      /\ older \in [Entries -> SUBSET Entries] /\ passedBy \in [Entries -> SUBSET Entries]
      /\ older' = [older EXCEPT ![e] = Pushed]
      /\ posted' = posted /\ drain' = drain
  BY DEF Push, OutboxInv, TypeOK
<1>2. \A x \in Entries : /\ passedBy[x] \subseteq passedBy'[x]
                         /\ PutAtEnd(x) => e \in passedBy'[x]
  BY DEF Push, OutboxInv, TypeOK
<1>3. Pushed' = Pushed \cup {e} /\ e \notin Pushed
  BY <1>1 DEF Pushed
<1>4. OlderWerePushed'
  BY <1>1, <1>3 DEF OrderInv, OlderWerePushed
<1> DEFINE n == Len(TheLine)
<1>5. /\ n \in Nat /\ Len(TheLine') = n + 1 /\ TheLine'[n + 1] = e
      /\ \A i \in 1..n : TheLine'[i] = TheLine[i] /\ TheLine[i] \in Entries
      /\ Moving' = Moving
  <2>1. TheLine' = Append(TheLine, e) /\ Moving' = Moving /\ TheLine \in Seq(Entries)
    BY PushRefines DEF Line!Join, Line!LineInv, Line!LineTypeOK
  <2> QED
    BY <2>1, AppendProperties, LenProperties
<1>6. \A i \in 1..n : TheLine[i] \in Pushed /\ TheLine[i] # e
  <2>1. \A i \in 1..n : fate[TheLine[i]] = "pushed"
    BY <1>5 DEF Line!LineInv, Line!StandsOnce
  <2> QED
    BY <1>1, <1>5, <2>1 DEF Pushed
<1>7. LineIsSorted'
  <2> SUFFICES ASSUME NEW i \in 1..(n + 1), NEW j \in 1..(n + 1), i < j
               PROVE  \/ TheLine'[i] \in older'[TheLine'[j]]
                      \/ TheLine'[i] \in passedBy'[TheLine'[j]]
    BY <1>5 DEF LineIsSorted
  <2>1. i \in 1..n
    BY <1>5
  <2>2. CASE j = n + 1
    BY <1>1, <1>5, <1>6, <2>1, <2>2
  <2>3. CASE j # n + 1
    <3>1. j \in 1..n
      BY <1>5, <2>3
    <3>2. TheLine[i] \in older[TheLine[j]] \/ TheLine[i] \in passedBy[TheLine[j]]
      BY <2>1, <3>1 DEF OrderInv, LineIsSorted
    <3>3. /\ TheLine'[i] = TheLine[i] /\ TheLine'[j] = TheLine[j] /\ TheLine[j] \in Entries
          /\ older'[TheLine[j]] = older[TheLine[j]]
      BY <1>1, <1>5, <1>6, <2>1, <3>1
    <3> QED
      BY <1>2, <3>2, <3>3
  <2> QED
    BY <2>2, <2>3
<1>8. JoinedMeanwhile'
  <2> SUFFICES ASSUME Moving, NEW i \in 1..(n + 1), i # 1
               PROVE  TheLine'[i] \in passedBy'[TheLine'[1]]
    BY <1>5 DEF JoinedMeanwhile
  <2>1. PICK d \in Drains : drain[d].phase = "back"
    BY DEF Moving
  <2>2. Holding(d)
    BY <2>1 DEF Holding, InHandPhases
  <2>3. /\ drain[d].entry \in Entries /\ Head(TheLine) = drain[d].entry
        /\ TheLine \in Seq(Entries) /\ TheLine # <<>>
    BY <2>2, IHold
  <2>4. TheLine[1] = drain[d].entry /\ 1 \in 1..n
    BY <2>3, WithoutFirst
  <2>5. PutAtEnd(TheLine[1])
    <3>1. drain[d] \in [phase : Phases, entry : Entries \cup {None}]
      BY DEF OutboxInv, TypeOK
    <3> QED
      BY <2>1, <2>4, <3>1 DEF PutAtEnd
  <2>6. TheLine'[1] = TheLine[1] /\ TheLine[1] \in Entries
    BY <1>5, <2>4
  <2>7. CASE i = n + 1
    BY <1>2, <1>5, <2>5, <2>6, <2>7
  <2>8. CASE i # n + 1
    <3>1. i \in 1..n
      BY <1>5, <2>8
    <3>2. TheLine[i] \in passedBy[TheLine[1]] /\ TheLine'[i] = TheLine[i]
      BY <1>5, <3>1 DEF OrderInv, JoinedMeanwhile
    <3> QED
      BY <1>2, <2>6, <3>2
  <2> QED
    BY <2>7, <2>8
<1>9. InOrder'
  <2> SUFFICES ASSUME NEW y \in posted, NEW x \in older'[y], fate'[x] = "pushed"
               PROVE  y \in passedBy'[x]
    BY <1>1 DEF InOrder
  <2>1. y \in Entries /\ y \in Pushed /\ y # e
    BY <1>1 DEF Line!LineInv, Line!AnsweredWasPosted, Pushed, OutboxInv, TypeOK
  <2>2. x \in older[y] /\ x \in Entries /\ x \in Pushed
    BY <1>1, <2>1 DEF OrderInv, OlderWerePushed
  <2>3. fate[x] = "pushed"
    BY <1>1, <1>3, <2>2
  <2> QED
    BY <1>2, <2>2, <2>3 DEF OrderInv, InOrder
<1> QED
  BY <1>4, <1>7, <1>8, <1>9 DEF OrderInv

\* What has been pushed before what, while nothing is pushed.
LEMMA OlderStays ==
  ASSUME Line!LineInv, OrderInv, UNCHANGED <<older, passedBy>>,
         \A x \in Entries : x \in Pushed => x \in Pushed'
  PROVE  OlderWerePushed'
  BY DEF OrderInv, OlderWerePushed

\* Nothing is posted but the first, and what was pushed before it has left the line,
\* or was passed by it.
LEMMA PostOrder ==
  ASSUME OutboxInv, Line!LineInv, OrderInv, UNCHANGED <<older, passedBy>>, Line!Post
  PROVE  OrderInv'
<1>1. /\ fate' = fate /\ TheLine' = TheLine /\ Moving' = Moving /\ Moving = FALSE
      /\ TheLine # <<>> /\ posted' = posted \cup {Head(TheLine)}
      /\ TheLine \in Seq(Entries)
  BY DEF Line!Post, Line!LineInv, Line!LineTypeOK
<1>2. OlderWerePushed' /\ LineIsSorted' /\ JoinedMeanwhile'
  BY <1>1 DEF OrderInv, OlderWerePushed, Pushed, LineIsSorted, JoinedMeanwhile
<1>3. /\ Head(TheLine) = TheLine[1] /\ TheLine[1] \in Entries
      /\ 1 \in 1..Len(TheLine) /\ Len(TheLine) \in Nat
  BY <1>1, WithoutFirst
<1>4. ASSUME NEW x \in older[TheLine[1]], fate[x] = "pushed"
      PROVE  TheLine[1] \in passedBy[x]
  <2>1. x \in Entries /\ TheLine[1] \notin older[x] /\ x # TheLine[1]
    BY <1>3 DEF OrderInv, OlderWerePushed, OutboxInv, TypeOK
  <2>2. PICK i \in 1..Len(TheLine) : TheLine[i] = x
    BY <1>4, <2>1 DEF Line!LineInv, Line!StandsOnce
  <2>3. 1 < i
    BY <1>3, <2>1, <2>2
  <2>4. TheLine[1] \in older[TheLine[i]] \/ TheLine[1] \in passedBy[TheLine[i]]
    BY <1>3, <2>2, <2>3 DEF OrderInv, LineIsSorted
  <2> QED
    BY <2>1, <2>2, <2>4
<1>5. InOrder'
  BY <1>1, <1>3, <1>4 DEF OrderInv, InOrder
<1> QED
  BY <1>2, <1>5 DEF OrderInv

LEMMA LeaveOrder ==
  ASSUME OutboxInv, Line!LineInv, OrderInv, UNCHANGED <<older, passedBy>>,
         NEW outcome \in {"sent", "dropped", "expired", "lost"}, Line!Leave(outcome)
  PROVE  OrderInv'
<1> DEFINE first == Head(TheLine)
<1>1. /\ fate' = [fate EXCEPT ![first] = outcome] /\ Moving' = FALSE /\ posted' = posted
      /\ TheLine # <<>> /\ TheLine \in Seq(Entries) /\ TheLine' = Tail(TheLine)
      /\ \A x \in Entries : fate[x] \in {"new", "handed", "pushed", "sent", "dropped", "expired", "lost"}
      /\ fate \in [Entries -> {"new", "handed", "pushed", "sent", "dropped", "expired", "lost"}]
  BY DEF Line!Leave, Line!LineInv, Line!LineTypeOK
<1>2. /\ Len(TheLine) \in Nat /\ Len(TheLine') = Len(TheLine) - 1
      /\ \A i \in 1..(Len(TheLine) - 1) : i + 1 \in 1..Len(TheLine) /\ TheLine'[i] = TheLine[i + 1]
  BY <1>1, WithoutFirst
<1>3. \A x \in Entries : /\ fate'[x] = "pushed" => fate[x] = "pushed"
                         /\ x \in Pushed => x \in Pushed'
  BY <1>1 DEF Pushed
<1>4. OlderWerePushed'
  BY <1>3, OlderStays
<1>5. LineIsSorted'
  <2> SUFFICES ASSUME NEW i \in 1..(Len(TheLine) - 1), NEW j \in 1..(Len(TheLine) - 1), i < j
               PROVE  \/ TheLine[i + 1] \in older[TheLine[j + 1]]
                      \/ TheLine[i + 1] \in passedBy[TheLine[j + 1]]
    BY <1>2 DEF LineIsSorted
  <2>1. i + 1 \in 1..Len(TheLine) /\ j + 1 \in 1..Len(TheLine) /\ i + 1 < j + 1
    BY <1>2
  <2> QED
    BY <2>1 DEF OrderInv, LineIsSorted
<1>6. JoinedMeanwhile'
  BY <1>1 DEF JoinedMeanwhile
<1>7. InOrder'
  <2> SUFFICES ASSUME NEW y \in posted, NEW x \in older[y], fate'[x] = "pushed"
               PROVE  y \in passedBy[x]
    BY <1>1 DEF InOrder
  <2>1. x \in Entries
    BY DEF OutboxInv, TypeOK
  <2> QED
    BY <1>3, <2>1 DEF OrderInv, InOrder
<1> QED
  BY <1>4, <1>5, <1>6, <1>7 DEF OrderInv

\* Those that have joined since stand before the one that is put back.
LEMMA FallBehindOrder ==
  ASSUME OutboxInv, Line!LineInv, OrderInv, UNCHANGED <<older, passedBy>>, Line!FallBehind
  PROVE  OrderInv'
<1> DEFINE n == Len(TheLine)
<1>1. /\ TheLine # <<>> /\ TheLine \in Seq(Entries) /\ Moving /\ Moving' = FALSE
      /\ TheLine' = Append(Tail(TheLine), Head(TheLine)) /\ UNCHANGED <<fate, posted>>
  BY DEF Line!FallBehind, Line!LineInv, Line!LineTypeOK, Line!MovingStands
<1>2. /\ Len(TheLine') = n /\ TheLine'[n] = TheLine[1] /\ n \in Nat
      /\ \A i \in 1..(n - 1) : i + 1 \in 1..n /\ TheLine'[i] = TheLine[i + 1]
  BY <1>1, FirstToTheEnd, WithoutFirst
<1>3. OlderWerePushed' /\ JoinedMeanwhile' /\ InOrder'
  BY <1>1 DEF OrderInv, OlderWerePushed, Pushed, JoinedMeanwhile, InOrder
<1>4. LineIsSorted'
  <2> SUFFICES ASSUME NEW i \in 1..n, NEW j \in 1..n, i < j
               PROVE  \/ TheLine'[i] \in older[TheLine'[j]]
                      \/ TheLine'[i] \in passedBy[TheLine'[j]]
    BY <1>2 DEF LineIsSorted
  <2>1. i \in 1..(n - 1) /\ i + 1 \in 1..n /\ TheLine'[i] = TheLine[i + 1]
    BY <1>2
  <2>2. CASE j = n
    <3>1. TheLine[i + 1] \in passedBy[TheLine[1]]
      BY <1>1, <2>1 DEF OrderInv, JoinedMeanwhile
    <3> QED
      BY <1>2, <2>1, <2>2, <3>1
  <2>3. CASE j # n
    <3>1. j + 1 \in 1..n /\ TheLine'[j] = TheLine[j + 1] /\ i + 1 < j + 1
      BY <1>2, <2>3
    <3> QED
      BY <2>1, <3>1 DEF OrderInv, LineIsSorted
  <2> QED
    BY <2>2, <2>3
<1> QED
  BY <1>3, <1>4 DEF OrderInv

\* A step that joins nobody, posts nothing and leaves the line as it is.
LEMMA QuietOrder ==
  ASSUME OutboxInv, Line!LineInv, OrderInv, UNCHANGED <<older, passedBy, posted>>,
         TheLine' = TheLine, Moving' => Moving \/ Len(TheLine) = 1,
         \A x \in Entries : /\ x \in Pushed => x \in Pushed'
                            /\ fate'[x] = "pushed" => fate[x] = "pushed"
  PROVE  OrderInv'
<1>1. OlderWerePushed'
  BY OlderStays
<1>2. LineIsSorted'
  BY DEF OrderInv, LineIsSorted
<1>3. JoinedMeanwhile'
  BY DEF OrderInv, JoinedMeanwhile
<1>4. InOrder'
  <2> SUFFICES ASSUME NEW y \in posted, NEW x \in older[y], fate'[x] = "pushed"
               PROVE  y \in passedBy[x]
    BY DEF InOrder
  <2>1. x \in Entries
    BY DEF OutboxInv, TypeOK
  <2> QED
    BY <2>1 DEF OrderInv, InOrder
<1> QED
  BY <1>1, <1>2, <1>3, <1>4 DEF OrderInv

LEMMA OrderStep ==
  ASSUME OutboxInv, Line!LineInv, OrderInv, [Next]_outboxVars
  PROVE  OrderInv'
<1>1. ASSUME NEW e \in Entries, Push(e)
      PROVE  OrderInv'
  BY <1>1, PushOrder
<1>2. CASE UNCHANGED <<older, passedBy>> /\ \E e \in Entries : Line!Handed(e)
  BY <1>2, QuietOrder DEF Line!Handed, Line!LineInv, Line!LineTypeOK, Pushed
<1>3. CASE UNCHANGED <<older, passedBy>> /\ Line!Serve
  <2>1. CASE Line!Post
    BY <1>3, <2>1, PostOrder
  <2>2. CASE Line!StepAside
    BY <1>3, <2>2, QuietOrder DEF Line!StepAside, Pushed
  <2>3. CASE Line!FallBehind
    BY <1>3, <2>3, FallBehindOrder
  <2>4. ASSUME NEW outcome \in {"sent", "dropped", "expired", "lost"}, Line!Leave(outcome)
        PROVE  OrderInv'
    BY <1>3, <2>4, LeaveOrder
  <2> QED
    BY <1>3, <2>1, <2>2, <2>3, <2>4 DEF Line!Serve
<1>4. CASE UNCHANGED <<older, passedBy>> /\ UNCHANGED Line!lineVars
  BY <1>4, QuietOrder DEF Line!lineVars, Pushed
<1> QED
  BY <1>1, <1>2, <1>3, <1>4, OutboxStep

LEMMA OrderStarts == Init => OrderInv
<1> SUFFICES ASSUME Init
             PROVE  OrderInv
  OBVIOUS
<1>1. Len(TheLine) = 0 /\ ~Moving
  BY LineStarts, EmptySeq
<1> QED
  BY <1>1 DEF Init, OrderInv, OlderWerePushed, LineIsSorted, JoinedMeanwhile, InOrder

\* Oldest first: nothing is posted while an entry that was accepted before it is
\* still to be answered, unless it was accepted while that one was being put back into
\* an empty queue.
THEOREM OldestFirst == Spec => []InOrder
<1>1. OutboxInv /\ Line!LineInv /\ OrderInv /\ [Next]_outboxVars => OrderInv'
  BY OrderStep
<1>2. OrderInv => InOrder
  BY DEF OrderInv
<1> QED
  BY <1>1, <1>2, OrderStarts, OutboxInvariant, OutboxLine, PTL DEF Spec

-----------------------------------------------------------------------------
(* What follows from the line.                                              *)

\* What stands in the line once is in the hand or in the queue.
LEMMA StandingIsHeld ==
  ASSUME OutboxInv, Line!LineInv
  PROVE  HeldOnce
<1>1. queue \in Seq(Entries) /\ DOMAIN queue = 1..Len(queue) /\ Len(queue) \in Nat
  BY LenProperties DEF OutboxInv, TypeOK
<1>2. ASSUME NEW e \in Entries, NEW d \in Holders(e)
      PROVE  d \in Drains /\ Holding(d) /\ drain[d].entry = e
  <2>1. d \in Drains /\ drain[d].entry = e /\ drain[d].phase # "remove" /\ e # None
    BY OutboxAssumption DEF Holders
  <2>2. drain[d].phase \in Phases
    BY <2>1 DEF OutboxInv, TypeOK
  <2> QED
    BY <2>1, <2>2 DEF OutboxInv, InItsHand, Phases, Holding
<1>3. CASE \E d \in Drains : Holding(d)
  <2>1. PICK d \in Drains : Holding(d)
    BY <1>3
  <2> DEFINE h == drain[d].entry
  <2>2. h \in Entries /\ TheLine = <<h>> \o queue /\ InHand = {h}
    BY <2>1, IHold
  <2>3. /\ Len(TheLine) = Len(queue) + 1 /\ TheLine[1] = h
        /\ \A i \in 1..Len(queue) : TheLine[i + 1] = queue[i]
    BY <1>1, <2>2, OneBefore
  <2>4. \A i \in 1..Len(queue) :
          i + 1 \in 1..Len(TheLine) /\ queue[i] = TheLine[i + 1] /\ queue[i] # h
    <3> SUFFICES ASSUME NEW i \in 1..Len(queue)
                 PROVE  i + 1 \in 1..Len(TheLine) /\ queue[i] # h
      BY <2>3
    <3>1. i + 1 \in 1..Len(TheLine) /\ 1 \in 1..Len(TheLine) /\ i + 1 # 1
      BY <1>1, <2>3
    <3>2. TheLine[i + 1] # TheLine[1]
      BY <3>1 DEF Line!LineInv, Line!StandsOnce
    <3> QED
      BY <2>3, <3>1, <3>2
  <2>5. \A i, j \in DOMAIN queue : queue[i] = queue[j] => i = j
    <3> SUFFICES ASSUME NEW i \in 1..Len(queue), NEW j \in 1..Len(queue), queue[i] = queue[j]
                 PROVE  i = j
      BY <1>1
    <3>1. i + 1 = j + 1
      BY <2>4 DEF Line!LineInv, Line!StandsOnce
    <3> QED
      BY <1>1, <3>1
  <2>6. ASSUME NEW e \in Entries
        PROVE  Holders(e) = IF e = h THEN {d} ELSE {}
    <3>1. \A x \in Holders(e) : x = d /\ e = h
      <4>1. drain[d].phase # "idle" /\ \A x \in Drains : Holding(x) => drain[x].phase # "idle"
        BY <2>1 DEF Holding, InHandPhases
      <4> QED
        BY <1>2, <2>1, <4>1 DEF OutboxInv, Alone, Running
    <3>2. e = h => d \in Holders(e)
      BY <2>1 DEF Holders, Holding, InHandPhases
    <3> QED
      BY <3>1, <3>2
  <2>7. ASSUME NEW e \in Entries
        PROVE  fate[e] = "pushed" <=> e = h \/ \E i \in 1..Len(queue) : queue[i] = e
    <3>1. fate[e] = "pushed" <=> \E k \in 1..Len(TheLine) : TheLine[k] = e
      BY DEF Line!LineInv, Line!StandsOnce
    <3>2. ASSUME NEW k \in 1..Len(TheLine), TheLine[k] = e
          PROVE  e = h \/ \E i \in 1..Len(queue) : queue[i] = e
      <4>1. CASE k = 1
        BY <2>3, <3>2, <4>1
      <4>2. CASE k # 1
        <5>1. k - 1 \in 1..Len(queue) /\ (k - 1) + 1 = k
          BY <1>1, <2>3, <4>2
        <5> QED
          BY <2>3, <3>2, <5>1
      <4> QED
        BY <4>1, <4>2
    <3>3. 1 \in 1..Len(TheLine)
      BY <1>1, <2>3
    <3> QED
      BY <2>3, <2>4, <3>1, <3>2, <3>3
  <2> HIDE DEF h
  <2>8. ASSUME NEW e \in Entries
        PROVE  /\ \A x, y \in Holders(e) : x = y
               /\ Holders(e) # {} <=> e = h
    BY <2>6
  <2>9. ASSUME NEW e \in Entries
        PROVE  /\ fate[e] = "pushed" <=> (\E i \in DOMAIN queue : queue[i] = e) \/ Holders(e) # {}
               /\ ~((\E i \in DOMAIN queue : queue[i] = e) /\ Holders(e) # {})
    BY <1>1, <2>4, <2>7, <2>8
  <2> QED
    BY <2>5, <2>8, <2>9 DEF HeldOnce
<1>4. CASE \A d \in Drains : ~Holding(d)
  <2>1. TheLine = queue
    BY <1>1, <1>4, NobodyHolds
  <2>2. \A e \in Entries : Holders(e) = {}
    BY <1>2, <1>4
  <2>3. /\ \A i, j \in 1..Len(queue) : queue[i] = queue[j] => i = j
        /\ \A e \in Entries : fate[e] = "pushed" <=> \E i \in 1..Len(queue) : queue[i] = e
    BY <2>1 DEF Line!LineInv, Line!StandsOnce
  <2> QED
    BY <1>1, <2>2, <2>3 DEF HeldOnce
<1> QED
  BY <1>3, <1>4

\* A message that was accepted and not yet answered is in the queue or in one hand,
\* once, whatever has failed; one that has been settled is in neither.
THEOREM EachIsHeldOnce == Spec => []HeldOnce
  BY StandingIsHeld, OutboxInvariant, OutboxLine, PTL

\* No message is reported to its tabs as sent, or as rejected, that was never posted:
\* the connection that fails is not taken for an answer.
THEOREM NoAnswerWithoutPost ==
  Spec => [](\A e \in Entries : fate[e] \in {"sent", "dropped"} => e \in posted)
<1>1. Line!LineInv => \A e \in Entries : fate[e] \in {"sent", "dropped"} => e \in posted
  BY DEF Line!LineInv, Line!AnsweredWasPosted
<1> QED
  BY <1>1, OutboxLine, PTL

\* What has become of a message is never changed afterwards: an answer is not followed
\* by another one, nor by losing the message.
OutcomesStand == \A e \in Entries : fate[e] \in Settled => fate'[e] = fate[e]

\* Only what still waits for its answer is posted.
PostsWhatWaits == \A d \in Drains : Fetch(d) => fate[drain[d].entry] = "pushed"

\* A message that has been answered, or is too old, or lost, stays so and is not posted
\* again by this call or by any other that overlaps with it.
THEOREM SettledForGood ==
  Spec => [][OutcomesStand /\ PostsWhatWaits]_outboxVars
<1>1. ASSUME Line!LineInv, [Line!Next]_(Line!lineVars)
      PROVE  OutcomesStand
  <2> USE DEF OutcomesStand, Settled
  <2>1. fate \in [Entries -> {"new", "handed", "pushed", "sent", "dropped", "expired", "lost"}]
    BY <1>1 DEF Line!LineInv, Line!LineTypeOK
  <2>2. ASSUME NEW e \in Entries, Line!Handed(e) \/ Line!Join(e)
        PROVE  OutcomesStand
    BY <2>1, <2>2 DEF Line!Handed, Line!Join
  <2>3. CASE Line!Post \/ Line!StepAside \/ Line!FallBehind
    BY <2>3 DEF Line!Post, Line!StepAside, Line!FallBehind
  <2>4. ASSUME NEW outcome \in {"sent", "dropped", "expired", "lost"}, Line!Leave(outcome)
        PROVE  OutcomesStand
    <3>1. TheLine \in Seq(Entries) /\ TheLine # <<>> /\ fate' = [fate EXCEPT ![Head(TheLine)] = outcome]
      BY <1>1, <2>4 DEF Line!Leave, Line!LineInv, Line!LineTypeOK
    <3>2. Head(TheLine) = TheLine[1] /\ Head(TheLine) \in Entries /\ 1 \in 1..Len(TheLine)
      BY <3>1, WithoutFirst
    <3>3. fate[Head(TheLine)] = "pushed"
      BY <1>1, <3>2 DEF Line!LineInv, Line!StandsOnce
    <3> QED
      BY <2>1, <3>1, <3>3
  <2>5. CASE UNCHANGED Line!lineVars
    BY <2>5 DEF Line!lineVars
  <2> QED
    BY <1>1, <2>2, <2>3, <2>4, <2>5 DEF Line!Next, Line!Serve
<1>2. ASSUME OutboxInv, Line!LineInv
      PROVE  PostsWhatWaits
  <2> SUFFICES ASSUME NEW d \in Drains, Fetch(d)
               PROVE  fate[drain[d].entry] = "pushed"
    BY DEF PostsWhatWaits
  <2>1. Holding(d)
    BY DEF Fetch, Holding, InHandPhases
  <2>2. /\ TheLine \in Seq(Entries) /\ TheLine # <<>> /\ Head(TheLine) = drain[d].entry
        /\ drain[d].entry \in Entries
    BY <1>2, <2>1, IHold
  <2>3. TheLine[1] = drain[d].entry /\ 1 \in 1..Len(TheLine)
    BY <2>2, WithoutFirst
  <2> QED
    BY <1>2, <2>2, <2>3 DEF Line!LineInv, Line!StandsOnce
<1>3. Line!LineInv /\ OutboxInv /\ [Line!Next]_(Line!lineVars)
        => [OutcomesStand /\ PostsWhatWaits]_outboxVars
  BY <1>1, <1>2
<1> QED
  BY <1>3, OutboxInvariant, OutboxLine, OutboxIsOneLine, PTL
  DEF ImplementsMessageLine, Line!Spec

-----------------------------------------------------------------------------
(* The counts of the tabs.                                                  *)

\* A message that nobody has handed over is nobody's, and is not outstanding.
NewIsNobodys == \A e \in Entries : fate[e] = "new" => owner[e] = None

CountInv == TypeOK /\ NewIsNobodys /\ NeverOvercounts

LEMMA OutstandingFinite ==
  ASSUME NEW t \in Tabs
  PROVE  IsFiniteSet(Outstanding(t)) /\ Cardinality(Outstanding(t)) \in Nat
<1>1. Outstanding(t) \subseteq Entries
  BY DEF Outstanding
<1> QED
  BY <1>1, OutboxAssumption, FS_Subset, FS_CardinalityType

\* A set of sends that does not shrink bounds a count that does not change.
LEMMA NotFewer ==
  ASSUME CountInv, NEW t \in Tabs, waiting'[t] = waiting[t],
         Outstanding(t) \subseteq Outstanding(t)', Outstanding(t)' \subseteq Entries
  PROVE  waiting'[t] \in 0..Cardinality(Outstanding(t)')
<1>1. IsFiniteSet(Outstanding(t)')
  BY OutboxAssumption, FS_Subset
<1>2. /\ Cardinality(Outstanding(t)) <= Cardinality(Outstanding(t)')
      /\ Cardinality(Outstanding(t)) \in Nat /\ Cardinality(Outstanding(t)') \in Nat
  BY <1>1, FS_Subset, FS_CardinalityType, OutstandingFinite
<1> QED
  BY <1>2 DEF CountInv, NeverOvercounts

\* A step that hands nothing over and settles nothing with an answer.
LEMMA QuietCounts ==
  ASSUME CountInv, TypeOK', UNCHANGED <<owner, waiting>>,
         \A e \in Entries : fate'[e] \in {"sent", "dropped", "new"} => fate'[e] = fate[e]
  PROVE  CountInv'
<1>1. \A t \in Tabs : /\ Outstanding(t) \subseteq Outstanding(t)'
                      /\ Outstanding(t)' \subseteq Entries
  BY DEF Outstanding
<1>2. NeverOvercounts'
  BY <1>1, NotFewer DEF NeverOvercounts
<1>3. NewIsNobodys'
  BY DEF CountInv, NewIsNobodys
<1> QED
  BY <1>2, <1>3 DEF CountInv

LEMMA HandOverCounts ==
  ASSUME CountInv, TypeOK', NEW t \in Tabs, NEW e \in Entries, HandOver(t, e)
  PROVE  CountInv'
<1>1. fate[e] = "new" /\ owner[e] = None /\ None \notin Tabs
  BY OutboxAssumption DEF HandOver, CountInv, NewIsNobodys
<1>2. /\ Outstanding(t)' = Outstanding(t) \cup {e} /\ e \notin Outstanding(t)
      /\ \A x \in Tabs : x # t => Outstanding(x)' = Outstanding(x)
  BY <1>1 DEF HandOver, CountInv, TypeOK, Outstanding
<1>3. Cardinality(Outstanding(t)') = Cardinality(Outstanding(t)) + 1
  BY <1>2, OutstandingFinite, FS_AddElement
<1>4. /\ waiting'[t] = waiting[t] + 1
      /\ \A x \in Tabs : x # t => waiting'[x] = waiting[x]
  BY DEF HandOver, CountInv, TypeOK
<1>5. \A x \in Tabs : /\ waiting[x] \in 0..Cardinality(Outstanding(x))
                     /\ Cardinality(Outstanding(x)) \in Nat
  BY OutstandingFinite DEF CountInv, NeverOvercounts
<1>6. NeverOvercounts'
  <2>1. waiting'[t] \in 0..Cardinality(Outstanding(t)')
    BY <1>3, <1>4, <1>5
  <2>2. \A x \in Tabs : x # t => waiting'[x] \in 0..Cardinality(Outstanding(x)')
    BY <1>2, <1>4, <1>5
  <2> QED
    BY <2>1, <2>2 DEF NeverOvercounts
<1>7. NewIsNobodys'
  BY DEF HandOver, CountInv, TypeOK, NewIsNobodys
<1> QED
  BY <1>6, <1>7 DEF CountInv

\* The news of one answer takes one from every count and one send from one of them.
LEMMA AnsweredCounts ==
  ASSUME CountInv, TypeOK', NEW d \in Drains, NEW outcome \in {"sent", "dropped"},
         Answered(d, outcome)
  PROVE  CountInv'
<1> DEFINE e == drain[d].entry
<1>1. ASSUME NEW t \in Tabs
      PROVE  waiting'[t] \in 0..Cardinality(Outstanding(t)')
  <2>1. Outstanding(t)' \in {Outstanding(t), Outstanding(t) \ {e}}
    BY DEF Answered, CountInv, TypeOK, Outstanding
  <2>2. /\ Cardinality(Outstanding(t)) \in Nat
        /\ Cardinality(Outstanding(t) \ {e}) \in Nat
        /\ Cardinality(Outstanding(t) \ {e}) >= Cardinality(Outstanding(t)) - 1
    <3>1. CASE e \in Outstanding(t)
      <4> HIDE DEF e
      <4>1. /\ Cardinality(Outstanding(t) \ {e}) = Cardinality(Outstanding(t)) - 1
            /\ IsFiniteSet(Outstanding(t) \ {e})
        BY <3>1, OutstandingFinite, FS_RemoveElement
      <4>2. Cardinality(Outstanding(t) \ {e}) \in Nat
        BY <4>1, FS_CardinalityType
      <4> QED
        BY <4>1, <4>2, OutstandingFinite
    <3>2. CASE e \notin Outstanding(t)
      <4>1. Outstanding(t) \ {e} = Outstanding(t)
        BY <3>2
      <4> QED
        BY <4>1, OutstandingFinite
    <3> QED
      BY <3>1, <3>2
  <2>3. /\ waiting[t] \in 0..Cardinality(Outstanding(t))
        /\ waiting'[t] = IF waiting[t] > 0 THEN waiting[t] - 1 ELSE 0
    BY DEF Answered, Broadcast, SettleQueued, CountInv, NeverOvercounts
  <2>4. /\ Cardinality(Outstanding(t)') \in Nat
        /\ Cardinality(Outstanding(t)') >= Cardinality(Outstanding(t)) - 1
    <3>1. CASE Outstanding(t)' = Outstanding(t)
      BY <2>2, <3>1
    <3>2. CASE Outstanding(t)' = Outstanding(t) \ {e}
      <4> HIDE DEF e
      <4> QED
        BY <2>2, <3>2
    <3> QED
      BY <2>1, <3>1, <3>2
  <2> QED
    BY <2>2, <2>3, <2>4
<1>2. NewIsNobodys'
  BY DEF Answered, CountInv, TypeOK, NewIsNobodys
<1> QED
  BY <1>1, <1>2 DEF CountInv, NeverOvercounts

LEMMA CountStep == CountInv /\ TypeOK' /\ [Next]_outboxVars => CountInv'
<1> SUFFICES ASSUME CountInv, TypeOK', [Next]_outboxVars
             PROVE  CountInv'
  OBVIOUS
<1>1. ASSUME NEW t \in Tabs, NEW e \in Entries, HandOver(t, e)
      PROVE  CountInv'
  BY <1>1, HandOverCounts
<1>2. ASSUME NEW d \in Drains, NEW outcome \in {"sent", "dropped"}, Answered(d, outcome)
      PROVE  CountInv'
  BY <1>2, AnsweredCounts
<1>3. ASSUME NEW e \in Entries, Push(e)
      PROVE  CountInv'
  BY <1>3, QuietCounts DEF Push, CountInv, TypeOK
<1>4. ASSUME NEW d \in Drains, Wake(d) \/ Find(d) \/ Fetch(d) \/ Look(d) \/ Requeue(d)
      PROVE  CountInv'
  BY <1>4, QuietCounts DEF Wake, Find, Fetch, Look, Requeue
<1>5. ASSUME NEW d \in Drains, Retryable(d) \/ FetchRejects(d)
      PROVE  CountInv'
  BY <1>5, QuietCounts DEF Retryable, FetchRejects
<1>6. ASSUME NEW d \in Drains, Remove(d)
      PROVE  CountInv'
  BY <1>6, QuietCounts DEF Remove, CountInv, TypeOK
<1>7. CASE Kill
  BY <1>7, QuietCounts DEF Kill, CountInv, TypeOK
<1>8. CASE Disconnect \/ Connect \/ UNCHANGED outboxVars
  BY <1>8, QuietCounts DEF Disconnect, Connect, outboxVars
<1> QED
  BY <1>1, <1>2, <1>3, <1>4, <1>5, <1>6, <1>7, <1>8 DEF Next, Replay

\* No tab says that more is waiting than it has handed over and not been told of, nor
\* less than nothing, though every tab is told of every answer.
THEOREM NoTabOvercounts == Spec => []NeverOvercounts
<1>1. Init => CountInv
  <2>1. Init => TypeOK
    BY OutboxInit DEF OutboxInv
  <2>2. Init => NewIsNobodys
    BY DEF Init, NewIsNobodys
  <2>3. Init => NeverOvercounts
    BY OutstandingFinite DEF Init, NeverOvercounts
  <2> QED
    BY <2>1, <2>2, <2>3 DEF CountInv
<1>2. CountInv => NeverOvercounts
  BY DEF CountInv
<1> QED
  BY <1>1, <1>2, CountStep, OutboxTypes, PTL DEF Spec
=============================================================================
