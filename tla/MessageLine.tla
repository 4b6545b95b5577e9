---------------------------- MODULE MessageLine ----------------------------
(* What the offline outbox promises the person who pressed Send without a   *)
(* connection: the messages stand in one line, in the order in which they   *)
(* were accepted, and only the first of the line is ever served.  One that  *)
(* stands alone and has to be tried again may be overtaken, while it is put *)
(* back, by those that join in that moment.                                 *)
EXTENDS Integers, Sequences

CONSTANTS Entries

VARIABLES
  fate,    \* what became of each message
  line,    \* the messages that wait, in the order in which they will be served
  moving,  \* the first of the line stood alone and is being put back at its end
  posted   \* the messages that have been posted at least once

lineVars == <<fate, line, moving, posted>>

\* Send without a connection.
Handed(e) ==
  /\ fate[e] = "new"
  /\ fate' = [fate EXCEPT ![e] = "handed"]
  /\ UNCHANGED <<line, moving, posted>>

\* The worker accepts it: at the end of the line.
Join(e) ==
  /\ fate[e] = "handed"
  /\ fate' = [fate EXCEPT ![e] = "pushed"]
  /\ line' = Append(line, e)
  /\ UNCHANGED <<moving, posted>>

\* The first of the line is posted, again if need be.
Post ==
  /\ line # <<>> /\ ~moving
  /\ posted' = posted \cup {Head(line)}
  /\ UNCHANGED <<fate, line, moving>>

\* The first of the line leaves it: answered, which takes a post; too old; or lost
\* with the worker that had it in its hand.
Leave(outcome) ==
  /\ line # <<>>
  /\ outcome \in {"sent", "dropped"} => Head(line) \in posted
  /\ moving => outcome = "lost"
  /\ fate' = [fate EXCEPT ![Head(line)] = outcome]
  /\ line' = Tail(line)
  /\ moving' = FALSE
  /\ UNCHANGED posted

\* It stands alone and could not be served.
StepAside ==
  /\ Len(line) = 1 /\ ~moving
  /\ moving' = TRUE
  /\ UNCHANGED <<fate, line, posted>>

\* It is put back, behind those that have joined since.
FallBehind ==
  /\ moving
  /\ line' = Append(Tail(line), Head(line))
  /\ moving' = FALSE
  /\ UNCHANGED <<fate, posted>>

Init ==
  /\ fate = [e \in Entries |-> "new"]
  /\ line = <<>>
  /\ moving = FALSE
  /\ posted = {}

\* What becomes of the first of the line.
Serve ==
  \/ Post \/ StepAside \/ FallBehind
  \/ \E outcome \in {"sent", "dropped", "expired", "lost"} : Leave(outcome)

Next == (\E e \in Entries : Handed(e) \/ Join(e)) \/ Serve

Spec == Init /\ [][Next]_lineVars

-----------------------------------------------------------------------------
(* What follows from it *)

LineTypeOK ==
  /\ fate \in [Entries -> {"new", "handed", "pushed", "sent", "dropped", "expired", "lost"}]
  /\ line \in Seq(Entries)
  /\ moving \in BOOLEAN
  /\ posted \subseteq Entries

\* A message stands in the line once, and stands there while it waits.
StandsOnce ==
  /\ \A i, j \in 1..Len(line) : line[i] = line[j] => i = j
  /\ \A e \in Entries : fate[e] = "pushed" <=> \E i \in 1..Len(line) : line[i] = e

\* Nothing is put back that is not there.
MovingStands == moving => line # <<>>

\* What was never accepted was never posted, and nobody is told that a message was
\* sent, or rejected, which was not.
AnsweredWasPosted ==
  \A e \in Entries :
    /\ fate[e] \in {"sent", "dropped"} => e \in posted
    /\ e \in posted => fate[e] \notin {"new", "handed"}

LineInv == LineTypeOK /\ StandsOnce /\ MovingStands /\ AnsweredWasPosted

=============================================================================
