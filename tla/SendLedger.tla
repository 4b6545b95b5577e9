----------------------------- MODULE SendLedger -----------------------------
(* What one-to-one sending promises of one composition, whoever asks and  *)
(* however often: in one window of the provider's idempotency keys it is   *)
(* mailed at most once, and nobody is told that it was sent while it has   *)
(* neither been mailed nor been discarded.                                 *)
EXTENDS Naturals

CONSTANTS
  Requests,
  MaxDays

VARIABLES
  day,         \* the window of 24 hours
  mailed,      \* the mails of it: records with a day
  discarded,   \* whether a draft of it has been thrown away
  told         \* what each request was answered

ledgerVars == <<day, mailed, discarded, told>>

Init ==
  /\ day = 0
  /\ mailed = {}
  /\ discarded = FALSE
  /\ told = [r \in Requests |-> "nothing"]

Mail ==
  /\ \A m \in mailed : m.day # day
  /\ \E m \in mailed' : m.day = day /\ mailed' = mailed \cup {m}
  /\ UNCHANGED <<day, discarded, told>>

Tell(r, answer) ==
  /\ told[r] = "nothing"
  /\ answer = "ok" => mailed # {} \/ discarded
  /\ told' = [told EXCEPT ![r] = answer]
  /\ UNCHANGED <<day, mailed, discarded>>

Discard ==
  /\ discarded' = TRUE
  /\ UNCHANGED <<day, mailed, told>>

NextDay ==
  /\ day < MaxDays
  /\ day' = day + 1
  /\ UNCHANGED <<mailed, discarded, told>>

Next ==
  \/ Mail \/ Discard \/ NextDay
  \/ \E r \in Requests, answer \in {"ok", "no"} : Tell(r, answer)

Spec == Init /\ [][Next]_ledgerVars

=============================================================================
