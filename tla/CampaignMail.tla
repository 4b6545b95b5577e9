--------------------------- MODULE CampaignMail ---------------------------
(* What the send pipeline promises about the mail of one campaign, in      *)
(* terms of the provider's requests and of the recipients that are closed  *)
(* - whose row says that their message has been dealt with.                *)
(*                                                                         *)
(* docs/ARCHITECTURE.md, "Not sending twice": a recipient that is closed   *)
(* is never mailed again; one run never mails a recipient twice; only a    *)
(* recipient the provider has been asked about is closed.  It does not     *)
(* promise more: a recipient whose batch the provider took but nobody      *)
(* recorded may be offered again by another run.                           *)
EXTENDS Naturals

CONSTANTS Contacts, Runs, MaxBatches

VARIABLES
  offered,    \* by idempotency key: the recipients of the request
  accepted,   \* by idempotency key: those the provider took
  closed      \* the recipients that are dealt with

mailVars == <<offered, accepted, closed>>

Keys == Runs \X (0..MaxBatches-1)

Init ==
  /\ offered = [k \in Keys |-> {}]
  /\ accepted = [k \in Keys |-> {}]
  /\ closed = {}

\* A first request under a key of a run.
Offer(k, S, A) ==
  /\ offered[k] = {}
  /\ S \cap closed = {}
  /\ \A j \in Keys : j[1] = k[1] => S \cap offered[j] = {}
  /\ offered' = [offered EXCEPT ![k] = S]
  /\ accepted' = [accepted EXCEPT ![k] = A]
  /\ UNCHANGED closed

Close(S) ==
  /\ S \subseteq UNION {offered[k] : k \in Keys}
  /\ closed' = closed \cup S
  /\ UNCHANGED <<offered, accepted>>

Next ==
  \/ \E S \in SUBSET Contacts : Close(S)
  \/ \E k \in Keys, S \in SUBSET Contacts : \E A \in SUBSET S : Offer(k, S, A)

Spec == Init /\ [][Next]_mailVars

=============================================================================
