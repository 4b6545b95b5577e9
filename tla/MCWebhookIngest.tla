-------------------------- MODULE MCWebhookIngest --------------------------
(* Two events of any two kinds about an address, and two requests: an      *)
(* attempt and its retry, or both events at once.  A contact one soft      *)
(* bounce short of the limit lets the two orders of locking meet.          *)
EXTENDS WebhookIngest, TLC

AllFaults    == FaultKinds
SlowRequests == {"timedOut", "rolledBack"}

Symmetry == Permutations(Events) \cup Permutations(Requests)

=============================================================================
