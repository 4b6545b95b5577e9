------------------------- MODULE MCLiveDelivery -------------------------
(* LiveDelivery over one event of each kind: before the send, inside the   *)
(* sent band, three failures of which one has two names, a name only the   *)
(* list API reports and one the code has never heard of.                   *)
EXTENDS LiveDelivery

SomeWebhookEvents == {"delivered", "clicked", "bounced", "suppressed"}
SomeListedEvents  == {"scheduled", "delivered", "canceled", Unrecognised}

=============================================================================
