------------------------ MODULE MCCampaignPipeline ------------------------
(* One campaign, with every way of changing it and every kind of fault, on *)
(* an audience small enough for all interleavings: the send worker's own   *)
(* concurrency is MCSendWorker's subject.                                  *)
EXTENDS CampaignPipeline, TLC

Reported == {"sent"}

AllStatuses == CampaignStatuses
AllLabels   == {"suppressed", "cancelled"}
AllFaults   == FaultKinds

Symmetry == Permutations(Contacts) \cup Permutations(Runs)
            \cup Permutations(Workers) \cup Permutations(QueueRuns)

=============================================================================
