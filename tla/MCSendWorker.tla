--------------------------- MODULE MCSendWorker ---------------------------
(* Two runs and two workers over an audience that needs more than one      *)
(* batch: a leftover worker of a failed attempt, a resumed run and a       *)
(* run continued in another all fit.  A campaign that is not sending is    *)
(* one that a run has completed; the other statuses are                    *)
(* MCCampaignPipeline's subject.                                           *)
EXTENDS SendWorker, TLC

Reported == {"sent"}
Written  == {"sending"}
Relabels == {"suppressed"}

Symmetry == Permutations(Contacts) \cup Permutations(Runs) \cup Permutations(Workers)

=============================================================================
