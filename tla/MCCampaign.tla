----------------------------- MODULE MCCampaign -----------------------------
(* Instances of Campaign for TLC: one recipient and two concurrent handlers*)
(* for the races on a phone, two recipients and one handler for batches,   *)
(* continuations and the drain of a whole audience.                        *)
EXTENDS Campaign, TLC

WorkerSymmetry == Permutations(Workers)
=============================================================================
