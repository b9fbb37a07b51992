--------------------------- MODULE MCCampaignRunner ---------------------------
(***************************************************************************)
(* Small instances of CampaignRunner for TLC.                              *)
(***************************************************************************)
EXTENDS CampaignRunner, TLC

MCNoRows == {}

AcceptsOrFails == {"accepted", "failed"}
AcceptsOrLoses == {"accepted", "lost"}

Symmetry == Permutations(Runners) \cup Permutations(Campaigns)
=============================================================================
