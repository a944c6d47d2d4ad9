-------------------------- MODULE MC_SmsCampaigns --------------------------
(* A small instance of SmsCampaigns.                                        *)
EXTENDS SmsCampaigns
CONSTANTS p1, r1, r2
=============================================================================
