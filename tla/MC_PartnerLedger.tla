--------------------------- MODULE MC_PartnerLedger --------------------------
(* Small instance of PartnerLedger: an order with two lines and two payouts.  *)
EXTENDS PartnerLedger, TLC

CONSTANTS o1, i1, i2, p1, p2

MCOrderOf      == (i1 :> o1) @@ (i2 :> o1)
\* Distinct amounts, so that no sum of some equals a sum of others.
MCCommissionOf == (i1 :> 1) @@ (i2 :> 2)
=============================================================================
