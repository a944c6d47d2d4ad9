---------------------------- MODULE MC_Invoices ----------------------------
(* Small instance of Invoices.                                               *)
EXTENDS Invoices, TLC

CONSTANTS p1, p2, r1, r2
=============================================================================
