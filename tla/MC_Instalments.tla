--------------------------- MODULE MC_Instalments ---------------------------
(* Small instance of Instalments: a contract of two unequal instalments, one  *)
(* of a single instalment and an order paid in advance.                      *)
EXTENDS Instalments, TLC

CONSTANTS o1, o2, o3, r1, r2, r3

MCRemainder == (o1 :> 3) @@ (o2 :> 2) @@ (o3 :> 0)
MCTermCount == (o1 :> 2) @@ (o2 :> 1) @@ (o3 :> 2)
MCSymmetry  == Permutations({r1, r2, r3})
=============================================================================
