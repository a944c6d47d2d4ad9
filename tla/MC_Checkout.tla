----------------------------- MODULE MC_Checkout -----------------------------
(* Small instances of Checkout: one order, paid online.                      *)
EXTENDS Checkout, TLC

CONSTANTS o1

MCOrderOf == [p \in Payments |-> o1]
MCMethod  == [o \in {o1} |-> "ONLINE"]
MCNone    == [o \in {o1} |-> 0]
MCUnits   == [o \in {o1} |-> 1]
MCNoCode  == [o \in {o1} |-> FALSE]

Ask(op, to) == [op |-> op, order |-> o1, to |-> to, qty |-> 0]

MCAdmin == {Ask("status", "CANCELLED"), Ask("status", "CONFIRMED"), Ask("void", "DELETED"),
            Ask("track", "SHIPPED"), Ask("note", "CONFIRMED")}
\* Requests are interchangeable, and so are customers' requests.
MCSymmetry == Permutations(Clients) \cup Permutations(Requests)

MCCancel == {Ask("status", "CANCELLED")}
=============================================================================
