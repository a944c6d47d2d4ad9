-------------------------- MODULE MC_OrderEffects --------------------------
(* Small instances of OrderEffects: the sets the configurations choose from. *)
EXTENDS OrderEffects

CONSTANTS o1, o2

MCPayments == 1..1
MCOrderOf  == [p \in MCPayments |-> o1]

(* One online or cash order, or an online order and a free or cash order     *)
(* that compete for stock.                                                  *)
MCMethodOne    == [o \in {o1} |-> "ONLINE"]
MCMethodTwo    == [o \in {o1, o2} |-> IF o = o1 THEN "ONLINE" ELSE "FREE"]
MCMethodPaid   == [o \in {o1, o2} |-> IF o = o1 THEN "ONLINE" ELSE "CASH"]
MCTwoUnits     == [o \in Orders |-> 2]
MCWallet       == [o \in Orders |-> 1]
MCCode         == [o \in Orders |-> TRUE]

Do(op, o)     == [op |-> op, order |-> o, to |-> "DELETED", qty |-> 0]
Move(o, to)   == [op |-> "status", order |-> o, to |-> to, qty |-> 0]
Edit(o, n)    == [op |-> "edit", order |-> o, to |-> "DELETED", qty |-> n]

Moves(o) == {Move(o, to) : to \in {"CONFIRMED", "PROCESSING", "SHIPPED", "CANCELLED", "DELETED"}}
Late(o)  == {Move(o, to) : to \in {"DELIVERED", "COMPLETED", "REFUNDED"}}

MCCancels     == {Move(o1, "CANCELLED")}
MCAllButEdits == UNION {Moves(o) \cup {Do(op, o) : op \in {"void", "purge", "track"}} : o \in Orders}
MCBooks       == Moves(o1) \cup Late(o1) \cup {Do("track", o1)} \cup Moves(o2)
                   \cup {Do(op, o2) : op \in {"void", "purge", "track", "note"}}
                   \cup {Edit(o2, 1), Edit(o2, 3)}
=============================================================================
