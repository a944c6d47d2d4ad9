------------------------- MODULE MC_ChannelDelivery -------------------------
(* Small instances of ChannelDelivery.                                       *)
EXTENDS ChannelDelivery, TLC

\* Workers are interchangeable, and so are calls.
MCSymmetry == Permutations(Workers) \cup Permutations(Handlers)

\* The properties say nothing of a delivery whose claim was given up, and with a
\* single delivery the day it was sent on decides nothing.  Administrators do one
\* thing at a time.
MCExplored ==
  /\ released = {}
  /\ cleared = {} \/ reopening = {}
  /\ \A d \in Deliveries : sentAt[d] # "before"
=============================================================================
