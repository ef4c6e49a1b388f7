---------------------------- MODULE SmsDelivery ----------------------------
(****************************************************************************)
(* What the RIL promises the framework about incoming messages: they are    *)
(* handed over in the order in which the modem sent them, each once, and    *)
(* one only after the one before it has been acknowledged.                  *)
(****************************************************************************)
EXTENDS Naturals, Sequences

CONSTANT Messages

VARIABLES
    arrived,        \* what the modem has sent, in order
    delivered,      \* what the framework has been given, in order
    acknowledged    \* how many of them it has acknowledged

Init == arrived = <<>> /\ delivered = <<>> /\ acknowledged = 0

Arrive(m) ==
    /\ arrived' = Append(arrived, m)
    /\ UNCHANGED <<delivered, acknowledged>>

Deliver ==
    /\ Len(delivered) < Len(arrived) /\ acknowledged = Len(delivered)
    /\ delivered' = Append(delivered, arrived[Len(delivered) + 1])
    /\ UNCHANGED <<arrived, acknowledged>>

Acknowledge ==
    /\ acknowledged < Len(delivered)
    /\ acknowledged' = acknowledged + 1
    /\ UNCHANGED <<arrived, delivered>>

Next == (\E m \in Messages : Arrive(m)) \/ Deliver \/ Acknowledge

Spec == Init /\ [][Next]_<<arrived, delivered, acknowledged>>
=============================================================================
