-------------------------- MODULE ReliableDelivery --------------------------
(***************************************************************************)
(* What the ALTP protocol promises to the log path it carries: the Sender  *)
(* releases a message only after the Receiver has made it durable.         *)
(***************************************************************************)
CONSTANTS
    Messages,
    Dropped         \* messages the Sender never sends

VARIABLES
    durable,        \* at the Receiver's destinations, for good
    released        \* acknowledged to the source by the Sender

Init ==
    /\ durable = {}
    /\ released = {}

MakeDurable ==
    /\ \E m \in Messages : durable' = durable \cup {m}
    /\ UNCHANGED released

Release ==
    /\ released' \subseteq durable \cup Dropped
    /\ released \subseteq released'
    /\ UNCHANGED durable

Next == MakeDurable \/ Release

Spec == Init /\ [][Next]_<<durable, released>>

=============================================================================
