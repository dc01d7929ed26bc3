---------------------------- MODULE AckedStream ----------------------------
(***************************************************************************)
(* What a bookmark promises: a source reads a stream of messages, the      *)
(* destinations accept them in any order, and the stored position only     *)
(* moves forward, over messages that have all been accepted.  A restarted  *)
(* source continues at the stored position.                                *)
(***************************************************************************)
EXTENDS Naturals

CONSTANT Length     \* messages in the stream

VARIABLES
    posted,     \* position of the last message read
    accepted,   \* positions accepted by all of their destinations
    saved       \* the stored position

vars == <<posted, accepted, saved>>

Init == posted = 0 /\ accepted = {} /\ saved = 0

Post ==
    /\ posted < Length
    /\ posted' = posted + 1
    /\ UNCHANGED <<accepted, saved>>

Accept ==
    /\ \E m \in 1..posted : accepted' = accepted \cup {m}
    /\ UNCHANGED <<posted, saved>>

Save ==
    /\ \E p \in saved..posted : 1..p \subseteq accepted /\ saved' = p
    /\ UNCHANGED <<posted, accepted>>

Restart ==
    /\ posted' = saved
    /\ UNCHANGED <<accepted, saved>>

Next == Post \/ Accept \/ Save \/ Restart

Spec == Init /\ [][Next]_vars
=============================================================================
