--------------------------- MODULE MCLogQueueFifo ---------------------------
(* Small instances of LogQueueFifo for TLC.                                *)
EXTENDS LogQueueFifo

CONSTANTS t1, s1

OneFast == {t1}
OneSlow == {s1}
TwoOrOne == [t \in {t1, s1} |-> IF t = t1 THEN 2 ELSE 1]
=============================================================================
