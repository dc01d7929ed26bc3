----------------------- MODULE MCLogQueueDiskReliable -----------------------
(* Small instances of LogQueueDiskReliable for TLC.                        *)
EXTENDS LogQueueDiskReliable

OneAndTwo == {1, 2}
TwoCapacities == {5, 7}
NoneAndOne == {0, 1}
None == {}
=============================================================================
