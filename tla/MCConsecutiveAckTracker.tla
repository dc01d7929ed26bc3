---------------------- MODULE MCConsecutiveAckTracker ----------------------
(* Small instances of ConsecutiveAckTracker.                               *)
EXTENDS ConsecutiveAckTracker

CONSTANTS d1, d2, reader

OneDestination == {d1}
TwoDestinations == {d1, d2}
=============================================================================
