------------------------ MODULE MCLogSourceWindow ------------------------
(* Small instances of LogSourceWindow.                                     *)
EXTENDS LogSourceWindow

CONSTANTS c1, c2, d1, d2

TwoSources == {c1, c2}
OneDestination == {d1}
TwoDestinations == {d1, d2}
===========================================================================
