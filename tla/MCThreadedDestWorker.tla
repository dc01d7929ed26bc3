------------------------ MODULE MCThreadedDestWorker ------------------------
(* Small instances of ThreadedDestWorker for TLC.                          *)
EXTENDS ThreadedDestWorker

ThreeMessages == <<1, 2, 2>>
=============================================================================
