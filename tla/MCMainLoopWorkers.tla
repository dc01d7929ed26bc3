------------------------- MODULE MCMainLoopWorkers -------------------------
(***************************************************************************)
(* MainLoopWorkers on a small instance: a threaded source posts two        *)
(* messages of one key, which fill its window, and a reader one of another. *)
(***************************************************************************)
EXTENDS MainLoopWorkers

Keys == [s \in Sources |-> IF s \in Threaded THEN <<0, 0>> ELSE <<1>>]
Posts == [s \in Sources |-> IF s \in Threaded THEN 2 ELSE 1]

=============================================================================
