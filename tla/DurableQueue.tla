---------------------------- MODULE DurableQueue ----------------------------
(***************************************************************************)
(* What a destination may rely on in a queue: an ordered list of accepted  *)
(* messages of which the first "taken" are handed out.  An acknowledgement *)
(* removes from the front, never past what is handed out; a rewind takes   *)
(* back the last ones handed out; nothing else leaves, unless the queue    *)
(* gives up all it has.                                                    *)
(***************************************************************************)
EXTENDS Naturals, Sequences

VARIABLES stored, taken

vars == <<stored, taken>>

Init == stored = <<>> /\ taken = 0

Accept ==
    /\ UNCHANGED taken
    /\ stored' # <<>>
    /\ stored = SubSeq(stored', 1, Len(stored') - 1)

HandOut ==
    /\ taken' = taken + 1
    /\ taken < Len(stored)
    /\ UNCHANGED stored

\* An acknowledgement by count.
Acknowledge ==
    /\ taken' < taken
    /\ stored' = SubSeq(stored, taken - taken' + 1, Len(stored))

TakeBack ==
    /\ taken' < taken
    /\ UNCHANGED stored

GiveUp == stored' = <<>> /\ taken' = 0

Next == Accept \/ HandOut \/ Acknowledge \/ TakeBack \/ GiveUp

Spec == Init /\ [][Next]_vars
=============================================================================
