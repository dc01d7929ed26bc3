------------------------------ MODULE AltpWire ------------------------------
(***************************************************************************)
(* The connections between the two ends of the ALTP protocol               *)
(* (modules/altp-proto): byte streams that keep the order of what they     *)
(* carry and may break at any time.  A line or a Frame is one element; one *)
(* that is only partly written never reaches the other end.                *)
(***************************************************************************)
EXTENDS Integers, Sequences

CONSTANTS
    Length,     \* bound: messages, numbered in the order they were queued
    MaxConns    \* bound: connections the Sender opens

VARIABLES
    toReceiver, toSender,   \* per connection: what is on its way
    sndOpen, rcvOpen        \* per connection: the ends that are not closed

wire == <<toReceiver, toSender, sndOpen, rcvOpen>>

Messages == 1..Length
Conns == 1..MaxConns

Frame(m) == <<"FRAME", m>>
Terminator == <<".">>
Received(n) == <<"Received", n>>

WireTypeOK ==
    /\ \A c \in Conns :
           /\ \A i \in 1..Len(toReceiver[c]) :
                  toReceiver[c][i] \in {<<"EHLO">>, <<"SYNC">>, <<"DATA">>, Terminator}
                                          \cup {Frame(m) : m \in Messages}
           /\ \A i \in 1..Len(toSender[c]) :
                  toSender[c][i] \in {<<"220">>, <<"Capabilities">>, <<"Ready">>, <<"421">>}
                                        \cup {Received(n) : n \in 0..(2 * Length)}
    /\ sndOpen \in [Conns -> BOOLEAN]
    /\ rcvOpen \in [Conns -> BOOLEAN]

WireInit ==
    /\ toReceiver = [c \in Conns |-> <<>>]
    /\ toSender = [c \in Conns |-> <<>>]
    /\ sndOpen = [c \in Conns |-> FALSE]
    /\ rcvOpen = [c \in Conns |-> FALSE]

\* What a closed Sender left on the wire may get lost with the connection.
Lose(c) ==
    /\ rcvOpen[c] /\ ~sndOpen[c]
    /\ toReceiver[c] # <<>>
    /\ toReceiver' = [toReceiver EXCEPT ![c] = <<>>]
    /\ UNCHANGED <<toSender, sndOpen, rcvOpen>>

=============================================================================
