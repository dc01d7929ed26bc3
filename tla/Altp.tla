-------------------------------- MODULE Altp --------------------------------
(***************************************************************************)
(* The ALTP protocol end to end: a Sender with its queue, the connections  *)
(* it opens one after the other, and a Receiver with the Session Record,   *)
(* the pipeline behind it and the crashes of both.                         *)
(***************************************************************************)
EXTENDS AltpSender, AltpReceiver

ASSUME AltpAssumption ==
    /\ Length \in Nat \ {0} /\ MaxConns \in Nat \ {0}
    /\ BatchBound \in Nat \ {0} /\ Window \in Nat \ {0}
    /\ Oversized \subseteq Messages /\ Empty \subseteq Messages
    /\ Oversized \cap Empty = {}
    /\ {SenderCrashes, Threaded, PartialAck} \subseteq BOOLEAN
    /\ QueueKinds \subseteq {"memory", "disk"} /\ QueueKinds # {}
    /\ SenderCrashes => QueueKinds = {"disk"}
    /\ MaxTimeouts \in Nat /\ MaxCrashes \in Nat

vars == <<wire, sender, receiver>>

Init == WireInit /\ SenderInit /\ ReceiverInit

Faults ==
    \/ (WriteError \/ Disconnect \/ SenderCrash) /\ UNCHANGED receiver
    \/ (\E c \in Conns : AckTimerExpired(c) \/ IdleTimeout(c)) /\ UNCHANGED sender
    \/ ReceiverCrash /\ UNCHANGED sender
    \/ (\E c \in Conns : Lose(c)) /\ UNCHANGED <<sender, receiver>>

Next ==
    \/ SenderSteps /\ UNCHANGED receiver
    \/ (\E c \in Conns : Fetching(c) \/ Pipeline(c)) /\ UNCHANGED sender
    \/ Faults

Spec == Init /\ [][Next]_vars

\* Every worker, reader and destination gets on with its work; nothing is
\* assumed of timeouts, breaks and crashes.
FairSpec ==
    /\ Spec
    /\ WF_vars(SenderSteps /\ UNCHANGED receiver)
    /\ \A c \in Conns : WF_vars(Fetching(c) /\ UNCHANGED sender)
    /\ \A c \in Conns : WF_vars(Pipeline(c) /\ UNCHANGED sender)

----------------------------------------------------------------------------

\* The pieces of state have their types.
TypeOK == WireTypeOK /\ SenderTypeOK /\ ReceiverTypeOK

Held == {backlog[i] : i \in DOMAIN backlog} \cup {queue[i] : i \in DOMAIN queue}

\* What log_proto_client_msg_ack() releases is durable at the Receiver, or was
\* never to be sent: no message is lost, whatever breaks or crashes when.
Delivery == INSTANCE ReliableDelivery WITH Dropped <- Oversized \cup Empty,
                                           released <- Messages \ Held
NoMessageLost == Delivery!Spec

\* A message the Sender gave up was counted into frames_acked because it was
\* durable: a report is turned back into a prefix of the Batch in progress
\* (_on_frame_payload()).
ReleasedIsDurable == Messages \ Held \subseteq durable \cup Oversized \cup Empty

\* A lost acknowledgement, a broken connection or an abandoned Batch costs no
\* duplicate: over a disk queue, and as long as the Receiver does not crash, it
\* reads every message once (_process_command_line()).
ReadOnce == snd.kind = "disk" /\ crashes = 0 => \A m \in Messages : received[m] <= 1

\* The Sender keeps the order of a disk queue: a message is not read before an
\* older one was (_on_acknowledgement() rewinds in order).
ReadInOrder ==
    snd.kind = "disk" =>
        \A m, n \in Messages \ (Oversized \cup Empty) :
            m < n /\ received[n] > 0 => received[m] > 0

\* A connection that sleeps in AWAITING_DURABILITY is the owner of a Batch that
\* is not durable yet, with its wakeup armed, or its wakeup is on the way.
SleeperIsWoken ==
    \A c \in Conns :
        rcvOpen[c] /\ rcv[c].run = "suspended" =>
            rcv[c].event \/ (rec.owner = c /\ rcv[c].awaiting /\ ~IsDurable)

\* Every message that becomes a Frame is released, unless the last connection the
\* bound allows is closed first (a SYNC of an older connection processed late
\* displaces it).  A message without a Frame waits for a later acknowledgement.
EverythingReleased ==
    <>(Held \subseteq Oversized \cup Empty \/ (snd.state = "CLOSED" /\ snd.conn = MaxConns))

=============================================================================
