---------------------------- MODULE AltpReceiver ----------------------------
(***************************************************************************)
(* The Receiver of the ALTP protocol: the Session Record of altp-session.c *)
(* and one logproto-altp-server.c per connection, driven by the LogReader. *)
(*                                                                         *)
(* Every connection fetches in a pass of its reader, on an I/O worker when *)
(* threaded(yes); between passes the main thread runs its poll_prepare().  *)
(* A Frame read goes into the pipeline with its index within the Batch;    *)
(* the ack tracker of the connection reports the prefix that has become    *)
(* durable to the Session Record, from a destination's thread.             *)
(***************************************************************************)
EXTENDS AltpWire

CONSTANTS
    Threaded,       \* threaded(yes): the readers of two connections run at once
    PartialAck,     \* ack-timeout-action(partial-ack), otherwise close
    Window,         \* the flow-control window of one connection
    MaxTimeouts,    \* bound: acknowledgement timeouts
    MaxCrashes      \* bound: crashes of the Receiver

VARIABLES
    rcv,        \* per connection: its LogProtoAltpServer and AltpSessionOwner
    rec,        \* the Session Record
    pipe,       \* per connection: Frames posted and not yet acknowledged
    durable,    \* messages a destination has accepted for good
    received,   \* history: how often each message was read, up to 2
    timeouts, crashes

receiver == <<rcv, rec, pipe, durable, received, timeouts, crashes>>

ReceiverStates == {"GREETING", "COMMAND", "SYNC", "FRAME", "AWAITING_DURABILITY",
                   "ACKNOWLEDGE", "ACKNOWLEDGE_PARTIAL", "CLOSED"}
NoOwner == 0
Stale == -1     \* the index of a Frame of an earlier batch_seq

\* log_proto_altp_server_new(); "run" is where the reader is.
NewServer ==
    [state |-> "GREETING", run |-> "poll", ackSent |-> FALSE, timedOut |-> FALSE,
     awaiting |-> FALSE, displaced |-> FALSE, event |-> FALSE]

ReceiverTypeOK ==
    /\ \A c \in Conns :
           /\ rcv[c].state \in ReceiverStates
           /\ rcv[c].run \in {"poll", "work", "finish", "suspended"}
           /\ Len(pipe[c]) <= Window
           /\ \A i \in 1..Len(pipe[c]) :
                  /\ pipe[c][i].msg \in Messages
                  /\ pipe[c][i].index \in Stale..(Length - 1)
                  /\ pipe[c][i].done \in BOOLEAN
    /\ rec.owner \in Conns \cup {NoOwner}
    /\ rec.read \in Nat /\ rec.acked \in Nat
    /\ durable \subseteq Messages
    /\ received \in [Messages -> 0..2]

ReceiverInit ==
    /\ rcv = [c \in Conns |-> NewServer]
    /\ rec = [read |-> 0, acked |-> 0, owner |-> NoOwner]
    /\ pipe = [c \in Conns |-> <<>>]
    /\ durable = {}
    /\ received = [m \in Messages |-> 0]
    /\ timeouts = 0
    /\ crashes = 0

----------------------------------------------------------------------------
(* The Session Record; every operator is one critical section              *)

IsDurable == rec.acked = rec.read

\* _wake_owner_locked(): log_reader_wakeup() posts an event.
Woken(servers, c) == IF c = NoOwner THEN servers ELSE [servers EXCEPT ![c].event = TRUE]

\* batch_seq++: no Frame in the pipeline belongs to the Batch any more.
NextBatchSeq == [c \in Conns |-> [i \in DOMAIN pipe[c] |-> [pipe[c][i] EXCEPT !.index = Stale]]]

\* altp_session_record_take_over()
TakeOver(c) ==
    LET old == rec.owner
        servers == [rcv EXCEPT ![c].state = "SYNC"]
    IN  IF old \in {NoOwner, c} THEN servers
        ELSE [servers EXCEPT ![old].displaced = TRUE, ![old].awaiting = FALSE,
                             ![old].event = TRUE]

\* _handle_displacement()
Displaced(s) == IF s.displaced THEN [s EXCEPT !.state = "CLOSED"] ELSE s

\* The prefix consecutive_ack_tracker.c releases: up to the first one not done.
Prefix(c) ==
    CHOOSE n \in 0..Len(pipe[c]) :
        /\ \A i \in 1..n : pipe[c][i].done
        /\ n < Len(pipe[c]) => ~pipe[c][n + 1].done

\* _altp_bookmark_save(): an absolute count, ignored when it is stale.
NewAcked(index) == IF index + 1 > rec.acked THEN index + 1 ELSE rec.acked

\* A destination accepts the message of a Frame.
Deliver(c, i) ==
    /\ ~pipe[c][i].done
    /\ durable' = durable \cup {pipe[c][i].msg}
    /\ pipe' = [pipe EXCEPT ![c][i].done = TRUE]
    /\ UNCHANGED <<wire, rcv, rec, received, timeouts, crashes>>

\* Mutant: the owner is not woken.
WokenByReport_Not(acked) == rcv

\* The owner is woken when it waits and the Batch is complete.
WokenByReport(acked) ==
    IF rec.owner # NoOwner /\ rcv[rec.owner].awaiting /\ acked = rec.read
    THEN Woken(rcv, rec.owner) ELSE rcv

\* Its ack tracker saves the bookmark of the last Frame of the durable prefix.
Report(c) ==
    LET n == Prefix(c) IN
    /\ n > 0
    /\ pipe' = [pipe EXCEPT ![c] = SubSeq(@, n + 1, Len(@))]
    /\ LET index == pipe[c][n].index
           acked == IF index = Stale THEN rec.acked ELSE NewAcked(index)
       IN  /\ rec' = [rec EXCEPT !.acked = acked]
           /\ rcv' = IF index = Stale THEN rcv ELSE WokenByReport(acked)
    /\ UNCHANGED <<wire, durable, received, timeouts, crashes>>

----------------------------------------------------------------------------
(* The reader: a pass, and what the main thread does between passes        *)

\* The main thread is the only one that fetches unless threaded(yes).
MayRun == Threaded \/ \A c \in Conns : ~(rcvOpen[c] /\ rcv[c].run = "work")

IsInput(c) == toReceiver[c] # <<>> \/ ~sndOpen[c]

\* log_proto_altp_server_fetch() begins, with a look at the displacement.
\* Input is polled for only while the window is open.
StartFetch(c) ==
    /\ rcvOpen[c] /\ rcv[c].run = "poll" /\ MayRun
    /\ rcv[c].state \in {"COMMAND", "FRAME"} => IsInput(c) /\ Len(pipe[c]) < Window
    /\ rcv' = [rcv EXCEPT ![c] = [Displaced(@) EXCEPT !.run = "work"]]
    /\ UNCHANGED <<wire, rec, pipe, durable, received, timeouts, crashes>>

Working(c, state) == rcvOpen[c] /\ rcv[c].run = "work" /\ rcv[c].state = state

\* log_proto_altp_server_poll_prepare() in log_reader_update_watches().
PollPrepare(s) ==
    LET d == Displaced(s) IN
    IF d.state = "AWAITING_DURABILITY"
    THEN [d EXCEPT !.run = IF d.timedOut \/ IsDurable THEN "poll" ELSE "suspended"]
    ELSE [d EXCEPT !.timedOut = FALSE, !.run = "poll"]

\* log_reader_work_finished()
Finish(c) ==
    /\ rcvOpen[c] /\ rcv[c].run = "finish"
    /\ rcv' = [rcv EXCEPT ![c] = PollPrepare(@)]
    /\ UNCHANGED <<wire, rec, pipe, durable, received, timeouts, crashes>>

\* log_reader_wakeup_triggered(): nothing to do in the middle of a pass.
WakeupTriggered(c) ==
    /\ rcvOpen[c] /\ rcv[c].event
    /\ rcv' = [rcv EXCEPT ![c] =
                  IF @.run \in {"poll", "suspended"}
                  THEN [PollPrepare(@) EXCEPT !.event = FALSE]
                  ELSE [@ EXCEPT !.event = FALSE]]
    /\ UNCHANGED <<wire, rec, pipe, durable, received, timeouts, crashes>>

\* _ack_timer_expired(): the timer runs while the proto waits.
AckTimerExpired(c) ==
    /\ rcvOpen[c] /\ rcv[c].run = "suspended"
    /\ PartialAck \/ c < MaxConns
    /\ timeouts < MaxTimeouts
    /\ timeouts' = timeouts + 1
    /\ rcv' = [rcv EXCEPT ![c].timedOut = TRUE, ![c].event = TRUE]
    /\ UNCHANGED <<wire, rec, pipe, durable, received, crashes>>

----------------------------------------------------------------------------
(* The state machine: _step_state_machine() until fetch() returns          *)

\* A line of the Sender is consumed, a reply written and a state entered; the
\* loop goes on in it.
Reply(c, consumed, reply, server) ==
    /\ toReceiver' = IF consumed THEN [toReceiver EXCEPT ![c] = Tail(@)] ELSE toReceiver
    /\ toSender' = [toSender EXCEPT ![c] = IF sndOpen[c] THEN @ \o reply ELSE @]
    /\ rcv' = [rcv EXCEPT ![c] = server]
    /\ UNCHANGED <<sndOpen, rcvOpen, durable, received, timeouts, crashes>>

Line(c, line) == toReceiver[c] # <<>> /\ Head(toReceiver[c]) = line

OnGreeting(c) ==
    /\ Working(c, "GREETING")
    /\ Reply(c, FALSE, <<<<"220">>>>, [rcv[c] EXCEPT !.state = "COMMAND"])
    /\ UNCHANGED <<rec, pipe>>

OnEhlo(c) ==
    /\ Working(c, "COMMAND") /\ Line(c, <<"EHLO">>)
    /\ Reply(c, TRUE, <<<<"Capabilities">>>>, rcv[c])
    /\ UNCHANGED <<rec, pipe>>

\* _on_sync(): the newest connection wins.
OnSync(c) ==
    /\ Working(c, "COMMAND") /\ Line(c, <<"SYNC">>)
    /\ rcv' = TakeOver(c)
    /\ rec' = [rec EXCEPT !.owner = c]
    /\ toReceiver' = [toReceiver EXCEPT ![c] = Tail(@)]
    /\ UNCHANGED <<toSender, sndOpen, rcvOpen, pipe, durable, received, timeouts, crashes>>

Acknowledged(s) == [s EXCEPT !.state = "COMMAND", !.ackSent = TRUE, !.awaiting = FALSE]

\* Mutant: the count is given before it is durable.
SyncReply_Now(c) ==
    /\ Working(c, "SYNC")
    /\ Reply(c, FALSE, <<Received(rec.read)>>, Acknowledged(rcv[c]))
    /\ UNCHANGED <<rec, pipe>>

\* The reply to a SYNC is put off until the interrupted Batch is durable.
SyncReply(c) ==
    /\ Working(c, "SYNC")
    /\ IF IsDurable
       THEN Reply(c, FALSE, <<Received(rec.acked)>>, Acknowledged(rcv[c]))
       ELSE Reply(c, FALSE, <<>>,
                  [rcv[c] EXCEPT !.state = "AWAITING_DURABILITY", !.awaiting = TRUE])
    /\ UNCHANGED <<rec, pipe>>

\* _on_data().  The command line is the evidence that the acknowledgement was
\* read: altp_session_record_reset_counters().
OnData(c) ==
    /\ Working(c, "COMMAND") /\ Line(c, <<"DATA">>)
    /\ IF rcv[c].ackSent
       THEN /\ rec' = [rec EXCEPT !.read = 0, !.acked = 0]
            /\ pipe' = NextBatchSeq
       ELSE UNCHANGED <<rec, pipe>>
    /\ Reply(c, TRUE, <<<<"Ready">>>>, [rcv[c] EXCEPT !.state = "FRAME", !.ackSent = FALSE])

\* _on_frame_payload(): altp_session_record_note_frame_read() counts the Frame
\* whoever the owner is; fetch() returns the message and it is posted.
OnFrame(c, m) ==
    /\ Working(c, "FRAME") /\ Line(c, Frame(m))
    /\ Len(pipe[c]) < Window
    /\ rec' = [rec EXCEPT !.read = @ + 1]
    /\ pipe' = [pipe EXCEPT ![c] = Append(@, [msg |-> m, index |-> rec.read, done |-> FALSE])]
    /\ received' = [received EXCEPT ![m] = IF @ < 2 THEN @ + 1 ELSE @]
    /\ toReceiver' = [toReceiver EXCEPT ![c] = Tail(@)]
    /\ rcv' = [rcv EXCEPT ![c].run = "finish"]
    /\ UNCHANGED <<toSender, sndOpen, rcvOpen, durable, timeouts, crashes>>

OnTerminator(c) ==
    /\ Working(c, "FRAME") /\ Line(c, Terminator)
    /\ Reply(c, TRUE, <<>>, [rcv[c] EXCEPT !.state = "AWAITING_DURABILITY"])
    /\ UNCHANGED <<rec, pipe>>

\* No more input: fetch() returns.
FetchReturns(c) ==
    /\ Working(c, "COMMAND") \/ Working(c, "FRAME")
    /\ toReceiver[c] = <<>> /\ sndOpen[c]
    /\ rcv' = [rcv EXCEPT ![c].run = "finish"]
    /\ UNCHANGED <<wire, rec, pipe, durable, received, timeouts, crashes>>

\* _on_awaiting_durability(): altp_session_record_wait_for_durability().  On a
\* timeout the durable prefix is acknowledged, or the Batch abandoned.
OnAwaitingDurability(c) ==
    LET s == [rcv[c] EXCEPT !.timedOut = FALSE, !.awaiting = ~IsDurable] IN
    /\ Working(c, "AWAITING_DURABILITY")
    /\ CASE IsDurable -> Reply(c, FALSE, <<>>, [s EXCEPT !.state = "ACKNOWLEDGE"])
         [] ~IsDurable /\ ~rcv[c].timedOut -> Reply(c, FALSE, <<>>, [s EXCEPT !.run = "finish"])
         [] ~IsDurable /\ rcv[c].timedOut /\ PartialAck ->
                Reply(c, FALSE, <<>>, [s EXCEPT !.state = "ACKNOWLEDGE_PARTIAL"])
         [] ~IsDurable /\ rcv[c].timedOut /\ ~PartialAck ->
                Reply(c, FALSE, <<<<"421">>>>,
                      [s EXCEPT !.state = "CLOSED", !.awaiting = FALSE])
    /\ UNCHANGED <<rec, pipe>>

\* Mutant: the counters are reset with the acknowledgement.
Acknowledge_Resets(c) ==
    /\ Working(c, "ACKNOWLEDGE")
    /\ Reply(c, FALSE, <<Received(rec.acked)>>, Acknowledged(rcv[c]))
    /\ rec' = [rec EXCEPT !.read = 0, !.acked = 0]
    /\ pipe' = NextBatchSeq

\* altp_session_record_acknowledge(), in a critical section of its own.
Acknowledge(c) ==
    /\ Working(c, "ACKNOWLEDGE")
    /\ Reply(c, FALSE, <<Received(rec.acked)>>, Acknowledged(rcv[c]))
    /\ UNCHANGED <<rec, pipe>>

\* The same with partial = TRUE: the Frames beyond the prefix are disowned.
AcknowledgePartial(c) ==
    /\ Working(c, "ACKNOWLEDGE_PARTIAL")
    /\ Reply(c, FALSE, <<Received(rec.acked)>>, Acknowledged(rcv[c]))
    /\ rec' = [rec EXCEPT !.read = rec.acked]
    /\ pipe' = NextBatchSeq

\* The reader closes the connection; log_proto_altp_server_free() gives the
\* Session up with its counters as they are.
Free(c) ==
    /\ rcvOpen' = [rcvOpen EXCEPT ![c] = FALSE]
    /\ toReceiver' = [toReceiver EXCEPT ![c] = <<>>]
    /\ rcv' = [rcv EXCEPT ![c] = NewServer]
    /\ rec' = [rec EXCEPT !.owner = IF @ = c THEN NoOwner ELSE @]
    /\ UNCHANGED <<toSender, sndOpen, pipe, durable, received, timeouts, crashes>>

\* EOF: from the state CLOSED, or the Sender's.
OnEof(c) ==
    /\ \/ Working(c, "CLOSED")
       \/ /\ Working(c, "COMMAND") \/ Working(c, "FRAME")
          /\ toReceiver[c] = <<>> /\ ~sndOpen[c]
    /\ Free(c)

\* The idle timeout, or the connection breaks on this side.
IdleTimeout(c) ==
    /\ rcvOpen[c] /\ rcv[c].run = "poll"
    /\ rcv[c].state \in {"COMMAND", "FRAME"}
    /\ c < MaxConns
    /\ Free(c)

\* Mutant: the Frames that were read count after the restart.
RestartRule_None(r) == [r EXCEPT !.owner = NoOwner]

\* _apply_restart_rule()
RestartRule(r) == [r EXCEPT !.read = r.acked, !.owner = NoOwner]

\* The process dies: what was not durable is gone.
ReceiverCrash ==
    /\ crashes < MaxCrashes
    /\ crashes' = crashes + 1
    /\ ~rcvOpen[MaxConns]
    /\ rec' = RestartRule(rec)
    /\ rcv' = [c \in Conns |-> NewServer]
    /\ pipe' = [c \in Conns |-> <<>>]
    /\ rcvOpen' = [c \in Conns |-> FALSE]
    /\ toReceiver' = [c \in Conns |-> <<>>]
    /\ UNCHANGED <<toSender, sndOpen, durable, received, timeouts>>

Fetching(c) ==
    \/ StartFetch(c) \/ Finish(c) \/ WakeupTriggered(c)
    \/ OnGreeting(c) \/ OnEhlo(c) \/ OnSync(c) \/ SyncReply(c) \/ OnData(c)
    \/ \E m \in Messages : OnFrame(c, m)
    \/ OnTerminator(c) \/ FetchReturns(c) \/ OnAwaitingDurability(c)
    \/ Acknowledge(c) \/ AcknowledgePartial(c) \/ OnEof(c)

Pipeline(c) == Report(c) \/ \E i \in DOMAIN pipe[c] : Deliver(c, i)

=============================================================================
