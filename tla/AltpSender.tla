----------------------------- MODULE AltpSender -----------------------------
(***************************************************************************)
(* The Sender of the ALTP protocol: logproto-altp-client.c driven by       *)
(* log_writer_flush() of lib/logwriter.c.                                  *)
(*                                                                         *)
(* Messages popped from the queue wait in its backlog.  The Sender writes  *)
(* them as the Frames of a Batch and keeps the number of Frames written,   *)
(* frames_sent, in the persistent state; `250 Received n` releases the     *)
(* oldest n entries of the backlog and rewinds the rest.  The connection   *)
(* may break at any point, and the process may crash between any two       *)
(* changes of the persistent state.                                        *)
(***************************************************************************)
EXTENDS AltpWire

CONSTANTS
    Oversized,      \* messages above max-frame-size()
    Empty,          \* messages whose template() output is empty
    BatchBound,     \* _batch_frame_bound()
    QueueKinds,     \* "memory" for a LogQueueFifo, "disk" for a reliable disk queue
    SenderCrashes   \* the process of the Sender may crash

VARIABLES
    snd,            \* the LogProtoAltpClient of the current connection
    sent,           \* frames_sent in the persistent state
    queue,          \* messages to send
    backlog         \* popped and not acknowledged

sender == <<snd, sent, queue, backlog>>

SenderStates == {"CLOSED", "AWAIT_BANNER", "EHLO_SENT", "SYNC_SENT", "DATA_SENT", "IN_BATCH",
                 "BATCH_CLOSED"}
None == -1

SenderTypeOK ==
    /\ snd.state \in SenderStates /\ snd.kind \in QueueKinds
    /\ snd.conn \in 0..MaxConns
    /\ snd.posted \in 0..BatchBound
    /\ snd.written \in 0..BatchBound
    /\ snd.release \in None..Length
    /\ snd.inPost \in BOOLEAN /\ snd.terminatorDue \in BOOLEAN
    /\ sent \in Nat

\* log_proto_altp_client_new() for connection c; "out" are the Frames in
\* out_buf, "written" those written and not counted yet, "release" the
\* acknowledged count between the persisting of 0 and the release, "kind" the
\* queue the LogWriter hands it.
NewClient(c, state, kind) ==
    [state |-> state, conn |-> c, kind |-> kind, posted |-> 0, out |-> <<>>, terminatorDue |-> FALSE,
     inPost |-> FALSE, written |-> 0, release |-> None]

SenderInit ==
    /\ \E kind \in QueueKinds : snd = NewClient(0, "CLOSED", kind)
    /\ sent = 0
    /\ queue = [i \in 1..Length |-> i]
    /\ backlog = <<>>

\* The worker is not in the middle of post(), a write or an acknowledgement.
AtRest == ~snd.inPost /\ snd.written = 0 /\ snd.release = None

Connect ==
    /\ snd.state = "CLOSED"
    /\ snd.conn < MaxConns
    /\ snd' = NewClient(snd.conn + 1, "AWAIT_BANNER", snd.kind)
    /\ sndOpen' = [sndOpen EXCEPT ![snd.conn + 1] = TRUE]
    /\ rcvOpen' = [rcvOpen EXCEPT ![snd.conn + 1] = TRUE]
    /\ UNCHANGED <<toReceiver, toSender, sent, queue, backlog>>

\* _close_connection(), and log_writer_reopen_deferred() freeing the proto;
\* nothing is rewound and what the Receiver sent is not read any more.
CloseConnection ==
    /\ snd' = NewClient(snd.conn, "CLOSED", snd.kind)
    /\ sndOpen' = [sndOpen EXCEPT ![snd.conn] = FALSE]
    /\ toSender' = [toSender EXCEPT ![snd.conn] = <<>>]
    /\ UNCHANGED <<toReceiver, rcvOpen, sent>>

----------------------------------------------------------------------------
(* Frames: log_writer_flush(), post(), flush() and _drain_output()         *)

CloseBatch(s) == [s EXCEPT !.state = "BATCH_CLOSED", !.terminatorDue = TRUE]

\* _append_frame(), _close_batch() at the bound, then _drain_output() begins.
PostFrame ==
    LET s == [snd EXCEPT !.out = Append(@, Head(queue)), !.posted = @ + 1, !.inPost = TRUE]
    IN  /\ Head(queue) \notin Oversized
        /\ snd' = IF s.posted >= BatchBound THEN CloseBatch(s) ELSE s
        /\ backlog' = Append(backlog, Head(queue))
        /\ queue' = Tail(queue)

\* _drop_oversized_message(): msg_ack(1) releases the oldest entry of the
\* backlog.  Refused while the Batch has Frames: the message is rewound.
DropOversized ==
    /\ Head(queue) \in Oversized
    /\ snd.posted = 0
    /\ backlog' = Tail(Append(backlog, Head(queue)))
    /\ queue' = Tail(queue)
    /\ UNCHANGED snd

\* log_writer_write_message() of a message that has something to write.
Post ==
    /\ AtRest /\ snd.state = "IN_BATCH"
    /\ queue # <<>> /\ Head(queue) \notin Empty
    /\ PostFrame \/ DropOversized
    /\ UNCHANGED <<wire, sent>>

\* The same of a message that is skipped: it is consumed, and stays in the
\* backlog without a Frame.
SkipEmpty ==
    /\ AtRest /\ snd.state # "CLOSED"
    /\ queue # <<>> /\ Head(queue) \in Empty
    /\ backlog' = Append(backlog, Head(queue))
    /\ queue' = Tail(queue)
    /\ UNCHANGED <<wire, snd, sent>>

\* The end of a pass of the writer: a Batch that has Frames is closed.
Flush ==
    /\ AtRest /\ snd.state = "IN_BATCH"
    /\ snd.posted > 0
    /\ snd' = CloseBatch(snd)
    /\ UNCHANGED <<wire, sent, queue, backlog>>

\* A write that takes n Frames.
Write(n) ==
    /\ snd.written = 0
    /\ toReceiver' = [toReceiver EXCEPT ![snd.conn] =
                         @ \o [i \in 1..n |-> Frame(snd.out[i])]]
    /\ snd' = [snd EXCEPT !.out = SubSeq(@, n + 1, Len(@)), !.written = n]
    /\ UNCHANGED <<toSender, sndOpen, rcvOpen, sent, queue, backlog>>

\* _count_written_frames()
CountWrittenFrames ==
    /\ snd.written > 0
    /\ sent' = sent + snd.written
    /\ snd' = [snd EXCEPT !.written = 0]
    /\ UNCHANGED <<wire, queue, backlog>>

WriteTerminator ==
    /\ snd.terminatorDue
    /\ snd.out = <<>> /\ snd.written = 0
    /\ toReceiver' = [toReceiver EXCEPT ![snd.conn] = Append(@, Terminator)]
    /\ snd' = [snd EXCEPT !.terminatorDue = FALSE]
    /\ UNCHANGED <<toSender, sndOpen, rcvOpen, sent, queue, backlog>>

\* post() returns: everything is written, or the socket takes no more now.
PostReturns ==
    /\ snd.inPost /\ snd.written = 0
    /\ snd' = [snd EXCEPT !.inPost = FALSE]
    /\ UNCHANGED <<wire, sent, queue, backlog>>

\* The write fails.  In post() the LogWriter rewinds the last message of the
\* backlog (log_writer_write_message), in flush() and process_in() nothing.
WriteError ==
    /\ snd.out # <<>> \/ snd.terminatorDue
    /\ snd.written = 0
    /\ snd.conn < MaxConns
    /\ CloseConnection
    /\ IF snd.inPost
       THEN /\ queue' = <<backlog[Len(backlog)]>> \o queue
            /\ backlog' = SubSeq(backlog, 1, Len(backlog) - 1)
       ELSE UNCHANGED <<queue, backlog>>

----------------------------------------------------------------------------
(* Replies: process_in(), _on_reply_line()                                 *)

\* The next reply is consumed in "state", "command" written and "next" entered.
Answer(reply, state, command, next) ==
    /\ AtRest /\ snd.state = state
    /\ toSender[snd.conn] # <<>> /\ Head(toSender[snd.conn]) = reply
    /\ toSender' = [toSender EXCEPT ![snd.conn] = Tail(@)]
    /\ toReceiver' = [toReceiver EXCEPT ![snd.conn] = @ \o command]
    /\ snd' = [snd EXCEPT !.state = next]
    /\ UNCHANGED <<sndOpen, rcvOpen, sent, queue, backlog>>

OnBanner == Answer(<<"220">>, "AWAIT_BANNER", <<<<"EHLO">>>>, "EHLO_SENT")
OnCapabilities == Answer(<<"Capabilities">>, "EHLO_SENT", <<<<"SYNC">>>>, "SYNC_SENT")
OnReady == Answer(<<"Ready">>, "DATA_SENT", <<>>, "IN_BATCH")

\* Step 1 of _on_acknowledgement(): the excess is ignored.
Clamped(n) == IF n > sent THEN sent ELSE n

\* What the backlog holds after the release, msg_ack(n).
AckBacklog(n) == SubSeq(backlog, n + 1, Len(backlog))

\* Mutant: the Frames are released while they are still counted.
PersistZero_Late(n) ==
    /\ snd' = [snd EXCEPT !.release = 0]
    /\ backlog' = AckBacklog(Clamped(n))
    /\ toSender' = [toSender EXCEPT ![snd.conn] = Tail(@)]
    /\ UNCHANGED <<toReceiver, sndOpen, rcvOpen, sent, queue>>

\* Step 2: frames_sent is 0 in the persistent state before anything is released.
PersistZero(n) ==
    /\ snd' = [snd EXCEPT !.release = Clamped(n)]
    /\ sent' = 0
    /\ toSender' = [toSender EXCEPT ![snd.conn] = Tail(@)]
    /\ UNCHANGED <<toReceiver, sndOpen, rcvOpen, queue, backlog>>

\* `250 Received n`; one that comes before the Batch is out closes.
OnAcknowledgement(n) ==
    /\ AtRest /\ snd.state \in {"SYNC_SENT", "BATCH_CLOSED"}
    /\ toSender[snd.conn] # <<>> /\ Head(toSender[snd.conn]) = Received(n)
    /\ IF snd.out # <<>> \/ snd.terminatorDue
       THEN CloseConnection /\ UNCHANGED <<queue, backlog>>
       ELSE PersistZero(n)

\* Mutant: the rest goes behind the messages that wait.
Release_Behind ==
    /\ snd.release # None
    /\ queue' = queue \o AckBacklog(snd.release)
    /\ backlog' = <<>>
    /\ toReceiver' = [toReceiver EXCEPT ![snd.conn] = Append(@, <<"DATA">>)]
    /\ snd' = [snd EXCEPT !.release = None, !.posted = 0, !.state = "DATA_SENT"]
    /\ UNCHANGED <<toSender, sndOpen, rcvOpen, sent>>

\* Steps 3 and 4 and _send_data(): the rest is rewound, by the memory queue
\* behind the messages that wait (log_queue_fifo_rewind_backlog_all).
Release ==
    /\ snd.release # None
    /\ queue' = IF snd.kind = "memory" THEN queue \o AckBacklog(snd.release)
                                       ELSE AckBacklog(snd.release) \o queue
    /\ backlog' = <<>>
    /\ toReceiver' = [toReceiver EXCEPT ![snd.conn] = Append(@, <<"DATA">>)]
    /\ snd' = [snd EXCEPT !.release = None, !.posted = 0, !.state = "DATA_SENT"]
    /\ UNCHANGED <<toSender, sndOpen, rcvOpen, sent>>

\* A 421, or the Receiver closed.
OnClose ==
    /\ AtRest /\ snd.state # "CLOSED"
    /\ \/ toSender[snd.conn] = <<>> /\ ~rcvOpen[snd.conn]
       \/ toSender[snd.conn] # <<>> /\ Head(toSender[snd.conn]) = <<"421">>
    /\ CloseConnection
    /\ UNCHANGED <<queue, backlog>>

\* response-timeout(), the acknowledgement timeout, idle-timeout(), a broken
\* connection or a reload that replaces it.
Disconnect ==
    /\ AtRest /\ snd.state # "CLOSED"
    /\ snd.conn < MaxConns
    /\ CloseConnection
    /\ UNCHANGED <<queue, backlog>>

\* The process dies between two steps; the persistent state and the reliable
\* disk queue, backlog included, are as they were (qdisk.c, the mapped header).
SenderCrash ==
    /\ SenderCrashes
    /\ ~AtRest
    /\ snd.conn < MaxConns
    /\ CloseConnection
    /\ UNCHANGED <<queue, backlog>>

SenderSteps ==
    \/ Connect \/ Post \/ SkipEmpty \/ Flush
    \/ \E n \in 1..Len(snd.out) : Write(n)
    \/ CountWrittenFrames \/ WriteTerminator \/ PostReturns
    \/ OnBanner \/ OnCapabilities \/ OnReady
    \/ \E n \in 0..(2 * Length) : OnAcknowledgement(n)
    \/ Release \/ OnClose

=============================================================================
