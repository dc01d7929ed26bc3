----------------------- MODULE ConsecutiveAckTracker -----------------------
(***************************************************************************)
(* The acknowledgement path of a source with positions, e.g. a file:       *)
(* lib/ack-tracker/consecutive_ack_tracker.c with its ring of records,     *)
(* log_msg_ack() of lib/logmsg/logmsg.c and the fetch loop of              *)
(* lib/logreader.c.                                                        *)
(*                                                                         *)
(* The source thread takes a record for every message before it is posted; *)
(* the destination thread that gives the last acknowledgement of a message *)
(* marks its record, outside the lock, and then releases, under the lock,  *)
(* the longest prefix of marked records, storing the position of its last. *)
(***************************************************************************)
EXTENDS Integers, FiniteSets

CONSTANTS
    Threads,        \* the destinations of the source
    SourceThread,   \* acknowledges what log_source_drop() drops
    Window,         \* init_window_size, also the capacity of the ring
    Length,         \* bound: messages in the stream
    Drops,          \* empty lines are dropped by the reader
    MaxRestarts     \* bound: restarts of the process

ASSUME TrackerAssumption ==
    /\ Window \in Nat \ {0}
    /\ Length \in Nat
    /\ MaxRestarts \in Nat
    /\ SourceThread \notin Threads
    /\ Drops \in BOOLEAN

VARIABLES
    posted,     \* position of the last message read
    src,        \* the source thread: "poll", "fetch", "more", "read", "count", "drop"
    pending,    \* slot of pending_ack_record, or None
    ring,       \* the records: [pos, acked]
    head, count,
    window,     \* free slots of the flow-control window
    waiting,    \* per message: the destinations that have not acknowledged it
    flag,       \* per message: the abort and suspend flags of ack_and_ref
    acker,      \* per thread: its progress through an acknowledgement
    saved,      \* the position in the persistent state
    disabled,   \* bookmark_saving_disabled
    down,       \* shutting down: only queues that are freed acknowledge
    accepted,   \* history: positions acknowledged and not aborted
    restarts

ringVars == <<pending, ring, head, count>>
vars == <<posted, src, pending, ring, head, count, window, waiting, flag, acker, saved,
          disabled, down, accepted, restarts>>

None == -1
Slots == 0..(Window - 1)
Positions == 1..Length
AckTypes == {"processed", "aborted", "suspended"}
Ackers == Threads \cup {SourceThread}
Free == [pos |-> 0, acked |-> FALSE]
Idle == [pc |-> "idle", pos |-> 0, slot |-> None, type |-> "processed"]

----------------------------------------------------------------------------
(* lib/ringbuffer.c and consecutive_ack_record_container_static.c          *)

Tail == (head + count) % Window
At(i) == ring[(head + i) % Window]

\* Mutant: one record is released at a time.
ContinualRangeLength_First == IF count > 0 /\ At(0).acked THEN 1 ELSE 0

\* ring_buffer_get_continual_range_length()
ContinualRangeLength ==
    CHOOSE n \in 0..count :
        /\ \A i \in 0..(n - 1) : At(i).acked
        /\ n < count => ~At(n).acked

\* Mutant: a dropped record keeps its mark.
Dropped_Marked(n) ==
    [s \in Slots |-> IF \E i \in 0..(n - 1) : s = (head + i) % Window
                     THEN [Free EXCEPT !.acked = TRUE] ELSE ring[s]]

\* _drop(): the records that leave are reset.
Dropped(n) ==
    [s \in Slots |-> IF \E i \in 0..(n - 1) : s = (head + i) % Window THEN Free ELSE ring[s]]

----------------------------------------------------------------------------
(* The source thread: log_reader_fetch_log()                               *)

\* The reader polls only while the window is open (log_reader_update_watches).
StartFetch ==
    /\ src = "poll" /\ ~down
    /\ window > 0
    /\ src' = "fetch"
    /\ UNCHANGED <<posted, ringVars, window, waiting, flag, acker, saved, disabled, down,
                   accepted, restarts>>

\* consecutive_ack_tracker_request_bookmark(): there is none in a full ring.
RequestBookmark ==
    /\ src \in {"fetch", "more"}
    /\ pending' = IF pending # None \/ count = Window THEN pending ELSE Tail
    /\ src' = "read"
    /\ UNCHANGED <<posted, ring, head, count, window, waiting, flag, acker, saved, disabled,
                   down, accepted, restarts>>

\* Nothing to read, or fetch_limit is reached; the record stays pending.
NothingFetched ==
    /\ src \in {"more", "read"}
    /\ src' = "poll"
    /\ UNCHANGED <<posted, ringVars, window, waiting, flag, acker, saved, disabled, down,
                   accepted, restarts>>

\* consecutive_ack_tracker_track_msg(): its assertion stops the program when
\* there is no record.  "route" is where the message goes, nowhere if dropped.
TrackMsg(route) ==
    /\ src = "read"
    /\ posted < Length
    /\ pending # None
    /\ route # {} \/ Drops
    /\ posted' = posted + 1
    /\ ring' = [ring EXCEPT ![pending].pos = posted + 1]
    /\ count' = count + 1
    /\ pending' = None
    /\ waiting' = [waiting EXCEPT ![posted + 1] = route]
    /\ flag' = [flag EXCEPT ![posted + 1] = "processed"]
    /\ src' = "count"
    /\ UNCHANGED <<head, window, acker, saved, disabled, down, accepted, restarts>>

SlotOf(m) == CHOOSE s \in Slots : ring[s].pos = m

\* _log_source_track_msg() takes the slot from the window; the message is
\* posted and the window looked at, or it is dropped and the loop goes on.
CountMsg ==
    /\ src = "count"
    /\ window' = window - 1
    /\ \/ /\ waiting[posted] # {}
          /\ src' = IF window' > 0 THEN "more" ELSE "poll"
          /\ UNCHANGED <<acker, accepted>>
       \/ /\ waiting[posted] = {}
          /\ src' = "drop"
          /\ acker' = [acker EXCEPT ![SourceThread] =
                          [pc |-> "mark", pos |-> posted, slot |-> SlotOf(posted),
                           type |-> "processed"]]
          /\ accepted' = accepted \cup {posted}
    /\ UNCHANGED <<posted, ringVars, waiting, flag, saved, disabled, down, restarts>>

\* log_source_drop() has returned, the loop continues.
DropDone ==
    /\ src = "drop" /\ acker[SourceThread].pc = "idle"
    /\ src' = "more"
    /\ UNCHANGED <<posted, ringVars, window, waiting, flag, acker, saved, disabled, down,
                   accepted, restarts>>

----------------------------------------------------------------------------
(* Acknowledgements                                                        *)

\* The type log_msg_ack() hands to ack_func with the last acknowledgement.
FinalType(m, type) == IF type = "processed" THEN flag[m] ELSE type

Delivered(m) == m <= posted /\ ~(src = "count" /\ m = posted)

\* log_msg_ack() of destination d, and log_msg_drop() by a freed queue.
MsgAck(d, m, type) ==
    /\ acker[d].pc = "idle"
    /\ Delivered(m) /\ d \in waiting[m]
    /\ (type = "aborted") = down
    /\ waiting' = [waiting EXCEPT ![m] = @ \ {d}]
    /\ flag' = [flag EXCEPT ![m] = IF type = "suspended" \/ @ = "processed" THEN type ELSE @]
    /\ IF waiting[m] = {d}
       THEN /\ acker' = [acker EXCEPT ![d] = [pc |-> "mark", pos |-> m, slot |-> SlotOf(m),
                                              type |-> FinalType(m, type)]]
            /\ accepted' = IF flag'[m] = "aborted" THEN accepted ELSE accepted \cup {m}
       ELSE UNCHANGED <<acker, accepted>>
    /\ UNCHANGED <<posted, src, ringVars, window, saved, disabled, down, restarts>>

\* consecutive_ack_tracker_manage_msg_ack() before the lock.
MarkRecord(a) ==
    /\ acker[a].pc = "mark"
    /\ ring' = [ring EXCEPT ![acker[a].slot].acked = TRUE]
    /\ acker' = [acker EXCEPT ![a].pc = "lock"]
    /\ UNCHANGED <<posted, src, pending, head, count, window, waiting, flag, saved, disabled,
                   down, accepted, restarts>>

\* Mutant: the position is stored whatever the type of the acknowledgement.
SavesBookmark_Always(type) == ~disabled

SavesBookmark(type) == type # "aborted" /\ ~disabled

\* Mutant: only the slot of this message is returned.
Returned_One(n) == 1
\* The slots log_source_flow_control_adjust() returns to the window.
Returned(n) == n

\* The part under the lock: _ack_records_untrack_msg() and the adjustment.
Untrack(a) ==
    LET n == ContinualRangeLength
    IN  /\ acker[a].pc = "lock"
        /\ saved' = IF n > 0 /\ SavesBookmark(acker[a].type) THEN At(n - 1).pos ELSE saved
        /\ ring' = Dropped(n)
        /\ head' = (head + n) % Window
        /\ count' = count - n
        /\ window' = window + IF n > 0 THEN Returned(n) ELSE 0
        /\ acker' = [acker EXCEPT ![a] = Idle]
        /\ UNCHANGED <<posted, src, pending, waiting, flag, disabled, down, accepted, restarts>>

----------------------------------------------------------------------------
(* The life of the process                                                 *)

\* file_reader_stop_follow_file(): the file is gone, its position with it.
DisableBookmarkSaving ==
    /\ src = "poll"
    /\ disabled' = TRUE
    /\ UNCHANGED <<posted, src, ringVars, window, waiting, flag, acker, saved, down, accepted,
                   restarts>>

\* Shutdown: the workers have stopped and the queues are freed.
Shutdown ==
    /\ src = "poll"
    /\ \A a \in Ackers : acker[a].pc = "idle"
    /\ down' = TRUE
    /\ UNCHANGED <<posted, src, ringVars, window, waiting, flag, acker, saved, disabled,
                   accepted, restarts>>

\* The process starts again, after a shutdown or a crash at any point, and
\* reads on from the stored position.
Restart ==
    /\ restarts < MaxRestarts
    /\ restarts' = restarts + 1
    /\ posted' = saved
    /\ src' = "poll"
    /\ pending' = None
    /\ ring' = [s \in Slots |-> Free]
    /\ head' = 0 /\ count' = 0
    /\ window' = Window
    /\ waiting' = [m \in Positions |-> {}]
    /\ flag' = [m \in Positions |-> "processed"]
    /\ acker' = [a \in Ackers |-> Idle]
    /\ disabled' = FALSE
    /\ down' = FALSE
    /\ UNCHANGED <<saved, accepted>>

Init ==
    /\ posted = 0
    /\ src = "poll"
    /\ pending = None
    /\ ring = [s \in Slots |-> Free]
    /\ head = 0 /\ count = 0
    /\ window = Window
    /\ waiting = [m \in Positions |-> {}]
    /\ flag = [m \in Positions |-> "processed"]
    /\ acker = [a \in Ackers |-> Idle]
    /\ saved = 0
    /\ disabled = FALSE /\ down = FALSE
    /\ accepted = {}
    /\ restarts = 0

Read == StartFetch \/ RequestBookmark \/ CountMsg \/ DropDone
        \/ \E route \in SUBSET Threads : TrackMsg(route)

Ack(d) == \E m \in Positions, type \in AckTypes : MsgAck(d, m, type)

Next ==
    \/ Read \/ NothingFetched
    \/ \E d \in Threads : Ack(d)
    \/ \E a \in Ackers : MarkRecord(a) \/ Untrack(a)
    \/ DisableBookmarkSaving \/ Shutdown
    \/ Restart

Spec == Init /\ [][Next]_vars

\* The source thread reads while it may, destinations acknowledge what they
\* are given, and a process that is down is started again.
Fairness ==
    /\ WF_vars(Read)
    /\ SF_vars(\E route \in SUBSET Threads : TrackMsg(route))
    /\ \A d \in Threads : WF_vars(Ack(d))
    /\ \A a \in Ackers : WF_vars(MarkRecord(a)) /\ WF_vars(Untrack(a))
    /\ WF_vars(Restart)

FairSpec == Spec /\ Fairness

----------------------------------------------------------------------------
(* Properties                                                              *)

Record == [pos : 0..Length, acked : BOOLEAN]
AckerState == [pc : {"idle", "mark", "lock"}, pos : 0..Length, slot : Slots \cup {None},
               type : AckTypes]

\* Every variable has its type; the window never leaves 0..init_window_size.
TypeOK ==
    /\ posted \in 0..Length /\ saved \in 0..Length
    /\ src \in {"poll", "fetch", "more", "read", "count", "drop"}
    /\ pending \in Slots \cup {None}
    /\ ring \in [Slots -> Record]
    /\ head \in Slots /\ count \in 0..Window
    /\ window \in 0..Window
    /\ waiting \in [Positions -> SUBSET Threads]
    /\ flag \in [Positions -> AckTypes]
    /\ acker \in [Ackers -> AckerState]
    /\ disabled \in BOOLEAN /\ down \in BOOLEAN
    /\ accepted \subseteq Positions
    /\ restarts \in 0..MaxRestarts

\* A message that was fetched has a record: the assertion on
\* pending_ack_record in consecutive_ack_tracker_track_msg().
RecordForEveryMessage == src = "read" => pending # None

\* A slot that is not in use is unmarked, and a thread about to mark a record
\* still finds its own message there: no acknowledgement is ever applied to
\* the message that reuses the slot.
RecordsNotMixedUp ==
    /\ \A s \in Slots : ring[s].pos = 0 => ~ring[s].acked
    /\ \A a \in Ackers : acker[a].pc = "mark" => ring[acker[a].slot].pos = acker[a].pos

\* Every record holds one slot of the window, so that a source whose messages
\* are all acknowledged has its whole window back.
WindowMatchesRecords == window + count = Window + (IF src = "count" THEN 1 ELSE 0)

\* The promise of a bookmark: the position only moves forward, never past a
\* message that a destination has not accepted, also when acknowledgements
\* arrive out of order and queues are abandoned at shutdown.
Stream == INSTANCE AckedStream

BookmarkPromise == Stream!Spec

\* Everything in the stream is accepted in the end and its position stored,
\* whatever was in flight when the process went down; unless the file has been
\* given up, the process stays down or the reader runs into the assertion that
\* RecordForEveryMessage states.
StreamIsConsumed ==
    <>(saved = Length) \/ <>[](disabled \/ down) \/ <>~RecordForEveryMessage
=============================================================================
