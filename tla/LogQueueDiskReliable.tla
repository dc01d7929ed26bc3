------------------------ MODULE LogQueueDiskReliable ------------------------
(***************************************************************************)
(* The reliable disk-buffer (modules/diskq/logqueue-disk-reliable.c and    *)
(* logqueue-disk.c) over the ring file of QDisk, with the life cycle       *)
(* diskq.c gives it: start, stop, reload with another capacity-bytes(),    *)
(* and a process that is killed.                                           *)
(*                                                                         *)
(* Every message is a record of the file before anything else happens to   *)
(* it.  Three lists in memory shadow the file, each entry with the         *)
(* position of its record: flow_control_window and backlog hold the        *)
(* messages the source still waits for, front_cache saves reads.  All      *)
(* operations run under the queue's lock, so each is one step.             *)
(***************************************************************************)
EXTENDS QDisk, FiniteSets

CONSTANTS
    Capacities,       \* the values capacity-bytes() takes over the reloads
    FlowControlBytes, \* flow-control-window-bytes()
    FrontCacheSizes,  \* the values front-cache-size() takes over the restarts
    Sizes,            \* the sizes a record may have
    Undecodable,      \* ids of records that log_msg_deserialize() refuses
    MaxMessages,      \* bound: messages pushed
    MaxTroubles       \* bound: rewinds, stops of the destination, stops and
                      \* kills of the process, and I/O errors, taken together

ASSUME ReliableAssumption ==
    /\ Capacities \subseteq Nat /\ Capacities # {}
    /\ FlowControlBytes \in Nat
    /\ FrontCacheSizes \subseteq Nat /\ FrontCacheSizes # {}
    /\ Sizes \subseteq Nat \ {0} /\ Undecodable \subseteq Nat
    /\ MaxMessages \in Nat /\ MaxTroubles \in Nat

VARIABLES
    q,          \* the open file
    flow_control_window, front_cache, backlog,
    front_cache_size,   \* given to the queue when it is created
    up,         \* "down", "started", or "running" once the destination rewound
    inflight,   \* ids the destination popped and neither acked nor rewound
    sent,       \* messages pushed so far
    acked,      \* ids the source was told are processed
    delivered,  \* ids the destination acknowledged
    dropped,    \* ids refused because the file is full or the write failed
    abandoned,  \* ids a killed process held without having acked them
    aside,      \* ids in a file that was given up as corrupted
    troubles    \* how much of MaxTroubles is spent

vars == <<q, flow_control_window, front_cache, backlog, front_cache_size, up, inflight, sent, acked,
          delivered, dropped, abandoned, aside, troubles>>
life == <<front_cache_size, up>>
memory == <<flow_control_window, front_cache, backlog>>
fates == <<delivered, dropped, abandoned, aside>>

Ids(list) == {list[i].id : i \in DOMAIN list}

SetOf(s) == {s[i] : i \in DOMAIN s}

Trouble == troubles < MaxTroubles /\ troubles' = troubles + 1

Init ==
    /\ \E c \in Capacities : q = NewFile(c)
    /\ flow_control_window = <<>> /\ front_cache = <<>> /\ backlog = <<>>
    /\ front_cache_size \in FrontCacheSizes
    /\ up = "started" /\ inflight = <<>> /\ sent = 0
    /\ acked = {} /\ delivered = {} /\ dropped = {} /\ abandoned = {} /\ aside = {}
    /\ troubles = 0

----------------------------------------------------------------------------
(* The input side.                                                         *)

Entry(pos, m) == [pos |-> pos, id |-> m.id]

\* Mutant: the window is measured in full, not by what is free.
IsReservedBufferSizeReached_Capacity(file) == file.capacity_bytes - file.write_head < FlowControlBytes

IsReservedBufferSizeReached(file) == GetEmptySpace(file) < FlowControlBytes

\* _push_tail(): the source is acked unless the free space is down to the
\* flow-control window; a message it still waits for is kept in memory.
Push(size) ==
    LET m == [id |-> sent + 1, size |-> size]
        file == Final(PushTailStores(q, m))
        entry == Entry(GetNextTailPosition(q), m)
    IN  /\ up # "down" /\ sent < MaxMessages
        /\ HasRoomFor(q, m)
        /\ q' = file /\ sent' = sent + 1
        /\ \/ /\ IsReservedBufferSizeReached(file)
              /\ flow_control_window' = Append(flow_control_window, entry)
              /\ UNCHANGED <<front_cache, acked>>
           \/ /\ ~IsReservedBufferSizeReached(file)
              /\ acked' = acked \cup {m.id}
              /\ front_cache' = IF Len(front_cache) < front_cache_size
                                THEN Append(front_cache, entry) ELSE front_cache
              /\ UNCHANGED flow_control_window
        /\ UNCHANGED <<backlog, life, inflight, fates, troubles>>

\* _push_tail() of a message that does not fit, or whose write fails.
PushDropped(size) ==
    LET m == [id |-> sent + 1, size |-> size]
    IN  /\ up # "down" /\ sent < MaxMessages
        /\ \/ ~HasRoomFor(q, m) /\ q' = Final(PushTailStores(q, m)) /\ UNCHANGED troubles
           \/ HasRoomFor(q, m) /\ q' = PushTailFails(q, m) /\ Trouble
        /\ sent' = sent + 1
        /\ dropped' = dropped \cup {m.id}
        /\ UNCHANGED <<memory, life, inflight, acked, delivered, abandoned, aside>>

----------------------------------------------------------------------------
(* The output side.                                                        *)

\* Mutant: a list that has anything answers the pop.
AtHead_AnyPosition(list, file) == list # <<>>

AtHead(list, file) == list # <<>> /\ Head(list).pos = GetNextHeadPosition(file)

\* log_queue_disk_read_message(): records that cannot be decoded are passed
\* over, and count as handed out.  The number of records taken from the file.
RecordsRead(file) ==
    LET after[n \in 0..file.length] ==
            IF n = 0 THEN file ELSE Final(RemoveHeadStores(after[n - 1]))
        id(n) == after[n - 1].recs[GetNextHeadPosition(after[n - 1])].id
        good  == {n \in 1..file.length :
                    /\ \A i \in 1..n : CanRemoveHead(after[i - 1])
                    /\ id(n) \notin Undecodable
                    /\ \A i \in 1..(n - 1) : id(i) \in Undecodable}
    IN  IF good = {} THEN [file |-> after[file.length], id |-> 0]
        ELSE LET n == CHOOSE n \in good : TRUE IN [file |-> after[n], id |-> id(n)]

\* _pop_head(): from whichever list has the record at the read head, or from
\* the file.
Pop ==
    /\ up = "running"
    /\ \/ /\ AtHead(flow_control_window, q) /\ CanRemoveHead(q)
          /\ q' = Final(RemoveHeadStores(q))
          /\ backlog' = Append(backlog, Head(flow_control_window))
          /\ inflight' = Append(inflight, Head(flow_control_window).id)
          /\ flow_control_window' = Tail(flow_control_window)
          /\ UNCHANGED front_cache
       \/ /\ ~AtHead(flow_control_window, q) /\ AtHead(front_cache, q) /\ CanRemoveHead(q)
          /\ q' = Final(RemoveHeadStores(q))
          /\ inflight' = Append(inflight, Head(front_cache).id)
          /\ front_cache' = Tail(front_cache)
          /\ UNCHANGED <<flow_control_window, backlog>>
       \/ /\ ~AtHead(flow_control_window, q) /\ ~AtHead(front_cache, q)
          /\ q.length > 0 /\ CanRemoveHead(q)
          /\ LET read == RecordsRead(q)
             IN  /\ q' = read.file
                 /\ inflight' = IF read.id = 0 THEN inflight ELSE Append(inflight, read.id)
          /\ UNCHANGED memory
    /\ UNCHANGED <<life, sent, acked, fates, troubles>>

\* _peek_head(), of a message the file has to be asked for.
Peek ==
    /\ up = "running"
    /\ ~AtHead(flow_control_window, q) /\ ~AtHead(front_cache, q)
    /\ q.length > 0 /\ CanRemoveHead(q)
    /\ q.recs[GetNextHeadPosition(q)].id \notin Undecodable
    /\ q' = PeekHead(q) /\ q' # q
    /\ UNCHANGED <<memory, life, inflight, sent, acked, fates, troubles>>

\* A pop or a peek that cannot read its record: log_queue_disk_restart_corrupted()
\* empties the lists, which acks what is on them, moves the file away and
\* starts a new one.  A message from a list is handed out all the same.
PopCorrupted ==
    LET listed == CASE AtHead(flow_control_window, q) -> <<Head(flow_control_window).id>>
                    [] AtHead(front_cache, q) -> <<Head(front_cache).id>>
                    [] OTHER -> <<>>
    IN  /\ up = "running" /\ q.length > 0
        /\ IF CanRemoveHead(q) THEN Trouble ELSE UNCHANGED troubles
        /\ q' = NewFile(q.option)
        /\ aside' = aside \cup SetOf(Stored(q))
        /\ acked' = acked \cup Ids(flow_control_window) \cup Ids(backlog)
        /\ flow_control_window' = <<>> /\ front_cache' = <<>> /\ backlog' = <<>>
        /\ inflight' = inflight \o listed
        /\ UNCHANGED <<life, sent, delivered, dropped, abandoned>>

\* One round of the loop in _ack_backlog(): the exit test, the list, the file.
AckOne(s) ==
    LET listed == s.list # <<>> /\ Head(s.list).pos = s.file.backlog_head
    IN  IF s.file.backlog_head = GetNextHeadPosition(s.file) THEN s
        ELSE [file  |-> Final(AckBacklogStores(s.file)),
              list  |-> IF listed THEN Tail(s.list) ELSE s.list,
              acked |-> IF listed THEN s.acked \cup {Head(s.list).id} ELSE s.acked]

AckMany(s, n) ==
    LET after[i \in 0..n] == IF i = 0 THEN s ELSE AckOne(after[i - 1])
    IN  after[n]

AckState == [file |-> q, list |-> backlog, acked |-> acked]

\* What the destination does with the n oldest messages it holds.
Acknowledge(n, end) ==
    /\ q' = Final(ResetFileIfEmptyStores(end.file))
    /\ backlog' = end.list /\ acked' = end.acked
    /\ inflight' = SubSeq(inflight, n + 1, Len(inflight))
    /\ delivered' = delivered \cup SetOf(SubSeq(inflight, 1, n))
    /\ UNCHANGED <<flow_control_window, front_cache, life, sent, dropped, abandoned, aside>>

Ack(n) ==
    /\ up = "running" /\ n <= Len(inflight)
    /\ Acknowledge(n, AckMany(AckState, n))
    /\ UNCHANGED troubles

\* The first record of the call cannot be read: the list lost its entry, the
\* backlog head stays.
AckFails(n) ==
    LET first == AckOne(AckState)
        failed == [first EXCEPT !.file = [q EXCEPT !.backlog_head = HeadPosition(q, @)]]
    IN  /\ up = "running" /\ n <= Len(inflight)
        /\ q.backlog_head # GetNextHeadPosition(q)
        /\ Trouble
        /\ Acknowledge(n, AckMany(failed, n - 1))

\* Mutant: the whole list goes back, whatever the new read head.
RewindLists_All(file) ==
    /\ flow_control_window' = backlog \o flow_control_window
    /\ backlog' = <<>>

\* _rewind_from_backlog(): the entries from the one at the new read head on
\* go back to the flow-control window; none, when it is not on the list.
RewindLists(file) ==
    LET here == {i \in DOMAIN backlog : backlog[i].pos = GetNextHeadPosition(file)}
        from == CHOOSE i \in here : \A j \in here : j <= i
    IN  IF here = {} THEN UNCHANGED <<flow_control_window, backlog>>
        ELSE /\ flow_control_window' = SubSeq(backlog, from, Len(backlog)) \o flow_control_window
             /\ backlog' = SubSeq(backlog, 1, from - 1)

\* _rewind_backlog(): the count is cut to what the backlog has.
Rewind(count) ==
    LET k == IF count < q.backlog_len THEN count ELSE q.backlog_len
        file == Final(RewindBacklogStores(q, k))
    IN  /\ q' = file
        /\ RewindLists(file)
        /\ inflight' = SubSeq(inflight, 1, Len(inflight) - k)
        /\ UNCHANGED <<front_cache, front_cache_size, sent, acked, fates>>

RewindSome(count) ==
    /\ up = "running" /\ count <= Len(inflight)
    /\ Trouble
    /\ Rewind(count)
    /\ UNCHANGED up

\* The destination's thread starts with log_queue_rewind_backlog_all().
DestinationStarts ==
    /\ up = "started" /\ up' = "running"
    /\ Rewind(q.backlog_len)
    /\ UNCHANGED troubles

----------------------------------------------------------------------------
(* The life cycle.                                                         *)

\* diskq.c's _acquire_queue() of a queue kept over a reload: the new value of
\* capacity-bytes() is taken at once or left pending.
Reload(capacity) ==
    /\ up = "started" /\ capacity # q.option
    /\ q' = LoadFile(q, capacity)
    /\ UNCHANGED <<memory, life, inflight, sent, acked, fates, troubles>>

\* The destination's thread ends: it rewinds what it holds and leaves.
DestinationStops ==
    /\ up = "running" /\ up' = "started"
    /\ Trouble
    /\ Rewind(q.backlog_len)

\* Mutant: the lists are emptied without an answer to the source.
Stop_NoAck ==
    /\ up = "started" /\ Trouble
    /\ flow_control_window' = <<>> /\ front_cache' = <<>> /\ backlog' = <<>>
    /\ up' = "down"
    /\ UNCHANGED <<q, front_cache_size, acked, inflight, sent, fates>>

\* log_queue_disk_stop(): the lists are emptied and what is on them is acked,
\* the file has it.
Stop ==
    /\ up = "started" /\ Trouble
    /\ acked' = acked \cup Ids(flow_control_window) \cup Ids(backlog)
    /\ flow_control_window' = <<>> /\ front_cache' = <<>> /\ backlog' = <<>>
    /\ up' = "down"
    /\ UNCHANGED <<q, front_cache_size, inflight, sent, fates>>

\* The process is killed between two operations.
Lost(file, ids) ==
    /\ q' = file
    /\ abandoned' = abandoned \cup ids
    /\ flow_control_window' = <<>> /\ front_cache' = <<>> /\ backlog' = <<>>
    /\ inflight' = <<>>
    /\ up' = "down" /\ Trouble
    /\ UNCHANGED front_cache_size

Crash ==
    /\ up # "down"
    /\ Lost(q, Ids(flow_control_window) \cup Ids(backlog))
    /\ UNCHANGED <<sent, acked, delivered, dropped, aside>>

\* log_queue_disk_start() on the file found, or, when its header is refused,
\* _acquire_queue() going on to a new file.
Start(capacity) ==
    /\ up = "down" /\ up' = "started"
    /\ front_cache_size' \in FrontCacheSizes
    /\ q' = IF HeaderIsInconsistent(q) THEN NewFile(capacity) ELSE LoadFile(q, capacity)
    /\ aside' = IF HeaderIsInconsistent(q) THEN aside \cup SetOf(Stored(q)) ELSE aside
    /\ UNCHANGED <<memory, inflight, sent, acked, delivered, dropped, abandoned, troubles>>

Next ==
    \/ \E n \in Sizes : Push(n) \/ PushDropped(n)
    \/ Pop \/ Peek \/ PopCorrupted
    \/ \E n \in 1..MaxMessages : Ack(n) \/ AckFails(n) \/ RewindSome(n)
    \/ DestinationStarts \/ DestinationStops
    \/ \E c \in Capacities : Reload(c) \/ Start(c)
    \/ Stop \/ Crash

Spec == Init /\ [][Next]_vars

----------------------------------------------------------------------------
(* Properties.                                                             *)

TypeOK ==
    /\ up \in {"down", "started", "running"} /\ sent \in 0..MaxMessages
    /\ q.length \in 0..MaxMessages /\ q.backlog_len \in 0..MaxMessages
    /\ \A p \in DOMAIN q.recs : p >= Reserved /\ p + q.recs[p].size <= q.size
    /\ acked \cup delivered \cup dropped \cup abandoned \subseteq 1..MaxMessages

\* What the destination holds is the tail of the backlog in the file, in
\* order, whichever list or read a message came from: an ack or a rewind by
\* count hits the records it is about.
InflightIsBacklog ==
    up = "running" /\ aside = {} =>
        LET first == q.backlog_len - Len(inflight)
        IN  first >= 0 /\ inflight = SubSeq(Stored(q), first + 1, q.backlog_len)

\* An entry in memory stands for the record at its position: the two lists
\* that answer pops lie in the part still to be read, and the lists have no
\* entry left over when the file is empty.
ListsShadowFile ==
    LET pos == RecordPositions(q)
        unread == q.backlog_len + 1
        IsRecord(e, from) == \E n \in from..Len(pos) : pos[n] = e.pos /\ q.recs[e.pos].id = e.id
    IN  /\ \A i \in DOMAIN flow_control_window : IsRecord(flow_control_window[i], unread)
        /\ \A i \in DOMAIN front_cache : IsRecord(front_cache[i], unread)
        /\ \A i \in DOMAIN backlog : IsRecord(backlog[i], 1)

\* A message the source was told is processed is in the file until the
\* destination acknowledged it, over wraps, capacity changes, restarts and
\* kills; a file given up as corrupted takes its messages with it.
AckedIsDurable ==
    aside = {} => acked \subseteq delivered \cup SetOf(Stored(q))

\* A message that is not in the file and was not lost with a killed process
\* has been answered: none is held in memory for a source that waits for ever.
NothingIsForgotten ==
    1..sent \subseteq acked \cup dropped \cup abandoned
                      \cup Ids(flow_control_window) \cup Ids(backlog)

\* A push that is refused suspends its source, and only a later ack resumes it
\* (log_queue_disk_drop_msg_and_suspend_src()).  With a flow-control window
\* larger than any record there is one to come, some message is still waited
\* for; until a restart or an error, which acks what the file holds.
RefusalHasReleaser ==
    [][dropped' # dropped /\ troubles' = 0 /\ (\A n \in Sizes : n < FlowControlBytes)
           => flow_control_window # <<>> \/ backlog # <<>>]_vars

\* The ring file is a queue: a push adds one record at the end, a pop takes
\* the next one, acks and rewinds move along the records already handed out,
\* and neither a wrap, a truncation, a new capacity nor a restart changes
\* which records there are.
Durable == INSTANCE DurableQueue WITH stored <- Stored(q), taken <- q.backlog_len

ImplementsDurableQueue == Durable!Spec

----------------------------------------------------------------------------
(* A process killed between two stores of one operation.                   *)

CrashIn(states) ==
    \E k \in DOMAIN states : Lost(states[k], Ids(flow_control_window) \cup Ids(backlog))

CrashInside ==
    /\ \/ /\ up # "down" /\ sent < MaxMessages
          /\ \E n \in Sizes : CrashIn(PushTailStores(q, [id |-> sent + 1, size |-> n]))
          /\ sent' = sent + 1
       \/ /\ up = "running"
          /\ \/ q.length > 0 /\ CrashIn(RemoveHeadStores(q))
             \/ inflight # <<>> /\ CrashIn(AckBacklogStores(q))
             \/ inflight # <<>> /\ CrashIn(RewindBacklogStores(q, Len(inflight)))
          /\ UNCHANGED sent
    /\ UNCHANGED <<acked, delivered, dropped, aside>>

TornSpec == Init /\ [][Next \/ CrashInside]_vars
=============================================================================
