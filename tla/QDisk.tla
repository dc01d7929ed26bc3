-------------------------------- MODULE QDisk --------------------------------
(***************************************************************************)
(* The ring of records in a disk-buffer file (modules/diskq/qdisk.c), as   *)
(* operators on the state q of one open file: the header the code keeps in *)
(* a shared mapping (capacity_bytes, the three heads, the two counts), the *)
(* size of the file, and recs, which maps the position of every record     *)
(* that is still whole in the file to its message.  Writing over any part  *)
(* of a record, or cutting the file inside it, removes it from recs; a     *)
(* read at a position where recs has nothing is a failed read.             *)
(*                                                                         *)
(* A message is [id, size]; the size is that of its record, the four-byte  *)
(* length included.  The header is written by single stores which a killed *)
(* process leaves behind as they are, so the operations that store more    *)
(* than once come as the sequence of the states they go through.           *)
(*                                                                         *)
(* prealloc() is off, and the header is of the current version.            *)
(***************************************************************************)
EXTENDS Integers, Sequences

CONSTANTS
    Reserved,         \* QDISK_RESERVED_SPACE, the position of the first record
    TruncatePercent   \* truncate-size-ratio(), in percent

ASSUME QDiskAssumption == Reserved \in Nat /\ TruncatePercent \in Nat

Larger(a, b) == IF a > b THEN a ELSE b

Final(states) == states[Len(states)]

\* _create_header(): the state of a new file for an option value "capacity".
NewFile(capacity) ==
    [capacity_bytes |-> capacity, read_head |-> Reserved, write_head |-> Reserved,
     backlog_head |-> Reserved, length |-> 0, backlog_len |-> 0,
     option |-> capacity, size |-> Reserved, recs |-> <<>>]

----------------------------------------------------------------------------
(* The bytes of the file.                                                  *)

Keep(recs, positions) == [p \in positions |-> recs[p]]

\* A pwrite() of n bytes at pos destroys what it overlaps.
Overwrite(q, pos, n) ==
    LET whole == {p \in DOMAIN q.recs : p + q.recs[p].size <= pos \/ pos + n <= p}
    IN  [q EXCEPT !.recs = Keep(@, whole)]

WriteRecord(q, pos, m) ==
    LET over == Overwrite(q, pos, m.size)
    IN  [over EXCEPT !.recs = [p \in DOMAIN @ \cup {pos} |-> IF p = pos THEN m ELSE @[p]]]

TruncateFile(q, n) ==
    [q EXCEPT !.size = n,
              !.recs = Keep(@, {p \in DOMAIN @ : p + @[p].size <= n})]

MaybeTruncateFile(q, n) ==
    IF n < q.size /\ q.size - n < (q.capacity_bytes * TruncatePercent) \div 100
    THEN q
    ELSE TruncateFile(q, n)

----------------------------------------------------------------------------
(* Positions.                                                              *)

HasReachedMaxSize(q, pos) == pos >= q.capacity_bytes

CorrectPosition(q, pos) == IF HasReachedMaxSize(q, pos) THEN Reserved ELSE pos

\* The position a head that ran past the write head stands for.
HeadPosition(q, pos) == IF pos > q.write_head THEN CorrectPosition(q, pos) ELSE pos

GetNextHeadPosition(q) == HeadPosition(q, q.read_head)

CanWrapNow(q) == HasReachedMaxSize(q, q.write_head) /\ q.backlog_head # Reserved

GetNextTailPosition(q) == IF CanWrapNow(q) THEN Reserved ELSE q.write_head

IsFileEmpty(q) == q.length = 0 /\ q.backlog_len = 0

IsSpaceAvail(q, n) ==
    IF q.backlog_head <= q.write_head
    THEN \/ q.write_head < q.capacity_bytes
         \/ q.backlog_head # Reserved /\ Reserved + n < q.backlog_head
    ELSE q.write_head + n < q.backlog_head

\* What is left for records, against which the flow-control window is held.
GetEmptySpace(q) ==
    LET w == q.write_head
        b == q.backlog_head
        c == q.capacity_bytes
    IN  CASE w < c /\ b < c /\ w < b   -> b - w
          [] w < c /\ b < c /\ b < w   -> (b - Reserved) + (c - w)
          [] w >= c /\ b >= c /\ w < b -> 0
          [] w < c /\ b >= c           -> c - w
          [] w >= c /\ b < c           -> b - Reserved
          [] OTHER                     -> c - Reserved

----------------------------------------------------------------------------
(* A change of capacity-bytes() waits until no head depends on the old one. *)

IsWrapped(q) == q.backlog_head > q.read_head \/ q.read_head > q.write_head

ApplyPendingCapacity(q) ==
    IF \/ q.option = q.capacity_bytes
       \/ IsWrapped(q)
       \/ q.option < q.capacity_bytes /\ q.write_head > q.option
    THEN q
    ELSE LET cut == IF q.option < q.capacity_bytes /\ q.size > q.option
                    THEN TruncateFile(q, q.option) ELSE q
         IN  [cut EXCEPT !.capacity_bytes = q.option]

----------------------------------------------------------------------------
(* Appending.                                                              *)

\* qdisk_push_tail() of a record that pwrite() takes in full.
PushTailStores(q, m) ==
    LET moved    == [q EXCEPT !.write_head = GetNextTailPosition(q)]
        written  == WriteRecord(moved, moved.write_head, m)
        advanced == [written EXCEPT !.write_head = @ + m.size]
        appends  == advanced.write_head > Larger(q.backlog_head, q.read_head)
        sized    == IF ~appends THEN advanced
                    ELSE IF advanced.size > advanced.write_head
                    THEN MaybeTruncateFile(advanced, advanced.write_head)
                    ELSE [advanced EXCEPT !.size = advanced.write_head]
        wrapped  == IF appends /\ CanWrapNow(sized)
                    THEN [sized EXCEPT !.write_head = Reserved] ELSE sized
    IN  IF ~IsSpaceAvail(moved, m.size)
        THEN <<moved>>
        ELSE <<moved, written, advanced, sized, wrapped,
               [wrapped EXCEPT !.length = @ + 1]>>

HasRoomFor(q, m) ==
    IsSpaceAvail([q EXCEPT !.write_head = GetNextTailPosition(q)], m.size)

\* qdisk_push_tail() when pwrite() fails or writes only a part.
PushTailFails(q, m) ==
    LET moved == [q EXCEPT !.write_head = GetNextTailPosition(q)]
    IN  Overwrite(moved, moved.write_head, m.size)

----------------------------------------------------------------------------
(* Reading, acknowledging and rewinding.                                   *)

\* _skip_record(): where the head goes, and whether a record was there.
SkipRecord(q, pos) ==
    LET at   == HeadPosition(q, pos)
        next == at + q.recs[at].size
    IN  IF pos = q.write_head
        THEN [ok |-> FALSE, pos |-> pos]
        ELSE IF at \notin DOMAIN q.recs
        THEN [ok |-> FALSE, pos |-> at]
        ELSE [ok |-> TRUE, pos |-> HeadPosition(q, next)]

\* qdisk_peek_head(): the read head is corrected, nothing else changes.
PeekHead(q) == [q EXCEPT !.read_head = GetNextHeadPosition(q)]

\* qdisk_pop_head() and qdisk_remove_head() of a reliable queue.
RemoveHeadStores(q) ==
    LET skip  == SkipRecord(q, q.read_head)
        moved == [q EXCEPT !.read_head = skip.pos]
        short == [moved EXCEPT !.length = @ - 1]
    IN  IF ~skip.ok THEN <<moved>>
        ELSE <<moved, short, [short EXCEPT !.backlog_len = @ + 1]>>

CanRemoveHead(q) == SkipRecord(q, q.read_head).ok

AckBacklogStores(q) ==
    LET skip  == SkipRecord(q, q.backlog_head)
        moved == [q EXCEPT !.backlog_head = skip.pos]
        acked == [moved EXCEPT !.backlog_len = @ - 1]
    IN  IF q.backlog_len = 0 THEN <<q>>
        ELSE IF ~skip.ok THEN <<moved>>
        ELSE <<moved, acked, ApplyPendingCapacity(acked)>>

\* The position k records after the backlog head, as qdisk_rewind_backlog()
\* walks it; -1 when a record on the way is missing.
PositionInBacklog(q, k) ==
    LET walk[p \in Int, n \in Nat] ==
            IF n = 0 THEN p
            ELSE IF ~SkipRecord(q, p).ok THEN -1
            ELSE walk[SkipRecord(q, p).pos, n - 1]
    IN  walk[q.backlog_head, k]

RewindBacklogStores(q, count) ==
    LET stay   == q.backlog_len - count
        head   == PositionInBacklog(q, stay)
        kept   == [q EXCEPT !.backlog_len = stay]
        rewound == [kept EXCEPT !.read_head = head]
    IN  IF stay < 0 \/ head = -1 THEN <<q>>
        ELSE <<kept, rewound, [rewound EXCEPT !.length = @ + count]>>

\* Mutant: the file counts as empty when everything has been read.
ResetFileIfEmptyStores_AllRead(q) ==
    LET reset == [q EXCEPT !.read_head = Reserved, !.write_head = Reserved,
                           !.backlog_head = Reserved]
    IN  IF q.length # 0 THEN <<q>> ELSE <<MaybeTruncateFile(reset, Reserved)>>

ResetFileIfEmptyStores(q) ==
    LET r == [q EXCEPT !.read_head = Reserved]
        w == [r EXCEPT !.write_head = Reserved]
        b == [w EXCEPT !.backlog_head = Reserved]
    IN  IF ~IsFileEmpty(q) THEN <<q>>
        ELSE <<r, w, b, ApplyPendingCapacity(MaybeTruncateFile(b, Reserved))>>

----------------------------------------------------------------------------
(* Opening a file.                                                         *)

HeaderIsInconsistent(q) ==
    \/ q.read_head < Reserved
    \/ q.write_head < Reserved
    \/ q.read_head = q.write_head /\ q.length # 0

\* Mutant: a file is opened without the backlog of the last run.
LoadFile_NoBacklog(q, capacity) ==
    ApplyPendingCapacity([q EXCEPT !.option = capacity, !.backlog_head = q.read_head,
                                   !.backlog_len = 0])

\* qdisk_start() on a file left behind, under the option value "capacity".
LoadFile(q, capacity) == ApplyPendingCapacity([q EXCEPT !.option = capacity])

\* The positions of the records from the backlog head on: first the
\* backlog_len handed out and not acknowledged, then the length still to be
\* read; -1 from the first one that is missing.
RecordPositions(q) ==
    LET walk[p \in Int, n \in Nat] ==
            IF n = 0 THEN <<>>
            ELSE IF p \notin DOMAIN q.recs THEN <<-1>> \o walk[-1, n - 1]
            ELSE <<p>> \o walk[HeadPosition(q, p + q.recs[p].size), n - 1]
    IN  walk[HeadPosition(q, q.backlog_head), q.backlog_len + q.length]

Stored(q) ==
    LET pos == RecordPositions(q)
    IN  [n \in DOMAIN pos |-> IF pos[n] = -1 THEN 0 ELSE q.recs[pos[n]].id]
=============================================================================
