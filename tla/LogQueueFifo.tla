--------------------------- MODULE LogQueueFifo ---------------------------
(***************************************************************************)
(* The in-memory destination queue (lib/logqueue-fifo.c) together with the *)
(* part of the generic queue it is driven through (lib/logqueue.c).        *)
(*                                                                         *)
(* Messages flow  input[t] -> wait -> output -> backlog.  The input list   *)
(* of a thread is touched by that thread alone, "wait" under the queue's   *)
(* lock, "output" and "backlog" by the one output thread, which needs no   *)
(* lock: a pushing thread that looks at the length of the queue may find   *)
(* another one when it appends, still under the same lock.  Every list     *)
(* carries the two counters the code keeps next to it: "len" and "nfc"     *)
(* (non_flow_controlled_len).  The output thread sleeps on a callback that *)
(* check_items() registers and that the next push takes and calls after    *)
(* dropping the lock.                                                      *)
(***************************************************************************)
EXTENDS Integers, Sequences, FiniteSets

CONSTANTS
    InputThreads,   \* worker threads with an index below num_input_queues
    SlowThreads,    \* threads whose thread_index is (or becomes) -1
    LogFifoSize,    \* log-fifo-size()
    Throttle,       \* throttle(), 0 when there is none
    FlushCheck,     \* an input list's age is looked at every so many messages
    InputLenRange,  \* 2^16: the guint16 the length is narrowed to
    RewindsAll,     \* the destination uses rewind_backlog_all()
    MaxMessages,    \* bound: messages each thread pushes
    MaxRewinds      \* bound: messages the output thread rewinds

ASSUME FifoAssumption ==
    /\ IsFiniteSet(InputThreads) /\ IsFiniteSet(SlowThreads)
    /\ InputThreads \cap SlowThreads = {}
    /\ LogFifoSize \in Nat
    /\ Throttle \in Nat
    /\ FlushCheck \in Nat \ {0}
    /\ InputLenRange \in Nat \ {0}
    /\ RewindsAll \in BOOLEAN
    /\ MaxMessages \in [InputThreads \cup SlowThreads -> Nat]
    /\ MaxRewinds \in Nat

Threads == InputThreads \cup SlowThreads

Message == [from : Threads, seq : Nat, fc : BOOLEAN]

VARIABLES
    input,       \* the per-thread input lists
    registered,  \* threads whose batch callback is registered
    wait, output, backlog,
    queued,      \* the queued_messages counter
    notify,      \* parallel_push_notify is set
    pc,          \* where a pushing thread is inside push_tail() or its callback
    toDrop,      \* num_of_messages_to_drop of a thread that moves its list
    wakeup,      \* the event the callback posts to the output thread
    consumer,    \* what the output thread is doing
    buckets,     \* throttle_buckets
    rewinds,     \* messages rewound so far (bounded by MaxRewinds)
    sent,        \* messages pushed so far, per thread
    acked, dropped, aborted  \* what became of the messages that left

lists == <<input, wait, output, backlog>>
fates == <<acked, dropped, aborted>>
vars == <<input, registered, wait, output, backlog, queued, notify, pc, toDrop, wakeup,
          consumer, buckets, rewinds, sent, acked, dropped, aborted>>

Empty == [items |-> <<>>, len |-> 0, nfc |-> 0]

Nfc(m) == IF m.fc THEN 0 ELSE 1

AddTail(q, m) ==
    [items |-> Append(q.items, m), len |-> q.len + 1, nfc |-> q.nfc + Nfc(m)]

SpliceTail(q, r) ==
    [items |-> q.items \o r.items, len |-> q.len + r.len, nfc |-> q.nfc + r.nfc]

Elements(q) == {q.items[i] : i \in DOMAIN q.items}

----------------------------------------------------------------------------
(* The input side.                                                         *)

\* log_queue_fifo_get_length() and its non-flow-controlled sibling.
GetLength == wait.len + output.len
GetNfcLength == wait.nfc + output.nfc

Max0(n) == IF n < 0 THEN 0 ELSE n

\* How many messages of an input list must go before it is moved: its length
\* is narrowed to 16 bits first.
NumToDrop(in) ==
    LET inputLen == in.nfc % InputLenRange
    IN  IF GetNfcLength + inputLen > LogFifoSize
        THEN inputLen - Max0(LogFifoSize - GetNfcLength)
        ELSE 0

\* How many of a set of positions come before or at k, and the n-th of them.
Rank(S, k) == Cardinality({j \in S : j <= k})
Nth(S, n) == CHOOSE k \in S : Rank(S, k) = n

\* Where the first n messages of the list are that are not flow controlled.
Uncontrolled(items) == {k \in DOMAIN items : ~items[k].fc}
OldestUncontrolled(in, n) ==
    {k \in Uncontrolled(in.items) : Rank(Uncontrolled(in.items), k) <= n}

\* They are taken out; the others close up.
DropFrom(in, n) ==
    LET kept == DOMAIN in.items \ OldestUncontrolled(in, n)
    IN  [items |-> [i \in 1..Cardinality(kept) |-> in.items[Nth(kept, i)]],
         len |-> in.len - n, nfc |-> in.nfc - n]

\* The queue's lock is held by a thread that has looked at the length.
Locked == \E t \in Threads : pc[t] \in {"moving", "appending"}

\* log_queue_fifo_move_input() takes the lock and decides how many to drop.
StartMove(t, in) ==
    /\ ~Locked
    /\ toDrop' = [toDrop EXCEPT ![t] = NumToDrop(in)]
    /\ pc' = [pc EXCEPT ![t] = "moving"]

\* The rest of log_queue_fifo_move_input_unlocked().
MoveInput(t) ==
    LET kept == DropFrom(input[t], toDrop[t])
    IN  /\ dropped' = dropped \cup
              {input[t].items[k] : k \in OldestUncontrolled(input[t], toDrop[t])}
        /\ queued' = queued + kept.len
        /\ wait' = SpliceTail(wait, kept)
        /\ input' = [input EXCEPT ![t] = Empty]

\* Mutant: the callback is cleared and not called.
TakeNotify_Lost(t, next) == notify' = FALSE /\ pc' = [pc EXCEPT ![t] = "idle"]

\* log_queue_push_notify(): take the callback; it is called without the lock.
TakeNotify(t, next) ==
    /\ notify' = FALSE
    /\ pc' = [pc EXCEPT ![t] = IF notify THEN next ELSE "idle"]

NewMessage(t, fc) == [from |-> t, seq |-> sent[t] + 1, fc |-> fc]

\* Mutant: a thread's callback is registered with its first message only.
Registered_Once(t) == IF sent[t] = 0 THEN registered \cup {t} ELSE registered

\* main_loop_worker_register_batch_callback(), unless it is registered.
Registered(t) == registered \cup {t}

CanPush(t) == pc[t] = "idle" /\ sent[t] < MaxMessages[t]

\* push_tail() on a thread that has an input list.  "old" says that the list
\* is more than 100 ms old, which only every FlushCheck-th message looks at.
PushFast(t, fc, old) ==
    /\ CanPush(t)
    /\ sent' = [sent EXCEPT ![t] = @ + 1]
    /\ registered' = Registered(t)
    /\ LET in == AddTail(input[t], NewMessage(t, fc))
       IN  /\ input' = [input EXCEPT ![t] = in]
           /\ IF old /\ in.len % FlushCheck = 0
              THEN StartMove(t, in)
              ELSE UNCHANGED <<pc, toDrop>>
    /\ UNCHANGED <<wait, output, backlog, queued, notify, wakeup, consumer, buckets, rewinds,
                   fates>>

\* log_queue_fifo_input_batch_callback(), at the end of the thread's batch.
BatchCallback(t) ==
    /\ pc[t] = "idle"
    /\ t \in registered
    /\ registered' = registered \ {t}
    /\ StartMove(t, input[t])
    /\ UNCHANGED <<lists, queued, notify, wakeup, consumer, buckets, rewinds, sent, fates>>

Move(t) ==
    /\ pc[t] = "moving"
    /\ MoveInput(t)
    /\ TakeNotify(t, "notifying")
    /\ UNCHANGED <<registered, output, backlog, toDrop, wakeup, consumer, buckets, rewinds, sent,
                   acked, aborted>>

\* Mutant: one message more than log-fifo-size() fits.
MustDrop_Late(fc) == ~fc /\ GetNfcLength > LogFifoSize

\* _message_has_to_be_dropped()
MustDrop(fc) == ~fc /\ GetNfcLength >= LogFifoSize

\* The rest of push_tail(): the message is appended under the lock.
AppendMessage(t, fc) ==
    /\ sent' = [sent EXCEPT ![t] = @ + 1]
    /\ wait' = AddTail(wait, NewMessage(t, fc))
    /\ TakeNotify(t, "notifying_uncounted")
    /\ queued' = IF notify THEN queued ELSE queued + 1
    /\ UNCHANGED dropped

\* push_tail() without an input list.  The length matters, and may change
\* before the message is appended, when the message is not flow controlled.
PushSlow(t, fc) ==
    /\ CanPush(t)
    /\ ~Locked
    /\ \/ /\ MustDrop(fc)
          /\ sent' = [sent EXCEPT ![t] = @ + 1]
          /\ dropped' = dropped \cup {NewMessage(t, fc)}
          /\ UNCHANGED <<wait, queued, notify, pc>>
       \/ /\ ~fc /\ ~MustDrop(fc)
          /\ pc' = [pc EXCEPT ![t] = "appending"]
          /\ UNCHANGED <<wait, queued, notify, sent, dropped>>
       \/ fc /\ AppendMessage(t, fc)
    /\ UNCHANGED <<input, registered, output, backlog, toDrop, wakeup, consumer, buckets,
                   rewinds, acked, aborted>>

AppendSlow(t) ==
    /\ pc[t] = "appending"
    /\ AppendMessage(t, FALSE)
    /\ UNCHANGED <<input, registered, output, backlog, toDrop, wakeup, consumer, buckets,
                   rewinds, acked, aborted>>

\* func(user_data) inside log_queue_push_notify().
CallNotify(t) ==
    /\ pc[t] \in {"notifying", "notifying_uncounted"}
    /\ wakeup' = TRUE
    /\ pc' = [pc EXCEPT ![t] = IF @ = "notifying" THEN "idle" ELSE "uncounted"]
    /\ UNCHANGED <<lists, registered, queued, notify, toDrop, consumer, buckets, rewinds, sent, fates>>

\* Mutant: the message is never counted.
CountPushed_Missing(t) ==
    /\ pc[t] = "uncounted"
    /\ ~Locked
    /\ pc' = [pc EXCEPT ![t] = "idle"]
    /\ UNCHANGED <<lists, registered, queued, notify, toDrop, wakeup, consumer, buckets, rewinds,
                   sent, fates>>

\* The slow path counts its message only after it has the lock again.
CountPushed(t) ==
    /\ pc[t] = "uncounted"
    /\ ~Locked
    /\ queued' = queued + 1
    /\ pc' = [pc EXCEPT ![t] = "idle"]
    /\ UNCHANGED <<lists, registered, notify, toDrop, wakeup, consumer, buckets, rewinds, sent, fates>>

----------------------------------------------------------------------------
(* The output thread.                                                      *)

Refill(added) == IF buckets + added > Throttle THEN Throttle ELSE buckets + added

\* log_queue_check_items(): register the callback on an empty queue, or
\* refill the throttle's buckets and go to work.  "added" is new_buckets.
CheckItems(added) ==
    /\ consumer \in {"idle", "refilled"}
    /\ ~Locked
    /\ consumer = "refilled" => added > 0 \/ Throttle = 0
    /\ IF GetLength = 0
       THEN /\ notify' = TRUE
            /\ consumer' = "sleeping"
            /\ UNCHANGED buckets
       ELSE /\ notify' = FALSE
            /\ buckets' = Refill(added)
            /\ consumer' = IF Throttle > 0 /\ buckets' = 0 THEN "throttled" ELSE "writing"
    /\ UNCHANGED <<lists, registered, queued, pc, toDrop, wakeup, rewinds, sent, fates>>

\* The posted event arrives; it is ignored while the thread is working.
WakeupEvent ==
    /\ wakeup
    /\ wakeup' = FALSE
    /\ consumer' = IF consumer \in {"sleeping", "throttled"} THEN "idle" ELSE consumer
    /\ UNCHANGED <<lists, registered, queued, notify, pc, toDrop, buckets, rewinds, sent, fates>>

\* The throttle's timer: long enough for one bucket to have been refilled.
ThrottleTimer ==
    /\ consumer = "throttled"
    /\ consumer' = "refilled"
    /\ UNCHANGED <<lists, registered, queued, notify, pc, toDrop, wakeup, buckets, rewinds, sent, fates>>

\* The peer answered: the watches are stopped, log_queue_reset_parallel_push().
\* A client that is waiting for the answer gets here without check_items().
IoWakeup ==
    /\ consumer \in {"idle", "sleeping", "throttled"}
    /\ ~Locked
    /\ backlog.len > 0
    /\ notify' = FALSE
    /\ consumer' = "reading"
    /\ UNCHANGED <<lists, registered, queued, pc, toDrop, wakeup, buckets, rewinds, sent, fates>>

FinishReading ==
    /\ consumer = "replied"
    /\ consumer' = "idle"
    /\ UNCHANGED <<lists, registered, queued, notify, pc, toDrop, wakeup, buckets, rewinds, sent, fates>>

\* Mutant: pop_head() looks at output only.
Refilled_OutputOnly == [output |-> output, wait |-> wait]

\* What pop_head() finds: output, refilled from wait when it is empty.
Refilled ==
    IF output.len = 0
    THEN [output |-> [wait EXCEPT !.items = output.items \o wait.items], wait |-> Empty]
    ELSE [output |-> output, wait |-> wait]

RemoveHead(q) ==
    [items |-> Tail(q.items), len |-> q.len - 1, nfc |-> q.nfc - Nfc(Head(q.items))]

\* log_queue_pop_head(), the popped message going to the backlog.
PopHead ==
    /\ consumer = "writing"
    /\ Throttle > 0 => buckets > 0
    /\ output.len = 0 => ~Locked
    /\ Refilled.output.len > 0
    /\ LET m == Head(Refilled.output.items)
       IN  /\ output' = RemoveHead(Refilled.output)
           /\ backlog' = AddTail(backlog, m)
    /\ wait' = Refilled.wait
    /\ queued' = queued - 1
    /\ buckets' = IF buckets > 0 THEN buckets - 1 ELSE buckets
    /\ UNCHANGED <<input, registered, notify, pc, toDrop, wakeup, consumer, rewinds, sent, fates>>

\* pop_head() returns NULL: the pass is over.
PopNothing ==
    /\ consumer = "writing"
    /\ (Throttle > 0 /\ buckets = 0) \/ (Refilled.output.len = 0 /\ ~Locked)
    /\ consumer' = "idle"
    /\ UNCHANGED <<lists, registered, queued, notify, pc, toDrop, wakeup, buckets, rewinds, sent, fates>>

\* log_queue_fifo_ack_backlog(n): the n oldest entries are done with.
AckBacklog(n) ==
    /\ consumer \in {"writing", "reading"}
    /\ n \in 1..backlog.len
    /\ acked' = acked \o SubSeq(backlog.items, 1, n)
    /\ backlog' = [items |-> SubSeq(backlog.items, n + 1, Len(backlog.items)),
                   len |-> backlog.len - n,
                   nfc |-> backlog.nfc - Cardinality({i \in 1..n : ~backlog.items[i].fc})]
    /\ consumer' = IF consumer = "reading" THEN "replied" ELSE consumer
    /\ UNCHANGED <<input, registered, wait, output, queued, notify, pc, toDrop, wakeup,
                   buckets, rewinds, sent, dropped, aborted>>

\* Mutant: rewound messages queue up behind the newer ones.
PutBack_Tail(back) == output.items \o back

PutBack(back) == back \o output.items

\* log_queue_fifo_rewind_backlog(n): the n youngest entries go back to the
\* head of output; a refused write ends the pass.
RewindBacklog(n) ==
    /\ consumer = "writing"
    /\ n \in 1..backlog.len
    /\ rewinds + n <= MaxRewinds
    /\ LET first == Len(backlog.items) - n + 1
           back == SubSeq(backlog.items, first, Len(backlog.items))
           moved == Cardinality({i \in 1..n : ~back[i].fc})
       IN  /\ output' = [items |-> PutBack(back),
                         len |-> output.len + n, nfc |-> output.nfc + moved]
           /\ backlog' = [items |-> SubSeq(backlog.items, 1, first - 1),
                          len |-> backlog.len - n, nfc |-> backlog.nfc - moved]
    /\ queued' = queued + n
    /\ rewinds' = rewinds + n
    /\ consumer' = "idle"
    /\ UNCHANGED <<input, registered, wait, notify, pc, toDrop, wakeup, buckets, sent, fates>>

\* log_queue_fifo_rewind_backlog_all(): the backlog is spliced to the tail of
\* output.
RewindBacklogAll ==
    /\ RewindsAll
    /\ consumer \in {"reading", "replied"}
    /\ backlog.len > 0
    /\ rewinds + backlog.len <= MaxRewinds
    /\ output' = SpliceTail(output, backlog)
    /\ backlog' = Empty
    /\ queued' = queued + backlog.len
    /\ rewinds' = rewinds + backlog.len
    /\ consumer' = "idle"
    /\ UNCHANGED <<input, registered, wait, notify, pc, toDrop, wakeup, buckets, sent, fates>>

\* Mutant: a queue whose messages are all being written is not kept.
KeepOnReload_Queued == GetLength > 0

KeepOnReload == GetLength > 0 \/ backlog.len > 0

\* A reload: the workers have finished their jobs, so no thread is pushing
\* and every batch callback has run.  A queue that keep_on_reload() does not
\* keep is freed with everything in it.
Reload ==
    /\ registered = {}
    /\ \A t \in Threads : pc[t] = "idle"
    /\ consumer \in {"idle", "sleeping", "throttled"}
    /\ notify' = FALSE
    /\ wakeup' = FALSE
    /\ consumer' = "idle"
    /\ IF KeepOnReload
       THEN UNCHANGED <<lists, queued, buckets, aborted>>
       ELSE /\ aborted' = aborted \cup UNION {Elements(input[t]) : t \in InputThreads}
                            \cup Elements(wait) \cup Elements(output) \cup Elements(backlog)
            /\ input' = [t \in InputThreads |-> Empty]
            /\ wait' = Empty /\ output' = Empty /\ backlog' = Empty
            /\ queued' = 0
            /\ buckets' = Throttle
    /\ UNCHANGED <<registered, pc, toDrop, rewinds, sent, acked, dropped>>

----------------------------------------------------------------------------
Init ==
    /\ input = [t \in InputThreads |-> Empty]
    /\ registered = {}
    /\ wait = Empty /\ output = Empty /\ backlog = Empty
    /\ queued = 0
    /\ notify = FALSE
    /\ pc = [t \in Threads |-> "idle"]
    /\ toDrop = [t \in InputThreads |-> 0]
    /\ wakeup = FALSE
    /\ consumer = "idle"
    /\ buckets = Throttle
    /\ rewinds = 0
    /\ sent = [t \in Threads |-> 0]
    /\ acked = <<>> /\ dropped = {} /\ aborted = {}

Produce(t) ==
    \/ t \in InputThreads /\ \E fc, old \in BOOLEAN : PushFast(t, fc, old)
    \/ t \in SlowThreads /\ \E fc \in BOOLEAN : PushSlow(t, fc)

Callback(t) ==
    \/ t \in InputThreads /\ (BatchCallback(t) \/ Move(t))
    \/ t \in SlowThreads /\ AppendSlow(t)
    \/ CallNotify(t)
    \/ CountPushed(t)

Consume ==
    \/ \E added \in 0..Throttle : CheckItems(added)
    \/ WakeupEvent \/ ThrottleTimer
    \/ PopHead \/ PopNothing
    \/ FinishReading

Next ==
    \/ \E t \in Threads : Produce(t) \/ Callback(t)
    \/ Consume
    \/ IoWakeup
    \/ \E n \in 1..backlog.len : AckBacklog(n) \/ RewindBacklog(n)
    \/ RewindBacklogAll
    \/ Reload

\* The output thread and the pushing threads keep running; nothing is assumed
\* of who pushes, of the peer or of the operator.  An output thread that keeps
\* checking finds a refilled bucket in the end: the time of the last check is
\* saved only when the check did refill one.
Fairness ==
    /\ \A t \in Threads : WF_vars(Callback(t))
    /\ WF_vars(Consume)
    /\ WF_vars(consumer = "reading" /\ \E n \in 1..backlog.len : AckBacklog(n))
    /\ SF_vars(\E added \in 1..Throttle : CheckItems(added))

Spec == Init /\ [][Next]_vars
FairSpec == Spec /\ Fairness

----------------------------------------------------------------------------
(* Properties.                                                             *)

List == [items : Seq(Message), len : Nat, nfc : Nat]

PCs == {"idle", "moving", "appending", "notifying", "notifying_uncounted", "uncounted"}

Consumers == {"idle", "refilled", "sleeping", "throttled", "writing", "reading", "replied"}

\* Every variable has its type.
TypeOK ==
    /\ input \in [InputThreads -> List]
    /\ registered \subseteq InputThreads
    /\ wait \in List /\ output \in List /\ backlog \in List
    /\ queued \in Int
    /\ notify \in BOOLEAN /\ wakeup \in BOOLEAN
    /\ pc \in [Threads -> PCs]
    /\ toDrop \in [InputThreads -> Nat]
    /\ consumer \in Consumers
    /\ buckets \in 0..Throttle
    /\ rewinds \in 0..MaxRewinds
    /\ sent \in [Threads -> Nat] /\ \A t \in Threads : sent[t] <= MaxMessages[t]
    /\ acked \in Seq(Message)
    /\ dropped \subseteq Message /\ aborted \subseteq Message

\* The output thread never sleeps on a queue that has messages for it, unless
\* a thread is about to call its callback or the event is on its way
\* (log_queue_check_items() against log_queue_push_notify()).
NoLostWakeup ==
    consumer = "sleeping" /\ GetLength > 0
        => wakeup \/ \E t \in Threads : pc[t] \in {"notifying", "notifying_uncounted"}

\* The queued_messages counter is the length of the queue, except for the
\* slow-path messages whose thread has given up the lock to call the callback.
Uncounted == {t \in Threads : pc[t] \in {"notifying_uncounted", "uncounted"}}
QueuedIsLength == queued + Cardinality(Uncounted) = GetLength

\* A message on an input list is always going to be moved: the batch callback
\* of that thread is registered, or running.
NoStrandedInput ==
    \A t \in InputThreads : input[t].len > 0 => t \in registered \/ pc[t] = "moving"

Flow(t) == acked \o backlog.items \o output.items \o wait.items
           \o (IF t \in InputThreads THEN input[t].items ELSE <<>>)

\* Where the messages of t are on their way, and those that left.
OnTheWay(t) == {i \in DOMAIN Flow(t) : Flow(t)[i].from = t}
Gone(t) == {m \in dropped \cup aborted : m.from = t}

\* Every pushed message is in exactly one place -- a list, acknowledged or
\* dropped -- and what is dropped or freed never was flow controlled.
EveryMessageInOnePlace ==
    /\ \A t \in Threads :
          /\ {Flow(t)[i].seq : i \in OnTheWay(t)} \cup {m.seq : m \in Gone(t)} = 1..sent[t]
          /\ \A i, j \in OnTheWay(t) : Flow(t)[i].seq = Flow(t)[j].seq => i = j
          /\ \A m, n \in Gone(t) : m.seq = n.seq => m = n
          /\ \A i \in OnTheWay(t), m \in Gone(t) : Flow(t)[i].seq # m.seq
    /\ \A m \in dropped : ~m.fc
    /\ aborted = {}

\* The messages of one thread are written, and rewritten after a rewind, in
\* the order in which they were pushed.
InOrder ==
    \A t \in Threads : \A i, j \in OnTheWay(t) : i < j => Flow(t)[i].seq < Flow(t)[j].seq

\* Only rewind_backlog_all(), which puts the backlog behind newer messages,
\* may change the order of a thread's messages: no push, move of an input list,
\* refill, drop or partial rewind does.
OrderLostOnlyByRewindAll == [][InOrder => InOrder' \/ RewindBacklogAll]_vars

\* The queue never exceeds log-fifo-size() by more than what was rewound into
\* it, although a pushing thread does not see a rewind that comes between its
\* look at the length and its append (_message_has_to_be_dropped()).
LimitExceededOnlyByRewind == GetNfcLength <= LogFifoSize + rewinds

Left(t, k) == \E m \in Elements(backlog) \cup dropped \cup {acked[i] : i \in DOMAIN acked} :
                  m.from = t /\ m.seq = k

\* Every pushed message reaches the destination or is dropped: none is left
\* behind on a list while the output thread sleeps or waits for its throttle.
EveryMessageLeaves ==
    \A t \in Threads : \A k \in 1..MaxMessages[t] : sent[t] >= k ~> Left(t, k)
=============================================================================
