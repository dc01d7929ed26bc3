------------------------- MODULE ThreadedDestWorker -------------------------
(***************************************************************************)
(* The worker thread of a threaded destination, with the batching of the   *)
(* http() driver as its driver, its queue, the sources that push to it and *)
(* the main thread that stops it for a reload or at shutdown.              *)
(*                                                                         *)
(* w holds what only the worker thread changes, and its queue: "stored"    *)
(* are the messages, the first "taken" of them handed out (DurableQueue    *)
(* states what the queue guarantees).  The driver answers insert() and     *)
(* flush() with one of several results, so the operators below map a w to  *)
(* the set of its possible successors.                                     *)
(*                                                                         *)
(* Left out: the insert of unbatched messages, counters and the sequence   *)
(* number, LTR_EXPLICIT_ACK_MGMT (no driver here manages its own acks).    *)
(***************************************************************************)
EXTENDS Integers, Sequences, Functions

CONSTANTS
    KeyOf,               \* the messages, each with its partition key
    BatchLines,          \* batch-lines()
    BatchBytes,          \* batch-bytes(), in messages; 0: not set
    BatchTimeout,        \* whether batch-timeout() is set
    BatchIdleTimeout,    \* whether batch-idle-timeout() is set
    FlushOnKeyChange,    \* flush-on-worker-key-change()
    Throttle,            \* throttle(); 0: not set
    RetriesOnErrorMax,   \* retries()
    RetriesMax,          \* MAX_RETRIES_BEFORE_SUSPEND_DEFAULT
    SlotFails,           \* whether a plugin may fail to add its headers
    MaxFaults,           \* bound on failed connections and requests
    MaxReloads           \* bound on reloads

Messages == DOMAIN KeyOf

ASSUME ThreadedDestAssumption ==
    /\ KeyOf \in Seq(Nat)
    /\ BatchLines \in Nat \ {0} /\ BatchBytes \in Nat /\ Throttle \in Nat
    /\ RetriesOnErrorMax \in Nat \ {0} /\ RetriesMax \in Nat \ {0}
    /\ MaxFaults \in Nat /\ MaxReloads \in Nat
    /\ {BatchTimeout, BatchIdleTimeout, FlushOnKeyChange, SlotFails} \subseteq BOOLEAN

VARIABLES
    w,                   \* the worker and its queue
    pc,                  \* where the worker thread is
    watches,             \* do_work and the three timers, when registered
    push_notify,         \* the callback of check_items() is registered
    notifying,           \* sources that took it and have not called it yet
    wake_up_event, shutdown_event,
    under_termination,
    shutting_down,       \* cfg_is_shutting_down()
    pushed,              \* messages the sources have pushed
    reloads

vars == <<w, pc, watches, push_notify, notifying, wake_up_event, shutdown_event,
          under_termination, shutting_down, pushed, reloads>>

\* The clocks that may have run out: "batch" since last_flush_time, "idle"
\* since last_msg_insert_time, "token" since last_throttle_check.
Clocks == {c \in {"batch", "idle", "token"} :
              \/ c = "batch" /\ BatchTimeout
              \/ c = "idle" /\ BatchIdleTimeout
              \/ c = "token" /\ Throttle > 0}

\* What log_threaded_dest_worker_init_instance() leaves in a new worker over
\* the queue of x.
NewWorker(x) ==
    [x EXCEPT !.connected = FALSE, !.batch_size = 0, !.rewound_batch_size = 0,
              !.retries_on_error_counter = 0, !.retries_counter = 0,
              !.enable_batching = FALSE, !.suspended = FALSE,
              !.unreachable = FALSE, !.last_key = 0, !.body = <<>>]

Init ==
    /\ w = [stored |-> <<>>, taken |-> 0, buckets |-> Throttle,
            connected |-> FALSE, batch_size |-> 0, rewound_batch_size |-> 0,
            retries_on_error_counter |-> 0, retries_counter |-> 0,
            enable_batching |-> FALSE, suspended |-> FALSE,
            unreachable |-> FALSE, last_key |-> 0, body |-> <<>>,
            due |-> {}, delivered |-> {}, written |-> {}, dropped |-> {},
            mixed |-> FALSE, faults |-> 0]
    /\ pc = "main" /\ watches = {"do_work"}
    /\ push_notify = FALSE /\ notifying = 0
    /\ wake_up_event = FALSE /\ shutdown_event = FALSE
    /\ under_termination = FALSE /\ shutting_down = FALSE
    /\ pushed = 0 /\ reloads = 0
-----------------------------------------------------------------------------
(* The queue's backlog, and the result of a driver call.                   *)

\* Mutant: the batch counter keeps what was acknowledged.
AckMessages_KeepBatch(x, n) ==
    [x EXCEPT !.stored = SubSeq(@, n + 1, Len(@)), !.taken = @ - n,
              !.retries_on_error_counter = 0]

AckMessages(x, n) ==
    [x EXCEPT !.stored = SubSeq(@, n + 1, Len(@)), !.taken = @ - n,
              !.retries_on_error_counter = 0, !.batch_size = @ - n]

RewindMessages(x, n) ==
    [x EXCEPT !.taken = @ - n, !.rewound_batch_size = x.batch_size,
              !.batch_size = @ - n]

Backlog(x) == SubSeq(x.stored, 1, x.taken)

AcceptBatch(x) ==
    AckMessages([x EXCEPT !.written = @ \cup Range(Backlog(x))], x.batch_size)

DropBatch(x) ==
    AckMessages([x EXCEPT !.dropped = @ \cup Range(Backlog(x))], x.batch_size)

RewindBatch(x) == RewindMessages(x, x.batch_size)

DisconnectAndSuspend(x) ==
    [x EXCEPT !.connected = FALSE, !.unreachable = TRUE, !.suspended = TRUE]

ProcessResultError(x) ==
    LET y == [x EXCEPT !.retries_on_error_counter = @ + 1]
    IN  IF y.retries_on_error_counter >= RetriesOnErrorMax
        THEN DropBatch(y)
        ELSE DisconnectAndSuspend(RewindBatch(y))

ProcessResultNotConnected(x) ==
    DisconnectAndSuspend(RewindBatch([x EXCEPT !.retries_counter = 0]))

ProcessResultRetry(x) ==
    LET y == [x EXCEPT !.retries_counter = @ + 1]
    IN  IF y.retries_counter >= RetriesMax
        THEN ProcessResultNotConnected(y)
        ELSE RewindBatch(y)

\* Mutant: a request the server did not answer counts as written.
ProcessResult_LostIsWritten(x, result) ==
    CASE result \in {"SUCCESS", "NOT_CONNECTED"} -> AcceptBatch(x)
      [] result = "QUEUED" -> [x EXCEPT !.enable_batching = TRUE]
      [] result = "DROP" -> DisconnectAndSuspend(DropBatch(x))
      [] result = "ERROR" -> ProcessResultError(x)
      [] result = "RETRY" -> ProcessResultRetry(x)

ProcessResult(x, result) ==
    CASE result = "SUCCESS" -> AcceptBatch(x)
      [] result = "QUEUED" -> [x EXCEPT !.enable_batching = TRUE]
      [] result = "DROP" -> DisconnectAndSuspend(DropBatch(x))
      [] result = "ERROR" -> ProcessResultError(x)
      [] result = "NOT_CONNECTED" -> ProcessResultNotConnected(x)
      [] result = "RETRY" -> ProcessResultRetry(x)
-----------------------------------------------------------------------------
(* The driver: a request body that collects messages and is sent by        *)
(* flush().  An outcome pairs the new w with the result.                    *)

Outcome(x, result) == [w |-> x, result |-> result]

\* The body goes out and is reset.  "mixed" remembers a request of several keys.
Sent(x) ==
    [x EXCEPT !.body = <<>>,
              !.mixed = @ \/ \E i, j \in DOMAIN x.body :
                                 KeyOf[x.body[i]] # KeyOf[x.body[j]]]

\* The request fails on every target: nothing is known of what the server
\* has seen, so nothing counts as delivered.
FailedRequests(x) ==
    IF x.faults = MaxFaults THEN {}
    ELSE {Outcome([Sent(x) EXCEPT !.faults = @ + 1], result) :
             result \in {"NOT_CONNECTED", "ERROR", "DROP", "RETRY"}}

\* A critical error of the header slot returns before the body is reset.
FailedHeaders(x) ==
    IF ~SlotFails \/ x.faults = MaxFaults THEN {}
    ELSE {Outcome([x EXCEPT !.faults = @ + 1], "NOT_CONNECTED")}

DriverFlush(x, mode) ==
    IF x.batch_size = 0 THEN {Outcome(x, "SUCCESS")}
    ELSE IF mode = "EXPEDITE" THEN {Outcome(x, "RETRY")}
    ELSE FailedHeaders(x) \cup FailedRequests(x) \cup
         {Outcome([Sent(x) EXCEPT !.delivered = @ \cup Range(x.body)], "SUCCESS")}

\* log_threaded_dest_worker_flush(): the driver's flush, then last_flush_time.
WorkerFlush(x, mode) ==
    {Outcome([o.w EXCEPT !.due = @ \ {"batch"}], o.result) :
        o \in DriverFlush(x, mode)}

\* _insert_batched()
DriverInsert(x, m) ==
    LET y == [x EXCEPT !.body = Append(@, m)]
    IN  IF BatchBytes # 0 /\ Len(y.body) >= BatchBytes
        THEN WorkerFlush(y, "NORMAL")
        ELSE {Outcome(y, "QUEUED")}

PerformFlush(x) ==
    IF x.suspended THEN {Outcome(x, "SUCCESS")}
    ELSE {Outcome(ProcessResult(o.w, o.result), o.result) :
             o \in WorkerFlush(x, "NORMAL")}
-----------------------------------------------------------------------------
(* The insert loop.                                                        *)

Waiting(x) == Len(x.stored) - x.taken

NextKey(x) == KeyOf[x.stored[x.taken + 1]]

FlushIfKeyChanges(x) ==
    LET y == [x EXCEPT !.last_key = NextKey(x)]
    IN  IF ~FlushOnKeyChange THEN {Outcome(x, "SUCCESS")}
        ELSE IF x.batch_size # 0 /\ x.last_key # y.last_key
        THEN PerformFlush(y)
        ELSE {Outcome(y, "SUCCESS")}

PopHead(x) ==
    [x EXCEPT !.taken = @ + 1, !.batch_size = @ + 1,
              !.buckets = IF @ > 0 THEN @ - 1 ELSE @]

FlushIfBatchFull(x) ==
    IF x.enable_batching /\ x.batch_size >= BatchLines
    THEN {o.w : o \in PerformFlush(x)}
    ELSE {x}

InsertOne(x) ==
    UNION {FlushIfBatchFull(
               ProcessResult([o.w EXCEPT !.due = @ \ {"idle"}], o.result)) :
           o \in DriverInsert(PopHead(x), x.stored[x.taken + 1])}

\* The tail of an iteration: the loop ends after the size of a rewound batch.
EndIteration(x) ==
    /\ w' = [x EXCEPT !.rewound_batch_size = IF @ > 0 THEN @ - 1 ELSE 0]
    /\ pc' = IF x.rewound_batch_size = 1 THEN "break" ELSE "inserts"

\* Mutant: a failed flush is followed by the next message.
InsertMessage_IgnoreFlush ==
    /\ pc = "inserts" /\ ~under_termination /\ ~w.suspended /\ Waiting(w) > 0
    /\ \E o \in FlushIfKeyChanges(w) :
          IF Throttle > 0 /\ o.w.buckets = 0
          THEN w' = o.w /\ pc' = "break"
          ELSE \E x \in InsertOne(o.w) : EndIteration(x)
    /\ UNCHANGED <<watches, push_notify, notifying, wake_up_event, shutdown_event,
                   under_termination, shutting_down, pushed, reloads>>

\* One iteration.  The throttle stops it after the peek and its flush.
InsertMessage ==
    /\ pc = "inserts" /\ ~under_termination /\ ~w.suspended /\ Waiting(w) > 0
    /\ \E o \in FlushIfKeyChanges(w) :
          IF o.result # "SUCCESS"
          THEN EndIteration(o.w)
          ELSE IF Throttle > 0 /\ o.w.buckets = 0
          THEN w' = o.w /\ pc' = "break"
          ELSE \E x \in InsertOne(o.w) : EndIteration(x)
    /\ UNCHANGED <<watches, push_notify, notifying, wake_up_event, shutdown_event,
                   under_termination, shutting_down, pushed, reloads>>
-----------------------------------------------------------------------------
(* _perform_work() and its schedule.                                       *)

BatchingEnabled(x) == BatchTimeout /\ BatchLines > 1 /\ x.enable_batching

TimedOut(x) == x.due \cap {"batch", "idle"} # {}

ScheduleRestart(x) == IF x.suspended THEN {"timer_reopen"} ELSE {"do_work"}

ScheduleRestartOnNextFlush(x) ==
    IF x.suspended THEN {"timer_reopen"}
    ELSE IF \/ BatchIdleTimeout /\ "idle" \notin x.due
            \/ BatchingEnabled(x) /\ "batch" \notin x.due
    THEN {"timer_flush"}
    ELSE {"do_work"}

FlushIfDue(x) ==
    IF ~BatchingEnabled(x) \/ TimedOut(x) THEN {o.w : o \in PerformFlush(x)}
    ELSE {x}

\* The loop is left; the rest of _perform_work() follows.
EndInserts ==
    /\ \/ pc = "break"
       \/ pc = "inserts" /\ (under_termination \/ w.suspended \/ Waiting(w) = 0)
    /\ \E x \in FlushIfDue([w EXCEPT !.rewound_batch_size = 0]) :
          w' = x /\ watches' = ScheduleRestart(x)
    /\ pc' = "main"
    /\ UNCHANGED <<push_notify, notifying, wake_up_event, shutdown_event,
                   under_termination, shutting_down, pushed, reloads>>

\* The timers expire with their clock.  Without batch-timeout() the flush
\* timer is set to a time that is past.
WorkIsDue ==
    /\ pc = "main"
    /\ \/ watches \cap {"do_work", "timer_reopen"} # {}
       \/ "timer_throttle" \in watches /\ "token" \in w.due
       \/ "timer_flush" \in watches /\ (TimedOut(w) \/ ~BatchTimeout)

\* Mutant: the time of the check is stored, the new tokens are not.
Refilled_NoTokens(x) ==
    IF Waiting(x) > 0 THEN {[x EXCEPT !.due = @ \ {"token"}]} ELSE {x}

\* The refill of the throttle in log_queue_check_items().
Refilled(x) ==
    IF Waiting(x) > 0 /\ "token" \in x.due
    THEN {[x EXCEPT !.due = @ \ {"token"}, !.buckets = n] :
             n \in (IF x.buckets = Throttle THEN {Throttle}
                    ELSE x.buckets + 1 .. Throttle)}
    ELSE {x}

HasItems(x) == Waiting(x) > 0 /\ (Throttle = 0 \/ x.buckets > 0)

Connect ==
    /\ WorkIsDue /\ ~w.connected
    /\ \E ok \in BOOLEAN :
          /\ ok \/ w.faults < MaxFaults
          /\ w' = [w EXCEPT !.connected = ok, !.suspended = ~ok,
                            !.unreachable = ~ok,
                            !.faults = IF ok THEN @ ELSE @ + 1]
    /\ watches' = ScheduleRestart(w')
    /\ UNCHANGED <<pc, push_notify, notifying, wake_up_event, shutdown_event,
                   under_termination, shutting_down, pushed, reloads>>

StartInserts ==
    /\ WorkIsDue /\ w.connected
    /\ \E x \in Refilled([w EXCEPT !.suspended = FALSE]) :
          /\ HasItems(x)
          /\ w' = IF x.batch_size = 0 THEN [x EXCEPT !.due = @ \ {"batch"}] ELSE x
    /\ pc' = "inserts" /\ watches' = {} /\ push_notify' = FALSE
    /\ UNCHANGED <<notifying, wake_up_event, shutdown_event, under_termination,
                   shutting_down, pushed, reloads>>

\* Nothing to take, but messages wait in the driver.
FlushPending ==
    /\ WorkIsDue /\ w.connected /\ w.batch_size > 0
    /\ \E x \in Refilled([w EXCEPT !.suspended = FALSE]) :
          /\ ~HasItems(x)
          /\ \E y \in FlushIfDue(x) :
                w' = y /\ watches' = ScheduleRestartOnNextFlush(y)
    /\ push_notify' = (Waiting(w) = 0)
    /\ UNCHANGED <<pc, notifying, wake_up_event, shutdown_event,
                   under_termination, shutting_down, pushed, reloads>>

\* Nothing to do: the throttle timer or the callback wakes the worker.
Sleep ==
    /\ WorkIsDue /\ w.connected /\ w.batch_size = 0
    /\ \E x \in Refilled([w EXCEPT !.suspended = FALSE]) : ~HasItems(x) /\ w' = x
    /\ watches' = IF Waiting(w) = 0 THEN {} ELSE {"timer_throttle"}
    /\ push_notify' = (Waiting(w) = 0)
    /\ UNCHANGED <<pc, notifying, wake_up_event, shutdown_event,
                   under_termination, shutting_down, pushed, reloads>>

WakeUp ==
    /\ pc = "main" /\ wake_up_event
    /\ wake_up_event' = FALSE /\ watches' = watches \cup {"do_work"}
    /\ UNCHANGED <<w, pc, push_notify, notifying, shutdown_event,
                   under_termination, shutting_down, pushed, reloads>>

\* Mutant: the queue keeps the callback of the worker that leaves.
ShutDown_KeepCallback ==
    /\ pc = "main" /\ shutdown_event
    /\ shutdown_event' = FALSE /\ watches' = {} /\ pc' = "quit"
    /\ UNCHANGED <<w, push_notify, notifying, wake_up_event, under_termination,
                   shutting_down, pushed, reloads>>

ShutDown ==
    /\ pc = "main" /\ shutdown_event
    /\ shutdown_event' = FALSE /\ push_notify' = FALSE /\ watches' = {}
    /\ pc' = "quit"
    /\ UNCHANGED <<w, notifying, wake_up_event, under_termination,
                   shutting_down, pushed, reloads>>

\* After iv_main(): the final flush, the rewind of the backlog and _disconnect().
FinalFlush ==
    /\ pc = "quit"
    /\ \E o \in WorkerFlush(w, IF shutting_down THEN "NORMAL" ELSE "EXPEDITE") :
          w' = [ProcessResult(o.w, o.result) EXCEPT !.taken = 0,
                                                    !.connected = FALSE]
    /\ pc' = "exited"
    /\ UNCHANGED <<watches, push_notify, notifying, wake_up_event,
                   shutdown_event, under_termination, shutting_down, pushed,
                   reloads>>
-----------------------------------------------------------------------------
(* The other threads.                                                      *)

\* log_threaded_dest_driver_queue(): the push, and taking the callback.
Push ==
    /\ pushed < Len(KeyOf)
    /\ pushed' = pushed + 1
    /\ w' = [w EXCEPT !.stored = Append(@, pushed + 1)]
    /\ push_notify' = FALSE
    /\ notifying' = notifying + (IF push_notify THEN 1 ELSE 0)
    /\ UNCHANGED <<pc, watches, wake_up_event, shutdown_event,
                   under_termination, shutting_down, reloads>>

MessageBecameAvailable ==
    /\ notifying > 0
    /\ notifying' = notifying - 1
    /\ wake_up_event' = (wake_up_event \/ ~under_termination)
    /\ UNCHANGED <<w, pc, watches, push_notify, shutdown_event,
                   under_termination, shutting_down, pushed, reloads>>

\* Mutant: the flag is set and the event is not posted.
RequestWorkerExit_NoEvent ==
    /\ ~under_termination /\ reloads < MaxReloads
    /\ reloads' = reloads + 1
    /\ under_termination' = TRUE
    /\ shutting_down' \in BOOLEAN
    /\ UNCHANGED <<w, pc, watches, push_notify, notifying, wake_up_event,
                   shutdown_event, pushed>>

\* The main thread, for a reload or a shutdown.
RequestWorkerExit ==
    /\ ~under_termination /\ reloads < MaxReloads
    /\ reloads' = reloads + 1
    /\ under_termination' = TRUE /\ shutdown_event' = TRUE
    /\ shutting_down' \in BOOLEAN
    /\ UNCHANGED <<w, pc, watches, push_notify, notifying, wake_up_event, pushed>>

\* Every worker has left, the driver is initialised again and its worker
\* starts with a rewind over the queue that was kept.
Restart ==
    /\ pc = "exited" /\ ~shutting_down /\ notifying = 0
    /\ w' = [NewWorker(w) EXCEPT !.taken = 0]
    /\ pc' = "main" /\ watches' = {"do_work"}
    /\ wake_up_event' = FALSE /\ under_termination' = FALSE
    /\ UNCHANGED <<push_notify, notifying, shutdown_event, shutting_down,
                   pushed, reloads>>

TimePasses(clock) ==
    /\ clock \notin w.due
    /\ w' = [w EXCEPT !.due = @ \cup {clock}]
    /\ UNCHANGED <<pc, watches, push_notify, notifying, wake_up_event,
                   shutdown_event, under_termination, shutting_down, pushed,
                   reloads>>

Work == Connect \/ StartInserts \/ FlushPending \/ Sleep

Next ==
    \/ InsertMessage \/ EndInserts \/ Connect \/ StartInserts \/ FlushPending
    \/ Sleep \/ WakeUp \/ ShutDown \/ FinalFlush \/ Push
    \/ MessageBecameAvailable \/ RequestWorkerExit \/ Restart
    \/ \E clock \in Clocks : TimePasses(clock)

Spec == Init /\ [][Next]_vars

\* ivykis runs registered tasks, expired timers and posted events; a source
\* finishes a push it began; the main thread completes a reload; time passes.
FairSpec ==
    /\ Spec
    /\ WF_vars(InsertMessage \/ EndInserts) /\ WF_vars(Work) /\ WF_vars(WakeUp)
    /\ SF_vars(ShutDown) /\ WF_vars(FinalFlush) /\ WF_vars(Restart)
    /\ WF_vars(MessageBecameAvailable)
    /\ \A clock \in Clocks : WF_vars(TimePasses(clock))
-----------------------------------------------------------------------------
(* Properties.                                                             *)

InLoop == pc \in {"main", "inserts", "break"}

\* The type of the worker's state, counters within their limits.
TypeOK ==
    /\ w.taken \in 0 .. Len(w.stored) /\ w.batch_size \in 0 .. Len(KeyOf)
    /\ w.rewound_batch_size \in 0 .. Len(KeyOf)
    /\ w.retries_on_error_counter \in 0 .. RetriesOnErrorMax - 1
    /\ w.retries_counter \in 0 .. RetriesMax - 1
    /\ w.buckets \in 0 .. Throttle /\ w.due \subseteq Clocks
    /\ watches \subseteq {"do_work", "timer_reopen", "timer_throttle", "timer_flush"}
    /\ pc \in {"main", "inserts", "break", "quit", "exited"}

\* Whatever mix of retries, errors, drops and partial batches came before,
\* the driver's request holds exactly the messages in the queue's backlog, and
\* batch_size counts them: an ack or rewind by count hits what the request held
\* (log_threaded_dest_worker_ack_messages() and _rewind_messages()).
RequestIsBatch ==
    InLoop => w.body = Backlog(w) /\ w.batch_size = w.taken

\* A message acknowledged to its source as written was part of a request the
\* server accepted (_process_result_success()).
WrittenWasDelivered == w.written \subseteq w.delivered

\* With flush-on-worker-key-change() a request never mixes partition keys: its
\* URL and headers are formatted from its first message only (_get_url()).
OneKeyPerRequest == FlushOnKeyChange => ~w.mixed

\* The queue, which outlives the worker over a reload, is not left with the
\* callback of a worker that is gone (_shutdown_event_callback()).
NoStaleCallback == pc \in {"quit", "exited"} => ~push_notify

\* Every message pushed is written or dropped, through suspensions, throttling,
\* batch timeouts and reloads, unless the process shuts down.
EveryMessageLeaves ==
    \A m \in Messages :
        m <= pushed ~> m \in w.written \cup w.dropped \/ shutting_down

\* A worker that is told to exit does, whatever it waits for; the reload waits
\* for it (_request_worker_exit()).
ExitIsHonoured == under_termination ~> pc = "exited"
=============================================================================
