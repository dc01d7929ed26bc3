---------------------------- MODULE LogScheduler ----------------------------
(***************************************************************************)
(* parallelize(): lib/logscheduler.c.  A thread that posts messages        *)
(* collects them by partition in its own thread state; full batches, and   *)
(* at the end of its input batch all of them, move to the partitions,      *)
(* whose jobs pass them on.  The operators here are the sequential parts:  *)
(* what one thread does between two lock operations.                       *)
(***************************************************************************)
EXTENDS Integers, Sequences

CONSTANTS
    NumPartitions,      \* partitions()
    BatchSize,          \* batch-size()
    LogFetchLimit,      \* log-fetch-limit(), 0 for none
    PartitionKey,       \* partition-key() is set
    HashOf              \* the hash of partition-key(), by source and number of a message

ASSUME SchedulerAssumption ==
    /\ NumPartitions \in Nat \ {0}
    /\ BatchSize \in Nat
    /\ LogFetchLimit \in Nat
    /\ PartitionKey \in BOOLEAN

Partitions == 0 .. NumPartitions - 1

\* LogSchedulerThreadState after _thread_state_init(), with the batch callback
\* that is registered, the partitions it still has to move and the partition
\* whose job it is about to submit (a set of at most one).
NewThreadState(index) ==
    [elements |-> [p \in Partitions |-> <<>>], last_partition |-> index % NumPartitions,
     current_batch_size |-> 0, registered |-> FALSE, todo |-> {}, submit |-> {}]

\* LogSchedulerPartition after _partition_init(): "batches" is shared, under
\* batches_lock; "local" and "processed" belong to the running job.
NewPartition == [batches |-> <<>>, flush_running |-> FALSE, local |-> <<>>, processed |-> 0]

----------------------------------------------------------------------------
(* The posting thread.                                                     *)

\* _get_partition_index()
GetPartitionIndex(ts, m) ==
    IF PartitionKey THEN HashOf[m.src][m.n] % NumPartitions ELSE ts.last_partition

\* The thread's round-robin position after a message.
Advanced(ts) ==
    LET size == IF BatchSize > 1 THEN (ts.current_batch_size + 1) % BatchSize ELSE 0 IN
    IF PartitionKey THEN ts
    ELSE [ts EXCEPT !.current_batch_size = size,
                    !.last_partition = IF size = 0 THEN (@ + 1) % NumPartitions ELSE @]

\* _queue_thread(): the batch callback is registered, the message waits with
\* the others of its partition; a full batch is to be moved.
QueueThread(ts, m) ==
    LET p == GetPartitionIndex(ts, m)
        full == BatchSize > 0 /\ Len(ts.elements[p]) + 1 >= BatchSize
    IN  [Advanced(ts) EXCEPT !.registered = TRUE,
                             !.elements[p] = Append(@, m),
                             !.todo = IF full THEN {p} ELSE {}]

\* main_loop_worker_invoke_batch_callbacks() and _flush_batches(): the callback
\* is taken off the list, and every partition with elements is to be moved.
CloseBatch(ts) ==
    [ts EXCEPT !.registered = FALSE,
               !.todo = {p \in Partitions : ts.elements[p] # <<>>}]

\* The loop of _flush_batches() goes by index.
IsNextToMove(ts, p) == p \in ts.todo /\ \A other \in ts.todo : p <= other

\* _move_batch_to_partition(), the thread's side: the batch leaves.
Moved(ts, p, triggers) ==
    [ts EXCEPT !.elements[p] = <<>>, !.todo = @ \ {p}, !.submit = IF triggers THEN {p} ELSE {}]

----------------------------------------------------------------------------
(* The partition.                                                          *)

\* Mutant: a batch goes to the front of the list.
AddBatch_Head(part, batch) ==
    [part EXCEPT !.batches = <<batch>> \o @, !.flush_running = TRUE]

\* Mutant: the batch that triggers the job does not say so.
AddBatch_NoFlag(part, batch) == [part EXCEPT !.batches = Append(@, batch)]

\* _partition_add_batch(), under the lock.
AddBatch(part, batch) ==
    [part EXCEPT !.batches = Append(@, batch), !.flush_running = TRUE]

LimitReached(processed) == LogFetchLimit > 0 /\ processed >= LogFetchLimit

\* _work() takes all batches off the list.
TakeBatches(part) == [part EXCEPT !.local = part.batches, !.batches = <<>>]

\* Mutant: what is left beyond the limit is not put back.
PassBatch_Discards(part) ==
    LET processed == part.processed + Len(Head(part.local))
    IN  [part EXCEPT !.processed = processed,
                     !.local = IF LimitReached(processed) THEN <<>> ELSE Tail(@)]

\* _work() passes on one batch, whole even beyond the limit; once the limit is
\* reached the batches that are left go back to the front of the list.
PassBatch(part) ==
    LET processed == part.processed + Len(Head(part.local))
        rest == Tail(part.local)
    IN  IF LimitReached(processed)
        THEN [part EXCEPT !.processed = processed, !.local = <<>>, !.batches = rest \o @]
        ELSE [part EXCEPT !.processed = processed, !.local = rest]

\* The condition on which _work()'s loop ends.
WorkIsOver(part) ==
    part.local = <<>> /\ (part.batches = <<>> \/ LimitReached(part.processed))

\* _complete(), under the lock.
NeedsRestart(part) == part.batches # <<>>

Completed(part) ==
    [part EXCEPT !.processed = 0, !.flush_running = NeedsRestart(part)]

=============================================================================
