-------------------------- MODULE MainLoopWorkers --------------------------
(***************************************************************************)
(* The main loop and the jobs it starts, counts and stops:                 *)
(* lib/mainloop.c, lib/mainloop-worker.c, lib/mainloop-io-worker.c,        *)
(* lib/mainloop-threaded-worker.c; with the jobs of a configuration that   *)
(* has threaded sources (lib/logthrsource/logthrsourcedrv.c, posting the   *)
(* way modules/grpc/otel does), readers (lib/logreader.c) and a            *)
(* parallelize() element (lib/logscheduler.c).                             *)
(*                                                                         *)
(* The main thread runs one callback at a time: signals, poll events,      *)
(* completions of jobs, timers and, first in first out, ivykis tasks.  A   *)
(* reload and a shutdown need all workers stopped: they queue a sync call  *)
(* action, ask the threads to exit, and the completion of the last job has *)
(* the actions run.                                                        *)
(***************************************************************************)
EXTENDS LogScheduler, FiniteSets

CONSTANTS
    Threaded,       \* threaded source workers
    Readers,        \* LogReaders, each with an I/O job
    InitWindow,     \* the flow-control window of a threaded source
    AutoClose,      \* auto_close_batches
    KeepAlive,      \* reload_keep_alive: a worker's window survives a reload
    MaxPosts,       \* bound: messages, by source
    MaxReloads      \* bound: reloads that start

ASSUME WorkersAssumption ==
    /\ IsFiniteSet(Threaded) /\ IsFiniteSet(Readers)
    /\ Threaded \cap (Readers \cup Partitions) = {} /\ Readers \cap Partitions = {}
    /\ "reenable" \notin Readers
    /\ InitWindow \in Nat \ {0}
    /\ AutoClose \in BOOLEAN /\ KeepAlive \in BOOLEAN
    /\ MaxPosts \in [Threaded \cup Readers -> Nat] /\ MaxReloads \in Nat
    /\ \A s \in Threaded \cup Readers : \A n \in 1 .. MaxPosts[s] : HashOf[s][n] \in Nat

Sources == Threaded \cup Readers
Jobs == Readers \cup Partitions

VARIABLES
    ml,         \* the main thread's state
    src,        \* the threaded workers: thread, window, acknowledgements due
    job,        \* the I/O jobs: "idle", "queued", "working", "done"
    watch,      \* what a reader waits for: "poll", "task" or "nothing"
    ts,         \* the scheduler's thread state of every posting thread
    part,       \* the scheduler's partitions
    posted,     \* number of messages each source has posted
    delivered   \* what left the scheduler, by source and in order

vars == <<ml, src, job, watch, ts, part, posted, delivered>>

Idle == ml.pc = "idle"

----------------------------------------------------------------------------
(* Counting jobs and synchronising with them.                              *)

\* main_loop_worker_job_start()
JobStart(l) == [l EXCEPT !.jobs_running = @ + 1]

\* main_loop_worker_job_complete()
JobComplete(l) ==
    [l EXCEPT !.jobs_running = @ - 1,
              !.tasks = IF l.workers_quit /\ l.jobs_running = 1 THEN Append(@, "reenable") ELSE @]

\* Mutant: a worker that waits for its window is not woken.
RequestExit_NoWakeup(t) == [t EXCEPT !.under_termination = TRUE]

\* _worker_thread_request_exit(), with the _worker_wakeup() it ends with.
RequestExit(t) ==
    [t EXCEPT !.under_termination = TRUE, !.pc = IF @ = "waiting" THEN "woken" ELSE @]

\* Mutant: new I/O jobs are not refused.
RequestAllThreadsToExit_NoQuit(l) ==
    /\ ml' = [l EXCEPT !.exit_notification_list = {}]
    /\ src' = [t \in Threaded |-> IF t \in l.exit_notification_list
                                  THEN RequestExit(src[t]) ELSE src[t]]

\* _request_all_threads_to_exit()
RequestAllThreadsToExit(l) ==
    /\ ml' = [l EXCEPT !.exit_notification_list = {}, !.workers_quit = TRUE]
    /\ src' = [t \in Threaded |-> IF t \in l.exit_notification_list
                                  THEN RequestExit(src[t]) ELSE src[t]]

\* main_loop_worker_sync_call(): with no job running the actions run at once.
SyncCall(l, action) ==
    LET queued == [l EXCEPT !.sync_call_actions = Append(@, action)]
    IN  IF l.jobs_running = 0
        THEN ml' = [queued EXCEPT !.pc = "sync"] /\ UNCHANGED src
        ELSE RequestAllThreadsToExit(queued)

----------------------------------------------------------------------------
(* The configuration: what cfg_init() starts and cfg_deinit() stops.       *)

\* _worker_thread_run() first waits until its window has room.
StartedAs == "woken"

\* _worker_init(), main_loop_threaded_worker_start() and _worker_thread_init().
StartedWorker(t) ==
    IF KeepAlive
    THEN [t EXCEPT !.pc = StartedAs, !.under_termination = FALSE]
    ELSE [pc |-> StartedAs, under_termination |-> FALSE, window |-> InitWindow, unacked |-> 0,
          signal |-> FALSE]

StoppedWorker ==
    [pc |-> "stopped", under_termination |-> FALSE, window |-> InitWindow, unacked |-> 0,
     signal |-> FALSE]

\* log_reader_deinit() unregisters the restart tasks; the reenable task stays.
WithoutReaderTasks(tasks) ==
    IF \E i \in DOMAIN tasks : tasks[i] = "reenable" THEN <<"reenable">> ELSE <<>>

\* log_scheduler_new() gives every thread a fresh state.
FreshThreadStates == [s \in Sources |-> NewThreadState(0)]

\* The new configuration starts: every threaded worker, with its exit
\* notification, is a job; the readers poll; the scheduler is a new one.
ConfigStarts(l) ==
    /\ ml' = [l EXCEPT !.jobs_running = @ + Cardinality(Threaded),
                       !.exit_notification_list = @ \cup Threaded,
                       !.tasks = WithoutReaderTasks(@)]
    /\ src' = [t \in Threaded |-> StartedWorker(src[t])]
    /\ watch' = [r \in Readers |-> "poll"]
    /\ ts' = FreshThreadStates
    /\ part' = [p \in Partitions |-> NewPartition]

Init ==
    /\ ml = [pc |-> "idle", jobs_running |-> Cardinality(Threaded), workers_quit |-> FALSE,
             is_reloading_scheduled |-> FALSE, is_terminating |-> FALSE,
             sync_call_actions |-> <<>>, exit_notification_list |-> Threaded,
             tasks |-> <<>>, exit_timer |-> FALSE, iv_quit |-> FALSE, config |-> 0,
             reloads |-> 0]
    /\ src = [t \in Threaded |-> [StoppedWorker EXCEPT !.pc = StartedAs]]
    /\ job = [j \in Jobs |-> "idle"]
    /\ watch = [r \in Readers |-> "poll"]
    /\ ts = FreshThreadStates
    /\ part = [p \in Partitions |-> NewPartition]
    /\ posted = [s \in Sources |-> 0]
    /\ delivered = [s \in Sources |-> <<>>]

----------------------------------------------------------------------------
(* The main thread: signals, timers, sync call actions, tasks.             *)

\* main_loop_reload_config(): refused while terminating or while another
\* reload is pending; a configuration that does not parse changes nothing.
ReloadConfig ==
    /\ Idle /\ ml.reloads < MaxReloads
    /\ ~ml.is_terminating /\ ~ml.is_reloading_scheduled
    /\ SyncCall([ml EXCEPT !.is_reloading_scheduled = TRUE, !.reloads = @ + 1], "apply")
    /\ UNCHANGED <<job, watch, ts, part, posted, delivered>>

\* main_loop_exit_initiate()
ExitInitiate ==
    /\ Idle /\ ~ml.is_terminating
    /\ ml' = [ml EXCEPT !.is_terminating = TRUE, !.exit_timer = TRUE]
    /\ UNCHANGED <<src, job, watch, ts, part, posted, delivered>>

\* main_loop_exit_timer_elapsed()
ExitTimerElapsed ==
    /\ Idle /\ ml.exit_timer
    /\ SyncCall([ml EXCEPT !.exit_timer = FALSE], "finish")
    /\ UNCHANGED <<job, watch, ts, part, posted, delivered>>

\* main_loop_reload_config_apply(): given up while terminating; otherwise the
\* old configuration is stopped and the new one, or if its cfg_init() fails
\* the old one again, is started.
ReloadConfigApply(l) ==
    IF l.is_terminating
    THEN /\ ml' = [l EXCEPT !.is_reloading_scheduled = FALSE]
         /\ UNCHANGED <<src, watch, ts, part>>
    ELSE \E version \in {l.config, l.config + 1} : ConfigStarts([l EXCEPT !.config = version])

\* main_loop_exit_finish(): cfg_deinit() and iv_quit().
ExitFinish(l) ==
    /\ ml' = [l EXCEPT !.iv_quit = TRUE, !.tasks = WithoutReaderTasks(@)]
    /\ watch' = [r \in Readers |-> "nothing"]
    /\ UNCHANGED <<src, ts, part>>

\* _invoke_sync_call_actions(), one action.
InvokeSyncCallAction ==
    /\ ml.pc = "sync" /\ ml.sync_call_actions # <<>>
    /\ LET action == Head(ml.sync_call_actions)
           l == [ml EXCEPT !.sync_call_actions = Tail(@)]
       IN  IF action = "apply" THEN ReloadConfigApply(l) ELSE ExitFinish(l)
    /\ UNCHANGED <<job, posted, delivered>>

\* _reenable_worker_jobs() after the actions.  The main loop ends once the
\* callback that called iv_quit() returns.
ReenableWorkerJobs ==
    /\ ml.pc = "sync" /\ ml.sync_call_actions = <<>>
    /\ ml' = [ml EXCEPT !.pc = IF ml.iv_quit THEN "quit" ELSE "idle",
                        !.workers_quit = FALSE, !.is_reloading_scheduled = FALSE]
    /\ UNCHANGED <<src, job, watch, ts, part, posted, delivered>>

\* log_reader_io_handle_in() with main_loop_io_worker_job_submit(): the watch
\* is off whether or not the job is accepted.
IoHandleIn(l, r) ==
    /\ watch' = [watch EXCEPT ![r] = "nothing"]
    /\ IF l.workers_quit
       THEN ml' = l /\ UNCHANGED job
       ELSE ml' = JobStart(l) /\ job' = [job EXCEPT ![r] = "queued"]
    /\ UNCHANGED <<src, ts, part, posted, delivered>>

\* A reader's descriptor is readable.
PollEvent(r) ==
    /\ Idle /\ watch[r] = "poll" /\ posted[r] < MaxPosts[r]
    /\ IoHandleIn(ml, r)

\* The head of ivykis' task list runs.
RunReenableTask ==
    /\ Idle /\ ml.tasks # <<>> /\ Head(ml.tasks) = "reenable"
    /\ ml' = [ml EXCEPT !.tasks = Tail(@), !.pc = "sync"]
    /\ UNCHANGED <<src, job, watch, ts, part, posted, delivered>>

RunRestartTask(r) ==
    /\ Idle /\ ml.tasks # <<>> /\ Head(ml.tasks) = r
    /\ IoHandleIn([ml EXCEPT !.tasks = Tail(@)], r)

----------------------------------------------------------------------------
(* Completions, in the main thread.                                        *)

\* _complete() of mainloop-io-worker.c for a reader: log_reader_work_finished()
\* polls again, or has the next fetch forced by a task.
ReaderComplete(r, forced) ==
    /\ Idle /\ job[r] = "done"
    /\ job' = [job EXCEPT ![r] = "idle"]
    /\ watch' = [watch EXCEPT ![r] = IF forced THEN "task" ELSE "poll"]
    /\ ml' = JobComplete(IF forced THEN [ml EXCEPT !.tasks = Append(@, r)] ELSE ml)
    /\ UNCHANGED <<src, ts, part, posted, delivered>>

\* Mutant: the job is counted down before the completion callback starts it anew.
PartitionComplete_CountFirst(p) ==
    /\ Idle /\ job[p] = "done"
    /\ part' = [part EXCEPT ![p] = Completed(@)]
    /\ IF NeedsRestart(part[p])
       THEN ml' = JobStart(JobComplete(ml)) /\ job' = [job EXCEPT ![p] = "queued"]
       ELSE ml' = JobComplete(ml) /\ job' = [job EXCEPT ![p] = "idle"]
    /\ UNCHANGED <<src, watch, ts, posted, delivered>>

\* _complete() for a partition: logscheduler.c's _complete() submits the job
\* again, by force, before the finished one is counted down.
PartitionComplete(p) ==
    /\ Idle /\ job[p] = "done"
    /\ part' = [part EXCEPT ![p] = Completed(@)]
    /\ IF NeedsRestart(part[p])
       THEN ml' = JobComplete(JobStart(ml)) /\ job' = [job EXCEPT ![p] = "queued"]
       ELSE ml' = JobComplete(ml) /\ job' = [job EXCEPT ![p] = "idle"]
    /\ UNCHANGED <<src, watch, ts, posted, delivered>>

\* _thread_stop(), called for the worker by main_loop_call().
ThreadStop(t) ==
    /\ Idle /\ src[t].pc = "stopping"
    /\ src' = [src EXCEPT ![t].pc = "stopped"]
    /\ ml' = JobComplete(ml)
    /\ UNCHANGED <<job, watch, ts, part, posted, delivered>>

----------------------------------------------------------------------------
(* What a posting thread does with the scheduler.                          *)

Settled(s) == ts[s].todo = {} /\ ts[s].submit = {}

NextMessage(s) == [src |-> s, n |-> posted[s] + 1]

\* _move_batch_to_partition() and _partition_add_batch() up to the unlock.
MoveBatch(s) ==
    /\ ts[s].submit = {}
    /\ \E p \in Partitions :
          /\ IsNextToMove(ts[s], p)
          /\ part' = [part EXCEPT ![p] = AddBatch(@, ts[s].elements[p])]
          /\ ts' = [ts EXCEPT ![s] = Moved(@, p, ~part[p].flush_running)]
    /\ UNCHANGED <<ml, src, job, watch, posted, delivered>>

\* main_loop_io_worker_job_submit_continuation(), after the unlock.
SubmitContinuation(s) ==
    /\ \E p \in ts[s].submit : job' = [job EXCEPT ![p] = "queued"]
    /\ ml' = JobStart(ml)
    /\ ts' = [ts EXCEPT ![s].submit = {}]
    /\ UNCHANGED <<src, watch, part, posted, delivered>>

----------------------------------------------------------------------------
(* A threaded source worker.                                               *)

\* log_threaded_source_worker_blocking_post(), the post itself; the driver
\* does not post once it is asked to exit.
Post(t) ==
    /\ src[t].pc = "running" /\ ~src[t].under_termination
    /\ posted[t] < MaxPosts[t]
    /\ src' = [src EXCEPT ![t].window = @ - 1, ![t].pc = "posted"]
    /\ ts' = [ts EXCEPT ![t] = QueueThread(@, NextMessage(t))]
    /\ posted' = [posted EXCEPT ![t] = @ + 1]
    /\ UNCHANGED <<ml, job, watch, part, delivered>>

\* The input batch is closed after every message, or before the worker may wait.
MustClose(t) == ts[t].registered /\ (AutoClose \/ src[t].window = 0)

CloseAfterPost(t) ==
    /\ src[t].pc = "posted" /\ Settled(t) /\ MustClose(t)
    /\ ts' = [ts EXCEPT ![t] = CloseBatch(@)]
    /\ UNCHANGED <<ml, src, job, watch, part, posted, delivered>>

\* _worker_suspend(), whose test and wait are one step under the wakeup lock:
\* after a post, when the thread starts, and each time it is woken.
Suspend(t) ==
    /\ \/ src[t].pc = "posted" /\ Settled(t) /\ ~MustClose(t)
       \/ src[t].pc = "woken"
    /\ src' = [src EXCEPT ![t].pc = IF src[t].window = 0 /\ ~src[t].under_termination
                                    THEN "waiting" ELSE "running"]
    /\ UNCHANGED <<ml, job, watch, ts, part, posted, delivered>>

\* The request ends: log_threaded_source_worker_close_batch().
EndRequest(t) ==
    /\ src[t].pc = "running" /\ Settled(t) /\ ts[t].registered
    /\ ts' = [ts EXCEPT ![t] = CloseBatch(@)]
    /\ UNCHANGED <<ml, src, job, watch, part, posted, delivered>>

\* run() returns, _thread_deinit() calls the main thread and waits for it.
ThreadDeinit(t) ==
    /\ src[t].pc = "running" /\ src[t].under_termination
    /\ Settled(t) /\ ~ts[t].registered
    /\ src' = [src EXCEPT ![t].pc = "stopping"]
    /\ UNCHANGED <<ml, job, watch, ts, part, posted, delivered>>

\* A destination acknowledges a message: _flow_control_window_size_adjust().
Ack(t) ==
    /\ src[t].unacked > 0
    /\ src' = [src EXCEPT ![t].unacked = @ - 1, ![t].window = @ + 1,
                          ![t].signal = @ \/ src[t].window = 0]
    /\ UNCHANGED <<ml, job, watch, ts, part, posted, delivered>>

\* _worker_wakeup(): wakeup_cond_signal()
Wakeup(t) ==
    /\ src[t].signal
    /\ src' = [src EXCEPT ![t].signal = FALSE,
                          ![t].pc = IF @ = "waiting" THEN "woken" ELSE @]
    /\ UNCHANGED <<ml, job, watch, ts, part, posted, delivered>>

----------------------------------------------------------------------------
(* The I/O worker threads.                                                 *)

StartWork(j) ==
    /\ job[j] = "queued"
    /\ job' = [job EXCEPT ![j] = "working"]
    /\ UNCHANGED <<ml, src, watch, ts, part, posted, delivered>>

\* log_reader_fetch_log() posts a message.
ReaderPost(r) ==
    /\ job[r] = "working" /\ Settled(r) /\ posted[r] < MaxPosts[r]
    /\ ts' = [ts EXCEPT ![r] = QueueThread(@, NextMessage(r))]
    /\ posted' = [posted EXCEPT ![r] = @ + 1]
    /\ UNCHANGED <<ml, src, job, watch, part, delivered>>

\* _work() of mainloop-io-worker.c ends with the batch callbacks.
ReaderCloseBatch(r) ==
    /\ job[r] = "working" /\ Settled(r) /\ ts[r].registered
    /\ ts' = [ts EXCEPT ![r] = CloseBatch(@)]
    /\ UNCHANGED <<ml, src, job, watch, part, posted, delivered>>

ReaderWorkEnds(r) ==
    /\ job[r] = "working" /\ Settled(r) /\ ~ts[r].registered
    /\ job' = [job EXCEPT ![r] = "done"]
    /\ UNCHANGED <<ml, src, watch, ts, part, posted, delivered>>

PartitionTakes(p) ==
    /\ job[p] = "working" /\ part[p].local = <<>> /\ ~WorkIsOver(part[p])
    /\ part' = [part EXCEPT ![p] = TakeBatches(@)]
    /\ UNCHANGED <<ml, src, job, watch, ts, posted, delivered>>

\* The batch in front, which one thread has filled, is passed on message by
\* message and is acknowledged by the destination later.
PartitionPasses(p) ==
    /\ job[p] = "working" /\ part[p].local # <<>>
    /\ LET batch == Head(part[p].local)
       IN  /\ delivered' = [delivered EXCEPT ![Head(batch).src] =
                               @ \o [i \in DOMAIN batch |-> batch[i].n]]
           /\ src' = [t \in Threaded |->
                        [src[t] EXCEPT !.unacked = @ + Cardinality({i \in DOMAIN batch : batch[i].src = t})]]
    /\ part' = [part EXCEPT ![p] = PassBatch(@)]
    /\ UNCHANGED <<ml, job, watch, ts, posted>>

PartitionWorkEnds(p) ==
    /\ job[p] = "working" /\ WorkIsOver(part[p])
    /\ job' = [job EXCEPT ![p] = "done"]
    /\ UNCHANGED <<ml, src, watch, ts, part, posted, delivered>>

----------------------------------------------------------------------------

ThreadedStep(t) ==
    \/ Post(t) \/ CloseAfterPost(t) \/ Suspend(t) \/ EndRequest(t) \/ ThreadDeinit(t)
    \/ MoveBatch(t) \/ SubmitContinuation(t)

ReaderStep(r) ==
    \/ StartWork(r) \/ ReaderPost(r) \/ ReaderCloseBatch(r) \/ ReaderWorkEnds(r)
    \/ MoveBatch(r) \/ SubmitContinuation(r)

PartitionStep(p) ==
    \/ StartWork(p) \/ PartitionTakes(p) \/ PartitionPasses(p) \/ PartitionWorkEnds(p)

Next ==
    \/ InvokeSyncCallAction \/ ReenableWorkerJobs \/ ExitTimerElapsed \/ RunReenableTask
    \/ ReloadConfig \/ ExitInitiate
    \/ \E t \in Threaded : ThreadedStep(t) \/ ThreadStop(t) \/ Ack(t) \/ Wakeup(t)
    \/ \E r \in Readers : ReaderStep(r) \/ PollEvent(r) \/ RunRestartTask(r)
                          \/ \E forced \in BOOLEAN : ReaderComplete(r, forced)
    \/ \E p \in Partitions : PartitionStep(p) \/ PartitionComplete(p)

Spec == Init /\ [][Next]_vars

\* The main loop serves what is pending, every thread and pool job gets to run.
\* Nobody has to post, reload or shut down, and no destination to acknowledge.
Fairness ==
    /\ WF_vars(InvokeSyncCallAction \/ ReenableWorkerJobs) /\ WF_vars(ExitTimerElapsed)
    /\ WF_vars(RunReenableTask \/ \E r \in Readers : RunRestartTask(r))
    /\ \A t \in Threaded :
          WF_vars(ThreadedStep(t) \/ ThreadStop(t)) /\ WF_vars(Wakeup(t))
    /\ \A r \in Readers : WF_vars(ReaderStep(r) \/ \E forced \in BOOLEAN : ReaderComplete(r, forced))
    /\ \A p \in Partitions : WF_vars(PartitionStep(p) \/ PartitionComplete(p))

FairSpec == Spec /\ Fairness

----------------------------------------------------------------------------
(* Properties.                                                             *)

Message == [src : Sources, n : Nat]

\* Every variable keeps its type: a source's window never drops below zero
\* (the g_assert() of _log_source_track_msg()), the reenable task is not
\* registered twice, which ivykis does not allow.
TypeOK ==
    /\ ml.pc \in {"idle", "sync", "quit"}
    /\ ml.jobs_running \in 0 .. Cardinality(Threaded) + Cardinality(Jobs)
    /\ ml.exit_notification_list \subseteq Threaded
    /\ \A i \in DOMAIN ml.tasks : ml.tasks[i] \in {"reenable"} \cup Readers
    /\ \A i, k \in DOMAIN ml.tasks : ml.tasks[i] = ml.tasks[k] => i = k
    /\ \A t \in Threaded :
          /\ src[t].pc \in {"stopped", "woken", "running", "posted", "waiting", "stopping"}
          /\ src[t].window \in 0 .. InitWindow
    /\ job \in [Jobs -> {"idle", "queued", "working", "done"}]
    /\ watch \in [Readers -> {"poll", "task", "nothing"}]
    /\ \A s \in Sources, p \in Partitions : ts[s].elements[p] \in Seq(Message)
    /\ posted \in [Sources -> Nat]

\* What the counter stands for: threads that have not been waited for and
\* jobs from their submission to their completion.
LiveJobs ==
    {t \in Threaded : src[t].pc # "stopped"} \cup {j \in Jobs : job[j] # "idle"}

\* main_loop_jobs_running, which the main thread reads without a lock and
\* worker threads increment, is exactly the number of live jobs.
JobsAreCounted == ml.jobs_running = Cardinality(LiveJobs)

\* The assertion of _prepare_submit(): no job is submitted while it is working,
\* although flush_running is changed under another lock than the job.
SubmitsIdleJobs ==
    /\ \A s \in Sources : \A p \in ts[s].submit : job[p] = "idle"
    /\ \A r \in Readers : watch[r] # "nothing" => job[r] = "idle"

\* All threads and jobs have stopped and nothing waits in the scheduler.
WorkersStopped ==
    /\ LiveJobs = {}
    /\ \A p \in Partitions : part[p].batches = <<>> /\ part[p].local = <<>>
    /\ \A s \in Sources : Settled(s) /\ \A p \in Partitions : ts[s].elements[p] = <<>>

\* An intrusive operation commences once "we can safely assume that all workers
\* exited" (main_loop_worker_job_complete()): every action queued by
\* main_loop_worker_sync_call() runs with no worker alive, and a scheduler that
\* is freed is empty, as _partition_clear() asserts.
ActionsRunWithWorkersStopped ==
    [][Len(ml'.sync_call_actions) < Len(ml.sync_call_actions) => WorkersStopped]_vars

\* parallelize() keeps the order of the messages of one source with one key,
\* through batches, fetch limits and jobs that start anew.
KeyOrderIsKept ==
    \A s \in Sources : \A i, k \in DOMAIN delivered[s] :
        PartitionKey /\ i < k /\ HashOf[s][delivered[s][i]] = HashOf[s][delivered[s][k]]
            => delivered[s][i] < delivered[s][k]

\* A reload that was accepted ends: in the new configuration, in the old one,
\* or given up for a shutdown.
ReloadEnds == ml.is_reloading_scheduled ~> ~ml.is_reloading_scheduled

\* A shutdown that was initiated ends the main loop.
ShutdownEnds == ml.is_terminating ~> ml.pc = "quit"

\* What was posted left the scheduler, each message once.
AllPassedOn ==
    \A s \in Sources :
       /\ Len(delivered[s]) = posted[s]
       /\ \A n \in 1 .. posted[s] : \E i \in DOMAIN delivered[s] : delivered[s][i] = n

\* A message posted into the scheduler leaves it, whatever reloads or
\* shutdowns meet it on its way: the sources post a bounded number of
\* messages, so time and again nothing of what was posted is missing.
EveryMessageIsPassedOn == []<>AllPassedOn

=============================================================================
