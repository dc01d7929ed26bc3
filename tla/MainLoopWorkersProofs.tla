----------------------- MODULE MainLoopWorkersProofs ------------------------
(***************************************************************************)
(* Proofs about the main loop and its workers: the counter of running jobs *)
(* is exact, a reload or a shutdown runs only when every worker has        *)
(* stopped and the scheduler is empty, and parallelize() keeps the order   *)
(* of the messages of one key.                                             *)
(*                                                                         *)
(* First the inductive invariant and the steps of the worker threads, the  *)
(* submission and the completion of jobs; then the main thread's steps.    *)
(***************************************************************************)
EXTENDS MainLoopWorkers, TLAPS

ThreadPCs == {"stopped", "woken", "running", "posted", "waiting", "stopping"}
Batches == Seq(Seq(Message))

ActionLists == Seq({"apply", "finish"})
TaskLists == Seq({"reenable"} \cup Readers)

MainStates ==
    [pc : {"idle", "sync", "quit"}, jobs_running : Int, workers_quit : BOOLEAN,
     is_reloading_scheduled : BOOLEAN, is_terminating : BOOLEAN,
     sync_call_actions : ActionLists, exit_notification_list : SUBSET Threaded,
     tasks : TaskLists, exit_timer : BOOLEAN, iv_quit : BOOLEAN,
     config : Nat, reloads : Nat]

Workers ==
    [pc : ThreadPCs, under_termination : BOOLEAN, window : Int, unacked : Int, signal : BOOLEAN]

ThreadStates ==
    [elements : [Partitions -> Seq(Message)], last_partition : Partitions,
     current_batch_size : Int, registered : BOOLEAN, todo : SUBSET Partitions,
     submit : SUBSET Partitions]

PartitionStates ==
    [batches : Batches, flush_running : BOOLEAN, local : Batches, processed : Int]

TypeInv ==
    /\ ml \in MainStates
    /\ src \in [Threaded -> Workers]
    /\ job \in [Jobs -> {"idle", "queued", "working", "done"}]
    /\ watch \in [Readers -> {"poll", "task", "nothing"}]
    /\ ts \in [Sources -> ThreadStates]
    /\ part \in [Partitions -> PartitionStates]
    /\ posted \in [Sources -> Nat]

\* A partition with messages has a job, or a thread that is about to submit it,
\* and never both.
ServedInv ==
    /\ \A p \in Partitions :
          /\ part[p].flush_running \/ (part[p].batches = <<>> /\ part[p].local = <<>>)
          /\ part[p].local # <<>> => job[p] = "working"
          /\ job[p] # "idle" => part[p].flush_running
          /\ part[p].flush_running
                => job[p] # "idle" \/ \E s \in Sources : p \in ts[s].submit
    /\ \A s \in Sources : \A p \in ts[s].submit : part[p].flush_running /\ job[p] = "idle"
    /\ \A s, s2 \in Sources : \A p \in Partitions :
          p \in ts[s].submit /\ p \in ts[s2].submit => s = s2
    /\ \A s \in Sources : \A p, p2 \in ts[s].submit : p = p2

\* A thread that can still hold messages in its thread state.
Active(s) ==
    IF s \in Threaded THEN src[s].pc \notin {"stopped", "stopping"} ELSE job[s] = "working"

\* A thread leaves nothing behind.
QuietInv ==
    \A s \in Sources :
       /\ ~Active(s) => Settled(s) /\ ~ts[s].registered
       /\ ~ts[s].registered => \A p \in Partitions : ts[s].elements[p] # <<>> => p \in ts[s].todo

\* What ivykis' list of tasks holds.
Has(tasks, x) == \E i \in DOMAIN tasks : tasks[i] = x
Unique(tasks) == \A i, k \in DOMAIN tasks : tasks[i] = tasks[k] => i = k

\* A reader waits for one thing, and only when its job is idle.
ReaderInv ==
    /\ \A r \in Readers : watch[r] # "nothing" => job[r] = "idle"
    /\ \A r \in Readers : Has(ml.tasks, r) => watch[r] = "task"
    /\ Unique(ml.tasks)

ReenablePending == Has(ml.tasks, "reenable")

FinishQueued == ml.sync_call_actions \in {<<"finish">>, <<"apply", "finish">>}

\* The actions that wait while the main thread is idle: that of an accepted
\* reload, then that of a shutdown whose timer elapsed.
IdleInv ==
    ml.pc = "idle" =>
       /\ ~ml.iv_quit
       /\ ml.sync_call_actions =
             IF ml.is_terminating /\ ~ml.exit_timer
             THEN IF ml.is_reloading_scheduled THEN <<"apply", "finish">> ELSE <<"finish">>
             ELSE IF ml.is_reloading_scheduled THEN <<"apply">> ELSE <<>>
       /\ ml.workers_quit <=> ml.sync_call_actions # <<>>

\* While actions run nothing else does, and only a shutdown comes second.
RunningInv ==
    ml.pc = "sync" =>
       /\ ml.sync_call_actions \in {<<>>, <<"apply">>, <<"finish">>, <<"apply", "finish">>}
       /\ ml.sync_call_actions # <<>> => ml.jobs_running = 0 /\ ~ml.iv_quit
       /\ FinishQueued => ml.is_terminating /\ ~ml.exit_timer
       /\ ml.is_terminating /\ ~ml.exit_timer => ml.iv_quit \/ FinishQueued

\* The reenable task waits only while no job runs and none can start.
ReenableInv ==
    ReenablePending =>
       /\ ml.jobs_running = 0
       /\ ml.pc = "idle" => ml.workers_quit
       /\ ml.pc = "sync" => ml.is_terminating /\ ~ml.exit_timer

SyncInv ==
    /\ IdleInv /\ RunningInv /\ ReenableInv
    /\ ml.exit_timer => ml.is_terminating

IInv == TypeInv /\ JobsAreCounted /\ ServedInv /\ QuietInv /\ ReaderInv /\ SyncInv

----------------------------------------------------------------------------
(* Counting.                                                               *)

\* What Cardinality says of the subsets of a finite set.
Counts(T) ==
    /\ Cardinality({}) = 0
    /\ \A S \in SUBSET T :
          /\ Cardinality(S) \in Nat
          /\ S # {} => Cardinality(S) # 0
          /\ \A x \in S : Cardinality(S \ {x}) = Cardinality(S) - 1
          /\ \A x \in T \ S : Cardinality(S \cup {x}) = Cardinality(S) + 1

\* What the steps below count: jobs and threads, and the messages of a batch.
\* Both are finite (CountingIsSound).
Counting == Counts(Threaded \cup Jobs) /\ \A n \in Nat : Counts(1 .. n)

\* With a live job the counter is positive, without one it is zero.
LEMMA CounterIsZero ==
  ASSUME Counting, JobsAreCounted
  PROVE  /\ ml.jobs_running \in Nat
         /\ ml.jobs_running = 0 <=> LiveJobs = {}
<1>1. LiveJobs \in SUBSET (Threaded \cup Jobs)
  BY Zenon DEF LiveJobs
<1> QED BY Zenon, <1>1 DEF JobsAreCounted, Counting, Counts

\* main_loop_worker_job_start() for a job that was not live.
LEMMA CountUp ==
  ASSUME Counting, JobsAreCounted, NEW j \in Threaded \cup Jobs, j \notin LiveJobs,
         LiveJobs' = LiveJobs \cup {j}, ml'.jobs_running = ml.jobs_running + 1
  PROVE  JobsAreCounted'
<1>1. LiveJobs \in SUBSET (Threaded \cup Jobs)
  BY Zenon DEF LiveJobs
<1> QED BY <1>1 DEF JobsAreCounted, Counting, Counts

\* main_loop_worker_job_complete() for a job that was live.
LEMMA CountDown ==
  ASSUME Counting, JobsAreCounted, NEW j, j \in LiveJobs, LiveJobs' = LiveJobs \ {j},
         ml'.jobs_running = ml.jobs_running - 1
  PROVE  JobsAreCounted'
<1>1. LiveJobs \in SUBSET (Threaded \cup Jobs)
  BY Zenon DEF LiveJobs
<1> QED BY <1>1 DEF JobsAreCounted, Counting, Counts

\* What no longer runs left nothing in the scheduler.
LEMMA StoppedIsEmpty ==
  ASSUME TypeInv, ServedInv, QuietInv, LiveJobs = {}
  PROVE  WorkersStopped
<1>1. \A s \in Sources : ~Active(s)
  BY Zenon DEF LiveJobs, Active, Sources, Jobs
<1>2. \A s \in Sources : Settled(s) /\ \A p \in Partitions : ts[s].elements[p] = <<>>
  BY Zenon, <1>1 DEF QuietInv, Settled
<1>3. \A p \in Partitions : job[p] = "idle"
  BY Zenon DEF LiveJobs, Jobs
<1>4. \A p \in Partitions : part[p].batches = <<>> /\ part[p].local = <<>>
  BY Zenon, <1>2, <1>3 DEF ServedInv, Settled
<1> QED BY Zenon, <1>2, <1>4 DEF WorkersStopped

----------------------------------------------------------------------------
(* Types.                                                                  *)

\* The scheduler's operators keep the types of their states (_queue_thread(),
\* _flush_batches()).
LEMMA QueueThreadType ==
  ASSUME NEW x \in ThreadStates, NEW s \in Sources, NEW n \in 1 .. MaxPosts[s]
  PROVE  LET y == QueueThread(x, [src |-> s, n |-> n])
         IN  y \in ThreadStates /\ y.registered /\ y.submit = x.submit
<1> DEFINE m == [src |-> s, n |-> n]
           p == GetPartitionIndex(x, m)
<1>1. m \in Message
  BY WorkersAssumption DEF Message, Sources
<1>2. p \in Partitions
  <2>1. HashOf[s][n] \in Nat
    BY Zenon, WorkersAssumption DEF Sources
  <2>2. \A k \in Nat : k % NumPartitions \in Partitions
    BY SchedulerAssumption DEF Partitions
  <2>3. x.last_partition \in Partitions
    BY Zenon DEF ThreadStates
  <2> QED BY Zenon, <2>1, <2>2, <2>3 DEF GetPartitionIndex
<1>3. Advanced(x) \in ThreadStates
  <2>1. (x.last_partition + 1) % NumPartitions \in Partitions
    BY SchedulerAssumption DEF Partitions, ThreadStates
  <2>2. (IF BatchSize > 1 THEN (x.current_batch_size + 1) % BatchSize ELSE 0) \in Int
    BY SchedulerAssumption DEF ThreadStates
  <2> QED BY Zenon, <2>1, <2>2 DEF Advanced, ThreadStates
<1>4. Append(x.elements[p], m) \in Seq(Message)
  BY <1>1, <1>2 DEF ThreadStates
<1>5. Advanced(x).elements[p] = x.elements[p]
  BY Zenon DEF Advanced, ThreadStates
<1> HIDE DEF m, p
<1>6. PICK todo \in SUBSET Partitions :
        QueueThread(x, m) = [Advanced(x) EXCEPT !.registered = TRUE,
                                                !.elements[p] = Append(@, m), !.todo = todo]
  <2> DEFINE full == BatchSize > 0 /\ Len(x.elements[p]) + 1 >= BatchSize
  <2>1. (IF full THEN {p} ELSE {}) \in SUBSET Partitions
    BY Zenon, <1>2
  <2> QED BY Zenon, <2>1 DEF QueueThread, p
<1>7. [Advanced(x).elements EXCEPT ![p] = Append(@, m)] \in [Partitions -> Seq(Message)]
  BY Zenon, <1>2, <1>3, <1>4, <1>5 DEF ThreadStates
<1>8. Advanced(x).submit = x.submit
  BY Zenon DEF Advanced, ThreadStates
<1>9. QueueThread(x, m).registered /\ QueueThread(x, m).submit = x.submit
  BY Zenon, <1>3, <1>6, <1>8 DEF ThreadStates
<1>10. QueueThread(x, m) \in ThreadStates
  BY Zenon, <1>3, <1>6, <1>7 DEF ThreadStates
<1> QED BY Zenon, <1>9, <1>10 DEF m

\* What a step leaves alone of the main thread's state when it only counts a
\* job or adds a task.
SameCourse(l, k) ==
    /\ l.pc = k.pc /\ l.workers_quit = k.workers_quit
    /\ l.is_reloading_scheduled = k.is_reloading_scheduled
    /\ l.is_terminating = k.is_terminating /\ l.exit_timer = k.exit_timer
    /\ l.sync_call_actions = k.sync_call_actions /\ l.iv_quit = k.iv_quit

\* main_loop_worker_job_start() only counts.
LEMMA JobStartType ==
  ASSUME NEW l \in MainStates
  PROVE  /\ JobStart(l) \in MainStates /\ SameCourse(JobStart(l), l)
         /\ JobStart(l).jobs_running = l.jobs_running + 1
         /\ JobStart(l).tasks = l.tasks
<1>1. JobStart(l) \in MainStates
  BY DEF JobStart, MainStates
<1>2. SameCourse(JobStart(l), l)
  BY Zenon DEF JobStart, MainStates, SameCourse
<1>3. JobStart(l).jobs_running = l.jobs_running + 1 /\ JobStart(l).tasks = l.tasks
  BY Zenon DEF JobStart, MainStates
<1> QED BY Zenon, <1>1, <1>2, <1>3

\* main_loop_worker_job_complete() counts and, for the last job of a
\* configuration that is being stopped, adds the reenable task.
LEMMA JobCompleteType ==
  ASSUME NEW l \in MainStates
  PROVE  /\ JobComplete(l) \in MainStates /\ SameCourse(JobComplete(l), l)
         /\ JobComplete(l).jobs_running = l.jobs_running - 1
         /\ JobComplete(l).tasks = IF l.workers_quit /\ l.jobs_running = 1
                                   THEN Append(l.tasks, "reenable") ELSE l.tasks
<1> DEFINE tasks == IF l.workers_quit /\ l.jobs_running = 1
                    THEN Append(l.tasks, "reenable") ELSE l.tasks
<1>1. l.tasks \in TaskLists
  BY Zenon DEF MainStates
<1>2. tasks \in TaskLists
  <2>1. Append(l.tasks, "reenable") \in TaskLists
    BY <1>1 DEF TaskLists
  <2> QED BY <1>1, <2>1, Zenon
<1>3. JobComplete(l) = [l EXCEPT !.jobs_running = @ - 1, !.tasks = tasks]
  BY Zenon DEF JobComplete
<1> HIDE DEF tasks
<1>4. JobComplete(l) \in MainStates
  <2> DEFINE counted == [l EXCEPT !.jobs_running = @ - 1]
  <2>1. counted \in MainStates
    BY DEF MainStates
  <2>2. JobComplete(l) = [counted EXCEPT !.tasks = tasks]
    BY Zenon, <1>3 DEF MainStates
  <2> HIDE DEF counted
  <2> QED BY Zenon, <1>2, <2>1, <2>2 DEF MainStates
<1>5. SameCourse(JobComplete(l), l)
  BY Zenon, <1>3 DEF MainStates, SameCourse
<1>6. JobComplete(l).jobs_running = l.jobs_running - 1 /\ JobComplete(l).tasks = tasks
  BY Zenon, <1>3 DEF MainStates
<1> QED BY Zenon, <1>4, <1>5, <1>6 DEF tasks

\* The states a configuration starts with.
LEMMA FreshTypes ==
  /\ FreshThreadStates \in [Sources -> ThreadStates]
  /\ [p \in Partitions |-> NewPartition] \in [Partitions -> PartitionStates]
<1>1. 0 \in Partitions /\ 0 % NumPartitions = 0
  BY SchedulerAssumption DEF Partitions
<1>2. <<>> \in Seq(Message) /\ <<>> \in Batches
  BY DEF Batches
<1>3. NewThreadState(0) \in ThreadStates
  BY <1>1, <1>2 DEF NewThreadState, ThreadStates
<1>4. NewPartition \in PartitionStates
  BY <1>2 DEF NewPartition, PartitionStates
<1> QED BY Zenon, <1>3, <1>4 DEF FreshThreadStates

\* A worker that starts, in a new configuration or with the state it kept.
LEMMA StartedWorkerType ==
  ASSUME NEW t \in Workers
  PROVE  StartedWorker(t) \in Workers /\ StartedWorker(t).pc = "woken"
<1>1. InitWindow \in Int
  BY WorkersAssumption
<1>2. CASE KeepAlive
  <2>1. StartedWorker(t) = [t EXCEPT !.pc = "woken", !.under_termination = FALSE]
    BY Zenon, <1>2 DEF StartedWorker, StartedAs
  <2> QED BY Zenon, <2>1 DEF Workers, ThreadPCs
<1>3. CASE ~KeepAlive
  <2>1. StartedWorker(t) = [pc |-> "woken", under_termination |-> FALSE,
                            window |-> InitWindow, unacked |-> 0, signal |-> FALSE]
    BY Zenon, <1>3 DEF StartedWorker, StartedAs
  <2> QED BY <1>1, <2>1 DEF Workers, ThreadPCs
<1> QED BY Zenon, <1>2, <1>3

\* A posting thread queues a message in its own thread state.
LEMMA PostsKeepTypes ==
  ASSUME TypeInv, NEW s \in Sources, posted[s] < MaxPosts[s],
         ts' = [ts EXCEPT ![s] = QueueThread(@, NextMessage(s))],
         posted' = [posted EXCEPT ![s] = @ + 1]
  PROVE  /\ ts' \in [Sources -> ThreadStates] /\ posted' \in [Sources -> Nat]
         /\ ts'[s].registered
         /\ \A r \in Sources : ts'[r].submit = ts[r].submit
         /\ \A r \in Sources : r # s => ts'[r] = ts[r]
<1>1. MaxPosts[s] \in Nat /\ posted[s] \in Nat
  BY Zenon, WorkersAssumption DEF Sources, TypeInv
<1>2. posted[s] + 1 \in 1 .. MaxPosts[s]
  BY <1>1
<1>3. ts[s] \in ThreadStates
  BY Zenon DEF TypeInv
<1> DEFINE new == QueueThread(ts[s], NextMessage(s))
<1>4. new \in ThreadStates /\ new.registered /\ new.submit = ts[s].submit
  BY Zenon, <1>2, <1>3, QueueThreadType DEF NextMessage
<1>5. ts' = [ts EXCEPT ![s] = new]
  BY Zenon
<1> HIDE DEF new
<1>6. posted' \in [Sources -> Nat]
  BY <1>1 DEF TypeInv
<1> QED BY <1>4, <1>5, <1>6 DEF TypeInv

\* A thread closes its input batch.
LEMMA ClosesKeepTypes ==
  ASSUME TypeInv, NEW s \in Sources, ts' = [ts EXCEPT ![s] = CloseBatch(@)]
  PROVE  /\ ts' \in [Sources -> ThreadStates]
         /\ \A p \in Partitions : ts'[s].elements[p] # <<>> => p \in ts'[s].todo
         /\ \A r \in Sources : ts'[r].submit = ts[r].submit
         /\ \A r \in Sources : r # s => ts'[r] = ts[r]
<1>1. ts[s] \in ThreadStates
  BY Zenon DEF TypeInv
<1> DEFINE todo == {p \in Partitions : ts[s].elements[p] # <<>>}
           new == CloseBatch(ts[s])
<1>2. new = [ts[s] EXCEPT !.registered = FALSE, !.todo = todo]
  BY Zenon DEF CloseBatch
<1>3. todo \in SUBSET Partitions
  BY Zenon
<1>4. \A p \in Partitions : ts[s].elements[p] # <<>> => p \in todo
  BY Zenon
<1> HIDE DEF todo
<1>5. new \in ThreadStates /\ new.submit = ts[s].submit /\ new.todo = todo
      /\ new.elements = ts[s].elements
  BY Zenon, <1>1, <1>2, <1>3 DEF ThreadStates
<1>6. ts' = [ts EXCEPT ![s] = new]
  BY Zenon
<1> HIDE DEF new
<1> QED BY Zenon, <1>4, <1>5, <1>6 DEF TypeInv

----------------------------------------------------------------------------
(* What a step that leaves a part of the state alone preserves.            *)

\* The counter, while the same jobs live.
LEMMA SameJobs ==
  ASSUME JobsAreCounted, LiveJobs' = LiveJobs, ml'.jobs_running = ml.jobs_running
  PROVE  JobsAreCounted'
  BY Zenon DEF JobsAreCounted

\* Who serves the partitions, while nobody submits, moves or completes.
LEMMA SameService ==
  ASSUME TypeInv, ServedInv, part' = part, \A p \in Partitions : job'[p] = job[p],
         \A s \in Sources : ts'[s].submit = ts[s].submit
  PROVE  ServedInv'
<1>1. \A s \in Sources : ts[s].submit \subseteq Partitions
  BY Zenon DEF TypeInv, ThreadStates
<1> QED BY <1>1 DEF ServedInv

\* The other threads, while one changes its own thread state.
LEMMA SameOthers ==
  ASSUME QuietInv, NEW s \in Sources,
         \A r \in Sources : r # s => ts'[r] = ts[r] /\ (Active(r) => Active(r)'),
         ~Active(s)' => Settled(s)' /\ ~ts'[s].registered,
         ~ts'[s].registered => \A p \in Partitions : ts'[s].elements[p] # <<>> => p \in ts'[s].todo
  PROVE  QuietInv'
  BY DEF QuietInv, Settled

\* All of them, while no thread state changes.
LEMMA SameThreads ==
  ASSUME QuietInv, ts' = ts, \A s \in Sources : Active(s) => Active(s)'
  PROVE  QuietInv'
  BY Zenon DEF QuietInv, Settled

\* The main thread, while worker threads run.
LEMMA SameMainThread ==
  ASSUME ReaderInv, SyncInv, UNCHANGED <<ml, watch>>,
         \A r \in Readers : job[r] = "idle" => job'[r] = "idle"
  PROVE  ReaderInv' /\ SyncInv'
<1>1. ReaderInv'
  BY Zenon DEF ReaderInv
<1>2. SyncInv'
  BY Zenon DEF SyncInv, IdleInv, RunningInv, ReenableInv, ReenablePending, FinishQueued
<1> QED BY Zenon, <1>1, <1>2

----------------------------------------------------------------------------
(* The posting threads.                                                    *)

\* log_threaded_source_worker_blocking_post().
LEMMA PostStep ==
  ASSUME IInv, NEW t \in Threaded, Post(t)
  PROVE  IInv'
<1> USE DEF IInv
<1> t \in Sources
  BY Zenon DEF Sources
<1>1. /\ ts' \in [Sources -> ThreadStates] /\ posted' \in [Sources -> Nat]
      /\ ts'[t].registered
      /\ \A r \in Sources : ts'[r].submit = ts[r].submit
      /\ \A r \in Sources : r # t => ts'[r] = ts[r]
  BY Zenon, PostsKeepTypes DEF Post
<1>2. src' \in [Threaded -> Workers] /\ src'[t].pc = "posted"
      /\ \A u \in Threaded : u # t => src'[u] = src[u]
  BY DEF Post, TypeInv, Workers, ThreadPCs
<1>3. TypeInv'
  BY Zenon, <1>1, <1>2 DEF TypeInv, Post
<1>4. LiveJobs' = LiveJobs
  BY Zenon, <1>2 DEF LiveJobs, Post
<1>5. JobsAreCounted'
  BY Zenon, <1>4, SameJobs DEF Post
<1>6. ServedInv'
  BY Zenon, <1>1, SameService DEF Post
<1>7. \A r \in Sources : Active(r) => Active(r)'
  BY Zenon, <1>2 DEF Active, Post
<1>8. Active(t)'
  BY Zenon, <1>2 DEF Active
<1>9. QuietInv'
  BY Zenon, <1>1, <1>7, <1>8, SameOthers
<1>10. ReaderInv' /\ SyncInv'
  BY Zenon, SameMainThread DEF Post
<1> QED BY Zenon, <1>3, <1>5, <1>6, <1>9, <1>10

\* log_reader_fetch_log() posts.
LEMMA ReaderPostStep ==
  ASSUME IInv, NEW r \in Readers, ReaderPost(r)
  PROVE  IInv'
<1> USE DEF IInv
<1> r \in Sources
  BY Zenon DEF Sources
<1>1. /\ ts' \in [Sources -> ThreadStates] /\ posted' \in [Sources -> Nat]
      /\ ts'[r].registered
      /\ \A s \in Sources : ts'[s].submit = ts[s].submit
      /\ \A s \in Sources : s # r => ts'[s] = ts[s]
  BY Zenon, PostsKeepTypes DEF ReaderPost
<1>2. TypeInv'
  BY Zenon, <1>1 DEF TypeInv, ReaderPost
<1>3. JobsAreCounted'
  BY Zenon, SameJobs DEF ReaderPost, LiveJobs
<1>4. ServedInv'
  BY Zenon, <1>1, SameService DEF ReaderPost
<1>5. \A s \in Sources : Active(s) => Active(s)'
  BY Zenon DEF Active, ReaderPost
<1>6. Active(r)
  BY Zenon, WorkersAssumption DEF Active, ReaderPost
<1>7. QuietInv'
  BY Zenon, <1>1, <1>5, <1>6, SameOthers
<1>8. ReaderInv' /\ SyncInv'
  BY Zenon, SameMainThread DEF ReaderPost
<1> QED BY Zenon, <1>2, <1>3, <1>4, <1>7, <1>8

\* main_loop_worker_invoke_batch_callbacks(), by whichever thread.
LEMMA CloseStep ==
  ASSUME IInv, NEW s \in Sources, ts[s].registered, ts' = [ts EXCEPT ![s] = CloseBatch(@)],
         UNCHANGED <<ml, src, job, watch, part, posted, delivered>>
  PROVE  IInv'
<1> USE DEF IInv
<1>1. /\ ts' \in [Sources -> ThreadStates]
      /\ \A p \in Partitions : ts'[s].elements[p] # <<>> => p \in ts'[s].todo
      /\ \A r \in Sources : ts'[r].submit = ts[r].submit
      /\ \A r \in Sources : r # s => ts'[r] = ts[r]
  BY Zenon, ClosesKeepTypes
<1>2. TypeInv'
  BY Zenon, <1>1 DEF TypeInv
<1>3. JobsAreCounted'
  BY Zenon, SameJobs DEF LiveJobs
<1>4. ServedInv'
  BY Zenon, <1>1, SameService
<1>5. \A r \in Sources : Active(r)' <=> Active(r)
  BY Zenon DEF Active
<1>6. Active(s)
  BY Zenon DEF QuietInv
<1>7. QuietInv'
  BY Zenon, <1>1, <1>5, <1>6, SameOthers
<1>8. ReaderInv' /\ SyncInv'
  BY Zenon, SameMainThread
<1> QED BY Zenon, <1>2, <1>3, <1>4, <1>7, <1>8

\* A step that changes the state of one threaded worker and leaves it alive
\* and as able to post as before: _worker_suspend(), _worker_wakeup(), the
\* acknowledgement.
LEMMA WorkerStep ==
  ASSUME IInv, NEW t \in Threaded, Suspend(t) \/ Ack(t) \/ Wakeup(t)
  PROVE  IInv'
<1> USE DEF IInv
<1>1. src' \in [Threaded -> Workers]
      /\ \A u \in Threaded : (src'[u].pc \in {"stopped", "stopping"} \/ src[u].pc \in {"stopped", "stopping"})
                             => src'[u].pc = src[u].pc
  <2>1. CASE Suspend(t)
    BY <2>1 DEF Suspend, TypeInv, Workers, ThreadPCs
  <2>2. CASE Ack(t)
    BY <2>2 DEF Ack, TypeInv, Workers, ThreadPCs
  <2>3. CASE Wakeup(t)
    <3> DEFINE pc == IF src[t].pc = "waiting" THEN "woken" ELSE src[t].pc
               new == [src[t] EXCEPT !.signal = FALSE, !.pc = pc]
    <3>1. src[t] \in Workers
      BY Zenon DEF TypeInv
    <3>2. new \in Workers /\ new.pc = pc
      BY Zenon, <3>1 DEF Workers, ThreadPCs
    <3>3. src' = [src EXCEPT ![t] = new]
      BY Zenon, <2>3, <3>1 DEF Wakeup, TypeInv, Workers
    <3> HIDE DEF new
    <3> QED BY Zenon, <3>2, <3>3 DEF TypeInv
  <2> QED BY Zenon, <2>1, <2>2, <2>3
<1>2. UNCHANGED <<ml, job, watch, ts, part, posted, delivered>>
  BY Zenon DEF Suspend, Ack, Wakeup
<1>3. TypeInv'
  BY Zenon, <1>1, <1>2 DEF TypeInv
<1>4. LiveJobs' = LiveJobs
  BY Zenon, <1>1, <1>2 DEF LiveJobs
<1>5. JobsAreCounted'
  BY Zenon, <1>2, <1>4, SameJobs
<1>6. ServedInv'
  BY Zenon, <1>2, SameService
<1>7. \A s \in Sources : Active(s) => Active(s)'
  BY Zenon, <1>1, <1>2 DEF Active
<1>8. QuietInv'
  BY Zenon, <1>2, <1>7, SameThreads
<1>9. ReaderInv' /\ SyncInv'
  BY Zenon, <1>2, SameMainThread
<1> QED BY Zenon, <1>3, <1>5, <1>6, <1>8, <1>9

\* run() returns with nothing left in the thread state.
LEMMA ThreadDeinitStep ==
  ASSUME IInv, NEW t \in Threaded, ThreadDeinit(t)
  PROVE  IInv'
<1> USE DEF IInv
<1> t \in Sources
  BY Zenon DEF Sources
<1>1. src' \in [Threaded -> Workers] /\ src'[t].pc = "stopping"
      /\ \A u \in Threaded : u # t => src'[u] = src[u]
  BY Zenon DEF ThreadDeinit, TypeInv, Workers, ThreadPCs
<1>2. TypeInv'
  BY Zenon, <1>1 DEF TypeInv, ThreadDeinit
<1>3. LiveJobs' = LiveJobs
  BY Zenon, <1>1 DEF LiveJobs, ThreadDeinit
<1>4. JobsAreCounted'
  BY Zenon, <1>3, SameJobs DEF ThreadDeinit
<1>5. ServedInv'
  BY Zenon, SameService DEF ThreadDeinit
<1>6. \A r \in Sources : r # t => (Active(r) => Active(r)')
  BY Zenon, <1>1 DEF Active, ThreadDeinit
<1>7. QuietInv'
  BY Zenon, <1>6, SameOthers DEF ThreadDeinit, QuietInv, Settled
<1>8. ReaderInv' /\ SyncInv'
  BY Zenon, SameMainThread DEF ThreadDeinit
<1> QED BY Zenon, <1>2, <1>4, <1>5, <1>7, <1>8

\* _move_batch_to_partition(): the thread that finds no flush running is the
\* one that will submit the job.
LEMMA MoveBatchStep ==
  ASSUME IInv, NEW s \in Sources, MoveBatch(s)
  PROVE  IInv'
<1> USE DEF IInv
<1>1. PICK p \in Partitions :
        /\ IsNextToMove(ts[s], p)
        /\ part' = [part EXCEPT ![p] = AddBatch(@, ts[s].elements[p])]
        /\ ts' = [ts EXCEPT ![s] = Moved(@, p, ~part[p].flush_running)]
  BY Zenon DEF MoveBatch
<1>2. ts[s] \in ThreadStates /\ part[p] \in PartitionStates /\ ts[s].submit = {}
  BY Zenon DEF TypeInv, MoveBatch
<1> DEFINE new == Moved(ts[s], p, ~part[p].flush_running)
           added == AddBatch(part[p], ts[s].elements[p])
           submit == IF ~part[p].flush_running THEN {p} ELSE {}
<1>3. ts' = [ts EXCEPT ![s] = new] /\ part' = [part EXCEPT ![p] = added]
  BY Zenon, <1>1
<1>4. /\ new.registered = ts[s].registered /\ new.submit = submit
      /\ new.todo = ts[s].todo \ {p}
      /\ new.elements = [ts[s].elements EXCEPT ![p] = <<>>]
      /\ new \in ThreadStates
  <2>1. [ts[s].elements EXCEPT ![p] = <<>>] \in [Partitions -> Seq(Message)]
    BY <1>2 DEF ThreadStates
  <2>2. submit \in SUBSET Partitions
    BY Zenon
  <2>3. new = [ts[s] EXCEPT !.elements[p] = <<>>, !.todo = @ \ {p}, !.submit = submit]
    BY Zenon DEF Moved
  <2> HIDE DEF submit
  <2> QED BY ZenonT(60), <1>2, <2>1, <2>2, <2>3 DEF ThreadStates
<1>5. added \in PartitionStates /\ added.flush_running /\ added.local = part[p].local
  <2>1. Append(part[p].batches, ts[s].elements[p]) \in Batches
    BY <1>2 DEF PartitionStates, ThreadStates, Batches
  <2> QED BY Zenon, <1>2, <2>1 DEF AddBatch, PartitionStates
<1> HIDE DEF new, added
<1>6. TypeInv'
  BY Zenon, <1>3, <1>4, <1>5 DEF TypeInv, MoveBatch
<1>7. JobsAreCounted'
  BY Zenon, SameJobs DEF LiveJobs, MoveBatch
<1>8. ServedInv'
  <2>1. \A r \in Sources : r # s => ts'[r] = ts[r]
    BY Zenon, <1>3 DEF TypeInv
  <2>2. ts'[s].submit = submit /\ job' = job
    BY Zenon, <1>3, <1>4 DEF TypeInv, MoveBatch
  <2>3. part'[p].flush_running /\ part'[p].local = part[p].local
        /\ \A o \in Partitions : o # p => part'[o] = part[o]
    BY Zenon, <1>3, <1>5 DEF TypeInv
  <2>4. \A o \in Partitions : \A r \in Sources : o \in ts[r].submit => r # s /\ o \in ts'[r].submit
    BY Zenon, <1>2, <2>1
  <2>5. \A o \in Partitions :
          /\ part'[o].flush_running \/ (part'[o].batches = <<>> /\ part'[o].local = <<>>)
          /\ part'[o].local # <<>> => job'[o] = "working"
          /\ job'[o] # "idle" => part'[o].flush_running
    BY Zenon, <2>2, <2>3 DEF ServedInv
  <2>6. ASSUME NEW o \in Partitions, part'[o].flush_running
        PROVE  job'[o] # "idle" \/ \E r \in Sources : o \in ts'[r].submit
    <3>1. CASE part[o].flush_running
      BY Zenon, <2>2, <2>4, <3>1 DEF ServedInv
    <3>2. CASE ~part[o].flush_running
      BY Zenon, <2>2, <2>3, <2>6, <3>2
    <3> QED BY Zenon, <3>1, <3>2
  <2>7. ASSUME NEW r \in Sources, NEW o \in ts'[r].submit
        PROVE  part'[o].flush_running /\ job'[o] = "idle"
    <3>1. CASE r = s
      <4>1. o = p /\ ~part[p].flush_running
        BY Zenon, <2>2, <2>7, <3>1
      <4> QED BY Zenon, <2>2, <2>3, <4>1 DEF ServedInv
    <3>2. CASE r # s
      <4>1. o \in ts[r].submit /\ o \in Partitions
        BY Zenon, <2>1, <2>7, <3>2 DEF TypeInv, ThreadStates
      <4> QED BY Zenon, <2>2, <2>3, <3>2, <4>1 DEF ServedInv
    <3> QED BY Zenon, <3>1, <3>2
  <2>8. \A r \in Sources : r # s => \A o \in ts'[r].submit : part[o].flush_running
    BY Zenon, <2>1 DEF ServedInv
  <2>9. \A r, r2 \in Sources : \A o \in Partitions :
           o \in ts'[r].submit /\ o \in ts'[r2].submit => r = r2
    BY <2>1, <2>2, <2>8 DEF ServedInv
  <2>10. \A r \in Sources : \A o, o2 \in ts'[r].submit : o = o2
    BY <2>1, <2>2 DEF ServedInv
  <2> QED BY Zenon, <2>5, <2>6, <2>7, <2>9, <2>10 DEF ServedInv
<1>9. Active(s)
  BY Zenon, <1>1 DEF QuietInv, Settled, IsNextToMove
<1>10. \A r \in Sources : Active(r)' <=> Active(r)
  BY Zenon DEF Active, MoveBatch
<1>11. \A r \in Sources : r # s => ts'[r] = ts[r]
  BY Zenon, <1>3 DEF TypeInv
<1>12. ~ts'[s].registered =>
         \A o \in Partitions : ts'[s].elements[o] # <<>> => o \in ts'[s].todo
  BY ZenonT(60), <1>2, <1>3, <1>4 DEF TypeInv, QuietInv, ThreadStates
<1>13. QuietInv'
  BY Zenon, <1>9, <1>10, <1>11, <1>12, SameOthers
<1>14. ReaderInv' /\ SyncInv'
  BY Zenon, SameMainThread DEF MoveBatch
<1> QED BY Zenon, <1>6, <1>7, <1>8, <1>13, <1>14

----------------------------------------------------------------------------
(* The I/O worker threads.                                                 *)

\* A worker thread of the pool takes a job.
LEMMA StartWorkStep ==
  ASSUME IInv, NEW j \in Jobs, StartWork(j)
  PROVE  IInv'
<1> USE DEF IInv
<1>1. /\ job' \in [Jobs -> {"idle", "queued", "working", "done"}]
      /\ job[j] = "queued" /\ job'[j] = "working"
      /\ \A k \in Jobs : k # j => job'[k] = job[k]
  BY Zenon DEF StartWork, TypeInv
<1>2. TypeInv'
  BY Zenon, <1>1 DEF TypeInv, StartWork
<1>3. LiveJobs' = LiveJobs
  BY Zenon, <1>1 DEF LiveJobs, StartWork
<1>4. JobsAreCounted'
  BY Zenon, <1>3, SameJobs DEF StartWork
<1>5. ASSUME NEW p \in Partitions
      PROVE  job'[p] = job[p] \/ (job[p] = "queued" /\ job'[p] = "working")
  <2>1. p \in Jobs
    BY Zenon DEF Jobs
  <2> QED BY Zenon, <1>1, <2>1
<1>6. ServedInv'
  <2>1. part' = part /\ ts' = ts
    BY Zenon DEF StartWork
  <2>2. \A s \in Sources : ts[s].submit \subseteq Partitions
    BY Zenon DEF TypeInv, ThreadStates
  <2> QED BY <1>5, <2>1, <2>2 DEF ServedInv
<1>7. \A s \in Sources : Active(s) => Active(s)'
  BY Zenon, <1>1 DEF Active, StartWork, Sources, Jobs
<1>8. QuietInv'
  BY Zenon, <1>7, SameThreads DEF StartWork
<1>9. ReaderInv' /\ SyncInv'
  BY Zenon, <1>1, SameMainThread DEF StartWork, Jobs
<1> QED BY Zenon, <1>2, <1>4, <1>6, <1>8, <1>9

\* A job ends its work: of a reader with nothing left in its thread state, of
\* a partition with nothing taken and not passed on.
LEMMA WorkEndsStep ==
  ASSUME IInv, NEW j \in Jobs,
         (j \in Readers /\ ReaderWorkEnds(j)) \/ (j \in Partitions /\ PartitionWorkEnds(j))
  PROVE  IInv'
<1> USE DEF IInv
<1>1. /\ job' \in [Jobs -> {"idle", "queued", "working", "done"}]
      /\ job[j] = "working" /\ job'[j] = "done"
      /\ \A k \in Jobs : k # j => job'[k] = job[k]
  BY Zenon DEF ReaderWorkEnds, PartitionWorkEnds, TypeInv
<1>2. UNCHANGED <<ml, src, watch, ts, part, posted, delivered>>
  BY Zenon DEF ReaderWorkEnds, PartitionWorkEnds
<1>3. TypeInv'
  BY Zenon, <1>1, <1>2 DEF TypeInv
<1>4. LiveJobs' = LiveJobs
  BY Zenon, <1>1, <1>2 DEF LiveJobs
<1>5. JobsAreCounted'
  BY Zenon, <1>2, <1>4, SameJobs
<1>6. ServedInv'
  <2>1. ASSUME NEW p \in Partitions
        PROVE  job'[p] = job[p]
                  \/ (job[p] = "working" /\ job'[p] = "done" /\ part[p].local = <<>>)
    <3>1. p \in Jobs
      BY Zenon DEF Jobs
    <3>2. CASE p = j
      BY Zenon, <1>1, <3>2, WorkersAssumption DEF PartitionWorkEnds, WorkIsOver
    <3> QED BY Zenon, <1>1, <3>1, <3>2
  <2>2. \A s \in Sources : ts[s].submit \subseteq Partitions
    BY Zenon DEF TypeInv, ThreadStates
  <2> QED BY <1>2, <2>1, <2>2 DEF ServedInv
<1>7. QuietInv'
  <2>1. \A s \in Sources : s # j => (Active(s) => Active(s)')
    BY Zenon, <1>1, <1>2 DEF Active, Sources, Jobs
  <2>2. CASE j \in Readers
    <3>1. Settled(j) /\ ~ts[j].registered
      BY Zenon, <2>2, WorkersAssumption DEF ReaderWorkEnds
    <3>2. j \in Sources
      BY Zenon, <2>2 DEF Sources
    <3> QED BY Zenon, <1>2, <2>1, <3>1, <3>2, SameOthers DEF QuietInv, Settled
  <2>3. CASE j \in Partitions
    BY Zenon, <1>2, <2>1, <2>3, SameThreads, WorkersAssumption DEF Sources
  <2> QED BY Zenon, <2>2, <2>3 DEF Jobs
<1>8. ReaderInv' /\ SyncInv'
  BY Zenon, <1>1, <1>2, SameMainThread DEF Jobs
<1> QED BY Zenon, <1>3, <1>5, <1>6, <1>7, <1>8

\* A partition's job changes what it has taken: the flag and the jobs stay.
LEMMA PartitionWorks ==
  ASSUME IInv, NEW p \in Partitions, NEW new \in PartitionStates,
         job[p] = "working", part' = [part EXCEPT ![p] = new],
         new.flush_running = part[p].flush_running,
         src' \in [Threaded -> Workers], \A t \in Threaded : src'[t].pc = src[t].pc,
         UNCHANGED <<ml, job, watch, ts, posted>>
  PROVE  IInv'
<1> USE DEF IInv
<1>1. TypeInv'
  BY Zenon DEF TypeInv
<1>2. LiveJobs' = LiveJobs
  BY Zenon DEF LiveJobs
<1>3. JobsAreCounted'
  BY Zenon, <1>2, SameJobs
<1>4. ServedInv'
  <2>1. part'[p] = new /\ \A o \in Partitions : o # p => part'[o] = part[o]
    BY Zenon DEF TypeInv
  <2>2. part[p].flush_running
    BY Zenon DEF ServedInv
  <2>3. \A s \in Sources : ts[s].submit \subseteq Partitions
    BY Zenon DEF TypeInv, ThreadStates
  <2>4. \A o \in Partitions : part'[o].flush_running = part[o].flush_running
    BY Zenon, <2>1
  <2>5. \A o \in Partitions :
          /\ part'[o].flush_running \/ (part'[o].batches = <<>> /\ part'[o].local = <<>>)
          /\ part'[o].local # <<>> => job[o] = "working"
    BY <2>1, <2>2, <2>4 DEF ServedInv
  <2> HIDE DEF IInv
  <2>6. ServedInv
    BY Zenon DEF IInv
  <2> QED BY <2>3, <2>4, <2>5, <2>6 DEF ServedInv
<1>5. QuietInv'
  BY Zenon, SameThreads DEF Active
<1>6. ReaderInv' /\ SyncInv'
  BY Zenon, SameMainThread
<1> QED BY Zenon, <1>1, <1>3, <1>4, <1>5, <1>6

\* _work() takes the batches.
LEMMA PartitionTakesStep ==
  ASSUME IInv, NEW p \in Partitions, PartitionTakes(p)
  PROVE  IInv'
<1>1. part[p] \in PartitionStates /\ src \in [Threaded -> Workers]
  BY Zenon DEF IInv, TypeInv
<1>2. <<>> \in Batches
  BY DEF Batches
<1>3. TakeBatches(part[p]) \in PartitionStates
      /\ TakeBatches(part[p]).flush_running = part[p].flush_running
  BY Zenon, <1>1, <1>2 DEF TakeBatches, PartitionStates
<1> QED BY Zenon, <1>1, <1>3, PartitionWorks DEF PartitionTakes

\* _work() passes a batch on.
LEMMA PartitionPassesStep ==
  ASSUME Counting, IInv, NEW p \in Partitions, PartitionPasses(p)
  PROVE  IInv'
<1>1. part[p] \in PartitionStates /\ src \in [Threaded -> Workers]
  BY Zenon DEF IInv, TypeInv
<1> DEFINE batch == Head(part[p].local)
           rest == Tail(part[p].local)
           count(t) == Cardinality({i \in DOMAIN batch : batch[i].src = t})
<1>2. part[p].local # <<>> /\ part[p].local \in Batches /\ part[p].batches \in Batches
  BY <1>1 DEF PartitionPasses, PartitionStates
<1>3. batch \in Seq(Message) /\ rest \in Batches /\ rest \o part[p].batches \in Batches
      /\ <<>> \in Batches
  BY <1>2 DEF Batches
<1>4. \A t \in Threaded : count(t) \in Int
  <2>1. DOMAIN batch = 1 .. Len(batch) /\ Len(batch) \in Nat
    BY <1>3
  <2>2. \A t : {i \in DOMAIN batch : batch[i].src = t} \in SUBSET (1 .. Len(batch))
    BY Zenon, <2>1
  <2> HIDE DEF batch
  <2>3. Counts(1 .. Len(batch))
    BY Zenon, <2>1 DEF Counting
  <2> QED BY <2>2, <2>3 DEF Counts
<1>5. src' = [t \in Threaded |-> [src[t] EXCEPT !.unacked = @ + count(t)]]
  BY DEF PartitionPasses
<1> HIDE DEF count
<1>6. src' \in [Threaded -> Workers] /\ \A t \in Threaded : src'[t].pc = src[t].pc
  BY <1>1, <1>4, <1>5 DEF Workers
<1>7. Len(batch) \in Int /\ part[p].processed \in Int
  BY <1>1, <1>3 DEF PartitionStates
<1>8. PassBatch(part[p]) \in PartitionStates
      /\ PassBatch(part[p]).flush_running = part[p].flush_running
  <2> DEFINE processed == part[p].processed + Len(batch)
  <2>1. processed \in Int
    BY <1>7
  <2>2. PassBatch(part[p]) =
          IF LimitReached(processed)
          THEN [part[p] EXCEPT !.processed = processed, !.local = <<>>,
                               !.batches = rest \o part[p].batches]
          ELSE [part[p] EXCEPT !.processed = processed, !.local = rest]
    BY Zenon, <1>1 DEF PassBatch, PartitionStates
  <2> HIDE DEF processed, rest, batch
  <2> QED BY Zenon, <1>1, <1>3, <2>1, <2>2 DEF PartitionStates
<1> QED BY Zenon, <1>6, <1>8, PartitionWorks DEF PartitionPasses

----------------------------------------------------------------------------
(* The list of tasks.                                                      *)

\* A task registered behind the others (iv_task_register()).
LEMMA AppendTask ==
  ASSUME NEW tasks \in TaskLists, NEW x \in {"reenable"} \cup Readers
  PROVE  /\ Append(tasks, x) \in TaskLists
         /\ \A y : Has(Append(tasks, x), y) <=> Has(tasks, y) \/ y = x
         /\ Unique(tasks) /\ ~Has(tasks, x) => Unique(Append(tasks, x))
<1>1. Append(tasks, x) \in TaskLists /\ Len(tasks) \in Nat
      /\ DOMAIN tasks = 1 .. Len(tasks)
      /\ DOMAIN Append(tasks, x) = 1 .. Len(tasks) + 1
  BY DEF TaskLists
<1>2. \A i \in DOMAIN tasks : Append(tasks, x)[i] = tasks[i]
  BY DEF TaskLists
<1>3. Append(tasks, x)[Len(tasks) + 1] = x
  BY DEF TaskLists
<1>4. \A i \in DOMAIN Append(tasks, x) : i \in DOMAIN tasks \/ i = Len(tasks) + 1
  BY <1>1
<1>5. \A i \in DOMAIN tasks : i \in DOMAIN Append(tasks, x)
  BY <1>1
<1>6. Len(tasks) + 1 \in DOMAIN Append(tasks, x)
  BY <1>1
<1>7. \A y : Has(Append(tasks, x), y) <=> Has(tasks, y) \/ y = x
  BY Zenon, <1>2, <1>3, <1>4, <1>5, <1>6 DEF Has
<1>8. Unique(tasks) /\ ~Has(tasks, x) => Unique(Append(tasks, x))
  BY Zenon, <1>2, <1>3, <1>4 DEF Has, Unique
<1> QED BY Zenon, <1>1, <1>7, <1>8

\* The task in front is taken off.
LEMMA TailTask ==
  ASSUME NEW tasks \in TaskLists, tasks # <<>>
  PROVE  /\ Tail(tasks) \in TaskLists /\ Has(tasks, Head(tasks))
         /\ \A y : Has(Tail(tasks), y) => Has(tasks, y)
         /\ Unique(tasks) => Unique(Tail(tasks)) /\ ~Has(Tail(tasks), Head(tasks))
<1>1. /\ Tail(tasks) \in TaskLists /\ Len(tasks) \in Nat /\ Head(tasks) = tasks[1]
      /\ DOMAIN tasks = 1 .. Len(tasks) /\ Len(tasks) > 0
      /\ DOMAIN Tail(tasks) = 1 .. Len(tasks) - 1
  BY DEF TaskLists
<1>2. \A i \in DOMAIN Tail(tasks) :
        i \in Nat /\ i > 0 /\ i + 1 \in DOMAIN tasks /\ Tail(tasks)[i] = tasks[i + 1]
  BY <1>1 DEF TaskLists
<1>3. 1 \in DOMAIN tasks
  BY <1>1
<1>4. Has(tasks, Head(tasks))
  BY Zenon, <1>1, <1>3 DEF Has
<1>5. \A y : Has(Tail(tasks), y) => Has(tasks, y)
  BY Zenon, <1>2 DEF Has
<1>6. Unique(tasks) => Unique(Tail(tasks))
  BY <1>2 DEF Unique
<1>7. Unique(tasks) => ~Has(Tail(tasks), Head(tasks))
  BY <1>1, <1>2, <1>3 DEF Unique, Has
<1> QED BY Zenon, <1>1, <1>4, <1>5, <1>6, <1>7

\* log_reader_deinit() takes the readers' tasks off.
LEMMA ReenableTaskStays ==
  ASSUME NEW tasks \in TaskLists
  PROVE  /\ WithoutReaderTasks(tasks) \in TaskLists /\ Unique(WithoutReaderTasks(tasks))
         /\ \A y : Has(WithoutReaderTasks(tasks), y) => y = "reenable" /\ Has(tasks, y)
<1>2. CASE Has(tasks, "reenable")
  <2>1. WithoutReaderTasks(tasks) = <<"reenable">>
    BY Zenon, <1>2 DEF WithoutReaderTasks, Has
  <2> QED BY <1>2, <2>1 DEF Has, Unique, TaskLists
<1>3. CASE ~Has(tasks, "reenable")
  <2>1. WithoutReaderTasks(tasks) = <<>>
    BY Zenon, <1>3 DEF WithoutReaderTasks, Has
  <2> QED BY <2>1 DEF Has, Unique, TaskLists
<1> QED BY Zenon, <1>2, <1>3

\* A thread that may hold messages is a live job.
LEMMA ActiveIsLive ==
  ASSUME NEW s \in Sources, Active(s)
  PROVE  s \in LiveJobs
  BY Zenon DEF Active, LiveJobs, Sources, Jobs

\* A step that only counts jobs, or moves tasks.
LEMMA CourseKept ==
  ASSUME SyncInv, SameCourse(ml', ml),
         ml.pc = "sync" /\ ml.sync_call_actions # <<>> => ml'.jobs_running = 0,
         ReenablePending' => /\ ml'.jobs_running = 0
                             /\ ml.pc = "idle" => ml.workers_quit
                             /\ ml.pc = "sync" => ml.is_terminating /\ ~ml.exit_timer
  PROVE  SyncInv'
<1>1. IdleInv'
  BY Zenon DEF SyncInv, IdleInv, SameCourse
<1>2. RunningInv'
  BY Zenon DEF SyncInv, RunningInv, FinishQueued, SameCourse
<1>3. ReenableInv'
  BY Zenon DEF ReenableInv, SameCourse
<1> QED BY Zenon, <1>1, <1>2, <1>3 DEF SyncInv, SameCourse

----------------------------------------------------------------------------
(* Jobs are submitted and completed.                                       *)

\* main_loop_io_worker_job_submit_continuation(): the submitting thread is
\* itself a live job, so no action waits for the counter to reach zero.
LEMMA SubmitContinuationStep ==
  ASSUME Counting, IInv, NEW s \in Sources, SubmitContinuation(s)
  PROVE  IInv'
<1> USE DEF IInv
<1>1. PICK p \in ts[s].submit : job' = [job EXCEPT ![p] = "queued"]
  BY Zenon DEF SubmitContinuation
<1>2. p \in Partitions /\ p \in Jobs /\ job[p] = "idle" /\ part[p].flush_running
  BY Zenon DEF TypeInv, ThreadStates, ServedInv, Jobs
<1>3. ml' = JobStart(ml) /\ ml \in MainStates
  BY Zenon DEF SubmitContinuation, TypeInv
<1>4. ml' \in MainStates /\ SameCourse(ml', ml)
      /\ ml'.jobs_running = ml.jobs_running + 1 /\ ml'.tasks = ml.tasks
  BY Zenon, <1>3, JobStartType
<1>5. ts' \in [Sources -> ThreadStates] /\ ts'[s].submit = {}
      /\ ts'[s].registered = ts[s].registered /\ ts'[s].todo = ts[s].todo
      /\ ts'[s].elements = ts[s].elements
      /\ \A r \in Sources : r # s => ts'[r] = ts[r]
  <2> DEFINE new == [ts[s] EXCEPT !.submit = {}]
  <2>1. ts[s] \in ThreadStates
    BY Zenon DEF TypeInv
  <2>2. new \in ThreadStates /\ new.submit = {} /\ new.registered = ts[s].registered
        /\ new.todo = ts[s].todo /\ new.elements = ts[s].elements
    BY Zenon, <2>1 DEF ThreadStates
  <2>3. ts' = [ts EXCEPT ![s] = new]
    BY Zenon DEF SubmitContinuation
  <2> HIDE DEF new
  <2> QED BY Zenon, <2>2, <2>3 DEF TypeInv
<1>6. job' \in [Jobs -> {"idle", "queued", "working", "done"}] /\ job'[p] = "queued"
      /\ \A j \in Jobs : j # p => job'[j] = job[j]
  BY Zenon, <1>1, <1>2 DEF TypeInv
<1>7. TypeInv'
  BY Zenon, <1>4, <1>5, <1>6 DEF TypeInv, SubmitContinuation
<1>8. p \notin LiveJobs /\ LiveJobs' = LiveJobs \cup {p}
  BY <1>2, <1>6, WorkersAssumption DEF LiveJobs, SubmitContinuation
<1>9. JobsAreCounted'
  BY Zenon, <1>2, <1>4, <1>8, CountUp
<1>10. ServedInv'
  <2>1. part' = part
    BY Zenon DEF SubmitContinuation
  <2>2. \A r \in Sources : ts[r].submit \subseteq Partitions
    BY Zenon DEF TypeInv, ThreadStates
  <2>3. \A o \in Partitions : o # p => job'[o] = job[o]
    BY Zenon, <1>6 DEF Jobs
  <2>4. ts[s].submit = {p}
    BY <1>1 DEF ServedInv
  <2>5. \A r \in Sources : r # s => p \notin ts[r].submit
    BY Zenon, <1>2, <2>4 DEF ServedInv
  <2>6. \A o \in Partitions :
          /\ part'[o].flush_running \/ (part'[o].batches = <<>> /\ part'[o].local = <<>>)
          /\ part'[o].local # <<>> => job'[o] = "working"
          /\ job'[o] # "idle" => part'[o].flush_running
    BY Zenon, <1>2, <1>6, <2>1, <2>3 DEF ServedInv
  <2>7. \A o \in Partitions : part'[o].flush_running
          => job'[o] # "idle" \/ \E r \in Sources : o \in ts'[r].submit
    BY <1>5, <1>6, <2>1, <2>3, <2>4 DEF ServedInv
  <2>8. \A r \in Sources : \A o \in ts'[r].submit : part'[o].flush_running /\ job'[o] = "idle"
    BY SMTT(60), <1>5, <2>1, <2>2, <2>3, <2>5 DEF ServedInv
  <2>9. \A r, r2 \in Sources : \A o \in Partitions :
           o \in ts'[r].submit /\ o \in ts'[r2].submit => r = r2
    BY <1>5 DEF ServedInv
  <2>10. \A r \in Sources : \A o, o2 \in ts'[r].submit : o = o2
    BY <1>5 DEF ServedInv
  <2> QED BY Zenon, <2>6, <2>7, <2>8, <2>9, <2>10 DEF ServedInv
<1>11. Active(s)
  BY Zenon, <1>1 DEF QuietInv, Settled
<1>12. \A r \in Sources : Active(r)' <=> Active(r)
  BY Zenon, <1>2, <1>6, WorkersAssumption DEF Active, SubmitContinuation, Sources, Jobs
<1>13. QuietInv'
  BY Zenon, <1>5, <1>11, <1>12, SameOthers DEF QuietInv
<1>14. ml.jobs_running # 0
  BY Zenon, <1>11, ActiveIsLive, CounterIsZero
<1>15. ~ReenablePending /\ ~(ml.pc = "sync" /\ ml.sync_call_actions # <<>>)
  BY Zenon, <1>14 DEF SyncInv, ReenableInv, RunningInv
<1>16. SyncInv'
  BY Zenon, <1>4, <1>15, CourseKept DEF ReenablePending
<1>17. ReaderInv'
  <2>1. \A r \in Readers : job'[r] = job[r]
    BY Zenon, <1>2, <1>6, WorkersAssumption DEF Jobs
  <2> QED BY Zenon, <1>4, <2>1 DEF ReaderInv, SubmitContinuation
<1> QED BY Zenon, <1>7, <1>9, <1>10, <1>13, <1>16, <1>17

\* log_reader_io_handle_in(): refused while the workers are being stopped,
\* which is while the reenable task waits.
LEMMA IoHandleInStep ==
  ASSUME Counting, IInv, NEW r \in Readers, NEW l \in MainStates, IoHandleIn(l, r),
         Idle, SameCourse(l, ml), l.jobs_running = ml.jobs_running,
         watch[r] # "nothing", ~Has(l.tasks, r), Unique(l.tasks),
         \A y : Has(l.tasks, y) => Has(ml.tasks, y)
  PROVE  IInv'
<1> USE DEF IInv
<1>1. job[r] = "idle" /\ r \in Jobs /\ r \notin Threaded /\ r \notin Partitions
  BY Zenon, WorkersAssumption DEF ReaderInv, Jobs
<1>2. watch' \in [Readers -> {"poll", "task", "nothing"}] /\ watch'[r] = "nothing"
      /\ \A o \in Readers : o # r => watch'[o] = watch[o]
  BY Zenon DEF IoHandleIn, TypeInv
<1>3. UNCHANGED <<src, ts, part, posted, delivered>>
  BY Zenon DEF IoHandleIn
<1>4. CASE l.workers_quit
  <2>1. ml' = l /\ job' = job
    BY Zenon, <1>4 DEF IoHandleIn
  <2>2. TypeInv'
    BY Zenon, <1>2, <1>3, <2>1 DEF TypeInv
  <2>3. JobsAreCounted'
    BY Zenon, <1>3, <2>1, SameJobs DEF LiveJobs
  <2>4. ServedInv'
    BY Zenon, <1>3, <2>1, SameService
  <2>5. QuietInv'
    BY Zenon, <1>3, <2>1, SameThreads DEF Active
  <2>6. ReaderInv'
    BY Zenon, <1>1, <1>2, <2>1 DEF ReaderInv
  <2>7. SyncInv'
    BY Zenon, <2>1, CourseKept DEF SyncInv, ReenableInv, ReenablePending, Idle
  <2> QED BY Zenon, <2>2, <2>3, <2>4, <2>5, <2>6, <2>7
<1>5. CASE ~l.workers_quit
  <2>1. ml' = JobStart(l) /\ job' = [job EXCEPT ![r] = "queued"]
    BY Zenon, <1>5 DEF IoHandleIn
  <2>2. ml' \in MainStates /\ SameCourse(ml', ml)
        /\ ml'.jobs_running = ml.jobs_running + 1 /\ ml'.tasks = l.tasks
    BY Zenon, <2>1, JobStartType DEF SameCourse
  <2>3. job' \in [Jobs -> {"idle", "queued", "working", "done"}] /\ job'[r] = "queued"
        /\ \A j \in Jobs : j # r => job'[j] = job[j]
    BY Zenon, <1>1, <2>1 DEF TypeInv
  <2>4. TypeInv'
    BY Zenon, <1>2, <1>3, <2>2, <2>3 DEF TypeInv
  <2>5. r \notin LiveJobs /\ LiveJobs' = LiveJobs \cup {r}
    BY ZenonT(60), <1>1, <1>3, <2>3 DEF LiveJobs
  <2>6. JobsAreCounted'
    BY Zenon, <1>1, <2>2, <2>5, CountUp
  <2>7. ServedInv'
    BY Zenon, <1>1, <1>3, <2>3, SameService DEF Jobs
  <2>8. QuietInv'
    <3>1. ASSUME NEW s \in Sources, Active(s)
          PROVE  Active(s)'
      <4>1. CASE s \in Threaded
        BY Zenon, <1>3, <3>1, <4>1 DEF Active
      <4>2. CASE s \notin Threaded
        <5>1. s \in Jobs /\ job[s] = "working"
          BY Zenon, <3>1, <4>2 DEF Active, Sources, Jobs
        <5>2. job'[s] = job[s]
          BY Zenon, <1>1, <2>3, <5>1
        <5> QED BY Zenon, <4>2, <5>1, <5>2 DEF Active
      <4> QED BY Zenon, <4>1, <4>2
    <3> QED BY Zenon, <1>3, <3>1, SameThreads
  <2>9. ReaderInv'
    BY SMTT(60), <1>1, <1>2, <2>2, <2>3 DEF ReaderInv, Jobs
  <2>10. ~ReenablePending'
    BY Zenon, <1>5, <2>2 DEF SyncInv, ReenableInv, ReenablePending, Idle, SameCourse
  <2>11. SyncInv'
    BY Zenon, <2>2, <2>10, CourseKept DEF Idle
  <2> QED BY Zenon, <2>4, <2>6, <2>7, <2>8, <2>9, <2>11
<1> QED BY Zenon, <1>4, <1>5

\* A reader's descriptor is readable, or its restart task runs.
LEMMA ReaderStartsStep ==
  ASSUME Counting, IInv, NEW r \in Readers, PollEvent(r) \/ RunRestartTask(r)
  PROVE  IInv'
<1>1. ml \in MainStates /\ ml.tasks \in TaskLists /\ Unique(ml.tasks)
  BY Zenon DEF IInv, TypeInv, MainStates, ReaderInv
<1>2. CASE PollEvent(r)
  <2>1. watch[r] = "poll" /\ Idle /\ IoHandleIn(ml, r) /\ ~Has(ml.tasks, r)
    BY Zenon, <1>2 DEF PollEvent, IInv, ReaderInv
  <2> QED BY Zenon, <1>1, <2>1, IoHandleInStep DEF SameCourse
<1>3. CASE RunRestartTask(r)
  <2> DEFINE l == [ml EXCEPT !.tasks = Tail(@)]
  <2>1. Idle /\ IoHandleIn(l, r) /\ ml.tasks # <<>> /\ Head(ml.tasks) = r
    BY Zenon, <1>3 DEF RunRestartTask
  <2>2. /\ Tail(ml.tasks) \in TaskLists /\ Has(ml.tasks, r)
        /\ \A y : Has(Tail(ml.tasks), y) => Has(ml.tasks, y)
        /\ Unique(Tail(ml.tasks)) /\ ~Has(Tail(ml.tasks), r)
    BY Zenon, <1>1, <2>1, TailTask
  <2>3. watch[r] = "task"
    BY Zenon, <2>2 DEF IInv, ReaderInv
  <2>4. l \in MainStates /\ l.tasks = Tail(ml.tasks) /\ l.jobs_running = ml.jobs_running
    BY Zenon, <1>1, <2>2 DEF MainStates
  <2>5. SameCourse(l, ml)
    BY Zenon, <1>1 DEF MainStates, SameCourse
  <2> HIDE DEF l
  <2> QED BY Zenon, <2>1, <2>2, <2>3, <2>4, <2>5, IoHandleInStep
<1> QED BY Zenon, <1>2, <1>3

\* The completion of a live job, in the main thread: the last one of a
\* configuration that is being stopped has the reenable task wait.
LEMMA CompletionCourse ==
  ASSUME Counting, IInv, Idle, NEW j \in LiveJobs, NEW l \in MainStates, SameCourse(l, ml),
         l.jobs_running = ml.jobs_running, ~Has(l.tasks, "reenable"), Unique(l.tasks),
         ml' = JobComplete(l)
  PROVE  /\ ml' \in MainStates /\ SyncInv' /\ Unique(ml'.tasks)
         /\ ml'.jobs_running = ml.jobs_running - 1
         /\ \A y : Has(ml'.tasks, y) => y = "reenable" \/ Has(l.tasks, y)
<1> USE DEF IInv
<1>1. /\ ml' \in MainStates /\ SameCourse(ml', ml)
      /\ ml'.jobs_running = ml.jobs_running - 1
      /\ ml'.tasks = IF ml.workers_quit /\ ml.jobs_running = 1
                     THEN Append(l.tasks, "reenable") ELSE l.tasks
  BY JobCompleteType DEF SameCourse
<1>2. l.tasks \in TaskLists
  BY Zenon DEF MainStates
<1>3. CASE ml.workers_quit /\ ml.jobs_running = 1
  <2>1. ml'.tasks = Append(l.tasks, "reenable") /\ ml'.jobs_running = 0
    BY <1>1, <1>3
  <2>2. Unique(ml'.tasks) /\ \A y : Has(ml'.tasks, y) => y = "reenable" \/ Has(l.tasks, y)
    BY <1>2, <2>1, AppendTask
  <2>3. SyncInv'
    BY Zenon, <1>1, <1>3, <2>1, CourseKept DEF Idle
  <2> QED BY Zenon, <1>1, <2>2, <2>3
<1>4. CASE ~(ml.workers_quit /\ ml.jobs_running = 1)
  <2>1. ml'.tasks = l.tasks
    BY Zenon, <1>1, <1>4
  <2>2. SyncInv'
    BY Zenon, <1>1, <2>1, CourseKept DEF Idle, ReenablePending
  <2> QED BY Zenon, <1>1, <2>1, <2>2
<1> QED BY Zenon, <1>3, <1>4

\* The reenable task does not wait while a job lives.
LEMMA NoReenableWhileLive ==
  ASSUME Counting, IInv, NEW j \in LiveJobs
  PROVE  ~Has(ml.tasks, "reenable") /\ ml.jobs_running # 0
  BY Zenon, CounterIsZero DEF IInv, SyncInv, ReenableInv, ReenablePending

\* _complete() of mainloop-io-worker.c for a reader.
LEMMA ReaderCompleteStep ==
  ASSUME Counting, IInv, NEW r \in Readers, NEW forced \in BOOLEAN, ReaderComplete(r, forced)
  PROVE  IInv'
<1> USE DEF IInv
<1>1. Idle /\ job[r] = "done" /\ r \in Jobs /\ r \notin Threaded /\ r \notin Partitions
  BY Zenon, WorkersAssumption DEF ReaderComplete, Jobs
<1>2. r \in LiveJobs
  BY Zenon, <1>1 DEF LiveJobs
<1>3. watch[r] = "nothing" /\ ~Has(ml.tasks, r) /\ ~Has(ml.tasks, "reenable")
  BY Zenon, <1>1, <1>2, NoReenableWhileLive DEF ReaderInv
<1>4. ml \in MainStates /\ ml.tasks \in TaskLists /\ Unique(ml.tasks)
  BY Zenon DEF TypeInv, MainStates, ReaderInv
<1> DEFINE l == IF forced THEN [ml EXCEPT !.tasks = Append(@, r)] ELSE ml
<1>5. ml' = JobComplete(l)
  BY Zenon DEF ReaderComplete
<1>6. /\ l \in MainStates /\ l.jobs_running = ml.jobs_running /\ SameCourse(l, ml)
      /\ Unique(l.tasks) /\ ~Has(l.tasks, "reenable")
      /\ \A y : Has(l.tasks, y) => Has(ml.tasks, y) \/ (forced /\ y = r)
  <2>1. CASE forced
    <3> DEFINE more == Append(ml.tasks, r)
    <3>1. /\ more \in TaskLists /\ Unique(more)
          /\ \A y : Has(more, y) <=> Has(ml.tasks, y) \/ y = r
      BY Zenon, <1>3, <1>4, AppendTask
    <3>2. l = [ml EXCEPT !.tasks = more]
      BY Zenon, <2>1
    <3> HIDE DEF more, l
    <3>3. l \in MainStates /\ l.jobs_running = ml.jobs_running /\ l.tasks = more
      BY Zenon, <1>4, <3>1, <3>2 DEF MainStates
    <3>4. SameCourse(l, ml)
      BY Zenon, <1>4, <3>2 DEF MainStates, SameCourse
    <3>5. r # "reenable"
      BY Zenon, WorkersAssumption
    <3> QED BY Zenon, <1>3, <2>1, <3>1, <3>3, <3>4, <3>5
  <2>2. CASE ~forced
    <3>1. l = ml
      BY Zenon, <2>2
    <3> HIDE DEF l
    <3> QED BY Zenon, <1>3, <1>4, <3>1 DEF SameCourse
  <2> QED BY Zenon, <2>1, <2>2
<1> HIDE DEF l
<1>7. /\ ml' \in MainStates /\ SyncInv' /\ Unique(ml'.tasks)
      /\ ml'.jobs_running = ml.jobs_running - 1
      /\ \A y : Has(ml'.tasks, y) => y = "reenable" \/ Has(l.tasks, y)
  BY Zenon, <1>1, <1>2, <1>5, <1>6, CompletionCourse
<1>8. job' \in [Jobs -> {"idle", "queued", "working", "done"}] /\ job'[r] = "idle"
      /\ \A j \in Jobs : j # r => job'[j] = job[j]
  BY Zenon, <1>1 DEF ReaderComplete, TypeInv
<1>9. watch' \in [Readers -> {"poll", "task", "nothing"}]
      /\ (forced => watch'[r] = "task") /\ \A o \in Readers : o # r => watch'[o] = watch[o]
  BY Zenon DEF ReaderComplete, TypeInv
<1>10. UNCHANGED <<src, ts, part, posted, delivered>>
  BY Zenon DEF ReaderComplete
<1>11. TypeInv'
  BY Zenon, <1>7, <1>8, <1>9, <1>10 DEF TypeInv
<1>12. LiveJobs' = LiveJobs \ {r}
  BY Zenon, <1>1, <1>8, <1>10 DEF LiveJobs
<1>13. JobsAreCounted'
  BY Zenon, <1>2, <1>7, <1>12, CountDown
<1>14. ServedInv'
  BY Zenon, <1>1, <1>8, <1>10, SameService DEF Jobs
<1>15. QuietInv'
  <2>1. \A s \in Sources : Active(s) => Active(s)'
    BY Zenon, <1>1, <1>8, <1>10 DEF Active, Sources, Jobs
  <2> QED BY Zenon, <1>10, <2>1, SameThreads
<1>16. ReaderInv'
  <2>1. \A o \in Readers : watch'[o] # "nothing" => job'[o] = "idle"
    BY Zenon, <1>8, <1>9 DEF ReaderInv, Jobs
  <2>2. \A o \in Readers : Has(ml'.tasks, o) => watch'[o] = "task"
    BY Zenon, <1>3, <1>6, <1>7, <1>9, WorkersAssumption DEF ReaderInv
  <2> QED BY Zenon, <1>7, <2>1, <2>2 DEF ReaderInv
<1> QED BY Zenon, <1>7, <1>11, <1>13, <1>14, <1>15, <1>16

\* logscheduler.c's _complete() keeps the types.
LEMMA CompletedType ==
  ASSUME NEW x \in PartitionStates
  PROVE  /\ Completed(x) \in PartitionStates
         /\ Completed(x).flush_running <=> x.batches # <<>>
         /\ Completed(x).local = x.local /\ Completed(x).batches = x.batches
<1> DEFINE zero == 0
           again == x.batches # <<>>
<1>1. Completed(x) = [x EXCEPT !.processed = zero, !.flush_running = again]
  BY Zenon DEF Completed, NeedsRestart
<1>2. zero \in Int /\ again \in BOOLEAN
  OBVIOUS
<1> HIDE DEF zero, again
<1>3. /\ Completed(x) \in PartitionStates /\ Completed(x).flush_running = again
      /\ Completed(x).local = x.local /\ Completed(x).batches = x.batches
  BY Zenon, <1>1, <1>2 DEF PartitionStates
<1> QED BY Zenon, <1>3 DEF again

\* _complete() for a partition: submitted again before it is counted down, so
\* the counter does not pass through zero.
LEMMA PartitionCompleteStep ==
  ASSUME Counting, IInv, NEW p \in Partitions, PartitionComplete(p)
  PROVE  IInv'
<1> USE DEF IInv
<1>1. Idle /\ job[p] = "done" /\ p \in Jobs /\ p \notin Threaded /\ p \notin Readers
  BY Zenon, WorkersAssumption DEF PartitionComplete, Jobs
<1>2. p \in LiveJobs
  BY Zenon, <1>1 DEF LiveJobs
<1>3. ~Has(ml.tasks, "reenable") /\ ml.jobs_running # 0 /\ ml.jobs_running \in Nat
  BY Zenon, <1>2, NoReenableWhileLive, CounterIsZero
<1>4. ml \in MainStates /\ Unique(ml.tasks)
  BY Zenon DEF TypeInv, ReaderInv
<1> DEFINE again == part[p].batches # <<>>
           new == Completed(part[p])
<1>5. new \in PartitionStates /\ (new.flush_running <=> again)
      /\ new.local = part[p].local /\ new.batches = part[p].batches
  <2>1. part[p] \in PartitionStates
    BY Zenon DEF TypeInv
  <2> QED BY Zenon, <2>1, CompletedType
<1>6. part' = [part EXCEPT ![p] = new] /\ UNCHANGED <<src, watch, ts, posted, delivered>>
  BY Zenon DEF PartitionComplete
<1> HIDE DEF new
<1>7. part'[p] = new /\ (\A o \in Partitions : o # p => part'[o] = part[o])
      /\ part' \in [Partitions -> PartitionStates]
  BY Zenon, <1>5, <1>6 DEF TypeInv
<1>8. part[p].local = <<>> /\ \A s \in Sources : p \notin ts[s].submit
  BY Zenon, <1>1 DEF ServedInv
<1>9. /\ ml' \in MainStates /\ SyncInv' /\ Unique(ml'.tasks)
      /\ \A y : Has(ml'.tasks, y) => y = "reenable" \/ Has(ml.tasks, y)
      /\ ml'.jobs_running = IF again THEN ml.jobs_running ELSE ml.jobs_running - 1
  <2>1. CASE again
    <3> DEFINE l == JobStart(ml)
    <3>1. ml' = JobComplete(l)
      BY Zenon, <2>1 DEF PartitionComplete, NeedsRestart
    <3>2. l \in MainStates /\ SameCourse(l, ml) /\ l.jobs_running = ml.jobs_running + 1
          /\ l.tasks = ml.tasks
      BY Zenon, <1>4, JobStartType
    <3> HIDE DEF l
    <3>3. l.jobs_running # 1
      BY <1>3, <3>2
    <3>4. ml' \in MainStates /\ SameCourse(ml', ml) /\ ml'.tasks = ml.tasks
          /\ ml'.jobs_running = ml.jobs_running
      BY SMTT(60), <1>3, <3>1, <3>2, <3>3, JobCompleteType DEF SameCourse
    <3>5. SyncInv'
      BY Zenon, <1>1, <1>3, <3>4, CourseKept DEF Idle, ReenablePending
    <3> QED BY Zenon, <1>4, <2>1, <3>4, <3>5
  <2>2. CASE ~again
    <3>1. ml' = JobComplete(ml)
      BY Zenon, <2>2 DEF PartitionComplete, NeedsRestart
    <3>2. SameCourse(ml, ml)
      BY Zenon DEF SameCourse
    <3> QED BY Zenon, <1>1, <1>2, <1>3, <1>4, <2>2, <3>1, <3>2, CompletionCourse
  <2> QED BY Zenon, <2>1, <2>2
<1>10. job' = [job EXCEPT ![p] = IF again THEN "queued" ELSE "idle"]
  BY Zenon DEF PartitionComplete, NeedsRestart
<1>11. job' \in [Jobs -> {"idle", "queued", "working", "done"}]
       /\ job'[p] = (IF again THEN "queued" ELSE "idle")
       /\ \A j \in Jobs : j # p => job'[j] = job[j]
  BY Zenon, <1>1, <1>10 DEF TypeInv
<1>12. TypeInv'
  BY Zenon, <1>6, <1>7, <1>9, <1>11 DEF TypeInv
<1>13. JobsAreCounted'
  <2>1. CASE again
    <3>1. LiveJobs' = LiveJobs
      BY Zenon, <1>1, <1>6, <1>11, <2>1 DEF LiveJobs
    <3> QED BY Zenon, <1>9, <2>1, <3>1, SameJobs
  <2>2. CASE ~again
    <3>1. LiveJobs' = LiveJobs \ {p}
      BY Zenon, <1>1, <1>6, <1>11, <2>2 DEF LiveJobs
    <3> QED BY Zenon, <1>2, <1>9, <2>2, <3>1, CountDown
  <2> QED BY Zenon, <2>1, <2>2
<1>14. ServedInv'
  <2>1. \A o \in Partitions : o # p => job'[o] = job[o]
    BY Zenon, <1>11 DEF Jobs
  <2>2. \A s \in Sources : ts[s].submit \subseteq Partitions
    BY Zenon DEF TypeInv, ThreadStates
  <2>3. \A o \in Partitions :
          /\ part'[o].flush_running \/ (part'[o].batches = <<>> /\ part'[o].local = <<>>)
          /\ part'[o].local # <<>> => job'[o] = "working"
          /\ job'[o] # "idle" => part'[o].flush_running
    <3> TAKE o \in Partitions
    <3>1. CASE o = p
      BY Zenon, <1>5, <1>7, <1>8, <1>11, <3>1
    <3>2. CASE o # p
      BY ZenonT(60), <1>7, <2>1, <3>2 DEF ServedInv
    <3> QED BY Zenon, <3>1, <3>2
  <2>4. \A o \in Partitions : part'[o].flush_running
          => job'[o] # "idle" \/ \E s \in Sources : o \in ts'[s].submit
    BY SMTT(60), <1>5, <1>6, <1>7, <1>11, <2>1 DEF ServedInv
  <2>5. \A s \in Sources : \A o \in ts'[s].submit : part'[o].flush_running /\ job'[o] = "idle"
    BY SMTT(60), <1>6, <1>7, <1>8, <2>1, <2>2 DEF ServedInv
  <2>6. /\ \A s, s2 \in Sources : \A o \in Partitions :
             o \in ts'[s].submit /\ o \in ts'[s2].submit => s = s2
        /\ \A s \in Sources : \A o, o2 \in ts'[s].submit : o = o2
    BY <1>6 DEF ServedInv
  <2> QED BY Zenon, <2>3, <2>4, <2>5, <2>6 DEF ServedInv
<1>15. QuietInv'
  <2>1. \A s \in Sources : Active(s) => Active(s)'
    BY Zenon, <1>1, <1>6, <1>11 DEF Active, Sources, Jobs
  <2> QED BY Zenon, <1>6, <2>1, SameThreads
<1>16. ReaderInv'
  <2>1. \A r \in Readers : job'[r] = job[r] /\ r # "reenable"
    BY Zenon, <1>1, <1>11, WorkersAssumption DEF Jobs
  <2> QED BY Zenon, <1>6, <1>9, <2>1 DEF ReaderInv
<1> QED BY Zenon, <1>9, <1>12, <1>13, <1>14, <1>15, <1>16

\* _thread_stop().
LEMMA ThreadStopStep ==
  ASSUME Counting, IInv, NEW t \in Threaded, ThreadStop(t)
  PROVE  IInv'
<1> USE DEF IInv
<1>1. Idle /\ src[t].pc = "stopping" /\ t \notin Jobs /\ t \in Sources
  BY Zenon, WorkersAssumption DEF ThreadStop, Jobs, Sources
<1>2. t \in LiveJobs
  BY Zenon, <1>1 DEF LiveJobs
<1>3. ~Has(ml.tasks, "reenable") /\ ml \in MainStates /\ Unique(ml.tasks)
  BY Zenon, <1>2, NoReenableWhileLive DEF TypeInv, ReaderInv
<1>4. SameCourse(ml, ml) /\ ml' = JobComplete(ml)
  BY Zenon DEF SameCourse, ThreadStop
<1>5. /\ ml' \in MainStates /\ SyncInv' /\ Unique(ml'.tasks)
      /\ ml'.jobs_running = ml.jobs_running - 1
      /\ \A y : Has(ml'.tasks, y) => y = "reenable" \/ Has(ml.tasks, y)
  BY Zenon, <1>1, <1>2, <1>3, <1>4, CompletionCourse
<1>6. src' \in [Threaded -> Workers] /\ src'[t].pc = "stopped"
      /\ \A u \in Threaded : u # t => src'[u] = src[u]
  BY Zenon DEF ThreadStop, TypeInv, Workers, ThreadPCs
<1>7. UNCHANGED <<job, watch, ts, part, posted, delivered>>
  BY Zenon DEF ThreadStop
<1>8. TypeInv'
  BY Zenon, <1>5, <1>6, <1>7 DEF TypeInv
<1>9. LiveJobs' = LiveJobs \ {t}
  BY Zenon, <1>1, <1>6, <1>7 DEF LiveJobs
<1>10. JobsAreCounted'
  BY Zenon, <1>2, <1>5, <1>9, CountDown
<1>11. ServedInv'
  BY Zenon, <1>7, SameService
<1>12. \A s \in Sources : Active(s) => Active(s)'
  BY Zenon, <1>1, <1>6, <1>7 DEF Active
<1>13. QuietInv'
  BY Zenon, <1>7, <1>12, SameThreads
<1>14. ReaderInv'
  BY Zenon, <1>5, <1>7, WorkersAssumption DEF ReaderInv
<1> QED BY Zenon, <1>5, <1>8, <1>10, <1>11, <1>13, <1>14


----------------------------------------------------------------------------

(* The main thread.                                                        *)

\* What the counter, the scheduler and the readers see of a step of the main
\* thread that changes its own state and asks threads to exit.
LEMMA MainThreadOnly ==
  ASSUME IInv, ml' \in MainStates, ml'.jobs_running = ml.jobs_running,
         src' \in [Threaded -> Workers],
         \A t \in Threaded : (src'[t].pc \in {"stopped", "stopping"} \/ src[t].pc \in {"stopped", "stopping"})
                             => src'[t].pc = src[t].pc,
         UNCHANGED <<job, watch, ts, part, posted>>,
         Unique(ml'.tasks), \A y : Has(ml'.tasks, y) => Has(ml.tasks, y),
         SyncInv'
  PROVE  IInv'
<1> USE DEF IInv
<1>1. TypeInv'
  BY Zenon DEF TypeInv
<1>2. LiveJobs' = LiveJobs
  BY Zenon DEF LiveJobs
<1>3. JobsAreCounted'
  BY Zenon, <1>2, SameJobs
<1>4. ServedInv'
  BY Zenon, SameService
<1>5. QuietInv'
  BY Zenon, SameThreads DEF Active
<1>6. ReaderInv'
  BY Zenon DEF ReaderInv
<1> QED BY Zenon, <1>1, <1>3, <1>4, <1>5, <1>6

\* main_loop_worker_sync_call().
LEMMA SyncCallKeeps ==
  ASSUME IInv, NEW l \in MainStates, NEW action \in {"apply", "finish"}, SyncCall(l, action),
         l.jobs_running = ml.jobs_running, l.tasks = ml.tasks, l.pc = "idle"
  PROVE  /\ ml' \in MainStates /\ ml'.jobs_running = ml.jobs_running /\ ml'.tasks = ml.tasks
         /\ src' \in [Threaded -> Workers]
         /\ \A t \in Threaded : (src'[t].pc \in {"stopped", "stopping"} \/ src[t].pc \in {"stopped", "stopping"})
                                => src'[t].pc = src[t].pc
         /\ ml'.sync_call_actions = Append(l.sync_call_actions, action)
         /\ ml'.is_reloading_scheduled = l.is_reloading_scheduled
         /\ ml'.is_terminating = l.is_terminating /\ ml'.exit_timer = l.exit_timer
         /\ ml'.iv_quit = l.iv_quit
         /\ IF ml.jobs_running = 0 THEN ml'.pc = "sync" ELSE ml'.pc = "idle" /\ ml'.workers_quit
<1> DEFINE actions == Append(l.sync_call_actions, action)
           queued == [l EXCEPT !.sync_call_actions = actions]
<1>1. actions \in ActionLists
  <2>1. l.sync_call_actions \in ActionLists
    BY Zenon DEF MainStates
  <2> QED BY <2>1 DEF ActionLists
<1> HIDE DEF actions
<1>2. queued \in MainStates /\ queued.sync_call_actions = actions
      /\ queued.jobs_running = l.jobs_running /\ queued.tasks = l.tasks /\ queued.pc = "idle"
  BY Zenon, <1>1 DEF MainStates
<1>3. queued.is_reloading_scheduled = l.is_reloading_scheduled
      /\ queued.is_terminating = l.is_terminating /\ queued.exit_timer = l.exit_timer
      /\ queued.iv_quit = l.iv_quit
  BY Zenon DEF MainStates
<1>4. src \in [Threaded -> Workers]
  BY Zenon DEF IInv, TypeInv
<1>5. CASE l.jobs_running = 0
  <2>1. ml' = [queued EXCEPT !.pc = "sync"] /\ src' = src
    BY Zenon, <1>5 DEF SyncCall, actions
  <2> HIDE DEF queued
  <2>2. /\ ml' \in MainStates /\ ml'.jobs_running = queued.jobs_running
        /\ ml'.tasks = queued.tasks /\ ml'.pc = "sync"
        /\ ml'.sync_call_actions = queued.sync_call_actions
    BY Zenon, <1>2, <2>1 DEF MainStates
  <2>3. /\ ml'.is_reloading_scheduled = queued.is_reloading_scheduled
        /\ ml'.is_terminating = queued.is_terminating
        /\ ml'.exit_timer = queued.exit_timer /\ ml'.iv_quit = queued.iv_quit
    BY Zenon, <1>2, <2>1 DEF MainStates
  <2> QED BY Zenon, <1>2, <1>3, <1>4, <1>5, <2>1, <2>2, <2>3 DEF actions
<1>6. CASE l.jobs_running # 0
  <2>1. RequestAllThreadsToExit(queued)
    BY Zenon, <1>6 DEF SyncCall, actions
  <2> HIDE DEF queued
  <2>2. /\ ml' \in MainStates /\ ml'.jobs_running = queued.jobs_running
        /\ ml'.tasks = queued.tasks /\ ml'.pc = queued.pc /\ ml'.workers_quit
        /\ ml'.sync_call_actions = queued.sync_call_actions
    BY Zenon, <1>2, <2>1 DEF MainStates, RequestAllThreadsToExit
  <2>3. /\ ml'.is_reloading_scheduled = queued.is_reloading_scheduled
        /\ ml'.is_terminating = queued.is_terminating
        /\ ml'.exit_timer = queued.exit_timer /\ ml'.iv_quit = queued.iv_quit
    BY Zenon, <1>2, <2>1 DEF MainStates, RequestAllThreadsToExit
  <2>4. \A t \in Workers :
          /\ RequestExit(t) \in Workers
          /\ (RequestExit(t).pc \in {"stopped", "stopping"} \/ t.pc \in {"stopped", "stopping"})
             => RequestExit(t).pc = t.pc
    BY Zenon DEF RequestExit, Workers, ThreadPCs
  <2>5. /\ src' \in [Threaded -> Workers]
        /\ \A t \in Threaded : (src'[t].pc \in {"stopped", "stopping"} \/ src[t].pc \in {"stopped", "stopping"})
                                => src'[t].pc = src[t].pc
    BY Zenon, <1>4, <2>1, <2>4 DEF RequestAllThreadsToExit
  <2> QED BY Zenon, <1>2, <1>3, <1>6, <2>2, <2>3, <2>5 DEF actions
<1> QED BY Zenon, <1>5, <1>6

\* main_loop_reload_config().
LEMMA ReloadConfigStep ==
  ASSUME IInv, ReloadConfig
  PROVE  IInv'
<1> DEFINE l == [ml EXCEPT !.is_reloading_scheduled = TRUE, !.reloads = @ + 1]
<1>1. Idle /\ ~ml.is_terminating /\ ~ml.is_reloading_scheduled /\ SyncCall(l, "apply")
      /\ UNCHANGED <<job, watch, ts, part, posted>>
  BY Zenon DEF ReloadConfig
<1>2. ml \in MainStates /\ Unique(ml.tasks)
  BY Zenon DEF IInv, TypeInv, ReaderInv
<1>3. l \in MainStates /\ l.jobs_running = ml.jobs_running /\ l.tasks = ml.tasks /\ l.pc = ml.pc
      /\ l.sync_call_actions = ml.sync_call_actions
  <2> DEFINE more == ml.reloads + 1
             k == [ml EXCEPT !.is_reloading_scheduled = TRUE]
  <2>1. more \in Nat /\ k \in MainStates
    <3>1. more \in Nat
      BY <1>2 DEF MainStates
    <3>2. k \in MainStates
      BY Zenon, <1>2 DEF MainStates
    <3> QED BY Zenon, <3>1, <3>2
  <2>2. l \in MainStates
    <3>1. l = [k EXCEPT !.reloads = more]
      BY Zenon, <1>2 DEF MainStates
    <3> HIDE DEF k, l, more
    <3> QED BY Zenon, <2>1, <3>1 DEF MainStates
  <2>3. l.jobs_running = ml.jobs_running /\ l.tasks = ml.tasks /\ l.pc = ml.pc
        /\ l.sync_call_actions = ml.sync_call_actions
    BY Zenon, <1>2 DEF MainStates
  <2> QED BY Zenon, <2>2, <2>3
<1>4. l.is_reloading_scheduled /\ l.is_terminating = ml.is_terminating
      /\ l.exit_timer = ml.exit_timer /\ l.iv_quit = ml.iv_quit
  BY Zenon, <1>2 DEF MainStates
<1> HIDE DEF l
<1>5. ml.sync_call_actions = <<>> /\ ~ml.iv_quit /\ ~ml.exit_timer /\ ~ReenablePending
  BY Zenon, <1>1 DEF IInv, SyncInv, IdleInv, ReenableInv, Idle
<1>6. Append(<<>>, "apply") = <<"apply">>
  OBVIOUS
<1>7. /\ ml' \in MainStates /\ ml'.jobs_running = ml.jobs_running /\ ml'.tasks = ml.tasks
      /\ src' \in [Threaded -> Workers]
      /\ \A t \in Threaded : (src'[t].pc \in {"stopped", "stopping"} \/ src[t].pc \in {"stopped", "stopping"})
                             => src'[t].pc = src[t].pc
      /\ ml'.sync_call_actions = <<"apply">> /\ ml'.is_reloading_scheduled
      /\ ~ml'.is_terminating /\ ~ml'.exit_timer /\ ~ml'.iv_quit
      /\ IF ml.jobs_running = 0 THEN ml'.pc = "sync" ELSE ml'.pc = "idle" /\ ml'.workers_quit
  BY Zenon, <1>1, <1>3, <1>4, <1>5, <1>6, SyncCallKeeps DEF Idle
<1>8. SyncInv'
  <2>1. IdleInv'
    BY <1>7 DEF IdleInv
  <2>2. RunningInv'
    BY <1>7 DEF RunningInv, FinishQueued
  <2>3. ReenableInv'
    BY Zenon, <1>5, <1>7 DEF ReenableInv, ReenablePending
  <2> QED BY Zenon, <1>7, <2>1, <2>2, <2>3 DEF SyncInv
<1> QED BY Zenon, <1>1, <1>2, <1>7, <1>8, MainThreadOnly

\* A shutdown is queued behind a reload.
LEMMA FinishComesSecond ==
  /\ Append(<<>>, "finish") = <<"finish">>
  /\ Append(<<"apply">>, "finish") = <<"apply", "finish">>
<1> DEFINE S == {"apply", "finish"}
           one == <<"apply">>
           two == <<"apply", "finish">>
<1>1. one \in Seq(S) /\ Len(one) = 1 /\ one[1] = "apply"
  OBVIOUS
<1>2. two \in Seq(S) /\ Len(two) = 2 /\ two[1] = "apply" /\ two[2] = "finish"
  OBVIOUS
<1>3. Append(<<>>, "finish") = <<"finish">>
  OBVIOUS
<1> HIDE DEF one, two
<1>4. "finish" \in S
  BY Zenon
<1> HIDE DEF S
<1>5. Append(one, "finish") \in Seq(S) /\ Len(Append(one, "finish")) = 2
      /\ Append(one, "finish")[1] = "apply" /\ Append(one, "finish")[2] = "finish"
  <2>1. /\ Append(one, "finish") \in Seq(S)
        /\ Len(Append(one, "finish")) = Len(one) + 1
        /\ \A i \in 1 .. Len(one) : Append(one, "finish")[i] = one[i]
        /\ Append(one, "finish")[Len(one) + 1] = "finish"
    <3>1. \A seq \in Seq(S) : \A e \in S :
            /\ Append(seq, e) \in Seq(S)
            /\ Len(Append(seq, e)) = Len(seq) + 1
            /\ \A i \in 1 .. Len(seq) : Append(seq, e)[i] = seq[i]
            /\ Append(seq, e)[Len(seq) + 1] = e
      OBVIOUS
    <3> QED BY <1>1, <1>4, <3>1, Zenon
  <2>2. 1 \in 1 .. Len(one) /\ Len(one) + 1 = 2
    BY <1>1
  <2> QED BY <1>1, <2>1, <2>2, Zenon
<1>6. \A i \in 1 .. 2 : i = 1 \/ i = 2
  OBVIOUS
<1>7. Append(one, "finish") = two
  BY <1>2, <1>5, <1>6
<1> QED BY Zenon, <1>3, <1>7 DEF one, two

\* main_loop_exit_timer_elapsed().
LEMMA ExitTimerStep ==
  ASSUME IInv, ExitTimerElapsed
  PROVE  IInv'
<1> DEFINE l == [ml EXCEPT !.exit_timer = FALSE]
<1>1. Idle /\ ml.exit_timer /\ SyncCall(l, "finish") /\ UNCHANGED <<job, watch, ts, part, posted>>
  BY Zenon DEF ExitTimerElapsed
<1>2. ml \in MainStates /\ Unique(ml.tasks)
  BY Zenon DEF IInv, TypeInv, ReaderInv
<1>3. l \in MainStates /\ l.jobs_running = ml.jobs_running /\ l.tasks = ml.tasks /\ l.pc = ml.pc
      /\ l.sync_call_actions = ml.sync_call_actions
  BY Zenon, <1>2 DEF MainStates
<1>4. ~l.exit_timer /\ l.is_terminating = ml.is_terminating
      /\ l.is_reloading_scheduled = ml.is_reloading_scheduled /\ l.iv_quit = ml.iv_quit
  BY Zenon, <1>2 DEF MainStates
<1> HIDE DEF l
<1>5. /\ ml.is_terminating /\ ~ml.iv_quit
      /\ ml.sync_call_actions = IF ml.is_reloading_scheduled THEN <<"apply">> ELSE <<>>
      /\ ReenablePending => ml.jobs_running = 0
  BY Zenon, <1>1 DEF IInv, SyncInv, IdleInv, ReenableInv, Idle
<1>6. Append(<<>>, "finish") = <<"finish">> /\ Append(<<"apply">>, "finish") = <<"apply", "finish">>
  BY Zenon, FinishComesSecond
<1>7. /\ ml' \in MainStates /\ ml'.jobs_running = ml.jobs_running /\ ml'.tasks = ml.tasks
      /\ src' \in [Threaded -> Workers]
      /\ \A t \in Threaded : (src'[t].pc \in {"stopped", "stopping"} \/ src[t].pc \in {"stopped", "stopping"})
                             => src'[t].pc = src[t].pc
      /\ ml'.sync_call_actions = Append(ml.sync_call_actions, "finish")
      /\ ml'.is_reloading_scheduled = ml.is_reloading_scheduled
      /\ ml'.is_terminating /\ ~ml'.exit_timer /\ ~ml'.iv_quit
      /\ IF ml.jobs_running = 0 THEN ml'.pc = "sync" ELSE ml'.pc = "idle" /\ ml'.workers_quit
  BY Zenon, <1>1, <1>3, <1>4, <1>5, SyncCallKeeps DEF Idle
<1>8. ml'.sync_call_actions =
        IF ml'.is_reloading_scheduled THEN <<"apply", "finish">> ELSE <<"finish">>
  BY Zenon, <1>5, <1>6, <1>7
<1>9. SyncInv'
  <2>1. IdleInv'
    <3>1. ml'.sync_call_actions # <<>>
      BY <1>8
    <3>2. ml'.pc = "idle" => ml'.workers_quit
      BY Zenon, <1>7
    <3> QED BY <1>7, <1>8, <3>1, <3>2, Zenon DEF IdleInv
  <2>2. RunningInv'
    BY Zenon, <1>7, <1>8 DEF RunningInv, FinishQueued
  <2>3. ReenableInv'
    BY Zenon, <1>5, <1>7 DEF ReenableInv, ReenablePending
  <2> QED BY Zenon, <1>7, <2>1, <2>2, <2>3 DEF SyncInv
<1> QED BY Zenon, <1>1, <1>2, <1>7, <1>9, MainThreadOnly

\* main_loop_exit_initiate().
LEMMA ExitInitiateStep ==
  ASSUME IInv, ExitInitiate
  PROVE  IInv'
<1>1. Idle /\ ~ml.is_terminating /\ UNCHANGED <<src, job, watch, ts, part, posted>>
      /\ ml' = [ml EXCEPT !.is_terminating = TRUE, !.exit_timer = TRUE]
  BY Zenon DEF ExitInitiate
<1>2. ml \in MainStates /\ Unique(ml.tasks) /\ src \in [Threaded -> Workers]
  BY Zenon DEF IInv, TypeInv, ReaderInv
<1>3. ml' \in MainStates
  <2> DEFINE k == [ml EXCEPT !.is_terminating = TRUE]
  <2>1. k \in MainStates
    BY Zenon, <1>2 DEF MainStates
  <2>2. ml' = [k EXCEPT !.exit_timer = TRUE]
    BY Zenon, <1>1, <1>2 DEF MainStates
  <2> HIDE DEF k
  <2> QED BY Zenon, <2>1, <2>2 DEF MainStates
<1>4. ml'.jobs_running = ml.jobs_running /\ ml'.tasks = ml.tasks /\ ml'.pc = ml.pc
      /\ ml'.sync_call_actions = ml.sync_call_actions
  BY Zenon, <1>1, <1>2 DEF MainStates
<1>5. ml'.is_terminating /\ ml'.exit_timer /\ ml'.iv_quit = ml.iv_quit
      /\ ml'.workers_quit = ml.workers_quit
      /\ ml'.is_reloading_scheduled = ml.is_reloading_scheduled
  BY Zenon, <1>1, <1>2 DEF MainStates
<1>6. SyncInv'
  <2>1. IdleInv'
    BY Zenon, <1>1, <1>4, <1>5 DEF IInv, SyncInv, IdleInv
  <2>2. RunningInv'
    BY Zenon, <1>1, <1>4 DEF RunningInv, Idle
  <2>3. ReenableInv'
    BY Zenon, <1>1, <1>4, <1>5 DEF IInv, SyncInv, ReenableInv, ReenablePending, Idle
  <2> QED BY Zenon, <1>5, <2>1, <2>2, <2>3 DEF SyncInv
<1> QED BY Zenon, <1>1, <1>2, <1>3, <1>4, <1>6, MainThreadOnly

\* The reenable task runs: the actions wait for nobody any more.
LEMMA RunReenableTaskStep ==
  ASSUME IInv, RunReenableTask
  PROVE  IInv'
<1>1. Idle /\ ml.tasks # <<>> /\ Head(ml.tasks) = "reenable"
      /\ UNCHANGED <<src, job, watch, ts, part, posted>>
      /\ ml' = [ml EXCEPT !.tasks = Tail(@), !.pc = "sync"]
  BY Zenon DEF RunReenableTask
<1>2. ml \in MainStates /\ Unique(ml.tasks) /\ src \in [Threaded -> Workers]
      /\ ml.tasks \in TaskLists
  BY Zenon DEF IInv, TypeInv, ReaderInv, MainStates
<1>3. /\ Tail(ml.tasks) \in TaskLists /\ Has(ml.tasks, "reenable")
      /\ \A y : Has(Tail(ml.tasks), y) => Has(ml.tasks, y)
      /\ Unique(Tail(ml.tasks)) /\ ~Has(Tail(ml.tasks), "reenable")
  BY Zenon, <1>1, <1>2, TailTask
<1> DEFINE rest == Tail(ml.tasks)
<1>4. ml' = [ml EXCEPT !.tasks = rest, !.pc = "sync"]
  BY Zenon, <1>1
<1> HIDE DEF rest
<1>5. ml' \in MainStates /\ ml'.tasks = rest /\ ml'.pc = "sync"
      /\ ml'.jobs_running = ml.jobs_running /\ ml'.sync_call_actions = ml.sync_call_actions
  <2> DEFINE k == [ml EXCEPT !.tasks = rest]
  <2>1. rest \in TaskLists
    BY Zenon, <1>3 DEF rest
  <2>2. k \in MainStates
    BY Zenon, <1>2, <2>1 DEF MainStates
  <2>3. ml' = [k EXCEPT !.pc = "sync"]
    BY Zenon, <1>2, <1>4 DEF MainStates
  <2>4. ml'.tasks = rest /\ ml'.pc = "sync" /\ ml'.jobs_running = ml.jobs_running
        /\ ml'.sync_call_actions = ml.sync_call_actions
    BY Zenon, <1>2, <1>4 DEF MainStates
  <2> HIDE DEF k
  <2>5. ml' \in MainStates
    BY Zenon, <2>2, <2>3 DEF MainStates
  <2> QED BY Zenon, <2>4, <2>5
<1>6. ml'.is_terminating = ml.is_terminating /\ ml'.exit_timer = ml.exit_timer
      /\ ml'.iv_quit = ml.iv_quit
  BY Zenon, <1>2, <1>4 DEF MainStates
<1>7. ml.jobs_running = 0
  BY Zenon, <1>3 DEF IInv, SyncInv, ReenableInv, ReenablePending
<1>8. /\ ~ml.iv_quit
      /\ ml.sync_call_actions =
            IF ml.is_terminating /\ ~ml.exit_timer
            THEN IF ml.is_reloading_scheduled THEN <<"apply", "finish">> ELSE <<"finish">>
            ELSE IF ml.is_reloading_scheduled THEN <<"apply">> ELSE <<>>
  BY Zenon, <1>1 DEF IInv, SyncInv, IdleInv, Idle
<1>9. SyncInv'
  <2>1. IdleInv'
    BY Zenon, <1>5 DEF IdleInv
  <2>2. RunningInv'
    <3>1. <<"apply">> # <<"finish">> /\ <<"apply">> # <<"apply", "finish">>
          /\ <<>> # <<"finish">> /\ <<>> # <<"apply", "finish">>
      BY Zenon
    <3>2. FinishQueued <=> ml.is_terminating /\ ~ml.exit_timer
      BY <1>8, <3>1, Zenon DEF FinishQueued
    <3>3. ml.sync_call_actions \in {<<>>, <<"apply">>, <<"finish">>, <<"apply", "finish">>}
      BY <1>8, Zenon
    <3>4. FinishQueued' <=> FinishQueued
      BY Zenon, <1>5 DEF FinishQueued
    <3> QED BY Zenon, <1>5, <1>6, <1>7, <1>8, <3>2, <3>3, <3>4 DEF RunningInv
  <2>3. ReenableInv'
    BY Zenon, <1>3, <1>5 DEF ReenableInv, ReenablePending, rest
  <2> QED BY Zenon, <1>6, <2>1, <2>2, <2>3 DEF SyncInv, IInv
<1>10. Unique(ml'.tasks) /\ \A y : Has(ml'.tasks, y) => Has(ml.tasks, y)
  BY Zenon, <1>3, <1>5 DEF rest
<1> QED BY Zenon, <1>1, <1>2, <1>5, <1>9, <1>10, MainThreadOnly

\* _reenable_worker_jobs() after the last action.
LEMMA ReenableWorkerJobsStep ==
  ASSUME IInv, ReenableWorkerJobs
  PROVE  IInv'
<1> DEFINE next == IF ml.iv_quit THEN "quit" ELSE "idle"
<1>1. ml.pc = "sync" /\ ml.sync_call_actions = <<>>
      /\ UNCHANGED <<src, job, watch, ts, part, posted>>
      /\ ml' = [ml EXCEPT !.pc = next, !.workers_quit = FALSE, !.is_reloading_scheduled = FALSE]
  BY Zenon DEF ReenableWorkerJobs
<1>2. ml \in MainStates /\ Unique(ml.tasks) /\ src \in [Threaded -> Workers]
  BY Zenon DEF IInv, TypeInv, ReaderInv
<1>3. next \in {"idle", "sync", "quit"} /\ (next = "idle" <=> ~ml.iv_quit) /\ next # "sync"
  BY Zenon
<1> HIDE DEF next
<1>4. ml' \in MainStates
  <2> DEFINE k == [ml EXCEPT !.pc = next]
             j == [k EXCEPT !.workers_quit = FALSE]
  <2>1. k \in MainStates
    BY Zenon, <1>2, <1>3 DEF MainStates
  <2>2. ml' = [j EXCEPT !.is_reloading_scheduled = FALSE]
    BY Zenon, <1>1, <1>2 DEF MainStates
  <2> HIDE DEF k
  <2>3. j \in MainStates
    BY Zenon, <2>1 DEF MainStates
  <2> HIDE DEF j
  <2> QED BY Zenon, <2>2, <2>3 DEF MainStates
<1>5. ml'.jobs_running = ml.jobs_running /\ ml'.tasks = ml.tasks /\ ml'.pc = next
      /\ ml'.sync_call_actions = ml.sync_call_actions
  BY Zenon, <1>1, <1>2 DEF MainStates
<1>6. ~ml'.workers_quit /\ ~ml'.is_reloading_scheduled /\ ml'.iv_quit = ml.iv_quit
      /\ ml'.is_terminating = ml.is_terminating /\ ml'.exit_timer = ml.exit_timer
  BY Zenon, <1>1, <1>2 DEF MainStates
<1>7. ml.is_terminating /\ ~ml.exit_timer => ml.iv_quit
  <2>1. ~FinishQueued
    BY <1>1 DEF FinishQueued
  <2> QED BY Zenon, <1>1, <2>1 DEF IInv, SyncInv, RunningInv
<1>8. SyncInv'
  <2>1. IdleInv'
    BY Zenon, <1>1, <1>3, <1>5, <1>6, <1>7 DEF IdleInv
  <2>2. RunningInv'
    BY Zenon, <1>3, <1>5 DEF RunningInv
  <2>3. ReenableInv'
    BY Zenon, <1>1, <1>3, <1>5, <1>7 DEF IInv, SyncInv, ReenableInv, ReenablePending
  <2> QED BY Zenon, <1>6, <2>1, <2>2, <2>3 DEF SyncInv, IInv
<1> QED BY Zenon, <1>1, <1>2, <1>4, <1>5, <1>8, MainThreadOnly

\* What is queued while the actions run, after the one in front.
LEMMA ActionsLeft ==
  /\ Head(<<"apply">>) = "apply" /\ Tail(<<"apply">>) = <<>>
  /\ Head(<<"finish">>) = "finish" /\ Tail(<<"finish">>) = <<>>
  /\ Head(<<"apply", "finish">>) = "apply" /\ Tail(<<"apply", "finish">>) = <<"finish">>
  /\ <<"apply">> # <<"finish">> /\ <<"apply">> # <<"apply", "finish">>
  /\ <<>> # <<"finish">> /\ <<>> # <<"apply", "finish">>
<1>1. Head(<<"apply">>) = "apply" /\ Head(<<"finish">>) = "finish"
      /\ Head(<<"apply", "finish">>) = "apply"
  OBVIOUS
<1>2. Tail(<<"apply">>) = <<>> /\ Tail(<<"finish">>) = <<>>
  OBVIOUS
<1>3. Tail(<<"apply", "finish">>) = <<"finish">>
  OBVIOUS
<1>4. <<"apply">> # <<"finish">> /\ <<"apply">> # <<"apply", "finish">>
      /\ <<>> # <<"finish">> /\ <<>> # <<"apply", "finish">>
  BY Zenon
<1> QED BY Zenon, <1>1, <1>2, <1>3, <1>4

\* An action that is left over keeps the main thread's invariant.
LEMMA ActionTaken ==
  ASSUME Counting, IInv, ml.pc = "sync", ml.sync_call_actions # <<>>
  PROVE  /\ ml.jobs_running = 0 /\ ~ml.iv_quit /\ WorkersStopped
         /\ Head(ml.sync_call_actions) # "apply" => ml.sync_call_actions = <<"finish">>
         /\ ml.is_terminating /\ ~ml.exit_timer => FinishQueued
         /\ FinishQueued => ml.is_terminating /\ ~ml.exit_timer
         /\ ml.sync_call_actions \in {<<"apply">>, <<"finish">>, <<"apply", "finish">>}
<1>1. ml.jobs_running = 0 /\ ~ml.iv_quit
      /\ (ml.is_terminating /\ ~ml.exit_timer => FinishQueued)
      /\ (FinishQueued => ml.is_terminating /\ ~ml.exit_timer)
      /\ ml.sync_call_actions \in {<<"apply">>, <<"finish">>, <<"apply", "finish">>}
  BY Zenon DEF IInv, SyncInv, RunningInv
<1>2. LiveJobs = {}
  BY Zenon, <1>1, CounterIsZero DEF IInv
<1>3. WorkersStopped
  BY Zenon, <1>2, StoppedIsEmpty DEF IInv
<1>4. Head(ml.sync_call_actions) # "apply" => ml.sync_call_actions = <<"finish">>
  BY Zenon, <1>1, ActionsLeft
<1> QED BY Zenon, <1>1, <1>3, <1>4

\* The new configuration starts on an empty one.
LEMMA ConfigStartsStep ==
  ASSUME Counting, IInv, NEW l \in MainStates, ConfigStarts(l), UNCHANGED <<job, posted>>,
         LiveJobs = {}, l.jobs_running = 0, l.pc = "sync", l.sync_call_actions = <<>>,
         ~l.is_terminating, ~l.exit_timer, ~Has(l.tasks, "reenable")
  PROVE  IInv'
<1>1. l.tasks \in TaskLists /\ src \in [Threaded -> Workers]
      /\ job \in [Jobs -> {"idle", "queued", "working", "done"}] /\ posted \in [Sources -> Nat]
  BY Zenon DEF IInv, TypeInv, MainStates
<1> DEFINE tasks == WithoutReaderTasks(l.tasks)
           count == Cardinality(Threaded)
<1>2. tasks \in TaskLists /\ Unique(tasks) /\ \A y : ~Has(tasks, y)
  BY Zenon, <1>1, ReenableTaskStays
<1>3. count \in Nat
  BY Zenon DEF Counting, Counts
<1>4. ml' = [l EXCEPT !.jobs_running = @ + count,
                      !.exit_notification_list = @ \cup Threaded, !.tasks = tasks]
  BY Zenon DEF ConfigStarts
<1> HIDE DEF tasks, count
<1>5. ml' \in MainStates
  <2> DEFINE k == [l EXCEPT !.jobs_running = @ + count]
             j == [k EXCEPT !.exit_notification_list = @ \cup Threaded]
  <2>1. k \in MainStates
    BY <1>3 DEF MainStates
  <2>2. ml' = [j EXCEPT !.tasks = tasks]
    BY Zenon, <1>4 DEF MainStates
  <2> HIDE DEF k
  <2>3. j \in MainStates
    BY Zenon, <2>1 DEF MainStates
  <2> HIDE DEF j
  <2> QED BY Zenon, <1>2, <2>2, <2>3 DEF MainStates
<1>6. ml'.jobs_running = count /\ ml'.tasks = tasks /\ ml'.pc = "sync"
      /\ ml'.sync_call_actions = <<>>
  BY <1>3, <1>4 DEF MainStates
<1>7. ~ml'.is_terminating /\ ~ml'.exit_timer
  BY Zenon, <1>4 DEF MainStates
<1>8. src' \in [Threaded -> Workers] /\ \A t \in Threaded : src'[t].pc = "woken"
  BY Zenon, <1>1, StartedWorkerType DEF ConfigStarts
<1>9. watch' = [r \in Readers |-> "poll"] /\ ts' = FreshThreadStates
      /\ part' = [p \in Partitions |-> NewPartition]
  BY Zenon DEF ConfigStarts
<1>10. TypeInv'
  <2>1. watch' \in [Readers -> {"poll", "task", "nothing"}]
    BY Zenon, <1>9
  <2>2. ts' \in [Sources -> ThreadStates] /\ part' \in [Partitions -> PartitionStates]
    BY Zenon, <1>9, FreshTypes
  <2> QED BY Zenon, <1>1, <1>5, <1>8, <2>1, <2>2 DEF TypeInv
<1>11. \A j \in Jobs : job'[j] = "idle"
  BY Zenon DEF LiveJobs
<1>12. JobsAreCounted'
  <2>1. LiveJobs' = Threaded
    BY Zenon, <1>8, <1>11 DEF LiveJobs
  <2> QED BY Zenon, <1>6, <2>1 DEF JobsAreCounted, count
<1>13. /\ \A s \in Sources : ts'[s].submit = {} /\ ts'[s].todo = {} /\ ~ts'[s].registered
                             /\ \A p \in Partitions : ts'[s].elements[p] = <<>>
       /\ \A p \in Partitions : part'[p].batches = <<>> /\ part'[p].local = <<>>
                                /\ ~part'[p].flush_running
  BY Zenon, <1>9 DEF FreshThreadStates, NewThreadState, NewPartition
<1>14. ServedInv'
  BY Zenon, <1>11, <1>13 DEF ServedInv, Jobs
<1>15. QuietInv'
  BY Zenon, <1>13 DEF QuietInv, Settled
<1>16. ReaderInv'
  BY Zenon, <1>2, <1>6, <1>11 DEF ReaderInv, Jobs
<1>17. SyncInv'
  <2>1. ~FinishQueued'
    BY <1>6 DEF FinishQueued
  <2> QED BY Zenon, <1>2, <1>6, <1>7, <2>1
      DEF SyncInv, IdleInv, RunningInv, ReenableInv, ReenablePending
<1> QED BY Zenon, <1>10, <1>12, <1>14, <1>15, <1>16, <1>17 DEF IInv

\* _invoke_sync_call_actions(), one action.
LEMMA InvokeSyncCallActionStep ==
  ASSUME Counting, IInv, InvokeSyncCallAction
  PROVE  IInv'
<1> DEFINE rest == Tail(ml.sync_call_actions)
           l == [ml EXCEPT !.sync_call_actions = rest]
<1>1. ml.pc = "sync" /\ ml.sync_call_actions # <<>> /\ UNCHANGED <<job, posted>>
  BY Zenon DEF InvokeSyncCallAction
<1>2. /\ ml.jobs_running = 0 /\ ~ml.iv_quit /\ WorkersStopped
      /\ Head(ml.sync_call_actions) # "apply" => ml.sync_call_actions = <<"finish">>
      /\ ml.is_terminating /\ ~ml.exit_timer => FinishQueued
      /\ FinishQueued => ml.is_terminating /\ ~ml.exit_timer
      /\ ml.sync_call_actions \in {<<"apply">>, <<"finish">>, <<"apply", "finish">>}
  BY Zenon, <1>1, ActionTaken
<1>3. rest \in ActionLists /\ rest \in {<<>>, <<"finish">>}
      /\ (ml.sync_call_actions = <<"apply", "finish">> <=> rest = <<"finish">>)
  <2>1. <<>> \in ActionLists /\ <<"finish">> \in ActionLists
    BY DEF ActionLists
  <2>2. CASE ml.sync_call_actions = <<"apply", "finish">>
    <3>1. rest = <<"finish">>
      BY Zenon, <2>2, ActionsLeft
    <3> QED BY <2>1, <2>2, <3>1, Zenon
  <2>3. CASE ml.sync_call_actions # <<"apply", "finish">>
    <3>1. rest = <<>>
      BY Zenon, <1>2, <2>3, ActionsLeft
    <3>2. rest # <<"finish">>
      BY Zenon, <3>1, ActionsLeft
    <3> QED BY <2>1, <2>3, <3>1, <3>2, Zenon
  <2> QED BY Zenon, <2>2, <2>3
<1>4. ml \in MainStates /\ Unique(ml.tasks) /\ src \in [Threaded -> Workers]
      /\ ml.tasks \in TaskLists
  BY Zenon DEF IInv, TypeInv, ReaderInv, MainStates
<1>5. ml.exit_timer => ml.is_terminating
  BY Zenon DEF IInv, SyncInv
<1>6. /\ Head(ml.sync_call_actions) = "apply" => ReloadConfigApply(l)
      /\ Head(ml.sync_call_actions) # "apply" => ExitFinish(l)
  BY Zenon DEF InvokeSyncCallAction
<1> HIDE DEF rest
<1>7. l \in MainStates /\ l.pc = "sync" /\ l.jobs_running = 0 /\ l.tasks = ml.tasks
      /\ l.sync_call_actions = rest
  BY Zenon, <1>1, <1>2, <1>3, <1>4 DEF MainStates
<1>8. l.is_terminating = ml.is_terminating /\ l.exit_timer = ml.exit_timer
      /\ l.iv_quit = ml.iv_quit
  BY Zenon, <1>4 DEF MainStates
<1> HIDE DEF l
<1>9. ReenablePending => ml.is_terminating /\ ~ml.exit_timer
  BY Zenon, <1>1 DEF IInv, SyncInv, ReenableInv
<1>10. CASE Head(ml.sync_call_actions) = "apply" /\ l.is_terminating
  <2>1. ml' = [l EXCEPT !.is_reloading_scheduled = FALSE] /\ UNCHANGED <<src, watch, ts, part>>
    BY Zenon, <1>6, <1>10 DEF ReloadConfigApply
  <2>2. ml' \in MainStates /\ ml'.pc = "sync" /\ ml'.jobs_running = 0 /\ ml'.tasks = ml.tasks
        /\ ml'.sync_call_actions = rest
    BY Zenon, <1>7, <2>1 DEF MainStates
  <2>3. ml'.is_terminating = ml.is_terminating /\ ml'.exit_timer = ml.exit_timer
        /\ ml'.iv_quit = ml.iv_quit
    BY Zenon, <1>7, <1>8, <2>1 DEF MainStates
  <2>4. ml.sync_call_actions # <<"finish">>
    BY Zenon, <1>10, ActionsLeft
  <2>5. FinishQueued' <=> FinishQueued
    BY Zenon, <1>3, <2>2, <2>4, ActionsLeft DEF FinishQueued
  <2>6. SyncInv'
    <3>1. IdleInv' /\ ReenableInv'
      BY Zenon, <1>9, <2>2, <2>3 DEF IdleInv, ReenableInv, ReenablePending
    <3>2. RunningInv'
      BY Zenon, <1>2, <1>3, <2>2, <2>3, <2>5 DEF RunningInv
    <3> QED BY Zenon, <1>5, <2>3, <3>1, <3>2 DEF SyncInv
  <2> QED BY Zenon, <1>1, <1>2, <1>4, <2>1, <2>2, <2>6, MainThreadOnly
<1>11. CASE Head(ml.sync_call_actions) = "apply" /\ ~l.is_terminating
  <2>1. PICK version \in {l.config, l.config + 1} : ConfigStarts([l EXCEPT !.config = version])
    BY Zenon, <1>6, <1>11 DEF ReloadConfigApply
  <2> DEFINE k == [l EXCEPT !.config = version]
  <2>2. version \in Nat
    BY <1>7 DEF MainStates
  <2>3. k \in MainStates /\ k.pc = "sync" /\ k.jobs_running = 0 /\ k.tasks = ml.tasks
        /\ k.sync_call_actions = rest
    BY Zenon, <1>7, <2>2 DEF MainStates
  <2>4. k.is_terminating = ml.is_terminating /\ k.exit_timer = ml.exit_timer
    BY Zenon, <1>7, <1>8, <2>2 DEF MainStates
  <2> HIDE DEF k
  <2>5. ~ml.is_terminating /\ ~ml.exit_timer /\ ~FinishQueued /\ ~Has(ml.tasks, "reenable")
    BY Zenon, <1>2, <1>5, <1>8, <1>9, <1>11 DEF ReenablePending
  <2>6. rest = <<>>
    BY Zenon, <1>3, <2>5 DEF FinishQueued
  <2>7. LiveJobs = {} /\ ConfigStarts(k)
    BY Zenon, <1>2, <2>1 DEF WorkersStopped, k
  <2> QED BY Zenon, <1>1, <2>3, <2>4, <2>5, <2>6, <2>7, ConfigStartsStep
<1>12. CASE Head(ml.sync_call_actions) # "apply"
  <2> DEFINE tasks == WithoutReaderTasks(ml.tasks)
  <2>1. ml' = [l EXCEPT !.iv_quit = TRUE, !.tasks = tasks]
        /\ watch' = [r \in Readers |-> "nothing"] /\ UNCHANGED <<src, ts, part>>
    BY Zenon, <1>6, <1>7, <1>12 DEF ExitFinish
  <2>2. tasks \in TaskLists /\ Unique(tasks)
        /\ \A y : Has(tasks, y) => y = "reenable" /\ Has(ml.tasks, y)
    BY Zenon, <1>4, ReenableTaskStays
  <2> HIDE DEF tasks
  <2>3. ml' \in MainStates
    <3> DEFINE k == [l EXCEPT !.iv_quit = TRUE]
    <3>1. k \in MainStates
      BY Zenon, <1>7 DEF MainStates
    <3>2. ml' = [k EXCEPT !.tasks = tasks]
      BY Zenon, <1>7, <2>1 DEF MainStates
    <3> HIDE DEF k
    <3> QED BY Zenon, <2>2, <3>1, <3>2 DEF MainStates
  <2>4. ml'.pc = "sync" /\ ml'.jobs_running = 0 /\ ml'.tasks = tasks
        /\ ml'.sync_call_actions = rest
    BY Zenon, <1>7, <2>1 DEF MainStates
  <2>5. ml'.iv_quit /\ ml'.is_terminating = ml.is_terminating /\ ml'.exit_timer = ml.exit_timer
    BY Zenon, <1>7, <1>8, <2>1 DEF MainStates
  <2>6. rest = <<>>
    BY Zenon, <1>2, <1>3, <1>12, ActionsLeft
  <2>7. SyncInv'
    <3>1. IdleInv' /\ ReenableInv'
      BY Zenon, <1>9, <2>2, <2>4, <2>5 DEF IdleInv, ReenableInv, ReenablePending
    <3>2. ~FinishQueued'
      BY Zenon, <2>4, <2>6, ActionsLeft DEF FinishQueued
    <3>3. RunningInv'
      BY Zenon, <2>4, <2>5, <2>6, <3>2 DEF RunningInv
    <3> QED BY Zenon, <1>5, <2>5, <3>1, <3>3 DEF SyncInv
  <2>8. TypeInv'
    <3>1. watch' \in [Readers -> {"poll", "task", "nothing"}]
      BY Zenon, <2>1
    <3> QED BY Zenon, <1>1, <2>1, <2>3, <3>1 DEF IInv, TypeInv
  <2>9. JobsAreCounted'
    BY Zenon, <1>1, <1>2, <2>1, <2>4, SameJobs DEF IInv, LiveJobs
  <2>10. ServedInv' /\ QuietInv'
    BY Zenon, <1>1, <2>1, SameService, SameThreads DEF IInv, Active
  <2>11. ReaderInv'
    BY Zenon, <2>1, <2>2, <2>4, WorkersAssumption DEF ReaderInv
  <2> QED BY Zenon, <2>7, <2>8, <2>9, <2>10, <2>11 DEF IInv
<1> QED BY Zenon, <1>10, <1>11, <1>12

----------------------------------------------------------------------------
(* The theorems.                                                           *)

\* main_loop_init() and the start of the first configuration.
LEMMA InitHolds ==
  ASSUME Counting, Init
  PROVE  IInv
<1> DEFINE count == Cardinality(Threaded)
<1>1. count \in Nat
  BY Zenon DEF Counting, Counts
<1>2. <<>> \in ActionLists /\ <<>> \in TaskLists
  BY DEF ActionLists, TaskLists
<1>3. ml = [pc |-> "idle", jobs_running |-> count, workers_quit |-> FALSE,
            is_reloading_scheduled |-> FALSE, is_terminating |-> FALSE,
            sync_call_actions |-> <<>>, exit_notification_list |-> Threaded,
            tasks |-> <<>>, exit_timer |-> FALSE, iv_quit |-> FALSE, config |-> 0,
            reloads |-> 0]
  BY Zenon DEF Init
<1> HIDE DEF count
<1>4. ml \in MainStates
  BY <1>1, <1>2, <1>3 DEF MainStates
<1>5. ml.pc = "idle" /\ ml.jobs_running = count /\ ml.tasks = <<>>
      /\ ml.sync_call_actions = <<>> /\ ~ml.workers_quit /\ ~ml.is_reloading_scheduled
      /\ ~ml.is_terminating /\ ~ml.exit_timer /\ ~ml.iv_quit
  BY Zenon, <1>3
<1>6. src \in [Threaded -> Workers] /\ \A t \in Threaded : src[t].pc = "woken"
  <2>1. InitWindow \in Int /\ StoppedWorker \in Workers
    BY WorkersAssumption DEF StoppedWorker, Workers, ThreadPCs
  <2>2. [StoppedWorker EXCEPT !.pc = "woken"] \in Workers
        /\ [StoppedWorker EXCEPT !.pc = "woken"].pc = "woken"
    BY Zenon, <2>1 DEF Workers, ThreadPCs
  <2> QED BY Zenon, <2>2 DEF Init, StartedAs
<1>7. job = [j \in Jobs |-> "idle"] /\ watch = [r \in Readers |-> "poll"]
      /\ ts = FreshThreadStates /\ part = [p \in Partitions |-> NewPartition]
      /\ posted = [s \in Sources |-> 0]
  BY Zenon DEF Init
<1>8. TypeInv
  <2>1. job \in [Jobs -> {"idle", "queued", "working", "done"}]
        /\ watch \in [Readers -> {"poll", "task", "nothing"}] /\ posted \in [Sources -> Nat]
    BY Zenon, <1>7
  <2> QED BY Zenon, <1>4, <1>6, <1>7, <2>1, FreshTypes DEF TypeInv
<1>9. JobsAreCounted
  <2>1. LiveJobs = Threaded
    BY Zenon, <1>6, <1>7 DEF LiveJobs
  <2> QED BY Zenon, <1>5, <2>1 DEF JobsAreCounted, count
<1>10. /\ \A s \in Sources : ts[s].submit = {} /\ ts[s].todo = {} /\ ~ts[s].registered
                             /\ \A p \in Partitions : ts[s].elements[p] = <<>>
       /\ \A p \in Partitions : part[p].batches = <<>> /\ part[p].local = <<>>
                                /\ ~part[p].flush_running
  BY Zenon, <1>7 DEF FreshThreadStates, NewThreadState, NewPartition
<1>11. ServedInv
  BY Zenon, <1>7, <1>10 DEF ServedInv, Jobs
<1>12. QuietInv
  BY Zenon, <1>10 DEF QuietInv, Settled
<1>13. \A y : ~Has(<<>>, y)
  BY DEF Has
<1>14. ReaderInv
  <2>1. \A r \in Readers : job[r] = "idle"
    BY Zenon, <1>7 DEF Jobs
  <2>2. Unique(<<>>)
    BY DEF Unique
  <2> QED BY <1>5, <1>13, <2>1, <2>2, Zenon DEF ReaderInv
<1>15. SyncInv
  BY Zenon, <1>5, <1>13 DEF SyncInv, IdleInv, RunningInv, ReenableInv, ReenablePending
<1> QED BY Zenon, <1>8, <1>9, <1>11, <1>12, <1>14, <1>15 DEF IInv

\* Every step of every thread keeps the invariant.
LEMMA NextKeeps ==
  ASSUME Counting, IInv, [Next]_vars
  PROVE  IInv'
<1>1. CASE InvokeSyncCallAction \/ ReenableWorkerJobs \/ ExitTimerElapsed \/ RunReenableTask
           \/ ReloadConfig \/ ExitInitiate
  BY Zenon, <1>1, InvokeSyncCallActionStep, ReenableWorkerJobsStep, ExitTimerStep,
     RunReenableTaskStep, ReloadConfigStep, ExitInitiateStep
<1>2. ASSUME NEW t \in Threaded, ThreadedStep(t) \/ ThreadStop(t) \/ Ack(t) \/ Wakeup(t)
      PROVE  IInv'
  <2>1. t \in Sources
    BY Zenon DEF Sources
  <2>2. CASE CloseAfterPost(t) \/ EndRequest(t)
    BY Zenon, <2>1, <2>2, CloseStep DEF CloseAfterPost, EndRequest, MustClose
  <2>3. CASE MoveBatch(t) \/ SubmitContinuation(t)
    BY Zenon, <2>1, <2>3, MoveBatchStep, SubmitContinuationStep
  <2>4. CASE Post(t) \/ Suspend(t) \/ ThreadDeinit(t) \/ ThreadStop(t) \/ Ack(t) \/ Wakeup(t)
    BY Zenon, <2>4, PostStep, WorkerStep, ThreadDeinitStep, ThreadStopStep
  <2> QED BY Zenon, <1>2, <2>2, <2>3, <2>4 DEF ThreadedStep
<1>3. ASSUME NEW r \in Readers, ReaderStep(r) \/ PollEvent(r) \/ RunRestartTask(r)
                                \/ \E forced \in BOOLEAN : ReaderComplete(r, forced)
      PROVE  IInv'
  <2>1. r \in Sources /\ r \in Jobs
    BY Zenon DEF Sources, Jobs
  <2>2. CASE ReaderCloseBatch(r)
    BY Zenon, <2>1, <2>2, CloseStep DEF ReaderCloseBatch
  <2>3. CASE MoveBatch(r) \/ SubmitContinuation(r)
    BY Zenon, <2>1, <2>3, MoveBatchStep, SubmitContinuationStep
  <2>4. CASE StartWork(r) \/ ReaderPost(r) \/ ReaderWorkEnds(r)
    BY Zenon, <2>1, <2>4, StartWorkStep, ReaderPostStep, WorkEndsStep
  <2>5. CASE PollEvent(r) \/ RunRestartTask(r) \/ \E forced \in BOOLEAN : ReaderComplete(r, forced)
    BY Zenon, <2>5, ReaderStartsStep, ReaderCompleteStep
  <2> QED BY Zenon, <1>3, <2>2, <2>3, <2>4, <2>5 DEF ReaderStep
<1>4. ASSUME NEW p \in Partitions, PartitionStep(p) \/ PartitionComplete(p)
      PROVE  IInv'
  <2>1. p \in Jobs
    BY Zenon DEF Jobs
  <2>2. CASE StartWork(p) \/ PartitionWorkEnds(p)
    BY Zenon, <2>1, <2>2, StartWorkStep, WorkEndsStep
  <2>3. CASE PartitionTakes(p) \/ PartitionPasses(p) \/ PartitionComplete(p)
    BY Zenon, <2>3, PartitionTakesStep, PartitionPassesStep, PartitionCompleteStep
  <2> QED BY Zenon, <1>4, <2>2, <2>3 DEF PartitionStep
<1>5. CASE UNCHANGED vars
  <2>1. UNCHANGED <<ml, src, job, watch, ts, part, posted>>
    BY Zenon, <1>5 DEF vars
  <2>2. TypeInv' /\ JobsAreCounted'
    BY Zenon, <2>1 DEF IInv, TypeInv, JobsAreCounted, LiveJobs
  <2>5. ServedInv'
    BY Zenon, <2>1, SameService DEF IInv
  <2>3. QuietInv'
    BY Zenon, <2>1, SameThreads DEF IInv, Active
  <2>4. ReaderInv' /\ SyncInv'
    BY Zenon, <2>1, SameMainThread DEF IInv
  <2> QED BY Zenon, <2>2, <2>3, <2>4, <2>5 DEF IInv
<1> QED BY Zenon, <1>1, <1>2, <1>3, <1>4, <1>5 DEF Next

\* Only the main thread takes an action from the list.
LEMMA OthersKeepActions ==
  ASSUME IInv, [Next]_vars, ~InvokeSyncCallAction
  PROVE  \/ ml'.sync_call_actions = ml.sync_call_actions
         \/ \E action : ml'.sync_call_actions = Append(ml.sync_call_actions, action)
<1>1. ml \in MainStates /\ ml.tasks \in TaskLists
  BY Zenon DEF IInv, TypeInv, MainStates
<1>2. CASE ReloadConfig
  <2> DEFINE l == [ml EXCEPT !.is_reloading_scheduled = TRUE, !.reloads = @ + 1]
             actions == Append(l.sync_call_actions, "apply")
             queued == [l EXCEPT !.sync_call_actions = actions]
  <2>1. l.sync_call_actions = ml.sync_call_actions
    BY Zenon, <1>1 DEF MainStates
  <2>2. actions = Append(ml.sync_call_actions, "apply")
    BY Zenon, <2>1
  <2>3. \/ ml' = [queued EXCEPT !.pc = "sync"]
        \/ ml' = [queued EXCEPT !.exit_notification_list = {}, !.workers_quit = TRUE]
    BY Zenon, <1>2 DEF ReloadConfig, SyncCall, RequestAllThreadsToExit
  <2> HIDE DEF actions
  <2>4. ml'.sync_call_actions = actions
    BY Zenon, <1>1, <2>3 DEF MainStates
  <2> QED BY Zenon, <2>2, <2>4
<1>3. CASE ExitTimerElapsed
  <2> DEFINE l == [ml EXCEPT !.exit_timer = FALSE]
             actions == Append(l.sync_call_actions, "finish")
             queued == [l EXCEPT !.sync_call_actions = actions]
  <2>1. l.sync_call_actions = ml.sync_call_actions
    BY Zenon, <1>1 DEF MainStates
  <2>2. actions = Append(ml.sync_call_actions, "finish")
    BY Zenon, <2>1
  <2>3. \/ ml' = [queued EXCEPT !.pc = "sync"]
        \/ ml' = [queued EXCEPT !.exit_notification_list = {}, !.workers_quit = TRUE]
    BY Zenon, <1>3 DEF ExitTimerElapsed, SyncCall, RequestAllThreadsToExit
  <2> HIDE DEF actions
  <2>4. ml'.sync_call_actions = actions
    BY Zenon, <1>1, <2>3 DEF MainStates
  <2> QED BY Zenon, <2>2, <2>4
<1>4. CASE ReenableWorkerJobs \/ RunReenableTask \/ ExitInitiate
  BY Zenon, <1>1, <1>4 DEF ReenableWorkerJobs, RunReenableTask, ExitInitiate, MainStates
<1>5. ASSUME NEW t \in Threaded, ThreadedStep(t) \/ ThreadStop(t) \/ Ack(t) \/ Wakeup(t)
      PROVE  ml'.sync_call_actions = ml.sync_call_actions
  <2>1. CASE SubmitContinuation(t) \/ ThreadStop(t)
    BY <1>1, <2>1, JobStartType, JobCompleteType DEF SubmitContinuation, ThreadStop, SameCourse
  <2>2. CASE Post(t) \/ CloseAfterPost(t) \/ Suspend(t) \/ EndRequest(t) \/ ThreadDeinit(t)
             \/ MoveBatch(t) \/ Ack(t) \/ Wakeup(t)
    BY Zenon, <2>2 DEF Post, CloseAfterPost, Suspend, EndRequest, ThreadDeinit, MoveBatch, Ack, Wakeup
  <2> QED BY Zenon, <1>5, <2>1, <2>2 DEF ThreadedStep
<1>6. ASSUME NEW r \in Readers, ReaderStep(r) \/ PollEvent(r) \/ RunRestartTask(r)
                                \/ \E forced \in BOOLEAN : ReaderComplete(r, forced)
      PROVE  ml'.sync_call_actions = ml.sync_call_actions
  <2>1. CASE SubmitContinuation(r)
    BY Zenon, <1>1, <2>1, JobStartType DEF SubmitContinuation, SameCourse
  <2>2. CASE StartWork(r) \/ ReaderPost(r) \/ ReaderCloseBatch(r) \/ ReaderWorkEnds(r)
             \/ MoveBatch(r)
    BY Zenon, <2>2 DEF StartWork, ReaderPost, ReaderCloseBatch, ReaderWorkEnds, MoveBatch
  <2>3. CASE PollEvent(r)
    BY Zenon, <1>1, <2>3, JobStartType DEF PollEvent, IoHandleIn, SameCourse
  <2>4. CASE RunRestartTask(r)
    <3> DEFINE rest == Tail(ml.tasks)
               l == [ml EXCEPT !.tasks = rest]
    <3>1. ml.tasks # <<>> /\ (ml' = l \/ ml' = JobStart(l))
      BY Zenon, <2>4 DEF RunRestartTask, IoHandleIn
    <3>2. rest \in TaskLists
      BY <1>1, <3>1 DEF TaskLists
    <3> HIDE DEF rest
    <3>3. l \in MainStates /\ l.sync_call_actions = ml.sync_call_actions
      BY Zenon, <1>1, <3>2 DEF MainStates
    <3> HIDE DEF l
    <3> QED BY <3>1, <3>3, JobStartType DEF SameCourse
  <2>5. ASSUME NEW forced \in BOOLEAN, ReaderComplete(r, forced)
        PROVE  ml'.sync_call_actions = ml.sync_call_actions
    <3> DEFINE more == Append(ml.tasks, r)
               l == [ml EXCEPT !.tasks = more]
    <3>1. ml' = JobComplete(ml) \/ ml' = JobComplete(l)
      BY Zenon, <2>5 DEF ReaderComplete
    <3>2. more \in TaskLists
      BY <1>1 DEF TaskLists
    <3> HIDE DEF more
    <3>3. l \in MainStates /\ l.sync_call_actions = ml.sync_call_actions
      BY Zenon, <1>1, <3>2 DEF MainStates
    <3> HIDE DEF l
    <3> QED BY <1>1, <3>1, <3>3, JobCompleteType DEF SameCourse
  <2> QED BY Zenon, <1>6, <2>1, <2>2, <2>3, <2>4, <2>5 DEF ReaderStep
<1>7. ASSUME NEW p \in Partitions, PartitionStep(p) \/ PartitionComplete(p)
      PROVE  ml'.sync_call_actions = ml.sync_call_actions
  <2>1. CASE PartitionComplete(p)
    <3>1. ml' = JobComplete(ml) \/ ml' = JobComplete(JobStart(ml))
      BY Zenon, <2>1 DEF PartitionComplete
    <3> QED BY <1>1, <3>1, JobStartType, JobCompleteType DEF SameCourse
  <2>2. CASE StartWork(p) \/ PartitionTakes(p) \/ PartitionPasses(p) \/ PartitionWorkEnds(p)
    BY Zenon, <2>2 DEF StartWork, PartitionTakes, PartitionPasses, PartitionWorkEnds
  <2> QED BY Zenon, <1>7, <2>1, <2>2 DEF PartitionStep
<1>8. CASE UNCHANGED vars
  BY Zenon, <1>8 DEF vars
<1> QED BY Zenon, <1>2, <1>3, <1>4, <1>5, <1>6, <1>7, <1>8 DEF Next

----------------------------------------------------------------------------
(* The order of the messages of one key.                                   *)

\* _get_partition_index() with partition-key().
PartitionOf(s, n) == HashOf[s][n] % NumPartitions

\* A batch of partition p: one thread's messages, of that partition, in the
\* order in which they were posted.
BatchOK(b, p, po) ==
    /\ \A i \in DOMAIN b :
          b[i].src = Head(b).src /\ b[i].n <= po[b[i].src] /\ PartitionOf(b[i].src, b[i].n) = p
    /\ \A i, k \in DOMAIN b : i < k => b[i].n < b[k].n

\* Message n of s is older than those of s in a batch.
Older(n, s, b) == \A k \in DOMAIN b : b[k].src = s => n < b[k].n

Precedes(b, c) == \A i \in DOMAIN b : Older(b[i].n, b[i].src, c)

OrderTypes(el, li, de, po) ==
    /\ el \in [Sources -> [Partitions -> Seq(Message)]] /\ li \in [Partitions -> Batches]
    /\ de \in [Sources -> Seq(Nat)] /\ po \in [Sources -> Nat]

\* What the threads still hold, and what waits for or is in the hands of the
\* partition's job: each younger than what is further on its way.
WaitingOK(el, li, po) ==
    /\ \A s \in Sources, p \in Partitions :
          BatchOK(el[s][p], p, po) /\ \A i \in DOMAIN el[s][p] : el[s][p][i].src = s
    /\ \A p \in Partitions : \A i \in DOMAIN li[p] : BatchOK(li[p][i], p, po)
    /\ \A p \in Partitions : \A i, k \in DOMAIN li[p] : i < k => Precedes(li[p][i], li[p][k])
    /\ \A s \in Sources, p \in Partitions : \A i \in DOMAIN li[p] : Precedes(li[p][i], el[s][p])

\* What was passed on is older than all that.
PassedOK(el, li, de, po) ==
    /\ \A s \in Sources : \A i \in DOMAIN de[s] : de[s][i] <= po[s]
    /\ \A s \in Sources : \A i, k \in DOMAIN de[s] :
          i < k /\ PartitionOf(s, de[s][i]) = PartitionOf(s, de[s][k]) => de[s][i] < de[s][k]
    /\ \A s \in Sources, p \in Partitions : \A i \in DOMAIN de[s] :
          PartitionOf(s, de[s][i]) = p =>
             /\ Older(de[s][i], s, el[s][p])
             /\ \A j \in DOMAIN li[p] : Older(de[s][i], s, li[p][j])

Ordered(el, li, de, po) ==
    OrderTypes(el, li, de, po) /\ WaitingOK(el, li, po) /\ PassedOK(el, li, de, po)

\* A batch stays one when its source posts on.
LEMMA BatchKept ==
  ASSUME NEW b \in Seq(Message), NEW p, NEW po \in [Sources -> Nat], BatchOK(b, p, po),
         NEW po2 \in [Sources -> Nat], \A r \in Sources : po[r] <= po2[r]
  PROVE  /\ BatchOK(b, p, po2)
         /\ \A i \in DOMAIN b : b[i].src \in Sources /\ b[i].n \in Nat /\ b[i].n <= po[b[i].src]
<1>1. \A i \in DOMAIN b : b[i] \in Message
  OBVIOUS
<1>2. \A i \in DOMAIN b : b[i].src \in Sources /\ b[i].n \in Nat /\ b[i].n <= po[b[i].src]
  BY Zenon, <1>1 DEF Message, BatchOK
<1>3. \A i \in DOMAIN b : b[i].n <= po2[b[i].src]
  BY <1>2
<1> QED BY Zenon, <1>2, <1>3 DEF BatchOK

\* _queue_thread() adds the youngest message to a batch of its thread.
LEMMA BatchGrows ==
  ASSUME NEW b \in Seq(Message), NEW p, NEW po \in [Sources -> Nat], BatchOK(b, p, po),
         NEW m \in Message, \A i \in DOMAIN b : b[i].src = m.src,
         m.n = po[m.src] + 1, PartitionOf(m.src, m.n) = p,
         NEW po2 \in [Sources -> Nat], \A r \in Sources : po[r] <= po2[r], po2[m.src] = m.n
  PROVE  /\ BatchOK(Append(b, m), p, po2)
         /\ \A i \in DOMAIN Append(b, m) : Append(b, m)[i].src = m.src
         /\ \A n, r : Older(n, r, b) /\ (r = m.src => n < m.n) => Older(n, r, Append(b, m))
<1>1. m.src \in Sources /\ m.n \in Nat
  BY Zenon DEF Message
<1>2. BatchOK(b, p, po2)
      /\ \A i \in DOMAIN b : b[i].n \in Nat /\ b[i].n <= po[b[i].src]
  BY Zenon, BatchKept
<1>3. \A i \in DOMAIN b : b[i].n < m.n
  <2>1. po[m.src] \in Nat
    BY Zenon, <1>1
  <2>2. ASSUME NEW i \in DOMAIN b
        PROVE  b[i].n \in Nat /\ b[i].n <= po[m.src]
    BY Zenon, <1>2
  <2> QED BY <2>1, <2>2
<1> DEFINE e == Append(b, m)
           l == Len(b)
<1>4. l \in Nat /\ DOMAIN b = 1 .. l /\ DOMAIN e = 1 .. l + 1 /\ e[l + 1] = m
      /\ Head(e) = e[1] /\ 1 \in DOMAIN e /\ \A i \in DOMAIN b : e[i] = b[i]
  OBVIOUS
<1> HIDE DEF e, l
<1>5. \A i \in DOMAIN e : i \in DOMAIN b \/ (i = l + 1 /\ e[i] = m)
  BY <1>4
<1>6. \A i \in DOMAIN b : b[i].src = m.src /\ b[i].n <= po2[m.src] /\ PartitionOf(m.src, b[i].n) = p
  BY <1>2 DEF BatchOK
<1>7. \A i \in DOMAIN e : e[i].src = m.src /\ e[i].n <= po2[m.src] /\ PartitionOf(m.src, e[i].n) = p
  BY <1>1, <1>4, <1>5, <1>6
<1>8. ASSUME NEW i \in DOMAIN e, NEW k \in DOMAIN e, i < k PROVE e[i].n < e[k].n
  <2>1. i \in DOMAIN b
    BY <1>4, <1>8
  <2>2. CASE k \in DOMAIN b
    BY Zenon, <1>2, <1>4, <1>8, <2>1, <2>2 DEF BatchOK
  <2>3. CASE e[k] = m
    BY Zenon, <1>3, <1>4, <2>1, <2>3
  <2> QED BY Zenon, <1>5, <2>2, <2>3
<1>9. BatchOK(e, p, po2)
  BY Zenon, <1>4, <1>7, <1>8 DEF BatchOK
<1>10. \A n, r : Older(n, r, b) /\ (r = m.src => n < m.n) => Older(n, r, e)
  BY Zenon, <1>4, <1>5 DEF Older
<1> QED BY Zenon, <1>7, <1>9, <1>10 DEF e

\* A thread posts: the message is younger than everything of its source.
Posts(el, po, s, p, m, el2, po2) ==
    /\ s \in Sources /\ p \in Partitions /\ m \in Message
    /\ m.src = s /\ m.n = po[s] + 1 /\ PartitionOf(s, m.n) = p
    /\ el2 \in [Sources -> [Partitions -> Seq(Message)]]
    /\ el2[s][p] = Append(el[s][p], m)
    /\ \A r \in Sources, q \in Partitions : r # s \/ q # p => el2[r][q] = el[r][q]
    /\ po2 \in [Sources -> Nat] /\ po2[s] = m.n /\ \A r \in Sources : po[r] <= po2[r]

LEMMA PostKeepsOrder ==
  ASSUME NEW el, NEW li, NEW de, NEW po, Ordered(el, li, de, po),
         NEW s, NEW p, NEW m, NEW el2, NEW po2, Posts(el, po, s, p, m, el2, po2)
  PROVE  Ordered(el2, li, de, po2)
<1> USE DEF Posts
<1>1. po \in [Sources -> Nat] /\ po2 \in [Sources -> Nat] /\ po2[s] = m.n
      /\ \A r \in Sources : po[r] <= po2[r] /\ po[r] \in Nat
  BY Zenon DEF Ordered, OrderTypes
<1>2. OrderTypes(el2, li, de, po2)
  BY Zenon, <1>1 DEF Ordered, OrderTypes
<1>3. m.n \in Nat /\ po[s] < m.n
  BY SMTT(60), <1>1 DEF Message
<1>4. ASSUME NEW b \in Seq(Message), NEW q \in Partitions, BatchOK(b, q, po)
      PROVE  BatchOK(b, q, po2) /\ \A i \in DOMAIN b : b[i].src = s => b[i].n < m.n
  <2>1. BatchOK(b, q, po2)
        /\ \A i \in DOMAIN b : b[i].n \in Nat /\ b[i].n <= po[b[i].src]
    BY ZenonT(60), <1>1, <1>4, BatchKept
  <2> QED BY SMTT(60), <1>1, <1>3, <2>1
<1>5. el[s][p] \in Seq(Message) /\ li \in [Partitions -> Batches]
      /\ el \in [Sources -> [Partitions -> Seq(Message)]]
  BY DEF Ordered, OrderTypes
<1>6. BatchOK(el[s][p], p, po) /\ \A i \in DOMAIN el[s][p] : el[s][p][i].src = s
  BY Zenon DEF Ordered, WaitingOK
<1>7. PICK e : e = Append(el[s][p], m)
  BY Zenon
<1>a. /\ m.n = po[m.src] + 1 /\ PartitionOf(m.src, m.n) = p /\ po2[m.src] = m.n
      /\ \A i \in DOMAIN el[s][p] : el[s][p][i].src = m.src
      /\ \A r \in Sources : po[r] <= po2[r]
  BY Zenon, <1>1, <1>6
<1>b. /\ BatchOK(e, p, po2) /\ \A i \in DOMAIN e : e[i].src = m.src
      /\ \A n, r : Older(n, r, el[s][p]) /\ (r = m.src => n < m.n) => Older(n, r, e)
  <2>1. PICK b \in Seq(Message) : b = el[s][p]
    BY Zenon, <1>5
  <2>2. BatchOK(b, p, po) /\ \A i \in DOMAIN b : b[i].src = m.src
    BY Zenon, <1>6, <1>a, <2>1
  <2>3. /\ BatchOK(Append(b, m), p, po2)
        /\ \A i \in DOMAIN Append(b, m) : Append(b, m)[i].src = m.src
        /\ \A n, r : Older(n, r, b) /\ (r = m.src => n < m.n) => Older(n, r, Append(b, m))
    BY Zenon, <1>1, <1>a, <2>2, BatchGrows
  <2> QED BY Zenon, <1>7, <2>1, <2>3
<1>8. BatchOK(e, p, po2) /\ \A i \in DOMAIN e : e[i].src = s
  BY Zenon, <1>b
<1>9. ASSUME NEW n, NEW r, Older(n, r, el[s][p]), r = s => n < m.n
      PROVE  Older(n, r, e)
  BY Zenon, <1>9, <1>b
<1>10. el2[s][p] = e /\ \A r \in Sources, q \in Partitions : r # s \/ q # p => el2[r][q] = el[r][q]
  BY Zenon, <1>7
<1>11. WaitingOK(el2, li, po2)
  <2>1. ASSUME NEW r \in Sources, NEW q \in Partitions
        PROVE  BatchOK(el2[r][q], q, po2) /\ \A i \in DOMAIN el2[r][q] : el2[r][q][i].src = r
    <3>1. CASE r = s /\ q = p
      BY Zenon, <1>8, <1>10, <3>1
    <3>2. CASE ~(r = s /\ q = p)
      <4>1. el2[r][q] = el[r][q] /\ el[r][q] \in Seq(Message)
        BY Zenon, <1>5, <1>10, <3>2
      <4>2. BatchOK(el[r][q], q, po) /\ \A i \in DOMAIN el[r][q] : el[r][q][i].src = r
        BY Zenon DEF Ordered, WaitingOK
      <4> QED BY Zenon, <1>4, <4>1, <4>2
    <3> QED BY Zenon, <3>1, <3>2
  <2>2. ASSUME NEW q \in Partitions, NEW i \in DOMAIN li[q]
        PROVE  /\ BatchOK(li[q][i], q, po2)
               /\ \A k \in DOMAIN li[q][i] : li[q][i][k].src = s => li[q][i][k].n < m.n
    <3>1. li[q][i] \in Seq(Message)
      BY SMTT(60), <1>5 DEF Batches
    <3>2. BatchOK(li[q][i], q, po)
      BY Zenon DEF Ordered, WaitingOK
    <3> QED BY Zenon, <1>4, <3>1, <3>2
  <2>3. ASSUME NEW r \in Sources, NEW q \in Partitions, NEW i \in DOMAIN li[q]
        PROVE  Precedes(li[q][i], el2[r][q])
    <3>1. Precedes(li[q][i], el[r][q])
      BY Zenon DEF Ordered, WaitingOK
    <3>2. CASE r = s /\ q = p
      BY Zenon, <1>9, <1>10, <2>2, <3>1, <3>2 DEF Precedes
    <3>3. CASE ~(r = s /\ q = p)
      BY Zenon, <1>10, <3>1, <3>3
    <3> QED BY Zenon, <3>2, <3>3
  <2> QED BY ZenonT(60), <2>1, <2>2, <2>3 DEF Ordered, WaitingOK
<1>12. PassedOK(el2, li, de, po2)
  <2>1. \A r \in Sources : \A i \in DOMAIN de[r] : de[r][i] \in Nat /\ de[r][i] <= po[r]
    BY SMTT(60) DEF Ordered, PassedOK, OrderTypes
  <2>2. \A r \in Sources : \A i \in DOMAIN de[r] : de[r][i] <= po2[r] /\ (r = s => de[r][i] < m.n)
    BY <1>1, <1>3, <2>1
  <2>3. ASSUME NEW r \in Sources, NEW q \in Partitions, NEW i \in DOMAIN de[r],
               PartitionOf(r, de[r][i]) = q
        PROVE  Older(de[r][i], r, el2[r][q])
    <3>1. Older(de[r][i], r, el[r][q])
      BY Zenon, <2>3 DEF Ordered, PassedOK
    <3> QED BY Zenon, <1>9, <1>10, <2>2, <3>1
  <2> QED BY ZenonT(60), <2>2, <2>3 DEF Ordered, PassedOK
<1> QED BY Zenon, <1>2, <1>11, <1>12 DEF Ordered

\* _partition_add_batch(): a thread's batch joins the end of the line.
Moves(el, li, s, p, el2, li2) ==
    /\ s \in Sources /\ p \in Partitions
    /\ el2 \in [Sources -> [Partitions -> Seq(Message)]] /\ li2 \in [Partitions -> Batches]
    /\ el2[s][p] = <<>>
    /\ \A r \in Sources, q \in Partitions : r # s \/ q # p => el2[r][q] = el[r][q]
    /\ li2[p] = Append(li[p], el[s][p])
    /\ \A q \in Partitions : q # p => li2[q] = li[q]

LEMMA MoveKeepsOrder ==
  ASSUME NEW el, NEW li, NEW de, NEW po, Ordered(el, li, de, po),
         NEW s, NEW p, NEW el2, NEW li2, Moves(el, li, s, p, el2, li2)
  PROVE  Ordered(el2, li2, de, po)
<1> USE DEF Moves
<1>1. OrderTypes(el2, li2, de, po)
  BY Zenon DEF Ordered, OrderTypes
<1>2. el[s][p] \in Seq(Message) /\ li[p] \in Seq(Seq(Message))
  BY Zenon DEF Ordered, OrderTypes, Batches
<1>3. PICK b \in Seq(Message), line \in Seq(Seq(Message)) :
         b = el[s][p] /\ line = li[p] /\ li2[p] = Append(line, b)
  BY Zenon, <1>2
<1>4. PICK l \in Nat : /\ DOMAIN line = 1 .. l /\ DOMAIN li2[p] = 1 .. l + 1 /\ li2[p][l + 1] = b
                       /\ \A i \in 1 .. l : li2[p][i] = line[i]
  <2>1. /\ Len(line) \in Nat /\ DOMAIN line = 1 .. Len(line)
        /\ DOMAIN Append(line, b) = 1 .. Len(line) + 1 /\ Append(line, b)[Len(line) + 1] = b
        /\ \A i \in 1 .. Len(line) : Append(line, b)[i] = line[i]
    OBVIOUS
  <2> QED BY ZenonT(60), <1>3, <2>1
<1>5. \A i \in DOMAIN li2[p] : \/ i \in DOMAIN li[p] /\ li2[p][i] = li[p][i]
                               \/ i = l + 1 /\ li2[p][i] = el[s][p]
  BY <1>3, <1>4
<1>6. \A i, k \in DOMAIN li2[p] : i < k => i \in DOMAIN li[p] /\ li2[p][i] = li[p][i]
  BY <1>3, <1>4
<1>7. \A c : Precedes(c, <<>>)
  BY SMTT(60) DEF Precedes, Older
<1>8. WaitingOK(el2, li2, po)
  <2>1. ASSUME NEW r \in Sources, NEW q \in Partitions
        PROVE  BatchOK(el2[r][q], q, po) /\ \A i \in DOMAIN el2[r][q] : el2[r][q][i].src = r
    <3>1. CASE r = s /\ q = p
      BY SMTT(60), <3>1 DEF BatchOK
    <3>2. CASE r # s \/ q # p
      <4>1. el2[r][q] = el[r][q]
        BY Zenon, <3>2
      <4> QED BY <4>1 DEF Ordered, WaitingOK
    <3> QED BY Zenon, <3>1, <3>2
  <2>2. ASSUME NEW q \in Partitions, NEW i \in DOMAIN li2[q]
        PROVE  BatchOK(li2[q][i], q, po)
    <3>1. CASE q # p
      BY Zenon, <3>1 DEF Ordered, WaitingOK
    <3>2. CASE q = p
      BY ZenonT(60), <1>5, <3>2 DEF Ordered, WaitingOK
    <3> QED BY Zenon, <3>1, <3>2
  <2>3. ASSUME NEW q \in Partitions, NEW i \in DOMAIN li2[q], NEW k \in DOMAIN li2[q], i < k
        PROVE  Precedes(li2[q][i], li2[q][k])
    <3>1. CASE q # p
      BY Zenon, <2>3, <3>1 DEF Ordered, WaitingOK
    <3>2. CASE q = p
      <4>1. i \in DOMAIN li[p] /\ li2[p][i] = li[p][i]
        BY Zenon, <1>6, <2>3, <3>2
      <4>2. CASE k \in DOMAIN li[p] /\ li2[p][k] = li[p][k]
        BY ZenonT(60), <2>3, <3>2, <4>1, <4>2 DEF Ordered, WaitingOK
      <4>3. CASE li2[p][k] = el[s][p]
        BY SMTT(60), <3>2, <4>1, <4>3 DEF Ordered, WaitingOK
      <4> QED BY Zenon, <1>5, <3>2, <4>2, <4>3
    <3> QED BY Zenon, <3>1, <3>2
  <2>4. ASSUME NEW r \in Sources, NEW q \in Partitions, NEW i \in DOMAIN li2[q]
        PROVE  Precedes(li2[q][i], el2[r][q])
    <3>1. CASE q # p
      BY ZenonT(60), <3>1 DEF Ordered, WaitingOK
    <3>2. CASE q = p /\ r = s
      BY Zenon, <1>7, <3>2
    <3>3. CASE q = p /\ r # s
      <4>1. el2[r][q] = el[r][p]
        BY Zenon, <3>3
      <4>2. CASE i \in DOMAIN li[p] /\ li2[p][i] = li[p][i]
        BY Zenon, <3>3, <4>1, <4>2 DEF Ordered, WaitingOK
      <4>3. CASE li2[p][i] = el[s][p]
        <5>1. \A k \in DOMAIN el[s][p] : el[s][p][k].src = s
          BY Zenon DEF Ordered, WaitingOK
        <5>2. \A k \in DOMAIN el[r][p] : el[r][p][k].src = r
          BY Zenon DEF Ordered, WaitingOK
        <5>3. Precedes(el[s][p], el[r][p])
          <6>1. ASSUME NEW k \in DOMAIN el[s][p], NEW e \in DOMAIN el[r][p]
                PROVE  el[s][p][k].src # el[r][p][e].src
            BY SMTT(60), <3>3, <5>1, <5>2
          <6> QED BY <6>1, Zenon DEF Precedes, Older
        <5> QED BY Zenon, <3>3, <4>1, <4>3, <5>3
      <4> QED BY Zenon, <1>5, <3>3, <4>2, <4>3
    <3> QED BY Zenon, <3>1, <3>2, <3>3
  <2> QED BY Zenon, <2>1, <2>2, <2>3, <2>4 DEF WaitingOK
<1>9. PassedOK(el2, li2, de, po)
  <2>1. ASSUME NEW r \in Sources, NEW q \in Partitions, NEW i \in DOMAIN de[r],
               PartitionOf(r, de[r][i]) = q
        PROVE  /\ Older(de[r][i], r, el2[r][q])
               /\ \A j \in DOMAIN li2[q] : Older(de[r][i], r, li2[q][j])
    <3>1. Older(de[r][i], r, el[r][q]) /\ \A j \in DOMAIN li[q] : Older(de[r][i], r, li[q][j])
      BY Zenon, <2>1 DEF Ordered, PassedOK
    <3>2. Older(de[r][i], r, el2[r][q])
      <4>1. \A n, x : Older(n, x, <<>>)
        BY DEF Older
      <4>2. el2[r][q] = <<>> \/ el2[r][q] = el[r][q]
        BY Zenon
      <4> QED BY Zenon, <3>1, <4>1, <4>2
    <3>3. Older(de[r][i], r, el[s][p]) \/ q # p
      <4>1. CASE r = s
        BY Zenon, <3>1, <4>1
      <4>2. CASE r # s
        <5>1. \A k \in DOMAIN el[s][p] : el[s][p][k].src = s
          BY Zenon DEF Ordered, WaitingOK
        <5> QED BY Zenon, <4>2, <5>1 DEF Older
      <4> QED BY Zenon, <4>1, <4>2
    <3>4. \A j \in DOMAIN li2[q] : Older(de[r][i], r, li2[q][j])
      BY Zenon, <1>5, <3>1, <3>3
    <3> QED BY Zenon, <3>2, <3>4
  <2> QED BY Zenon, <2>1 DEF Ordered, PassedOK
<1> QED BY Zenon, <1>1, <1>8, <1>9 DEF Ordered

\* y is x without its first element.
IsTail(x, y) == \A i \in DOMAIN y : i \in Nat \ {0} /\ i + 1 \in DOMAIN x /\ y[i] = x[i + 1]

\* y is x and after its l elements the numbers of the messages of b.
IsPassed(x, l, y, b) ==
    \A i \in DOMAIN y : /\ i \in Nat
                        /\ i <= l => i \in DOMAIN x /\ y[i] = x[i]
                        /\ i > l => i - l \in DOMAIN b /\ y[i] = b[i - l].n

LEMMA TailIsTail ==
  ASSUME NEW S, NEW x \in Seq(S), x # <<>>
  PROVE  IsTail(x, Tail(x)) /\ 1 \in DOMAIN x /\ Head(x) = x[1]
BY DEF IsTail

LEMMA ConcatIsPassed ==
  ASSUME NEW x \in Seq(Nat), NEW b \in Seq(Message)
  PROVE  /\ IsPassed(x, Len(x), x \o [i \in DOMAIN b |-> b[i].n], b) /\ Len(x) \in Nat
         /\ x \o [i \in DOMAIN b |-> b[i].n] \in Seq(Nat)
<1>1. \A i \in DOMAIN b : b[i] \in Message
  OBVIOUS
<1>2. \A i \in DOMAIN b : b[i].n \in Nat
  BY Zenon, <1>1 DEF Message
<1>3. PICK e \in Seq(Nat) : e = [i \in DOMAIN b |-> b[i].n]
  <2>1. DOMAIN b = 1 .. Len(b) /\ Len(b) \in Nat
    OBVIOUS
  <2>2. [i \in DOMAIN b |-> b[i].n] \in [1 .. Len(b) -> Nat]
    BY Zenon, <1>2, <2>1
  <2>3. [i \in DOMAIN b |-> b[i].n] \in Seq(Nat)
    BY <2>1, <2>2
  <2> QED BY Zenon, <2>3
<1>4. Len(e) = Len(b) /\ DOMAIN e = DOMAIN b /\ \A i \in DOMAIN b : e[i] = b[i].n
  BY <1>3
<1>5. /\ DOMAIN (x \o e) = 1 .. Len(x) + Len(e) /\ DOMAIN x = 1 .. Len(x) /\ DOMAIN e = 1 .. Len(e)
      /\ Len(x) \in Nat /\ Len(e) \in Nat /\ x \o e \in Seq(Nat)
      /\ \A i \in 1 .. Len(x) + Len(e) : (x \o e)[i] = IF i <= Len(x) THEN x[i] ELSE e[i - Len(x)]
  OBVIOUS
<1>6. IsPassed(x, Len(x), x \o e, b)
  BY SMTT(60), <1>4, <1>5 DEF IsPassed
<1> QED BY Zenon, <1>3, <1>5, <1>6

\* _partition_work(): the batch in front of the line leaves it.
LEMMA PassKeepsWaiting ==
  ASSUME NEW el, NEW li, NEW po, WaitingOK(el, li, po),
         NEW p \in Partitions, NEW li2, IsTail(li[p], li2[p]),
         \A q \in Partitions : q # p => li2[q] = li[q]
  PROVE  WaitingOK(el, li2, po)
<1>1. \A i \in DOMAIN li2[p] : i + 1 \in DOMAIN li[p] /\ li2[p][i] = li[p][i + 1]
  BY Zenon DEF IsTail
<1>2. \A i, k \in DOMAIN li2[p] : i < k => i + 1 < k + 1
  BY DEF IsTail
<1>3. \A q \in Partitions : \A i \in DOMAIN li2[q] : BatchOK(li2[q][i], q, po)
  <2>1. ASSUME NEW q \in Partitions, NEW i \in DOMAIN li2[q], q # p
        PROVE  BatchOK(li2[q][i], q, po)
    BY Zenon, <2>1 DEF WaitingOK
  <2>2. ASSUME NEW i \in DOMAIN li2[p]
        PROVE  BatchOK(li2[p][i], p, po)
    BY <1>1, Zenon DEF WaitingOK
  <2> QED BY <2>1, <2>2, Zenon
<1>4. \A q \in Partitions : \A i, k \in DOMAIN li2[q] : i < k => Precedes(li2[q][i], li2[q][k])
  <2>1. ASSUME NEW q \in Partitions, NEW i \in DOMAIN li2[q], NEW k \in DOMAIN li2[q], i < k, q # p
        PROVE  Precedes(li2[q][i], li2[q][k])
    BY Zenon, <2>1 DEF WaitingOK
  <2>2. ASSUME NEW i \in DOMAIN li2[p], NEW k \in DOMAIN li2[p], i < k
        PROVE  Precedes(li2[p][i], li2[p][k])
    <3>1. /\ i + 1 \in DOMAIN li[p] /\ k + 1 \in DOMAIN li[p] /\ i + 1 < k + 1
          /\ li2[p][i] = li[p][i + 1] /\ li2[p][k] = li[p][k + 1]
      BY <1>1, <1>2, <2>2, Zenon
    <3> QED BY <3>1, Zenon DEF WaitingOK
  <2> QED BY <2>1, <2>2, Zenon
<1>5. \A r \in Sources, q \in Partitions : \A i \in DOMAIN li2[q] : Precedes(li2[q][i], el[r][q])
  <2>1. ASSUME NEW r \in Sources, NEW q \in Partitions, NEW i \in DOMAIN li2[q], q # p
        PROVE  Precedes(li2[q][i], el[r][q])
    BY Zenon, <2>1 DEF WaitingOK
  <2>2. ASSUME NEW r \in Sources, NEW i \in DOMAIN li2[p]
        PROVE  Precedes(li2[p][i], el[r][p])
    BY <1>1, Zenon DEF WaitingOK
  <2> QED BY <2>1, <2>2, Zenon
<1> QED BY Zenon, <1>3, <1>4, <1>5 DEF WaitingOK

\* ... and its messages go to the next element of the log path.
Passes(li, de, p, s, l, b, li2, de2) ==
    /\ p \in Partitions /\ 1 \in DOMAIN li[p] /\ b = li[p][1]
    /\ s \in Sources /\ \A i \in DOMAIN b : b[i].src = s /\ i \in Nat
    /\ IsTail(li[p], li2[p]) /\ \A q \in Partitions : q # p => li2[q] = li[q]
    /\ l \in Nat /\ IsPassed(de[s], l, de2[s], b)
    /\ \A r \in Sources : r # s => de2[r] = de[r]

LEMMA PassKeepsPassed ==
  ASSUME NEW el, NEW li, NEW de, NEW po, WaitingOK(el, li, po), PassedOK(el, li, de, po),
         NEW p, NEW s, NEW l, NEW b, NEW li2, NEW de2, Passes(li, de, p, s, l, b, li2, de2)
  PROVE  PassedOK(el, li2, de2, po)
<1> USE DEF Passes
<1>1. \A i \in DOMAIN li2[p] : i + 1 \in DOMAIN li[p] /\ li2[p][i] = li[p][i + 1] /\ 1 < i + 1
  <2>1. ASSUME NEW i \in DOMAIN li2[p]
        PROVE  i \in Nat /\ i + 1 \in DOMAIN li[p] /\ li2[p][i] = li[p][i + 1]
    BY Zenon DEF IsTail
  <2>2. \A i \in Nat : i # 0 => 1 < i + 1
    OBVIOUS
  <2>3. ASSUME NEW i \in DOMAIN li2[p]
        PROVE  i # 0
    BY Zenon DEF IsTail
  <2> QED BY <2>1, <2>2, <2>3, Zenon
<1>2. BatchOK(b, p, po)
  BY Zenon DEF WaitingOK
<1>3. \A i \in DOMAIN li2[p] : Precedes(b, li2[p][i])
  BY <1>1, Zenon DEF WaitingOK
<1>4. \A r \in Sources : Precedes(b, el[r][p])
  BY Zenon DEF WaitingOK
<1>5. ASSUME NEW i \in DOMAIN b
      PROVE  PartitionOf(s, b[i].n) = p /\ b[i].n <= po[s]
  <2>1. b[i].src = s
    BY Zenon
  <2> QED BY Zenon, <1>2, <2>1 DEF BatchOK
<1>6. \A i, k \in DOMAIN b : i < k => b[i].n < b[k].n
  BY Zenon, <1>2 DEF BatchOK
<1>7. \A i \in DOMAIN de[s], k \in DOMAIN b : PartitionOf(s, de[s][i]) = p => de[s][i] < b[k].n
  BY Zenon DEF PassedOK, Older
<1>8. \A i \in DOMAIN de2[s] : \/ i \in DOMAIN de[s] /\ de2[s][i] = de[s][i]
                               \/ \E k \in DOMAIN b : de2[s][i] = b[k].n
  BY SMTT(60) DEF IsPassed
<1>9. \A i, k \in DOMAIN de2[s] : i < k =>
         \/ /\ i \in DOMAIN de[s] /\ de2[s][i] = de[s][i]
            /\ k \in DOMAIN de[s] /\ de2[s][k] = de[s][k]
         \/ i \in DOMAIN de[s] /\ de2[s][i] = de[s][i] /\ \E m \in DOMAIN b : de2[s][k] = b[m].n
         \/ \E x, m \in DOMAIN b : x < m /\ de2[s][i] = b[x].n /\ de2[s][k] = b[m].n
  <2>1. SUFFICES ASSUME NEW i \in DOMAIN de2[s], NEW k \in DOMAIN de2[s], i < k
                 PROVE  \/ /\ i \in DOMAIN de[s] /\ de2[s][i] = de[s][i]
                           /\ k \in DOMAIN de[s] /\ de2[s][k] = de[s][k]
                        \/ /\ i \in DOMAIN de[s] /\ de2[s][i] = de[s][i]
                           /\ \E m \in DOMAIN b : de2[s][k] = b[m].n
                        \/ \E x, m \in DOMAIN b : x < m /\ de2[s][i] = b[x].n /\ de2[s][k] = b[m].n
    OBVIOUS
  <2>2. CASE k <= l
    BY SMTT(60), <2>1, <2>2 DEF IsPassed
  <2>3. CASE i <= l /\ k > l
    BY Zenon, <2>1, <2>3 DEF IsPassed
  <2>4. CASE i > l
    <3>1. i - l \in DOMAIN b /\ k - l \in DOMAIN b /\ i - l < k - l
          /\ de2[s][i] = b[i - l].n /\ de2[s][k] = b[k - l].n
      BY SMTT(60), <2>1, <2>4 DEF IsPassed
    <3> QED BY ZenonT(60), <3>1
  <2>5. i \in Nat /\ k \in Nat
    BY Zenon DEF IsPassed
  <2>6. k <= l \/ (i <= l /\ k > l) \/ i > l
    BY <2>5
  <2> QED BY <2>2, <2>3, <2>4, <2>6
<1>10. ASSUME NEW r \in Sources, NEW i \in DOMAIN de2[r]
       PROVE  de2[r][i] <= po[r]
  <2>1. CASE r # s
    BY Zenon, <2>1 DEF PassedOK
  <2>2. CASE r = s
    BY <1>5, <1>8, <2>2, Zenon DEF PassedOK
  <2> QED BY Zenon, <2>1, <2>2
<1>11. ASSUME NEW r \in Sources, NEW i \in DOMAIN de2[r], NEW k \in DOMAIN de2[r], i < k,
              PartitionOf(r, de2[r][i]) = PartitionOf(r, de2[r][k])
       PROVE  de2[r][i] < de2[r][k]
  <2>1. CASE r # s
    BY ZenonT(60), <1>11, <2>1 DEF PassedOK
  <2>2. CASE r = s
    <3>1. CASE /\ i \in DOMAIN de[s] /\ de2[s][i] = de[s][i]
               /\ k \in DOMAIN de[s] /\ de2[s][k] = de[s][k]
      BY <1>11, <2>2, <3>1, Zenon DEF PassedOK
    <3>2. CASE i \in DOMAIN de[s] /\ de2[s][i] = de[s][i] /\ \E m \in DOMAIN b : de2[s][k] = b[m].n
      <4>1. PICK m \in DOMAIN b : de2[s][k] = b[m].n
        BY Zenon, <3>2
      <4>2. PartitionOf(s, de[s][i]) = p
        BY <1>5, <1>11, <2>2, <3>2, <4>1, Zenon
      <4>3. de[s][i] < b[m].n
        BY <1>7, <3>2, <4>2, Zenon
      <4> QED BY <2>2, <3>2, <4>1, <4>3, Zenon
    <3>3. CASE \E x, m \in DOMAIN b : x < m /\ de2[s][i] = b[x].n /\ de2[s][k] = b[m].n
      <4>1. PICK x \in DOMAIN b, m \in DOMAIN b : x < m /\ de2[s][i] = b[x].n /\ de2[s][k] = b[m].n
        BY Zenon, <3>3
      <4>2. b[x].n < b[m].n
        BY <1>6, <4>1, Zenon
      <4> QED BY <2>2, <4>1, <4>2, Zenon
    <3>4. i \in DOMAIN de2[s] /\ k \in DOMAIN de2[s] /\ i < k
      BY Zenon, <1>11, <2>2
    <3>5. \/ /\ i \in DOMAIN de[s] /\ de2[s][i] = de[s][i]
             /\ k \in DOMAIN de[s] /\ de2[s][k] = de[s][k]
          \/ i \in DOMAIN de[s] /\ de2[s][i] = de[s][i] /\ \E m \in DOMAIN b : de2[s][k] = b[m].n
          \/ \E x, m \in DOMAIN b : x < m /\ de2[s][i] = b[x].n /\ de2[s][k] = b[m].n
      BY Zenon, <1>9, <3>4
    <3> QED BY <3>1, <3>2, <3>3, <3>5
  <2> QED BY Zenon, <2>1, <2>2
<1>12. ASSUME NEW r \in Sources, NEW q \in Partitions, NEW i \in DOMAIN de2[r],
              PartitionOf(r, de2[r][i]) = q
       PROVE  /\ Older(de2[r][i], r, el[r][q])
              /\ \A j \in DOMAIN li2[q] : Older(de2[r][i], r, li2[q][j])
  <2>1. CASE i \in DOMAIN de[r] /\ de2[r][i] = de[r][i]
    <3>1. Older(de[r][i], r, el[r][q]) /\ \A j \in DOMAIN li[q] : Older(de[r][i], r, li[q][j])
      BY <1>12, <2>1, Zenon DEF PassedOK
    <3>2. CASE q # p
      BY Zenon, <2>1, <3>1, <3>2
    <3>3. CASE q = p
      BY <1>1, <2>1, <3>1, <3>3, Zenon
    <3> QED BY Zenon, <3>2, <3>3
  <2>2. ASSUME r = s, NEW k \in DOMAIN b, de2[s][i] = b[k].n
        PROVE  /\ Older(de2[r][i], r, el[r][q])
               /\ \A j \in DOMAIN li2[q] : Older(de2[r][i], r, li2[q][j])
    <3>1. q = p /\ b[k].src = s
      BY <1>5, <1>12, <2>2, Zenon
    <3> QED BY <1>3, <1>4, <2>2, <3>1, Zenon DEF Precedes
  <2> QED BY <1>8, <1>12, <2>1, <2>2, Zenon
<1> QED BY <1>10, <1>11, <1>12, Zenon DEF PassedOK

\* A fresh scheduler: nothing is held and nothing waits.
LEMMA FreshIsOrdered ==
  ASSUME NEW el, NEW li, NEW de, NEW po, Ordered(el, li, de, po),
         NEW el2 \in [Sources -> [Partitions -> Seq(Message)]], NEW li2 \in [Partitions -> Batches],
         \A r \in Sources, q \in Partitions : el2[r][q] = <<>>,
         \A q \in Partitions : li2[q] = <<>>
  PROVE  Ordered(el2, li2, de, po)
<1>1. \A q, x, n : BatchOK(<<>>, q, po) /\ Precedes(x, <<>>) /\ Older(n, x, <<>>)
  BY DEF BatchOK, Precedes, Older
<1>2. WaitingOK(el2, li2, po)
  BY SMTT(60), <1>1 DEF WaitingOK
<1>3. PassedOK(el2, li2, de, po)
  <2>1. PassedOK(el, li, de, po)
    BY Zenon DEF Ordered
  <2>2. \A r \in Sources, q \in Partitions : \A n : Older(n, r, el2[r][q])
    BY Zenon, <1>1
  <2>3. \A r \in Sources, q \in Partitions : \A j \in DOMAIN li2[q] : \A n : Older(n, r, li2[q][j])
    BY <1>1
  <2> QED BY Zenon, <2>1, <2>2, <2>3 DEF PassedOK
<1> QED BY Zenon, <1>2, <1>3 DEF Ordered, OrderTypes

\* What the threads hold, and what is on its way through the partitions: the
\* batches a job has taken, then the ones on the partition's list.
Held(x) == [s \in Sources |-> x[s].elements]
Lines(y) == [p \in Partitions |-> y[p].local \o y[p].batches]

OrderInv == PartitionKey => Ordered(Held(ts), Lines(part), delivered, posted)

LEMMA ViewTypes ==
  ASSUME NEW x \in [Sources -> ThreadStates], NEW y \in [Partitions -> PartitionStates]
  PROVE  /\ Held(x) \in [Sources -> [Partitions -> Seq(Message)]]
         /\ Lines(y) \in [Partitions -> Batches]
<1>1. \A s \in Sources : x[s].elements \in [Partitions -> Seq(Message)]
  BY Zenon DEF ThreadStates
<1>2. \A p \in Partitions : y[p].local \in Batches /\ y[p].batches \in Batches
  BY Zenon DEF PartitionStates
<1>3. \A a, c \in Batches : a \o c \in Batches
  BY DEF Batches
<1>4. \A p \in Partitions : y[p].local \o y[p].batches \in Batches
  BY Zenon, <1>2, <1>3
<1> QED BY Zenon, <1>1, <1>4 DEF Held, Lines

\* Steps that move no message.
LEMMA SameOrder ==
  ASSUME OrderInv, UNCHANGED <<posted, delivered>>,
         \A s \in Sources : ts'[s].elements = ts[s].elements,
         \A p \in Partitions : part'[p].local \o part'[p].batches = part[p].local \o part[p].batches
  PROVE  OrderInv'
<1>1. Held(ts') = Held(ts)
  BY Zenon DEF Held
<1>2. Lines(part') = Lines(part)
  BY ZenonT(60) DEF Lines
<1> QED BY Zenon, <1>1, <1>2 DEF OrderInv

\* Post and ReaderPost: log_scheduler_push() into _queue_thread().
LEMMA PostOrder ==
  ASSUME TypeInv, TypeInv', OrderInv, NEW s \in Sources, posted[s] < MaxPosts[s],
         ts' = [ts EXCEPT ![s] = QueueThread(@, NextMessage(s))],
         posted' = [posted EXCEPT ![s] = @ + 1], UNCHANGED <<part, delivered>>
  PROVE  OrderInv'
<1> SUFFICES ASSUME PartitionKey PROVE OrderInv'
  BY Zenon DEF OrderInv
<1>1. Ordered(Held(ts), Lines(part), delivered, posted)
  BY Zenon DEF OrderInv
<1>2. ts \in [Sources -> ThreadStates] /\ ts' \in [Sources -> ThreadStates]
      /\ posted \in [Sources -> Nat] /\ posted' \in [Sources -> Nat]
      /\ part \in [Partitions -> PartitionStates]
  BY Zenon DEF TypeInv
<1> DEFINE m == NextMessage(s)
           p == PartitionOf(s, m.n)
<1>3. m.src = s /\ m.n = posted[s] + 1
  BY Zenon DEF NextMessage
<1>4. m \in Message /\ m.n \in 1 .. MaxPosts[s]
  BY <1>2, WorkersAssumption DEF NextMessage, Message, Sources
<1>5. p \in Partitions
  <2>1. HashOf[s][m.n] \in Nat
    BY Zenon, <1>4, WorkersAssumption DEF Sources
  <2>2. \A k \in Nat : k % NumPartitions \in Partitions
    BY SchedulerAssumption DEF Partitions
  <2> QED BY Zenon, <2>1, <2>2 DEF PartitionOf
<1>6. GetPartitionIndex(ts[s], m) = p /\ Advanced(ts[s]) = ts[s]
  BY Zenon, <1>3 DEF GetPartitionIndex, PartitionOf, Advanced
<1>7. ts[s] \in ThreadStates
  BY Zenon, <1>2
<1> HIDE DEF m, p
<1>8. QueueThread(ts[s], m).elements = [ts[s].elements EXCEPT ![p] = Append(@, m)]
  BY Zenon, <1>6, <1>7 DEF QueueThread, ThreadStates
<1>9. ts'[s].elements = [ts[s].elements EXCEPT ![p] = Append(@, m)]
      /\ \A r \in Sources : r # s => ts'[r] = ts[r]
  BY Zenon, <1>2, <1>8 DEF m
<1>10. ts[s].elements \in [Partitions -> Seq(Message)]
  BY Zenon, <1>7 DEF ThreadStates
<1>11. /\ Held(ts')[s][p] = Append(Held(ts)[s][p], m)
       /\ \A r \in Sources, q \in Partitions : r # s \/ q # p => Held(ts')[r][q] = Held(ts)[r][q]
  BY <1>5, <1>9, <1>10 DEF Held
<1>12. Held(ts') \in [Sources -> [Partitions -> Seq(Message)]]
  BY Zenon, <1>2, ViewTypes
<1>13. posted'[s] = m.n /\ \A r \in Sources : posted[r] <= posted'[r]
  BY <1>2, <1>3
<1>14. PartitionOf(s, m.n) = p
  BY Zenon DEF p
<1>15. Posts(Held(ts), posted, s, p, m, Held(ts'), posted')
  BY <1>2, <1>3, <1>4, <1>5, <1>11, <1>12, <1>13, <1>14, Zenon DEF Posts
<1>16. Ordered(Held(ts'), Lines(part), delivered, posted')
  BY <1>1, <1>15, PostKeepsOrder, Zenon
<1> QED BY Zenon, <1>16 DEF OrderInv

\* MoveBatch: _partition_add_batch() puts the batch behind the others.
LEMMA MoveOrder ==
  ASSUME TypeInv, TypeInv', OrderInv, NEW s \in Sources, MoveBatch(s)
  PROVE  OrderInv'
<1> SUFFICES ASSUME PartitionKey PROVE OrderInv'
  BY Zenon DEF OrderInv
<1>1. Ordered(Held(ts), Lines(part), delivered, posted)
  BY Zenon DEF OrderInv
<1>2. ts \in [Sources -> ThreadStates] /\ ts' \in [Sources -> ThreadStates]
      /\ part \in [Partitions -> PartitionStates] /\ part' \in [Partitions -> PartitionStates]
  BY Zenon DEF TypeInv
<1>3. PICK p \in Partitions :
        /\ part' = [part EXCEPT ![p] = AddBatch(@, ts[s].elements[p])]
        /\ ts' = [ts EXCEPT ![s] = Moved(@, p, ~part[p].flush_running)]
  BY Zenon DEF MoveBatch
<1>4. ts[s] \in ThreadStates /\ part[p] \in PartitionStates
  BY Zenon, <1>2
<1>5. ts[s].elements \in [Partitions -> Seq(Message)]
      /\ part[p].local \in Batches /\ part[p].batches \in Batches
  BY Zenon, <1>4 DEF ThreadStates, PartitionStates
<1>6. ts'[s].elements = [ts[s].elements EXCEPT ![p] = <<>>]
      /\ \A r \in Sources : r # s => ts'[r] = ts[r]
  <2>1. Moved(ts[s], p, ~part[p].flush_running).elements = [ts[s].elements EXCEPT ![p] = <<>>]
    BY Zenon, <1>4 DEF Moved, ThreadStates
  <2> QED BY Zenon, <1>2, <1>3, <2>1
<1>7. /\ Held(ts')[s][p] = <<>> /\ Held(ts)[s][p] = ts[s].elements[p]
      /\ \A r \in Sources, q \in Partitions : r # s \/ q # p => Held(ts')[r][q] = Held(ts)[r][q]
  BY Zenon, <1>5, <1>6 DEF Held
<1>8. /\ part'[p].local = part[p].local
      /\ part'[p].batches = Append(part[p].batches, ts[s].elements[p])
      /\ \A q \in Partitions : q # p => part'[q] = part[q]
  <2>1. /\ AddBatch(part[p], ts[s].elements[p]).local = part[p].local
        /\ AddBatch(part[p], ts[s].elements[p]).batches = Append(part[p].batches, ts[s].elements[p])
    BY Zenon, <1>4 DEF AddBatch, PartitionStates
  <2> QED BY Zenon, <1>2, <1>3, <2>1
<1>9. \A a, c \in Batches : \A b \in Seq(Message) : a \o Append(c, b) = Append(a \o c, b)
  BY SMTT(60) DEF Batches
<1>10. Lines(part')[p] = Append(Lines(part)[p], ts[s].elements[p])
       /\ \A q \in Partitions : q # p => Lines(part')[q] = Lines(part)[q]
  BY ZenonT(60), <1>5, <1>8, <1>9 DEF Lines
<1>14. Lines(part')[p] = Append(Lines(part)[p], Held(ts)[s][p])
  BY Zenon, <1>7, <1>10
<1>11. Held(ts') \in [Sources -> [Partitions -> Seq(Message)]] /\ Lines(part') \in [Partitions -> Batches]
  BY Zenon, <1>2, ViewTypes
<1>15. Moves(Held(ts), Lines(part), s, p, Held(ts'), Lines(part'))
  BY <1>7, <1>10, <1>11, <1>14, Zenon DEF Moves
<1>12. Ordered(Held(ts'), Lines(part'), delivered, posted)
  BY <1>1, <1>15, MoveKeepsOrder, Zenon
<1>13. UNCHANGED <<posted, delivered>>
  BY Zenon DEF MoveBatch
<1> QED BY Zenon, <1>12, <1>13 DEF OrderInv

\* The line goes on behind the batch in front of it.
LEMMA TailOfLine ==
  ASSUME NEW S, NEW a \in Seq(S), NEW c \in Seq(S), a # <<>>
  PROVE  /\ IsTail(a \o c, Tail(a) \o c) /\ 1 \in DOMAIN (a \o c) /\ (a \o c)[1] = Head(a)
         /\ <<>> \o (Tail(a) \o c) = Tail(a) \o c
<1> DEFINE t == Tail(a)
<1>1. /\ t \in Seq(S) /\ Len(t) \in Nat /\ Len(a) = Len(t) + 1 /\ Len(c) \in Nat
      /\ \A i \in 1 .. Len(t) : t[i] = a[i + 1]
  OBVIOUS
<1> HIDE DEF t
<1>2. /\ DOMAIN (t \o c) = 1 .. Len(t) + Len(c)
      /\ \A i \in 1 .. Len(t) + Len(c) : (t \o c)[i] = IF i <= Len(t) THEN t[i] ELSE c[i - Len(t)]
      /\ t \o c \in Seq(S)
  BY <1>1
<1>3. /\ DOMAIN (a \o c) = 1 .. Len(a) + Len(c)
      /\ \A i \in 1 .. Len(a) + Len(c) : (a \o c)[i] = IF i <= Len(a) THEN a[i] ELSE c[i - Len(a)]
  OBVIOUS
<1>4. ASSUME NEW i \in 1 .. Len(t) + Len(c)
      PROVE  (t \o c)[i] = (a \o c)[i + 1] /\ i + 1 \in 1 .. Len(a) + Len(c) /\ i \in Nat \ {0}
  <2>1. CASE i <= Len(t)
    BY <1>1, <1>2, <1>3, <2>1
  <2>2. CASE i > Len(t)
    <3>1. i + 1 - Len(a) = i - Len(t) /\ ~(i + 1 <= Len(a)) /\ i + 1 \in 1 .. Len(a) + Len(c)
      BY <1>1, <2>2
    <3> QED BY <1>1, <1>2, <1>3, <2>2, <3>1
  <2> QED BY <1>1, <2>1, <2>2
<1>5. IsTail(a \o c, t \o c)
  BY <1>2, <1>3, <1>4, Zenon DEF IsTail
<1>6. 1 \in DOMAIN (a \o c) /\ (a \o c)[1] = a[1] /\ Head(a) = a[1]
  BY <1>1, <1>3
<1>7. <<>> \o (t \o c) = t \o c
  BY SMTT(60), <1>2
<1> QED BY Zenon, <1>5, <1>6, <1>7 DEF t

\* PartitionPasses: _work() hands the batch on and the rest keeps its place,
\* also when the fetch limit has it put back.
LEMMA PassOrder ==
  ASSUME TypeInv, TypeInv', OrderInv, NEW p \in Partitions, PartitionPasses(p)
  PROVE  OrderInv'
<1> SUFFICES ASSUME PartitionKey PROVE OrderInv'
  BY Zenon DEF OrderInv
<1>1. Ordered(Held(ts), Lines(part), delivered, posted)
  BY Zenon DEF OrderInv
<1>2. part \in [Partitions -> PartitionStates] /\ part' \in [Partitions -> PartitionStates]
      /\ delivered \in [Sources -> Seq(Nat)]
  BY Zenon, <1>1 DEF TypeInv, Ordered, OrderTypes
<1> DEFINE b == Head(part[p].local)
<1>3. /\ part[p].local # <<>> /\ part' = [part EXCEPT ![p] = PassBatch(@)]
      /\ delivered' = [delivered EXCEPT ![Head(b).src] = @ \o [i \in DOMAIN b |-> b[i].n]]
      /\ UNCHANGED <<ts, posted>>
  BY ZenonT(60) DEF PartitionPasses
<1>4. part[p].local \in Seq(Seq(Message)) /\ part[p].batches \in Seq(Seq(Message))
      /\ part[p] \in PartitionStates
  BY Zenon, <1>2 DEF PartitionStates, Batches
<1>5. b \in Seq(Message)
  <2>1. \A x \in Seq(Seq(Message)) : x # <<>> => Head(x) \in Seq(Message)
    OBVIOUS
  <2> QED BY Zenon, <1>3, <1>4, <2>1
<1>6. /\ IsTail(Lines(part)[p], Tail(part[p].local) \o part[p].batches)
      /\ 1 \in DOMAIN Lines(part)[p] /\ b = Lines(part)[p][1]
      /\ <<>> \o (Tail(part[p].local) \o part[p].batches) = Tail(part[p].local) \o part[p].batches
  BY Zenon, <1>3, <1>4, TailOfLine DEF Lines
<1> HIDE DEF b
<1>7. part'[p] = PassBatch(part[p]) /\ \A q \in Partitions : q # p => part'[q] = part[q]
  BY Zenon, <1>2, <1>3
<1>8. PassBatch(part[p]).local \o PassBatch(part[p]).batches = Tail(part[p].local) \o part[p].batches
  <2> DEFINE rest == Tail(part[p].local)
             processed == part[p].processed + Len(Head(part[p].local))
  <2>1. PassBatch(part[p]) =
          IF LimitReached(processed)
          THEN [part[p] EXCEPT !.processed = processed, !.local = <<>>,
                               !.batches = rest \o part[p].batches]
          ELSE [part[p] EXCEPT !.processed = processed, !.local = rest]
    BY Zenon, <1>4 DEF PassBatch, PartitionStates
  <2> HIDE DEF rest, processed
  <2>2. \/ /\ PassBatch(part[p]).local = <<>>
           /\ PassBatch(part[p]).batches = rest \o part[p].batches
        \/ PassBatch(part[p]).local = rest /\ PassBatch(part[p]).batches = part[p].batches
    BY Zenon, <1>4, <2>1 DEF PartitionStates
  <2> QED BY Zenon, <1>6, <2>2 DEF rest
<1>9. IsTail(Lines(part)[p], Lines(part')[p])
      /\ \A q \in Partitions : q # p => Lines(part')[q] = Lines(part)[q]
  BY Zenon, <1>6, <1>7, <1>8 DEF Lines
<1>10. WaitingOK(Held(ts), Lines(part), posted) /\ PassedOK(Held(ts), Lines(part), delivered, posted)
       /\ OrderTypes(Held(ts), Lines(part), delivered, posted)
  BY Zenon, <1>1 DEF Ordered
<1>11. WaitingOK(Held(ts), Lines(part'), posted)
  BY <1>9, <1>10, PassKeepsWaiting, Zenon
<1>12. \A x \in Seq(Nat) : /\ IsPassed(x, Len(x), x \o [i \in DOMAIN b |-> b[i].n], b)
                           /\ Len(x) \in Nat /\ x \o [i \in DOMAIN b |-> b[i].n] \in Seq(Nat)
  BY Zenon, <1>5, ConcatIsPassed
<1>13. BatchOK(b, p, posted) /\ \A i \in DOMAIN b : i \in Nat
  <2>1. BatchOK(b, p, posted)
    BY Zenon, <1>6, <1>10 DEF WaitingOK
  <2>2. \A i \in DOMAIN b : i \in Nat
    BY <1>5
  <2> QED BY Zenon, <2>1, <2>2
<1>14. PassedOK(Held(ts), Lines(part'), delivered', posted) /\ delivered' \in [Sources -> Seq(Nat)]
  <2>1. CASE Head(b).src \in Sources
    <3> DEFINE s == Head(b).src
    <3>1. \A i \in DOMAIN b : b[i].src = s /\ i \in Nat
      BY Zenon, <1>13 DEF BatchOK
    <3>2. /\ IsPassed(delivered[s], Len(delivered[s]), delivered'[s], b)
          /\ Len(delivered[s]) \in Nat /\ delivered' \in [Sources -> Seq(Nat)]
          /\ \A r \in Sources : r # s => delivered'[r] = delivered[r]
      BY Zenon, <1>2, <1>3, <1>12, <2>1
    <3> HIDE DEF s
    <3>3. s \in Sources
      BY Zenon, <2>1 DEF s
    <3>4. Passes(Lines(part), delivered, p, s, Len(delivered[s]), b, Lines(part'), delivered')
      BY <1>6, <1>9, <3>1, <3>2, <3>3, Zenon DEF Passes
    <3> QED BY <1>10, <3>2, <3>4, PassKeepsPassed, Zenon
  <2>2. CASE Head(b).src \notin Sources
    <3>1. delivered' = delivered
      BY Zenon, <1>2, <1>3, <2>2
    <3>2. b = <<>>
      <4>1. SUFFICES ASSUME b # <<>> PROVE FALSE
        BY Zenon
      <4>2. Head(b) \in Message
        BY <1>5, <4>1
      <4> QED BY Zenon, <2>2, <4>2 DEF Message
    <3>3. ASSUME NEW s \in Sources
          PROVE  PassedOK(Held(ts), Lines(part'), delivered', posted)
      <4>1. \A i \in DOMAIN b : FALSE
        BY <3>2
      <4>2. PICK l \in Nat : \A i \in DOMAIN delivered[s] : i \in Nat /\ i <= l
        <5>1. \A x \in Seq(Nat) : Len(x) \in Nat /\ \A i \in DOMAIN x : i \in Nat /\ i <= Len(x)
          OBVIOUS
        <5> QED BY Zenon, <1>2, <5>1
      <4>3. IsPassed(delivered[s], l, delivered'[s], b)
        BY <3>1, <4>2 DEF IsPassed
      <4>4. Passes(Lines(part), delivered, p, s, l, b, Lines(part'), delivered')
        BY <1>6, <1>9, <3>1, <4>1, <4>2, <4>3, Zenon DEF Passes
      <4> QED BY <1>10, <4>4, PassKeepsPassed, Zenon
    <3>4. CASE Sources = {}
      <4>1. \A s \in Sources : FALSE
        BY Zenon, <3>4
      <4>2. \A el, li, de, po : PassedOK(el, li, de, po)
        BY Zenon, <4>1 DEF PassedOK
      <4> QED BY Zenon, <1>2, <3>1, <4>2
    <3> QED BY Zenon, <1>2, <3>1, <3>3, <3>4
  <2> QED BY Zenon, <2>1, <2>2
<1>15. OrderTypes(Held(ts), Lines(part'), delivered', posted)
  <2>1. Lines(part') \in [Partitions -> Batches]
    BY Zenon, <1>2, ViewTypes DEF TypeInv
  <2> QED BY Zenon, <1>10, <1>14, <2>1 DEF OrderTypes
<1> QED BY Zenon, <1>3, <1>11, <1>14, <1>15 DEF OrderInv, Ordered

\* ConfigStarts: a new scheduler is empty.
LEMMA FreshOrder ==
  ASSUME TypeInv', OrderInv, ts' = FreshThreadStates, part' = [p \in Partitions |-> NewPartition],
         UNCHANGED <<posted, delivered>>
  PROVE  OrderInv'
<1> SUFFICES ASSUME PartitionKey PROVE OrderInv'
  BY Zenon DEF OrderInv
<1>1. Ordered(Held(ts), Lines(part), delivered, posted)
  BY Zenon DEF OrderInv
<1>2. Held(ts') \in [Sources -> [Partitions -> Seq(Message)]] /\ Lines(part') \in [Partitions -> Batches]
  BY Zenon, ViewTypes DEF TypeInv
<1>3. \A s \in Sources, p \in Partitions : Held(ts')[s][p] = <<>>
  BY Zenon DEF Held, FreshThreadStates, NewThreadState
<1>4. \A p \in Partitions : Lines(part')[p] = <<>>
  BY DEF Lines, NewPartition
<1>5. Ordered(Held(ts'), Lines(part'), delivered, posted)
  BY <1>1, <1>2, <1>3, <1>4, FreshIsOrdered, Zenon
<1> QED BY Zenon, <1>5 DEF OrderInv

\* CloseAfterPost, EndRequest, ReaderCloseBatch and SubmitContinuation change
\* what a thread is about to do, not what it holds.
LEMMA SameHeld ==
  ASSUME TypeInv, OrderInv, NEW s \in Sources, UNCHANGED <<part, posted, delivered>>,
         ts' = [ts EXCEPT ![s] = CloseBatch(@)] \/ ts' = [ts EXCEPT ![s].submit = {}]
  PROVE  OrderInv'
<1>1. ts \in [Sources -> ThreadStates] /\ ts[s] \in ThreadStates
  BY Zenon DEF TypeInv
<1>2. CloseBatch(ts[s]).elements = ts[s].elements
  BY Zenon, <1>1 DEF CloseBatch, ThreadStates
<1>3. \A r \in Sources : ts'[r].elements = ts[r].elements
  <2>1. CASE ts' = [ts EXCEPT ![s] = CloseBatch(@)]
    BY Zenon, <1>1, <1>2, <2>1
  <2>2. CASE ts' = [ts EXCEPT ![s].submit = {}]
    BY Zenon, <1>1, <2>2 DEF ThreadStates
  <2> QED BY Zenon, <2>1, <2>2
<1> QED BY Zenon, <1>3, SameOrder

\* PartitionTakes and PartitionComplete: the line stays as it is.
LEMMA SameLine ==
  ASSUME TypeInv, OrderInv, NEW p \in Partitions, PartitionTakes(p) \/ PartitionComplete(p)
  PROVE  OrderInv'
<1>1. part \in [Partitions -> PartitionStates] /\ part[p] \in PartitionStates
      /\ part[p].batches \in Batches /\ part[p].local \in Batches
  BY Zenon DEF TypeInv, PartitionStates
<1>2. \A c \in Batches : <<>> \o c = c /\ c \o <<>> = c
  BY DEF Batches
<1>3. UNCHANGED <<ts, posted, delivered>>
  BY Zenon DEF PartitionTakes, PartitionComplete
<1>4. CASE PartitionTakes(p)
  <2>1. part[p].local = <<>> /\ part' = [part EXCEPT ![p] = TakeBatches(@)]
    BY Zenon, <1>4 DEF PartitionTakes
  <2>2. TakeBatches(part[p]).local = part[p].batches /\ TakeBatches(part[p]).batches = <<>>
    BY Zenon, <1>1 DEF TakeBatches, PartitionStates
  <2>3. part'[p] = TakeBatches(part[p]) /\ \A q \in Partitions : q # p => part'[q] = part[q]
    BY Zenon, <1>1, <2>1
  <2>5. part'[p].local \o part'[p].batches = part[p].local \o part[p].batches
    <3>1. part'[p].local \o part'[p].batches = part[p].batches \o <<>>
      BY Zenon, <2>2, <2>3
    <3>2. part[p].local \o part[p].batches = <<>> \o part[p].batches
      BY Zenon, <2>1
    <3> QED BY Zenon, <1>1, <1>2, <3>1, <3>2
  <2>4. \A q \in Partitions : part'[q].local \o part'[q].batches = part[q].local \o part[q].batches
    BY Zenon, <2>3, <2>5
  <2> QED BY ZenonT(60), <1>3, <2>4, SameOrder
<1>5. CASE PartitionComplete(p)
  <2>1. part' = [part EXCEPT ![p] = Completed(@)]
    BY Zenon, <1>5 DEF PartitionComplete
  <2>2. Completed(part[p]).local = part[p].local /\ Completed(part[p]).batches = part[p].batches
    BY Zenon, <1>1 DEF Completed, PartitionStates
  <2>3. part'[p] = Completed(part[p]) /\ \A q \in Partitions : q # p => part'[q] = part[q]
    BY Zenon, <1>1, <2>1
  <2>4. \A q \in Partitions : part'[q].local \o part'[q].batches = part[q].local \o part[q].batches
    BY Zenon, <2>2, <2>3
  <2> QED BY Zenon, <1>3, <2>4, SameOrder
<1> QED BY Zenon, <1>4, <1>5

\* Every step of every thread keeps the order.
LEMMA NextKeepsOrder ==
  ASSUME TypeInv, TypeInv', OrderInv, [Next]_vars
  PROVE  OrderInv'
<1>1. ASSUME UNCHANGED <<ts, part, posted, delivered>> PROVE OrderInv'
  BY Zenon, <1>1, SameOrder
<1>2. CASE InvokeSyncCallAction
  <2>1. UNCHANGED <<posted, delivered>>
    BY Zenon, <1>2 DEF InvokeSyncCallAction
  <2>2. \/ UNCHANGED <<ts, part>>
        \/ ts' = FreshThreadStates /\ part' = [p \in Partitions |-> NewPartition]
    BY <1>2, Zenon DEF InvokeSyncCallAction, ReloadConfigApply, ExitFinish, ConfigStarts
  <2> QED BY Zenon, <1>1, <2>1, <2>2, FreshOrder
<1>3. CASE ReenableWorkerJobs \/ ExitTimerElapsed \/ RunReenableTask \/ ReloadConfig \/ ExitInitiate
  BY Zenon, <1>1, <1>3 DEF ReenableWorkerJobs, ExitTimerElapsed, RunReenableTask, ReloadConfig, ExitInitiate
<1>4. ASSUME NEW s \in Sources, MoveBatch(s) \/ SubmitContinuation(s)
      PROVE  OrderInv'
  BY Zenon, <1>4, MoveOrder, SameHeld DEF SubmitContinuation
<1>5. ASSUME NEW t \in Threaded, ThreadedStep(t) \/ ThreadStop(t) \/ Ack(t) \/ Wakeup(t)
      PROVE  OrderInv'
  <2>1. t \in Sources
    BY Zenon DEF Sources
  <2>2. CASE Post(t)
    BY Zenon, <2>1, <2>2, PostOrder DEF Post
  <2>3. CASE CloseAfterPost(t) \/ EndRequest(t)
    BY Zenon, <2>1, <2>3, SameHeld DEF CloseAfterPost, EndRequest
  <2>4. CASE Suspend(t) \/ ThreadDeinit(t) \/ ThreadStop(t) \/ Ack(t) \/ Wakeup(t)
    BY Zenon, <1>1, <2>4 DEF Suspend, ThreadDeinit, ThreadStop, Ack, Wakeup
  <2> QED BY Zenon, <1>4, <1>5, <2>1, <2>2, <2>3, <2>4 DEF ThreadedStep
<1>6. ASSUME NEW r \in Readers, ReaderStep(r) \/ PollEvent(r) \/ RunRestartTask(r)
                                \/ \E forced \in BOOLEAN : ReaderComplete(r, forced)
      PROVE  OrderInv'
  <2>1. r \in Sources
    BY Zenon DEF Sources
  <2>2. CASE ReaderPost(r)
    BY Zenon, <2>1, <2>2, PostOrder DEF ReaderPost
  <2>3. CASE ReaderCloseBatch(r)
    BY Zenon, <2>1, <2>3, SameHeld DEF ReaderCloseBatch
  <2>4. CASE StartWork(r) \/ ReaderWorkEnds(r)
    BY Zenon, <1>1, <2>4 DEF StartWork, ReaderWorkEnds
  <2>5. CASE PollEvent(r) \/ RunRestartTask(r) \/ \E forced \in BOOLEAN : ReaderComplete(r, forced)
    BY Zenon, <1>1, <2>5 DEF PollEvent, RunRestartTask, IoHandleIn, ReaderComplete
  <2> QED BY Zenon, <1>4, <1>6, <2>1, <2>2, <2>3, <2>4, <2>5 DEF ReaderStep
<1>7. ASSUME NEW p \in Partitions, PartitionStep(p) \/ PartitionComplete(p)
      PROVE  OrderInv'
  <2>1. CASE StartWork(p) \/ PartitionWorkEnds(p)
    BY Zenon, <1>1, <2>1 DEF StartWork, PartitionWorkEnds
  <2> QED BY Zenon, <1>7, <2>1, PassOrder, SameLine DEF PartitionStep
<1>8. CASE UNCHANGED vars
  BY Zenon, <1>1, <1>8 DEF vars
<1> QED BY Zenon, <1>2, <1>3, <1>5, <1>6, <1>7, <1>8 DEF Next

\* What the order says of the messages that were passed on.
LEMMA OrderIsKept ==
  ASSUME OrderInv
  PROVE  KeyOrderIsKept
BY Zenon DEF OrderInv, Ordered, PassedOK, KeyOrderIsKept, PartitionOf

LEMMA InitIsOrdered ==
  ASSUME Init, TypeInv
  PROVE  OrderInv
<1>1. Held(ts) \in [Sources -> [Partitions -> Seq(Message)]] /\ Lines(part) \in [Partitions -> Batches]
  BY Zenon, ViewTypes DEF TypeInv
<1>2. delivered \in [Sources -> Seq(Nat)] /\ posted \in [Sources -> Nat]
  BY DEF Init
<1>3. \A s \in Sources, p \in Partitions : Held(ts)[s][p] = <<>>
  BY Zenon DEF Init, Held, FreshThreadStates, NewThreadState
<1>4. \A p \in Partitions : Lines(part)[p] = <<>>
  BY DEF Init, Lines, NewPartition
<1>5. \A q, x, n : BatchOK(<<>>, q, posted) /\ Precedes(x, <<>>) /\ Older(n, x, <<>>)
  BY DEF BatchOK, Precedes, Older
<1>6. WaitingOK(Held(ts), Lines(part), posted)
  BY <1>3, <1>4, <1>5 DEF WaitingOK
<1>7. \A s \in Sources : delivered[s] = <<>>
  BY Zenon DEF Init
<1>8. PassedOK(Held(ts), Lines(part), delivered, posted)
  BY <1>7 DEF PassedOK
<1> QED BY Zenon, <1>1, <1>2, <1>6, <1>8 DEF OrderInv, Ordered, OrderTypes

----------------------------------------------------------------------------
INSTANCE FiniteSetTheorems

\* Jobs, threads and the messages of a batch can be counted.
LEMMA CountingIsSound == Counting
<1>1. ASSUME NEW T, IsFiniteSet(T) PROVE Counts(T)
  <2>1. Cardinality({}) = 0
    BY Zenon, FS_EmptySet
  <2>2. ASSUME NEW S \in SUBSET T
        PROVE  /\ Cardinality(S) \in Nat
               /\ S # {} => Cardinality(S) # 0
               /\ \A x \in S : Cardinality(S \ {x}) = Cardinality(S) - 1
               /\ \A x \in T \ S : Cardinality(S \cup {x}) = Cardinality(S) + 1
    <3>1. IsFiniteSet(S)
      BY Zenon, <1>1, FS_Subset
    <3> QED BY Zenon, <3>1, FS_CardinalityType, FS_EmptySet, FS_AddElement, FS_RemoveElement
  <2> QED BY Zenon, <2>1, <2>2 DEF Counts
<1>2. \A n \in Nat : IsFiniteSet(1 .. n)
  BY FS_Interval
<1>3. IsFiniteSet(Partitions)
  BY SMTT(60), FS_Interval, SchedulerAssumption DEF Partitions
<1>4. IsFiniteSet(Threaded \cup Jobs)
  BY Zenon, <1>3, WorkersAssumption, FS_Union DEF Jobs
<1> QED BY Zenon, <1>1, <1>2, <1>4 DEF Counting

\* The inductive invariant, for any number of threads, readers and partitions.
LEMMA InvariantHolds == Spec => []IInv
<1>1. IInv /\ [Next]_vars => IInv'
  BY Zenon, NextKeeps, CountingIsSound
<1>2. Init => IInv
  BY Zenon, InitHolds, CountingIsSound
<1> QED BY <1>1, <1>2, PTL DEF Spec

\* main_loop_jobs_running, counted up by the main thread and by worker threads
\* and down by completions, is the number of live jobs in every state.
THEOREM JobCounterIsExact == Spec => []JobsAreCounted
<1>1. IInv => JobsAreCounted
  BY Zenon DEF IInv
<1> QED BY InvariantHolds, <1>1, PTL

\* No job is submitted while it is queued or working, as _prepare_submit()
\* asserts: flush_running, under the partition's lock, and the reader's watches
\* each admit one submission at a time.
THEOREM OnlyIdleJobsAreSubmitted == Spec => []SubmitsIdleJobs
<1>1. IInv => SubmitsIdleJobs
  BY Zenon DEF IInv, ServedInv, ReaderInv, SubmitsIdleJobs
<1> QED BY InvariantHolds, <1>1, PTL

\* A sync call action, a reload or a shutdown, is carried out only when every
\* worker has stopped and the scheduler holds no message.
THEOREM ActionsWaitForWorkers == Spec => ActionsRunWithWorkersStopped
<1>1. ASSUME IInv, [Next]_vars
      PROVE  [Len(ml'.sync_call_actions) < Len(ml.sync_call_actions) => WorkersStopped]_vars
  <2>1. CASE InvokeSyncCallAction
    BY Zenon, <1>1, <2>1, ActionTaken, CountingIsSound DEF InvokeSyncCallAction
  <2>2. CASE ~InvokeSyncCallAction
    <3>1. ml.sync_call_actions \in ActionLists
      BY Zenon, <1>1 DEF IInv, TypeInv, MainStates
    <3>2. Len(ml.sync_call_actions) \in Nat
      BY <3>1 DEF ActionLists
    <3>3. \A action : Len(Append(ml.sync_call_actions, action)) = Len(ml.sync_call_actions) + 1
      BY <3>1 DEF ActionLists
    <3>4. \/ ml'.sync_call_actions = ml.sync_call_actions
          \/ \E action : ml'.sync_call_actions = Append(ml.sync_call_actions, action)
      BY Zenon, <1>1, <2>2, OthersKeepActions
    <3> QED BY SMTT(60), <3>2, <3>3, <3>4
  <2> QED BY Zenon, <2>1, <2>2
<1> QED BY InvariantHolds, <1>1, PTL DEF Spec, ActionsRunWithWorkersStopped

\* Messages of one source and one key leave parallelize() in the order in which
\* the source posted them, whatever the other threads, the fetch limit, the
\* jobs' restarts, reloads and shutdowns do meanwhile.
THEOREM MessagesOfAKeyStayInOrder == Spec => []KeyOrderIsKept
<1>1. IInv /\ OrderInv /\ [Next]_vars => OrderInv'
  <2>1. IInv => TypeInv
    BY Zenon DEF IInv
  <2>2. IInv /\ [Next]_vars => TypeInv'
    BY Zenon, NextKeeps, CountingIsSound DEF IInv
  <2> QED BY Zenon, <2>1, <2>2, NextKeepsOrder
<1>2. Init => OrderInv
  BY Zenon, InitHolds, CountingIsSound, InitIsOrdered DEF IInv
<1>3. OrderInv => KeyOrderIsKept
  BY Zenon, OrderIsKept
<1> QED BY InvariantHolds, <1>1, <1>2, <1>3, PTL DEF Spec
=============================================================================
