-------------------------- MODULE LogSourceWindow --------------------------
(***************************************************************************)
(* The flow-control window of the connections of one network source:       *)
(* lib/logsource.c, lib/logsource-dyn.c, lib/window-size-counter.c,        *)
(* lib/dynamic-window-pool.c, the part of lib/logreader.c that stops and   *)
(* restarts reading, and lib/socket/afsocket-source.c's rebalancing timer. *)
(*                                                                         *)
(* Three kinds of threads touch a connection: its own worker posts         *)
(* messages (window - 1), destination threads acknowledge them (window +   *)
(* 1, unless a reclamation takes the slot), and the main thread starts and *)
(* stops the reader and moves window between the connection and the pool.  *)
(* Every shared counter is an atomic variable: one step touches one.       *)
(* The sizes are unsigned in the code: a difference below zero is one that *)
(* has wrapped around, larger than every other.                            *)
(***************************************************************************)
EXTENDS Integers, FiniteSets

CONSTANTS
    Sources,        \* the connections
    AckThreads,     \* destination threads
    InitWindow,     \* initial_window_size, the static part
    PoolSize,       \* dynamic-window-size(), 0 when the window is static
    BatchSize,      \* LOG_SOURCE_WAKEUP_BATCH_SIZE
    Suspends,       \* destinations refuse messages with AT_SUSPENDED
    Closes,         \* connections close and are accepted again
    MaxTicks        \* bound: rebalancing rounds

ASSUME WindowAssumption ==
    /\ IsFiniteSet(Sources) /\ Sources # {}
    /\ IsFiniteSet(AckThreads)
    /\ InitWindow \in Nat \ {0}
    /\ PoolSize \in Nat
    /\ BatchSize \in Nat
    /\ Suspends \in BOOLEAN /\ Closes \in BOOLEAN
    /\ MaxTicks \in Nat

VARIABLES
    conn,       \* "open", "draining" (closed, messages in flight) or "closed"
    window,     \* the counter of window_size
    suspend,    \* the suspend bit of window_size
    inflight,   \* posted messages that are not acknowledged
    full,       \* full_window_size
    toReclaim,  \* window_size_to_be_reclaimed
    pending,    \* pending_reclamation
    free,       \* free_window of the pool
    balanced,   \* balanced_window of the pool
    reader,     \* "polling", "working" or "suspended"
    event,      \* schedule_wakeup is posted
    realloc,    \* realloc_window_after_fetch
    main,       \* what the main thread is doing
    ack,        \* what each destination thread is doing
    ticks

counters == <<window, suspend, inflight, full, toReclaim, pending>>
pool == <<free, balanced>>
readers == <<conn, reader, event, realloc>>
vars == <<conn, window, suspend, inflight, full, toReclaim, pending, free, balanced,
          reader, event, realloc, main, ack, ticks>>

Min(a, b) == IF a < b THEN a ELSE b
Max0(n) == IF n < 0 THEN 0 ELSE n

Dynamic == PoolSize > 0

\* Mutant: the threshold is the whole window.
Threshold_Full == Min(BatchSize, InitWindow)

\* wakeup_threshold, set by _initialize_window().
Threshold == Min(BatchSize, InitWindow \div 4)

\* window_size_counter_suspended()
Suspended(s) == window[s] = 0 \/ suspend[s]

MainIdle == [pc |-> "idle", src |-> CHOOSE s \in Sources : TRUE, n |-> 0, dec |-> 0,
             now |-> 0, todo |-> {}, finish |-> FALSE]
AckIdle == [pc |-> "idle", src |-> CHOOSE s \in Sources : TRUE, n |-> 0, reclaim |-> 0,
            suspends |-> FALSE, wake |-> FALSE]

----------------------------------------------------------------------------
(* The reader: log_reader_update_watches(), fetching and posting.          *)

UpdatedWatches(s) == IF Suspended(s) THEN "suspended" ELSE "polling"

\* log_reader_io_handle_in(): the watches are disabled, a worker fetches.
StartFetch(s) ==
    /\ main.pc = "idle"
    /\ conn[s] = "open" /\ reader[s] = "polling"
    /\ reader' = [reader EXCEPT ![s] = "working"]
    /\ UNCHANGED <<counters, pool, conn, event, realloc, main, ack, ticks>>

\* Mutant of Post: the first message of a fetch is not counted.
Post_Uncounted(s) ==
    /\ reader[s] \in {"working", "posting"}
    /\ reader[s] = "posting" => ~Suspended(s)
    /\ window' = [window EXCEPT ![s] = IF reader[s] = "working" THEN @ ELSE @ - 1]
    /\ inflight' = [inflight EXCEPT ![s] = @ + 1]
    /\ reader' = [reader EXCEPT ![s] = "posting"]
    /\ UNCHANGED <<suspend, full, toReclaim, pending, pool, conn, event, realloc, main, ack,
                   ticks>>

\* _log_source_track_msg().  The first message of a fetch is posted without
\* looking at the window; every further one only if the window was open.
Post(s) ==
    /\ reader[s] \in {"working", "posting"}
    /\ reader[s] = "posting" => ~Suspended(s)
    /\ window' = [window EXCEPT ![s] = @ - 1]
    /\ inflight' = [inflight EXCEPT ![s] = @ + 1]
    /\ reader' = [reader EXCEPT ![s] = "posting"]
    /\ UNCHANGED <<suspend, full, toReclaim, pending, pool, conn, event, realloc, main, ack,
                   ticks>>

\* log_reader_work_finished()
FinishFetch(s) ==
    /\ main.pc = "idle"
    /\ reader[s] \in {"working", "posting"}
    /\ IF realloc[s]
       THEN /\ realloc' = [realloc EXCEPT ![s] = FALSE]
            /\ reader' = [reader EXCEPT ![s] = "finishing"]
            /\ main' = [main EXCEPT !.pc = "gather", !.src = s, !.n = window[s], !.finish = TRUE]
       ELSE /\ reader' = [reader EXCEPT ![s] = UpdatedWatches(s)]
            /\ UNCHANGED <<realloc, main>>
    /\ UNCHANGED <<counters, pool, conn, event, ack, ticks>>

\* log_reader_wakeup_triggered(): ignored while a fetch is running.
WakeupTriggered(s) ==
    /\ main.pc = "idle"
    /\ event[s]
    /\ event' = [event EXCEPT ![s] = FALSE]
    /\ reader' = [reader EXCEPT ![s] =
                    IF @ \in {"polling", "suspended"} THEN UpdatedWatches(s) ELSE @]
    /\ UNCHANGED <<counters, pool, conn, realloc, main, ack, ticks>>

----------------------------------------------------------------------------
(* A destination thread: the ack tracker and                               *)
(* _flow_control_window_size_adjust().                                     *)

\* The message is acknowledged.  With "refused" its ack type is AT_SUSPENDED:
\* the instant tracker then suspends the source after the adjustment.
StartAck(d, s, refused) ==
    /\ ack[d].pc = "idle"
    /\ inflight[s] > 0
    /\ refused => Suspends
    /\ inflight' = [inflight EXCEPT ![s] = @ - 1]
    /\ ack' = [ack EXCEPT ![d] = [AckIdle EXCEPT !.pc = IF Dynamic THEN "gather" ELSE "add",
                                                 !.src = s, !.n = 1, !.suspends = refused]]
    /\ UNCHANGED <<window, suspend, full, toReclaim, pending, pool, readers, main, ticks>>

\* The compare-and-exchange of gather_dynamic_window_reclamation().
Reclaimable(s, n) == Min(n, toReclaim[s])

AckGather(d) ==
    LET s == ack[d].src
        r == Reclaimable(s, ack[d].n)
    IN  /\ ack[d].pc = "gather"
        /\ toReclaim' = [toReclaim EXCEPT ![s] = @ - r]
        /\ ack' = [ack EXCEPT ![d].pc = IF r # 0 THEN "pend" ELSE "add",
                              ![d].n = @ - r, ![d].reclaim = r]
        /\ UNCHANGED <<window, suspend, inflight, full, pending, pool, readers, main, ticks>>

AckPend(d) ==
    /\ ack[d].pc = "pend"
    /\ pending' = [pending EXCEPT ![ack[d].src] = @ + ack[d].reclaim]
    /\ ack' = [ack EXCEPT ![d].pc = "add", ![d].reclaim = 0]
    /\ UNCHANGED <<window, suspend, inflight, full, toReclaim, pool, readers, main, ticks>>

\* What the wakeup depends on: the threshold is crossed, or the suspend bit
\* is lifted (old_window_size > 0 telling it from an empty window).
Crosses(old, n) == n # 0 /\ old <= Threshold /\ old + n > Threshold

\* What a destination thread has left to do.
Remaining(a, resume, wake) ==
    LET pc == IF resume THEN "resume" ELSE IF wake THEN "wake" ELSE "suspend"
    IN  IF resume \/ wake \/ a.suspends
        THEN [AckIdle EXCEPT !.pc = pc, !.src = a.src, !.suspends = a.suspends, !.wake = wake]
        ELSE AckIdle

AckAdd(d) ==
    LET s == ack[d].src
        resume == Suspended(s)
        wake == Crosses(window[s], ack[d].n) \/ (resume /\ window[s] > 0)
    IN  /\ ack[d].pc = "add"
        /\ window' = [window EXCEPT ![s] = @ + ack[d].n]
        /\ ack' = [ack EXCEPT ![d] = Remaining(@, resume, wake)]
        /\ UNCHANGED <<suspend, inflight, full, toReclaim, pending, pool, readers, main, ticks>>

AckResume(d) ==
    /\ ack[d].pc = "resume"
    /\ suspend' = [suspend EXCEPT ![ack[d].src] = FALSE]
    /\ ack' = [ack EXCEPT ![d] = Remaining(@, FALSE, @.wake)]
    /\ UNCHANGED <<window, inflight, full, toReclaim, pending, pool, readers, main, ticks>>

\* log_reader_wakeup(): nothing is posted to a reader that is deinitialized.
AckWake(d) ==
    /\ ack[d].pc = "wake"
    /\ event' = [event EXCEPT ![ack[d].src] = @ \/ conn[ack[d].src] = "open"]
    /\ ack' = [ack EXCEPT ![d] = Remaining(@, FALSE, FALSE)]
    /\ UNCHANGED <<counters, pool, conn, reader, realloc, main, ticks>>

AckSuspend(d) ==
    /\ ack[d].pc = "suspend"
    /\ suspend' = [suspend EXCEPT ![ack[d].src] = TRUE]
    /\ ack' = [ack EXCEPT ![d] = AckIdle]
    /\ UNCHANGED <<window, inflight, full, toReclaim, pending, pool, readers, main, ticks>>

AckStep(d) ==
    AckGather(d) \/ AckPend(d) \/ AckAdd(d) \/ AckResume(d) \/ AckWake(d) \/ AckSuspend(d)

----------------------------------------------------------------------------
(* The main thread: the timer and log_source_dynamic_window_realloc().     *)

Open == {s \in Sources : conn[s] = "open"}

\* _on_dynamic_window_timer_elapsed(), when a reallocation is due.
Tick ==
    /\ Dynamic
    /\ main.pc = "idle"
    /\ ticks < MaxTicks
    /\ ticks' = ticks + 1
    /\ Open # {}
    /\ balanced' = LET share == PoolSize \div Cardinality(Open)
                   IN  IF share = 0 THEN balanced ELSE share
    /\ main' = [main EXCEPT !.pc = "tick", !.todo = Open]
    /\ UNCHANGED <<counters, free, readers, ack>>

\* _schedule_dynamic_window_realloc() for the next connection; the source is
\* idle, or the reallocation waits for the end of its fetch.
Schedule(s) ==
    /\ main.pc = "tick"
    /\ s \in main.todo
    /\ IF reader[s] \in {"working", "posting"}
       THEN /\ realloc' = [realloc EXCEPT ![s] = TRUE]
            /\ main' = IF main.todo = {s} THEN MainIdle ELSE [main EXCEPT !.todo = @ \ {s}]
       ELSE /\ main' = [main EXCEPT !.pc = "gather", !.src = s, !.n = window[s],
                                    !.todo = @ \ {s}]
            /\ UNCHANGED realloc
    /\ UNCHANGED <<counters, pool, conn, reader, event, ack, ticks>>

\* _compensate_reclamation_race_condition(), the empty window being read.
Gather(from, to) ==
    LET s == main.src
        r == Reclaimable(s, main.n)
    IN  /\ main.pc = from
        /\ toReclaim' = [toReclaim EXCEPT ![s] = @ - r]
        /\ main' = [main EXCEPT !.pc = to, !.n = r]
        /\ UNCHANGED <<window, suspend, inflight, full, pending, pool, readers, ack, ticks>>

Pend(from, to) ==
    /\ main.pc = from
    /\ pending' = [pending EXCEPT ![main.src] = @ + main.n]
    /\ main' = [main EXCEPT !.pc = to, !.n = 0]
    /\ UNCHANGED <<window, suspend, inflight, full, toReclaim, pool, readers, ack, ticks>>

\* _release_dynamic_window()
ReleaseWindow(s, n) ==
    /\ full' = [full EXCEPT ![s] = @ - n]
    /\ free' = free + n

\* _release_reclaimed_dynamic_window()
ReleaseReclaimed ==
    /\ main.pc = "release"
    /\ pending' = [pending EXCEPT ![main.src] = 0]
    /\ ReleaseWindow(main.src, Max0(pending[main.src]))
    /\ main' = [main EXCEPT !.pc = "rebalance"]
    /\ UNCHANGED <<window, suspend, inflight, toReclaim, balanced, readers, ack, ticks>>

\* Where the main thread goes after a connection's reallocation.
Done ==
    IF main.finish THEN [MainIdle EXCEPT !.pc = "finish", !.src = main.src]
    ELSE IF main.todo = {} THEN MainIdle
    ELSE [MainIdle EXCEPT !.pc = "tick", !.todo = main.todo]

\* Mutants of Increase: the reader is not woken; the window itself is not
\* increased.
Increase_Silent(s, offered) ==
    /\ full' = [full EXCEPT ![s] = @ + offered]
    /\ free' = free - offered
    /\ window' = [window EXCEPT ![s] = @ + offered]
    /\ UNCHANGED event

Increase_OnPaper(s, offered) ==
    /\ full' = [full EXCEPT ![s] = @ + offered]
    /\ free' = free - offered
    /\ UNCHANGED <<window, event>>

\* _inc_balanced()
Increase(s, offered) ==
    /\ full' = [full EXCEPT ![s] = @ + offered]
    /\ free' = free - offered
    /\ window' = [window EXCEPT ![s] = @ + offered]
    /\ event' = [event EXCEPT ![s] = @ \/ (window[s] = 0 /\ offered # 0)]

\* Mutant of FreeEnough: the last free slot may be taken.
FreeEnough_Last(s, dec) == dec >= 0 /\ window[s] >= dec

\* _dec_balanced() takes the window at once, leaving a slot to the reader.
FreeEnough(s, dec) == dec >= 0 /\ window[s] > dec

\* _get_dynamic_window_size()
DynamicPart(s) == full[s] - InitWindow

\* _rebalance_dynamic_window(), unless a reclamation is in progress;
\* _inc_balanced() is complete, _dec_balanced() has read the empty window.
Rebalance ==
    LET s == main.src
        dyn == DynamicPart(s)
        dec == dyn - balanced
    IN  /\ main.pc = "rebalance"
        /\ \/ /\ toReclaim[s] # 0 \/ dyn = balanced
              /\ main' = Done
              /\ UNCHANGED <<window, full, free, event>>
           \/ /\ toReclaim[s] = 0 /\ dyn \in 0..(balanced - 1)
              /\ Increase(s, Min(free, balanced - dyn))
              /\ main' = Done
           \/ /\ toReclaim[s] = 0 /\ dyn \notin 0..balanced
              /\ main' = IF FreeEnough(s, dec)
                         THEN [main EXCEPT !.pc = "subtract", !.now = dec]
                         ELSE [main EXCEPT !.pc = "request", !.dec = dec, !.now = Max0(window[s] - 1)]
              /\ UNCHANGED <<window, full, free, event>>
        /\ UNCHANGED <<suspend, inflight, toReclaim, pending, balanced, conn, reader, realloc,
                       ack, ticks>>

\* _request_dynamic_window_reclamation()
RequestReclamation ==
    /\ main.pc = "request"
    /\ toReclaim' = [toReclaim EXCEPT ![main.src] = @ + main.dec - main.now]
    /\ main' = [main EXCEPT !.pc = "read"]
    /\ UNCHANGED <<window, suspend, inflight, full, pending, pool, readers, ack, ticks>>

ReadEmptyWindow ==
    /\ main.pc = "read"
    /\ main' = [main EXCEPT !.pc = "gather2", !.n = window[main.src]]
    /\ UNCHANGED <<counters, pool, readers, ack, ticks>>

\* The end of _dec_balanced().
Subtract ==
    /\ main.pc = "subtract"
    /\ window' = [window EXCEPT ![main.src] = @ - main.now]
    /\ ReleaseWindow(main.src, main.now)
    /\ main' = Done
    /\ UNCHANGED <<suspend, inflight, toReclaim, pending, balanced, readers, ack, ticks>>

\* The rest of log_reader_work_finished().
FinishRealloc ==
    /\ main.pc = "finish"
    /\ reader' = [reader EXCEPT ![main.src] = UpdatedWatches(main.src)]
    /\ main' = MainIdle
    /\ UNCHANGED <<counters, pool, conn, event, realloc, ack, ticks>>

----------------------------------------------------------------------------
(* Connections come and go.                                                *)

\* afsocket_sd_close_connection(), as a fetch finds the end of the stream or
\* the idle timer fires; log_source_release_available_dynamic_window().
Close(s) ==
    LET empty == IF DynamicPart(s) < 0 THEN window[s] ELSE Min(window[s], DynamicPart(s))
    IN  /\ Closes
        /\ main.pc = "idle"
        /\ conn[s] = "open"
        /\ conn' = [conn EXCEPT ![s] = "draining"]
        /\ reader' = [reader EXCEPT ![s] = "stopped"]
        /\ event' = [event EXCEPT ![s] = FALSE]
        /\ realloc' = [realloc EXCEPT ![s] = FALSE]
        /\ IF Dynamic
           THEN /\ window' = [window EXCEPT ![s] = @ - empty]
                /\ ReleaseWindow(s, empty)
           ELSE UNCHANGED <<window, full, free>>
        /\ UNCHANGED <<suspend, inflight, toReclaim, pending, balanced, main, ack, ticks>>

\* log_source_destroy_dynamic_window(), when the last acknowledgement has
\* dropped the last reference: no other thread has the source any more.  What
\* was reclaimed is released first, then the rest of the dynamic window; if that
\* has wrapped around, window_size_counter_sub() asserts and the program ends.
Destroy(s) ==
    LET reclaimed == Max0(Reclaimable(s, window[s]) + pending[s])
    IN  /\ main.pc = "idle"
        /\ conn[s] = "draining"
        /\ inflight[s] = 0
        /\ \A d \in AckThreads : ack[d].pc # "idle" => ack[d].src # s
        /\ conn' = [conn EXCEPT ![s] = "closed"]
        /\ ReleaseWindow(s, reclaimed)
        /\ toReclaim' = [toReclaim EXCEPT ![s] = 0]
        /\ pending' = [pending EXCEPT ![s] = 0]
        /\ main' = [main EXCEPT !.pc = "destroy", !.src = s]
        /\ UNCHANGED <<window, suspend, inflight, balanced, reader, event, realloc, ack, ticks>>

DestroyRest ==
    LET s == main.src
        dyn == DynamicPart(s)
    IN  /\ main.pc = "destroy"
        /\ dyn >= 0
        /\ window' = [window EXCEPT ![s] = @ - dyn]
        /\ ReleaseWindow(s, dyn)
        /\ main' = MainIdle
        /\ UNCHANGED <<suspend, inflight, toReclaim, pending, balanced, readers, ack, ticks>>

\* afsocket_sc_init(): a new connection with a fresh window.
Accept(s) ==
    /\ main.pc = "idle"
    /\ conn[s] = "closed"
    /\ conn' = [conn EXCEPT ![s] = "open"]
    /\ window' = [window EXCEPT ![s] = InitWindow]
    /\ suspend' = [suspend EXCEPT ![s] = FALSE]
    /\ full' = [full EXCEPT ![s] = InitWindow]
    /\ reader' = [reader EXCEPT ![s] = "polling"]
    /\ UNCHANGED <<inflight, toReclaim, pending, pool, event, realloc, main, ack, ticks>>

----------------------------------------------------------------------------
Init ==
    /\ conn = [s \in Sources |-> "closed"]
    /\ window = [s \in Sources |-> InitWindow]
    /\ suspend = [s \in Sources |-> FALSE]
    /\ inflight = [s \in Sources |-> 0]
    /\ full = [s \in Sources |-> InitWindow]
    /\ toReclaim = [s \in Sources |-> 0]
    /\ pending = [s \in Sources |-> 0]
    /\ free = PoolSize
    /\ balanced = 0
    /\ reader = [s \in Sources |-> "stopped"]
    /\ event = [s \in Sources |-> FALSE]
    /\ realloc = [s \in Sources |-> FALSE]
    /\ main = MainIdle
    /\ ack = [d \in AckThreads |-> AckIdle]
    /\ ticks = 0

MainStep ==
    \/ Gather("gather", "pend") \/ Pend("pend", "release") \/ ReleaseReclaimed
    \/ Rebalance
    \/ RequestReclamation \/ ReadEmptyWindow
    \/ Gather("gather2", "pend2") \/ Pend("pend2", "subtract")
    \/ Subtract \/ FinishRealloc \/ DestroyRest
    \/ \E s \in Sources : Schedule(s)

Read(s) == StartFetch(s) \/ Post(s)

Next ==
    \/ \E s \in Sources : Read(s) \/ FinishFetch(s) \/ WakeupTriggered(s)
                          \/ Close(s) \/ Destroy(s) \/ Accept(s)
    \/ \E d \in AckThreads : AckStep(d)
    \/ \E d \in AckThreads, s \in Sources, refused \in BOOLEAN : StartAck(d, s, refused)
    \/ Tick
    \/ MainStep

Spec == Init /\ [][Next]_vars

\* The workers, the destination threads and the main thread keep running, the
\* main loop serves every event that is posted to it however busy it is, and a
\* destination acknowledges what it has been given.
Fairness ==
    /\ \A s \in Sources : SF_vars(FinishFetch(s)) /\ SF_vars(WakeupTriggered(s))
    /\ \A d \in AckThreads : WF_vars(AckStep(d))
    /\ \A s \in Sources : SF_vars(\E d \in AckThreads : StartAck(d, s, FALSE))
    /\ WF_vars(MainStep)

FairSpec == Spec /\ Fairness

----------------------------------------------------------------------------
(* Properties.                                                             *)

AckPCs == {"idle", "gather", "pend", "add", "resume", "wake", "suspend"}
MainPCs == {"idle", "tick", "gather", "pend", "release", "rebalance", "request", "read",
            "gather2", "pend2", "subtract", "finish", "destroy"}
Readers == {"stopped", "polling", "working", "posting", "finishing", "suspended"}

MainState == [pc : MainPCs, src : Sources, n : Int, dec : Int, now : Nat,
              todo : SUBSET Sources, finish : BOOLEAN]
AckState == [pc : AckPCs, src : Sources, n : Nat, reclaim : Int, suspends : BOOLEAN,
             wake : BOOLEAN]

\* Every variable has its type.
TypeOK ==
    /\ conn \in [Sources -> {"open", "draining", "closed"}]
    /\ window \in [Sources -> Int]
    /\ suspend \in [Sources -> BOOLEAN]
    /\ inflight \in [Sources -> Nat]
    /\ full \in [Sources -> Int]
    /\ toReclaim \in [Sources -> Int]
    /\ pending \in [Sources -> Int]
    /\ free \in Nat /\ balanced \in Nat
    /\ reader \in [Sources -> Readers]
    /\ event \in [Sources -> BOOLEAN] /\ realloc \in [Sources -> BOOLEAN]
    /\ main \in MainState
    /\ ack \in [AckThreads -> AckState]
    /\ ticks \in 0..MaxTicks

\* The acknowledgements that have a slot to give back, one each.
AckSlots(s) == Cardinality({d \in AckThreads : ack[d].src = s /\ ack[d].n + ack[d].reclaim > 0})

\* dynamic_window_pool_release() never gets back more than it gave out: its
\* assertion free_window <= pool_size.
PoolNeverOverfull == free <= PoolSize

\* No slot of the window is lost: what is free, in flight or being given back
\* makes up the full window, whatever the order of posts, acknowledgements and
\* reallocations.
NoSlotLost ==
    \A s \in Sources : conn[s] = "open" =>
        window[s] + inflight[s] + AckSlots(s) + pending[s] >= full[s]

\* A connection never has more messages in flight than its static and dynamic
\* window together.
WithinFullWindow == \A s \in Sources : conn[s] = "open" => inflight[s] <= full[s]

\* A reader that polls or has started to fetch has room for the message it
\* posts without looking (the assertion of _log_source_track_msg()): neither
\* the reallocation nor anything else takes the last slot from it.
NoOverdraft ==
    \A s \in Sources : reader[s] \in {"polling", "working"} => window[s] > 0

\* A suspended reader is woken when its window opens again: when the threshold
\* has been crossed and no suspend bit is set, a wakeup is under way.
WakeupUnderWay(s) == event[s] \/ \E d \in AckThreads : ack[d].src = s /\ ack[d].wake

NoLostResume ==
    \A s \in Sources :
        reader[s] = "suspended" /\ ~suspend[s] /\ window[s] > Threshold => WakeupUnderWay(s)

\* Back-pressure: a reader that an empty window has suspended is resumed once its
\* messages are acknowledged, unless a destination refuses one of them
\* (log_source_flow_control_suspend()).
SourceResumes ==
    \A s \in Sources : reader[s] = "suspended" ~> reader[s] # "suspended" \/ suspend[s]
=============================================================================
