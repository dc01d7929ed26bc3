----------------------- MODULE LogSourceWindowProofs -----------------------
(***************************************************************************)
(* Theorems about the flow-control window: the reader always has the slot  *)
(* it was started for, no slot is lost while acknowledgements and          *)
(* reallocations race, a static window bounds what is in flight, and a     *)
(* reader whose window opens is woken.                                     *)
(***************************************************************************)
EXTENDS LogSourceWindow, TLAPS

----------------------------------------------------------------------------
(* The invariant behind NoOverdraft.                                       *)

\* A connection's reader is stopped when it closes and started when it opens.
ReadersMatch == \A s \in Sources : reader[s] = "stopped" <=> conn[s] # "open"

OpenWindows == \A s \in Sources : conn[s] = "open" => window[s] >= 0

\* The main thread reallocates the window of a connection that is open and
\* whose worker does not run, and destroys one that is closed.
Reallocating == {"gather", "pend", "release", "rebalance", "request", "read", "gather2",
                 "pend2", "subtract", "finish"}

MainHolds ==
    /\ main.pc \in Reallocating =>
          conn[main.src] = "open" /\ reader[main.src] \notin {"working", "posting"}
    /\ main.pc = "destroy" => conn[main.src] = "closed"

TodoIsOpen ==
    /\ \A s \in main.todo : conn[s] = "open"
    /\ main.pc = "idle" => main.todo = {}

\* What _dec_balanced() is about to take leaves a slot in the window.
Decreasing == {"request", "read", "gather2", "pend2", "subtract"}

LeavesSlot ==
    main.pc \in Decreasing => main.now = 0 \/ main.now < window[main.src]

RoomInv ==
    /\ TypeOK /\ ReadersMatch /\ OpenWindows /\ MainHolds /\ TodoIsOpen /\ LeavesSlot
    /\ NoOverdraft

----------------------------------------------------------------------------
(* The invariant behind NoSlotLost.                                        *)

\* The dynamic part of a window, an unsigned difference in
\* _get_dynamic_window_size(), does not wrap around.
SizesInRange == \A s \in Sources : conn[s] # "closed" => full[s] >= InitWindow

\* An acknowledgement has one slot to give back, to the window or to the
\* reclamation, and it has it until it has given it back.
AckShape(a) ==
    /\ a.pc = "gather" => a.n = 1 /\ a.reclaim = 0
    /\ a.pc = "pend" => a.n = 0 /\ a.reclaim = 1
    /\ a.pc = "add" => a.n \in {0, 1} /\ a.reclaim = 0
    /\ a.pc \notin {"gather", "pend", "add"} => a.n = 0 /\ a.reclaim = 0

CountersInRange ==
    /\ \A s \in Sources : toReclaim[s] >= 0 /\ pending[s] >= 0
    /\ main.n >= 0
    /\ main.pc = "request" => main.now <= main.dec

SlotsKept ==
    \A s \in Sources : conn[s] # "closed" =>
        window[s] + inflight[s] + AckSlots(s) + pending[s] >= full[s]

SlotInv ==
    /\ \A d \in AckThreads : AckShape(ack[d])
    /\ CountersInRange
    /\ SlotsKept

----------------------------------------------------------------------------
(* The invariant of a static window.                                       *)

\* Nothing reallocates a static window, and its slots are all accounted for.
StaticSource(s) ==
    /\ full[s] = InitWindow /\ toReclaim[s] = 0 /\ pending[s] = 0 /\ ~realloc[s]
    /\ conn[s] # "closed" => window[s] + inflight[s] + AckSlots(s) = full[s]
    /\ conn[s] = "closed" => inflight[s] = 0 /\ AckSlots(s) = 0

\* An acknowledgement gives its slot back to the window.
StaticAck(a) ==
    /\ AckShape(a)
    /\ a.pc \notin {"gather", "pend"}
    /\ a.pc = "add" => a.n = 1

\* A worker stops before its connection drains: no window ends below zero.
StaticRoom == \A s \in Sources : window[s] >= 0

StaticInv ==
    /\ main.pc \in {"idle", "destroy"}
    /\ \A s \in Sources : StaticSource(s)
    /\ \A d \in AckThreads : StaticAck(ack[d])

----------------------------------------------------------------------------
(* The invariant behind NoLostResume.                                      *)

\* Where the wakeup is exact: the threshold is zero or nobody refuses messages,
\* and with a dynamic window both.
WakeupIsExact ==
    \/ PoolSize = 0 /\ Threshold = 0
    \/ PoolSize = 0 /\ ~Suspends
    \/ Threshold = 0 /\ ~Suspends

\* A destination thread remembers the wakeup it owes; without refusals nothing
\* sets the suspend bit, with them whoever lifts it wakes the reader.
ResumeThread(a) ==
    /\ a.wake => a.pc \in {"resume", "wake"}
    /\ Suspends /\ a.pc = "resume" => a.wake
    /\ ~Suspends => ~a.suspends /\ a.pc # "suspend"

ResumeInv ==
    /\ \A d \in AckThreads : ResumeThread(ack[d])
    /\ ~Suspends => \A s \in Sources : ~suspend[s]
    /\ NoLostResume

----------------------------------------------------------------------------
(* Counting the members of a finite set, taking one out or putting one in. *)

Counts(T) ==
    /\ Cardinality({}) = 0
    /\ \A S \in SUBSET T :
          /\ Cardinality(S) \in Nat
          /\ \A x \in S : Cardinality(S \ {x}) = Cardinality(S) - 1
          /\ \A x \in T \ S : Cardinality(S \cup {x}) = Cardinality(S) + 1

----------------------------------------------------------------------------
(* The main thread's and the destination threads' records.                 *)

\* The record of a main thread that has nothing to do.
LEMMA MainIdleType ==
  /\ MainIdle \in MainState
  /\ MainIdle.pc = "idle" /\ MainIdle.n = 0 /\ MainIdle.now = 0 /\ MainIdle.todo = {}
BY WindowAssumption DEF MainIdle, MainState, MainPCs

\* The record of a destination thread that has nothing to do.
LEMMA AckIdleType ==
  /\ AckIdle \in AckState
  /\ AckIdle.pc = "idle" /\ AckIdle.n = 0 /\ AckIdle.reclaim = 0
  /\ ~AckIdle.suspends /\ ~AckIdle.wake
BY WindowAssumption DEF AckIdle, AckState, AckPCs

\* What the end of _flow_control_window_size_adjust() leaves to do.
LEMMA RemainingType ==
  ASSUME NEW a \in AckState, NEW resume \in BOOLEAN, NEW wake \in BOOLEAN,
         NEW r, r = Remaining(a, resume, wake)
  PROVE  /\ r \in AckState
         /\ r.n = 0 /\ r.reclaim = 0
         /\ r.pc \notin {"gather", "pend", "add"}
         /\ resume => r.pc = "resume"
         /\ ~resume /\ wake => r.pc = "wake"
         /\ r.pc = "resume" => resume
         /\ r.pc = "wake" => wake
         /\ r.pc = "suspend" => a.suspends
         /\ r.wake = wake
         /\ r.suspends => a.suspends
         /\ r.pc # "idle" => r.src = a.src
<1>1. CASE ~(resume \/ wake \/ a.suspends)
  <2>1. r = AckIdle /\ wake = FALSE
    BY Zenon, <1>1 DEF Remaining
  <2>2. r.wake = FALSE
    BY Zenon, <2>1, AckIdleType DEF AckState
  <2> QED BY Zenon, <1>1, <2>1, <2>2, AckIdleType
<1>2. CASE resume \/ wake \/ a.suspends
  <2>1. PICK pc : pc = IF resume THEN "resume" ELSE IF wake THEN "wake" ELSE "suspend"
    BY Zenon
  <2>2. r = [AckIdle EXCEPT !.pc = pc, !.src = a.src, !.suspends = a.suspends, !.wake = wake]
    BY Zenon, <1>2, <2>1 DEF Remaining
  <2>3. r = [pc |-> pc, src |-> a.src, n |-> 0, reclaim |-> 0, suspends |-> a.suspends,
             wake |-> wake]
    BY Zenon, <2>2, AckIdleType DEF AckIdle
  <2> QED BY <1>2, <2>1, <2>3 DEF AckState, AckPCs
<1> QED BY Zenon, <1>1, <1>2

\* Where the main thread goes after a reallocation.
LEMMA DoneType ==
  ASSUME main \in MainState, NEW m, m = Done
  PROVE  /\ m \in MainState
         /\ m.pc \in {"idle", "tick", "finish"}
         /\ m.pc = "finish" => m.src = main.src
         /\ m.todo \subseteq main.todo
         /\ m.pc = "idle" => m.todo = {}
         /\ m.n = 0
<1>1. CASE main.finish
  BY Zenon, <1>1, MainIdleType DEF Done, MainIdle, MainState, MainPCs
<1>2. CASE ~main.finish /\ main.todo = {}
  BY Zenon, <1>2, MainIdleType DEF Done
<1>3. CASE ~main.finish /\ main.todo # {}
  BY Zenon, <1>3, MainIdleType DEF Done, MainIdle, MainState, MainPCs
<1> QED BY Zenon, <1>1, <1>2, <1>3

----------------------------------------------------------------------------
(* RoomInv is inductive.                                                   *)

\* Init
LEMMA RoomInit == Init => RoomInv
<1> SUFFICES ASSUME Init PROVE RoomInv
  BY Zenon
<1>1. ack \in [AckThreads -> AckState]
  BY Zenon, AckIdleType DEF Init
<1>2. TypeOK
  BY <1>1, MainIdleType, WindowAssumption DEF Init, TypeOK, Readers
<1>3. main.pc = "idle" /\ main.todo = {}
  BY Zenon, MainIdleType DEF Init
<1> QED
  BY Zenon, <1>2, <1>3 DEF Init, RoomInv, ReadersMatch, OpenWindows, MainHolds, Reallocating, TodoIsOpen,
                    LeavesSlot, Decreasing, NoOverdraft

\* log_reader_io_handle_in() starts a worker only for a reader that polls.
LEMMA RoomStartFetch ==
  ASSUME RoomInv, NEW s \in Sources, StartFetch(s)
  PROVE  RoomInv'
<1> USE DEF StartFetch, counters, pool
<1>1. TypeOK'
  BY Zenon DEF RoomInv, TypeOK, Readers
<1>2. ReadersMatch' /\ OpenWindows' /\ NoOverdraft'
  BY Zenon DEF RoomInv, TypeOK, ReadersMatch, OpenWindows, NoOverdraft
<1>3. MainHolds' /\ TodoIsOpen' /\ LeavesSlot'
  BY Zenon DEF RoomInv, TypeOK, MainHolds, Reallocating, TodoIsOpen, LeavesSlot, Decreasing
<1> QED BY Zenon, <1>1, <1>2, <1>3 DEF RoomInv

\* Posting takes a slot that is there: the one the reader was started for, or
\* one it has just looked at.
LEMMA RoomPost ==
  ASSUME RoomInv, NEW s \in Sources, Post(s)
  PROVE  RoomInv'
<1> USE DEF Post, pool
<1>1. window[s] > 0 /\ window \in [Sources -> Int] /\ inflight[s] \in Nat
  BY DEF RoomInv, TypeOK, ReadersMatch, OpenWindows, NoOverdraft, Suspended
<1>2. TypeOK'
  BY <1>1 DEF RoomInv, TypeOK, Readers
<1>3. ReadersMatch' /\ OpenWindows' /\ NoOverdraft'
  BY <1>1 DEF RoomInv, TypeOK, ReadersMatch, OpenWindows, NoOverdraft
<1>4. MainHolds' /\ TodoIsOpen'
  BY DEF RoomInv, TypeOK, MainHolds, Reallocating, TodoIsOpen
<1>5. LeavesSlot'
  BY <1>1 DEF RoomInv, TypeOK, MainHolds, Reallocating, LeavesSlot, Decreasing
<1> QED BY Zenon, <1>2, <1>3, <1>4, <1>5 DEF RoomInv

\* log_reader_update_watches() polls only with an open window.
LEMMA WatchesSeeRoom ==
  ASSUME RoomInv, NEW s \in Sources
  PROVE  /\ UpdatedWatches(s) \in {"polling", "suspended"}
         /\ conn[s] = "open" /\ UpdatedWatches(s) = "polling" => window[s] > 0
BY DEF RoomInv, TypeOK, OpenWindows, UpdatedWatches, Suspended

\* log_reader_work_finished(), with and without a reallocation that waits.
LEMMA RoomFinishFetch ==
  ASSUME RoomInv, NEW s \in Sources, FinishFetch(s)
  PROVE  RoomInv'
<1> USE DEF FinishFetch, counters, pool
<1>0. conn[s] = "open" /\ main \in MainState /\ main.todo = {}
  BY Zenon DEF RoomInv, TypeOK, ReadersMatch, TodoIsOpen
<1>1. CASE realloc[s]
  <2>1. PICK m : m = [main EXCEPT !.pc = "gather", !.src = s, !.n = window[s], !.finish = TRUE]
    BY Zenon
  <2>2. m \in MainState /\ m.pc = "gather" /\ m.src = s /\ m.todo = {}
    BY Zenon, <1>0, <2>1 DEF MainState, MainPCs, RoomInv, TypeOK
  <2>3. main' = m /\ reader' = [reader EXCEPT ![s] = "finishing"]
    BY Zenon, <1>1, <2>1
  <2>4. TypeOK'
    BY Zenon, <1>1, <2>2, <2>3 DEF RoomInv, TypeOK, Readers
  <2>5. ReadersMatch' /\ OpenWindows' /\ NoOverdraft'
    BY Zenon, <1>0, <2>3 DEF RoomInv, TypeOK, ReadersMatch, OpenWindows, NoOverdraft
  <2>6. MainHolds' /\ TodoIsOpen' /\ LeavesSlot'
    BY Zenon, <1>0, <2>2, <2>3 DEF RoomInv, TypeOK, MainHolds, Reallocating, TodoIsOpen, LeavesSlot, Decreasing
  <2> QED BY Zenon, <2>4, <2>5, <2>6 DEF RoomInv
<1>2. CASE ~realloc[s]
  <2>1. reader' = [reader EXCEPT ![s] = UpdatedWatches(s)]
    BY Zenon, <1>2
  <2>2. TypeOK'
    BY Zenon, <1>2, <2>1, WatchesSeeRoom DEF RoomInv, TypeOK, Readers
  <2>3. ReadersMatch' /\ OpenWindows' /\ NoOverdraft'
    BY Zenon, <1>0, <2>1, WatchesSeeRoom DEF RoomInv, TypeOK, ReadersMatch, OpenWindows, NoOverdraft
  <2>4. MainHolds' /\ TodoIsOpen' /\ LeavesSlot'
    BY Zenon, <1>2, <2>1 DEF RoomInv, TypeOK, MainHolds, Reallocating, TodoIsOpen, LeavesSlot, Decreasing
  <2> QED BY Zenon, <2>2, <2>3, <2>4 DEF RoomInv
<1> QED BY Zenon, <1>1, <1>2

\* log_reader_wakeup_triggered()
LEMMA RoomWakeupTriggered ==
  ASSUME RoomInv, NEW s \in Sources, WakeupTriggered(s)
  PROVE  RoomInv'
<1> USE DEF WakeupTriggered, counters, pool
<1>1. PICK r : r = IF reader[s] \in {"polling", "suspended"} THEN UpdatedWatches(s) ELSE reader[s]
  BY Zenon
<1>2. reader' = [reader EXCEPT ![s] = r]
  BY Zenon, <1>1
<1>3. /\ r \in Readers
      /\ r = "stopped" <=> reader[s] = "stopped"
      /\ r \in {"polling", "working"} /\ conn[s] = "open" => window[s] > 0
  BY Zenon, <1>1, WatchesSeeRoom DEF RoomInv, TypeOK, Readers, NoOverdraft
<1>4. TypeOK'
  BY <1>2, <1>3 DEF RoomInv, TypeOK
<1>5. ReadersMatch' /\ OpenWindows' /\ NoOverdraft'
  BY Zenon, <1>2, <1>3 DEF RoomInv, TypeOK, ReadersMatch, OpenWindows, NoOverdraft
<1>6. MainHolds' /\ TodoIsOpen' /\ LeavesSlot'
  BY Zenon DEF RoomInv, MainHolds, Reallocating, TodoIsOpen, LeavesSlot, Decreasing
<1> QED BY Zenon, <1>4, <1>5, <1>6 DEF RoomInv

\* A step that only adds to windows and leaves the readers and the main thread
\* alone takes no slot from anyone.
LEMMA RoomOnlyGrows ==
  ASSUME RoomInv, TypeOK', UNCHANGED <<conn, reader, main>>,
         \A s \in Sources : window'[s] >= window[s]
  PROVE  RoomInv'
<1>1. ReadersMatch' /\ TodoIsOpen' /\ MainHolds'
  BY Zenon DEF RoomInv, ReadersMatch, TodoIsOpen, MainHolds
<1>2. OpenWindows' /\ NoOverdraft'
  BY DEF RoomInv, TypeOK, OpenWindows, NoOverdraft
<1>3. LeavesSlot'
  BY DEF RoomInv, TypeOK, LeavesSlot, MainState
<1> QED BY Zenon, <1>1, <1>2, <1>3 DEF RoomInv

\* The message is acknowledged.
LEMMA RoomStartAck ==
  ASSUME RoomInv, NEW d \in AckThreads, NEW s \in Sources, NEW refused \in BOOLEAN,
         StartAck(d, s, refused)
  PROVE  RoomInv'
<1> USE DEF StartAck, pool, readers
<1>1. PICK a : a = [AckIdle EXCEPT !.pc = IF Dynamic THEN "gather" ELSE "add",
                                   !.src = s, !.n = 1, !.suspends = refused]
  BY Zenon
<1>2. a \in AckState
  BY Zenon, <1>1, AckIdleType DEF AckState, AckPCs, AckIdle
<1>3. ack' = [ack EXCEPT ![d] = a] /\ inflight' = [inflight EXCEPT ![s] = inflight[s] - 1]
  BY Zenon, <1>1
<1>4. TypeOK'
  BY <1>2, <1>3 DEF RoomInv, TypeOK
<1> QED BY <1>4, RoomOnlyGrows DEF RoomInv, TypeOK

\* The compare-and-exchange of an acknowledgement.
LEMMA RoomAckGather ==
  ASSUME RoomInv, NEW d \in AckThreads, AckGather(d)
  PROVE  RoomInv'
<1> USE DEF AckGather, pool, readers
<1>1. PICK s, r : s = ack[d].src /\ r = Reclaimable(s, ack[d].n)
  BY Zenon
<1>2. /\ ack[d] \in AckState /\ s \in Sources /\ ack[d].n \in Nat
      /\ toReclaim \in [Sources -> Int] /\ ack \in [AckThreads -> AckState]
  BY Zenon, <1>1 DEF RoomInv, TypeOK, AckState
<1>3. r \in Int /\ ack[d].n - r \in Nat
  BY <1>1, <1>2 DEF Reclaimable, Min
<1>4. PICK a : a = [ack[d] EXCEPT !.pc = IF r # 0 THEN "pend" ELSE "add",
                                  !.n = ack[d].n - r, !.reclaim = r]
  BY Zenon
<1>5. a \in AckState
  BY Zenon, <1>2, <1>3, <1>4 DEF AckState, AckPCs
<1>6. ack' = [ack EXCEPT ![d] = a] /\ toReclaim' = [toReclaim EXCEPT ![s] = toReclaim[s] - r]
  BY Zenon, <1>1, <1>2, <1>4
<1>7. ack' \in [AckThreads -> AckState] /\ toReclaim' \in [Sources -> Int]
  <2> HIDE DEF AckGather
  <2> QED BY <1>2, <1>3, <1>5, <1>6
<1>8. TypeOK'
  BY Zenon, <1>7 DEF RoomInv, TypeOK
<1> QED BY <1>8, RoomOnlyGrows DEF RoomInv, TypeOK

\* The reclaimed slot is added to the pending ones.
LEMMA RoomAckPend ==
  ASSUME RoomInv, NEW d \in AckThreads, AckPend(d)
  PROVE  RoomInv'
<1> USE DEF AckPend, pool, readers
<1>1. PICK a, s, r : /\ a = [ack[d] EXCEPT !.pc = "add", !.reclaim = 0]
                    /\ s = ack[d].src /\ r = ack[d].reclaim
  BY Zenon
<1>2. ack[d] \in AckState /\ ack \in [AckThreads -> AckState] /\ pending \in [Sources -> Int]
  BY Zenon DEF RoomInv, TypeOK
<1>3. a \in AckState /\ s \in Sources /\ r \in Int
  <2> HIDE DEF AckPend
  <2>1. PICK b \in AckState : b = ack[d]
    BY Zenon, <1>2
  <2>2. a = [b EXCEPT !.pc = "add", !.reclaim = 0]
    BY Zenon, <1>1, <2>1
  <2>3. PICK c : c = [b EXCEPT !.pc = "add"]
    BY Zenon
  <2>4. c \in AckState
    BY Zenon, <2>3 DEF AckState, AckPCs
  <2>5. a = [c EXCEPT !.reclaim = 0]
    BY Zenon, <2>2, <2>3 DEF AckState
  <2>6. a \in AckState
    BY <2>4, <2>5 DEF AckState
  <2> QED BY Zenon, <1>1, <1>2, <2>6 DEF AckState
<1>4. ack' = [ack EXCEPT ![d] = a] /\ pending' = [pending EXCEPT ![s] = pending[s] + r]
  BY Zenon, <1>1, <1>2
<1>5. ack' \in [AckThreads -> AckState] /\ pending' \in [Sources -> Int]
  <2> HIDE DEF AckPend
  <2> QED BY <1>2, <1>3, <1>4
<1>6. TypeOK'
  BY Zenon, <1>5 DEF RoomInv, TypeOK
<1> QED BY <1>6, RoomOnlyGrows DEF RoomInv, TypeOK

\* The slot is given back to the window.
LEMMA RoomAckAdd ==
  ASSUME RoomInv, NEW d \in AckThreads, AckAdd(d)
  PROVE  RoomInv'
<1> USE DEF AckAdd, pool, readers
<1>1. PICK s, n : s = ack[d].src /\ n = ack[d].n
  BY Zenon
<1>2. /\ ack[d] \in AckState /\ s \in Sources /\ n \in Nat
      /\ window \in [Sources -> Int] /\ ack \in [AckThreads -> AckState]
  BY Zenon, <1>1 DEF RoomInv, TypeOK, AckState
<1>3. PICK resume \in BOOLEAN, wake \in BOOLEAN : ack' = [ack EXCEPT ![d] = Remaining(ack[d], resume, wake)]
  BY Zenon, <1>1, <1>2 DEF RoomInv, TypeOK, Suspended, Crosses
<1>4. Remaining(ack[d], resume, wake) \in AckState
  BY Zenon, <1>2, RemainingType
<1>5. window' = [window EXCEPT ![s] = window[s] + n]
  BY Zenon, <1>1
<1>6. ack' \in [AckThreads -> AckState] /\ window' \in [Sources -> Int]
  <2> HIDE DEF AckAdd
  <2> QED BY <1>2, <1>3, <1>4, <1>5
<1>7. TypeOK'
  BY Zenon, <1>6 DEF RoomInv, TypeOK
<1> QED BY <1>2, <1>5, <1>7, RoomOnlyGrows

\* Resuming, waking and suspending a source.
LEMMA RoomAckEnd ==
  ASSUME RoomInv, NEW d \in AckThreads, AckResume(d) \/ AckWake(d) \/ AckSuspend(d)
  PROVE  RoomInv'
<1> USE DEF AckResume, AckWake, AckSuspend, counters, pool, readers
<1>1. /\ ack[d] \in AckState /\ ack[d].src \in Sources /\ ack[d].wake \in BOOLEAN
      /\ ack \in [AckThreads -> AckState]
  BY Zenon DEF RoomInv, TypeOK, AckState
<1>2. PICK a \in AckState : ack' = [ack EXCEPT ![d] = a]
  <2>1. CASE AckResume(d)
    <3>1. Remaining(ack[d], FALSE, ack[d].wake) \in AckState
      BY Zenon, <1>1, RemainingType
    <3> QED BY Zenon, <1>1, <2>1, <3>1
  <2>2. CASE AckWake(d)
    BY Zenon, <1>1, <2>2, RemainingType
  <2>3. CASE AckSuspend(d)
    BY Zenon, <1>1, <2>3, AckIdleType
  <2> QED BY Zenon, <2>1, <2>2, <2>3
<1>3. event' \in [Sources -> BOOLEAN] /\ suspend' \in [Sources -> BOOLEAN]
  BY Zenon, <1>1 DEF RoomInv, TypeOK
<1>4. ack' \in [AckThreads -> AckState]
  BY Zenon, <1>1, <1>2
<1>5. TypeOK'
  BY ZenonT(60), <1>3, <1>4 DEF RoomInv, TypeOK
<1>6. UNCHANGED <<conn, reader, main, window>>
  BY Zenon
<1> HIDE DEF AckResume, AckWake, AckSuspend
<1>7. \A s \in Sources : window'[s] >= window[s]
  BY <1>6 DEF RoomInv, TypeOK
<1> QED BY Zenon, <1>5, <1>6, <1>7, RoomOnlyGrows

\* _on_dynamic_window_timer_elapsed() picks the open connections.
LEMMA RoomTick ==
  ASSUME Counts(Sources), RoomInv, Tick
  PROVE  RoomInv'
<1>1. PICK m : m = [main EXCEPT !.pc = "tick", !.todo = Open]
  BY Zenon
<1>2. m \in MainState /\ m.pc = "tick" /\ m.todo = Open
  BY Zenon, <1>1 DEF RoomInv, TypeOK, MainState, MainPCs, Open
<1>3. /\ main' = m /\ ticks < MaxTicks /\ ticks' = ticks + 1 /\ Open # {}
      /\ UNCHANGED <<conn, window, suspend, inflight, full, toReclaim, pending, free, reader,
                     event, realloc, ack>>
  BY Zenon, <1>1 DEF Tick, counters, readers
<1>4. balanced' \in Nat
  <2>1. PICK s \in Open : TRUE
    BY Zenon, <1>3
  <2>2. PICK k \in Nat : k = Cardinality(Open)
    BY Zenon DEF Counts, Open
  <2>3. k - 1 \in Nat
    BY Zenon, <2>1, <2>2 DEF Counts, Open
  <2>4. PoolSize \div k \in Nat
    BY <2>3, WindowAssumption
  <2> QED BY Zenon, <2>2, <2>4 DEF Tick, RoomInv, TypeOK
<1>5. TypeOK'
  BY <1>2, <1>3, <1>4, WindowAssumption DEF RoomInv, TypeOK
<1>6. ReadersMatch' /\ OpenWindows' /\ NoOverdraft'
  BY Zenon, <1>3 DEF RoomInv, ReadersMatch, OpenWindows, NoOverdraft
<1>7. MainHolds' /\ TodoIsOpen' /\ LeavesSlot'
  BY Zenon, <1>2, <1>3 DEF MainHolds, Reallocating, TodoIsOpen, LeavesSlot, Decreasing, Open
<1> QED BY Zenon, <1>5, <1>6, <1>7 DEF RoomInv

\* A step of the main thread that leaves readers, connections and windows alone
\* and goes on with the connection it has.
LEMMA RoomMainKeeps ==
  ASSUME RoomInv, TypeOK', UNCHANGED <<conn, reader, window>>,
         main'.src = main.src, main'.todo = main.todo, main'.pc \notin {"idle", "destroy"},
         main'.pc \in Reallocating => main.pc \in Reallocating,
         main'.pc \in Decreasing =>
            main'.now = 0 \/ main'.now < window[main.src]
  PROVE  RoomInv'
<1>1. ReadersMatch' /\ OpenWindows' /\ NoOverdraft'
  BY Zenon DEF RoomInv, ReadersMatch, OpenWindows, NoOverdraft
<1>2. MainHolds' /\ TodoIsOpen' /\ LeavesSlot'
  BY Zenon DEF RoomInv, MainHolds, TodoIsOpen, LeavesSlot
<1> QED BY Zenon, <1>1, <1>2 DEF RoomInv

\* _schedule_dynamic_window_realloc() reallocates only when no worker runs.
LEMMA RoomSchedule ==
  ASSUME RoomInv, NEW s \in Sources, Schedule(s)
  PROVE  RoomInv'
<1> USE DEF Schedule, counters, pool
<1>0. main \in MainState /\ conn[s] = "open" /\ s \in main.todo /\ window[s] \in Int
  BY Zenon DEF RoomInv, TypeOK, TodoIsOpen
<1>1. CASE reader[s] \in {"working", "posting"}
  <2>1. PICK m : m = IF main.todo = {s} THEN MainIdle ELSE [main EXCEPT !.todo = @ \ {s}]
    BY Zenon
  <2>2. /\ m \in MainState /\ m.pc \in {"idle", "tick"} /\ m.todo \subseteq main.todo
        /\ m.pc = "idle" => m.todo = {}
    <3>1. CASE main.todo = {s}
      BY Zenon, <2>1, <3>1, MainIdleType
    <3>2. CASE main.todo # {s}
      BY Zenon, <1>0, <2>1, <3>2 DEF MainState, MainPCs
    <3> QED BY Zenon, <3>1, <3>2
  <2>3. main' = m /\ realloc' = [realloc EXCEPT ![s] = TRUE]
    BY Zenon, <1>1, <2>1
  <2>4. TypeOK'
    BY Zenon, <2>2, <2>3 DEF RoomInv, TypeOK
  <2>5. ReadersMatch' /\ OpenWindows' /\ NoOverdraft'
    BY Zenon DEF RoomInv, ReadersMatch, OpenWindows, NoOverdraft
  <2>6. MainHolds' /\ TodoIsOpen' /\ LeavesSlot'
    BY Zenon, <2>2, <2>3 DEF RoomInv, MainHolds, Reallocating, TodoIsOpen, LeavesSlot, Decreasing
  <2> QED BY Zenon, <2>4, <2>5, <2>6 DEF RoomInv
<1>2. CASE reader[s] \notin {"working", "posting"}
  <2>1. PICK m : m = [main EXCEPT !.pc = "gather", !.src = s, !.n = window[s],
                                  !.todo = main.todo \ {s}]
    BY Zenon
  <2>2. m \in MainState /\ m.pc = "gather" /\ m.src = s /\ m.todo = main.todo \ {s}
    BY Zenon, <1>0, <2>1 DEF MainState, MainPCs
  <2>3. main' = m /\ UNCHANGED realloc
    BY Zenon, <1>2, <2>1
  <2>4. TypeOK'
    BY Zenon, <2>2, <2>3 DEF RoomInv, TypeOK
  <2>5. ReadersMatch' /\ OpenWindows' /\ NoOverdraft'
    BY Zenon DEF RoomInv, ReadersMatch, OpenWindows, NoOverdraft
  <2>6. MainHolds' /\ TodoIsOpen' /\ LeavesSlot'
    BY Zenon, <1>0, <1>2, <2>2, <2>3 DEF RoomInv, MainHolds, Reallocating, TodoIsOpen, LeavesSlot, Decreasing
  <2> QED BY Zenon, <2>4, <2>5, <2>6 DEF RoomInv
<1> QED BY Zenon, <1>1, <1>2

\* The compare-and-exchange of _compensate_reclamation_race_condition().
LEMMA RoomGather ==
  ASSUME RoomInv, NEW from \in {"gather", "gather2"}, NEW to \in {"pend", "pend2"},
         from = "gather" <=> to = "pend", Gather(from, to)
  PROVE  RoomInv'
<1> USE DEF Gather, pool, readers
<1>1. PICK s, r : s = main.src /\ r = Reclaimable(s, main.n)
  BY Zenon
<1>2. main \in MainState /\ s \in Sources /\ main.n \in Int /\ toReclaim \in [Sources -> Int]
  BY Zenon, <1>1 DEF RoomInv, TypeOK, MainState
<1>3. r \in Int
  BY Zenon, <1>1, <1>2 DEF Reclaimable, Min
<1>4. PICK m : m = [main EXCEPT !.pc = to, !.n = r]
  BY Zenon
<1>5. /\ m \in MainState /\ m.pc = to /\ m.src = s /\ m.todo = main.todo /\ m.now = main.now
      /\ main' = m
  BY Zenon, <1>1, <1>2, <1>3, <1>4 DEF MainState, MainPCs
<1>6. toReclaim' \in [Sources -> Int]
  BY <1>1, <1>2, <1>3
<1>7. TypeOK'
  BY Zenon, <1>5, <1>6 DEF RoomInv, TypeOK
<1> QED BY Zenon, <1>1, <1>5, <1>7, RoomMainKeeps DEF RoomInv, LeavesSlot, Reallocating, Decreasing

\* What the compensation has reclaimed is added to the pending slots.
LEMMA RoomPend ==
  ASSUME RoomInv, NEW from \in {"pend", "pend2"}, NEW to \in {"release", "subtract"},
         from = "pend" <=> to = "release", Pend(from, to)
  PROVE  RoomInv'
<1> USE DEF Pend, pool, readers
<1>2. main \in MainState /\ main.src \in Sources /\ main.n \in Int /\ pending \in [Sources -> Int]
  BY Zenon DEF RoomInv, TypeOK, MainState
<1>3. PICK z \in Int : z = 0
  OBVIOUS
<1>4. PICK m : m = [main EXCEPT !.pc = to, !.n = z] /\ main' = m
  BY Zenon, <1>3
<1>5. /\ m \in MainState /\ m.pc = to /\ m.src = main.src /\ m.todo = main.todo
      /\ m.now = main.now
  <2> HIDE DEF Pend
  <2> QED BY Zenon, <1>2, <1>4 DEF MainState, MainPCs
<1>6. pending' \in [Sources -> Int]
  BY <1>2
<1>7. TypeOK'
  BY Zenon, <1>4, <1>5, <1>6 DEF RoomInv, TypeOK
<1> QED BY Zenon, <1>4, <1>5, <1>7, RoomMainKeeps DEF RoomInv, LeavesSlot, Reallocating, Decreasing

\* _release_reclaimed_dynamic_window()
LEMMA RoomReleaseReclaimed ==
  ASSUME RoomInv, ReleaseReclaimed
  PROVE  RoomInv'
<1> USE DEF ReleaseReclaimed, ReleaseWindow, readers
<1>1. PICK s, n : s = main.src /\ n = Max0(pending[s])
  BY Zenon
<1>2. /\ main \in MainState /\ s \in Sources /\ n \in Nat /\ free \in Nat
      /\ pending \in [Sources -> Int] /\ full \in [Sources -> Int]
  BY <1>1 DEF RoomInv, TypeOK, MainState, Max0
<1>3. PICK m : m = [main EXCEPT !.pc = "rebalance"]
  BY Zenon
<1>4. /\ m \in MainState /\ m.pc = "rebalance" /\ m.src = s /\ m.todo = main.todo /\ main' = m
  BY Zenon, <1>1, <1>2, <1>3 DEF MainState, MainPCs
<1>5. full' \in [Sources -> Int] /\ pending' \in [Sources -> Int] /\ free' \in Nat
  BY <1>1, <1>2
<1>6. TypeOK'
  BY Zenon, <1>4, <1>5 DEF RoomInv, TypeOK
<1> QED BY Zenon, <1>1, <1>4, <1>6, RoomMainKeeps DEF RoomInv, Reallocating, Decreasing

\* The end of a reallocation that takes no slot.
LEMMA RoomDone ==
  ASSUME RoomInv, TypeOK', UNCHANGED <<conn, reader>>, main' = Done,
         main.pc \in Reallocating,
         \A s \in Sources : window'[s] >= window[s]
  PROVE  RoomInv'
<1>1. PICK m : m = Done
  BY Zenon
<1>2. /\ m.pc \in {"idle", "tick", "finish"}
      /\ m.pc = "finish" => m.src = main.src
      /\ m.todo \subseteq main.todo
      /\ m.pc = "idle" => m.todo = {}
      /\ main' = m
  BY Zenon, <1>1, DoneType DEF RoomInv, TypeOK
<1>3. ReadersMatch'
  BY Zenon DEF RoomInv, ReadersMatch
<1>4. OpenWindows' /\ NoOverdraft'
  BY DEF RoomInv, TypeOK, OpenWindows, NoOverdraft
<1>5. MainHolds' /\ TodoIsOpen' /\ LeavesSlot'
  BY Zenon, <1>2 DEF RoomInv, MainHolds, Reallocating, TodoIsOpen, LeavesSlot, Decreasing
<1> QED BY Zenon, <1>3, <1>4, <1>5 DEF RoomInv

\* _inc_balanced(): the window grows by what the pool offers.
LEMMA RoomIncrease ==
  ASSUME RoomInv, NEW s \in Sources, NEW want \in Nat, Increase(s, Min(free, want)),
         UNCHANGED <<conn, reader, suspend, inflight, toReclaim, pending, balanced, realloc, ack,
                     ticks>>,
         main.pc \in Reallocating, main' = Done
  PROVE  RoomInv'
<1>1. PICK k : k = Min(free, want)
  BY Zenon
<1>2. k \in Nat /\ free - k \in Nat
  BY <1>1 DEF RoomInv, TypeOK, Min
<1>3. /\ full' = [full EXCEPT ![s] = full[s] + k] /\ free' = free - k
      /\ window' = [window EXCEPT ![s] = window[s] + k]
      /\ event' \in [Sources -> BOOLEAN]
  BY Zenon, <1>1 DEF Increase, RoomInv, TypeOK
<1>4. /\ full' \in [Sources -> Int] /\ window' \in [Sources -> Int] /\ free' \in Nat
      /\ \A t \in Sources : window'[t] >= window[t]
  BY <1>2, <1>3 DEF RoomInv, TypeOK
<1>5. main' \in MainState
  BY Zenon, DoneType DEF RoomInv, TypeOK
<1>6. TypeOK'
  BY Zenon, <1>3, <1>4, <1>5 DEF RoomInv, TypeOK
<1> QED BY Zenon, <1>4, <1>6, RoomDone

\* _rebalance_dynamic_window() decides; a decrease leaves a slot, whatever the
\* unsigned sizes are.
LEMMA RoomRebalance ==
  ASSUME RoomInv, Rebalance
  PROVE  RoomInv'
<1>1. PICK s, dyn, dec : s = main.src /\ dyn = DynamicPart(s) /\ dec = dyn - balanced
  BY Zenon
<1>2. /\ main \in MainState /\ s \in Sources /\ dyn \in Int /\ dec \in Int
      /\ balanced \in Nat /\ window[s] \in Int
  BY <1>1, WindowAssumption DEF RoomInv, TypeOK, MainState, DynamicPart
<1>3. /\ main.pc = "rebalance" /\ main.pc \in Reallocating
      /\ UNCHANGED <<suspend, inflight, toReclaim, pending, balanced, conn, reader, realloc, ack, ticks>>
  BY Zenon DEF Rebalance, Reallocating
<1>4. CASE main' = Done /\ UNCHANGED <<window, full, free, event>>
  <2>1. main' \in MainState
    BY Zenon, <1>2, <1>4, DoneType
  <2>2. TypeOK'
    BY Zenon, <1>3, <1>4, <2>1 DEF RoomInv, TypeOK
  <2>3. \A t \in Sources : window'[t] >= window[t]
    BY <1>4 DEF RoomInv, TypeOK
  <2> QED BY Zenon, <1>3, <1>4, <2>2, <2>3, RoomDone
<1>5. CASE dyn \in 0..(balanced - 1) /\ Increase(s, Min(free, balanced - dyn)) /\ main' = Done
  <2>1. PICK want \in Nat : want = balanced - dyn
    BY <1>2, <1>5
  <2> QED BY Zenon, <1>2, <1>3, <1>5, <2>1, RoomIncrease
<1>6. CASE /\ main' = IF FreeEnough(s, dec)
                      THEN [main EXCEPT !.pc = "subtract", !.now = dec]
                      ELSE [main EXCEPT !.pc = "request", !.dec = dec, !.now = Max0(window[s] - 1)]
           /\ UNCHANGED <<window, full, free, event>>
  <2>1. PICK m : m = main'
    BY Zenon
  <2>2. /\ m \in MainState /\ m.pc \in {"subtract", "request"} /\ m.src = s /\ m.todo = main.todo
        /\ m.now = 0 \/ m.now < window[s]
    <3>1. CASE FreeEnough(s, dec)
      <4>1. dec \in Nat /\ dec < window[s]
        BY <1>2, <3>1 DEF FreeEnough
      <4>2. m = [main EXCEPT !.pc = "subtract", !.now = dec]
        BY Zenon, <1>6, <2>1, <3>1
      <4> QED BY Zenon, <1>1, <1>2, <4>1, <4>2 DEF MainState, MainPCs
    <3>2. CASE ~FreeEnough(s, dec)
      <4>1. PICK k : k = Max0(window[s] - 1)
        BY Zenon
      <4>2. k \in Nat /\ (k = 0 \/ k < window[s])
        BY <1>2, <4>1 DEF Max0
      <4>3. m = [main EXCEPT !.pc = "request", !.dec = dec, !.now = k]
        BY Zenon, <1>6, <2>1, <3>2, <4>1
      <4> QED BY Zenon, <1>1, <1>2, <4>2, <4>3 DEF MainState, MainPCs
    <3> QED BY Zenon, <3>1, <3>2
  <2>3. TypeOK'
    BY Zenon, <1>3, <1>6, <2>1, <2>2 DEF RoomInv, TypeOK
  <2> QED BY Zenon, <1>1, <1>3, <1>6, <2>1, <2>2, <2>3, RoomMainKeeps
<1> QED BY Zenon, <1>1, <1>4, <1>5, <1>6 DEF Rebalance

\* _request_dynamic_window_reclamation() and the second look at the window.
LEMMA RoomRequest ==
  ASSUME RoomInv, RequestReclamation \/ ReadEmptyWindow
  PROVE  RoomInv'
<1>1. main \in MainState /\ main.src \in Sources /\ window[main.src] \in Int
  BY Zenon DEF RoomInv, TypeOK, MainState
<1>2. CASE RequestReclamation
  <2>1. PICK m : m = [main EXCEPT !.pc = "read"] /\ m = main'
    BY Zenon, <1>2 DEF RequestReclamation
  <2>2. /\ m \in MainState /\ m.pc = "read" /\ m.src = main.src /\ m.todo = main.todo
        /\ m.now = main.now
    BY Zenon, <1>1, <2>1 DEF MainState, MainPCs
  <2>3. toReclaim' \in [Sources -> Int]
    BY <1>1, <1>2 DEF RequestReclamation, RoomInv, TypeOK, MainState
  <2>4. TypeOK'
    BY Zenon, <1>2, <2>1, <2>2, <2>3 DEF RequestReclamation, RoomInv, TypeOK, pool, readers
  <2> QED BY Zenon, <1>2, <2>1, <2>2, <2>4, RoomMainKeeps
          DEF RequestReclamation, RoomInv, LeavesSlot, Reallocating, Decreasing, pool, readers
<1>3. CASE ReadEmptyWindow
  <2>1. PICK m : m = [main EXCEPT !.pc = "gather2", !.n = window[main.src]] /\ m = main'
    BY Zenon, <1>3 DEF ReadEmptyWindow
  <2>2. /\ m \in MainState /\ m.pc = "gather2" /\ m.src = main.src /\ m.todo = main.todo
        /\ m.now = main.now
    BY Zenon, <1>1, <2>1 DEF MainState, MainPCs
  <2>3. TypeOK'
    BY Zenon, <1>3, <2>1, <2>2 DEF ReadEmptyWindow, RoomInv, TypeOK, counters, pool, readers
  <2> QED BY Zenon, <1>3, <2>1, <2>2, <2>3, RoomMainKeeps
          DEF ReadEmptyWindow, RoomInv, LeavesSlot, Reallocating, Decreasing, counters, pool, readers
<1> QED BY Zenon, <1>2, <1>3

\* The end of _dec_balanced(): what is taken was free, and the last slot stays.
LEMMA RoomSubtract ==
  ASSUME RoomInv, Subtract
  PROVE  RoomInv'
<1>1. PICK s, k : s = main.src /\ k = main.now
  BY Zenon
<1>2. /\ main \in MainState /\ s \in Sources /\ k \in Nat /\ window[s] \in Int
      /\ conn[s] = "open" /\ window[s] >= 0
      /\ k = 0 \/ k < window[s]
  BY Zenon, <1>1 DEF Subtract, RoomInv, TypeOK, MainState, MainHolds, Reallocating, LeavesSlot, Decreasing,
              OpenWindows
<1>3. PICK m : m = Done
  BY Zenon
<1>4. /\ m \in MainState
      /\ m.pc \in {"idle", "tick", "finish"}
      /\ m.pc = "finish" => m.src = main.src
      /\ m.todo \subseteq main.todo
      /\ m.pc = "idle" => m.todo = {}
  BY Zenon, <1>2, <1>3, DoneType
<1>5. /\ main' = m /\ window' = [window EXCEPT ![s] = window[s] - k]
      /\ full' = [full EXCEPT ![s] = full[s] - k] /\ free' = free + k
      /\ UNCHANGED <<suspend, inflight, toReclaim, pending, balanced, conn, reader, event,
                     realloc, ack, ticks>>
  BY Zenon, <1>1, <1>3 DEF Subtract, ReleaseWindow, readers
<1>6. window' \in [Sources -> Int] /\ full' \in [Sources -> Int] /\ free' \in Nat
  BY <1>2, <1>5 DEF RoomInv, TypeOK
<1>7. TypeOK'
  BY Zenon, <1>4, <1>5, <1>6 DEF RoomInv, TypeOK
<1>8. ReadersMatch'
  BY Zenon, <1>5 DEF RoomInv, ReadersMatch
<1>9. OpenWindows' /\ NoOverdraft'
  BY SMTT(60), <1>2, <1>5 DEF RoomInv, TypeOK, OpenWindows, NoOverdraft
<1>10. MainHolds' /\ TodoIsOpen' /\ LeavesSlot'
  BY Zenon, <1>4, <1>5 DEF Subtract, RoomInv, MainHolds, Reallocating, TodoIsOpen, LeavesSlot, Decreasing
<1> QED BY Zenon, <1>7, <1>8, <1>9, <1>10 DEF RoomInv

\* The rest of log_reader_work_finished().
LEMMA RoomFinishRealloc ==
  ASSUME RoomInv, FinishRealloc
  PROVE  RoomInv'
<1> USE DEF FinishRealloc, counters, pool
<1>1. PICK s : s = main.src
  BY Zenon
<1>2. s \in Sources /\ conn[s] = "open"
  BY Zenon, <1>1 DEF RoomInv, TypeOK, MainState, MainHolds, Reallocating
<1>3. reader' = [reader EXCEPT ![s] = UpdatedWatches(s)]
  BY Zenon, <1>1
<1>4. TypeOK'
  <2>1. UpdatedWatches(s) \in Readers
    BY Zenon, <1>2, WatchesSeeRoom DEF Readers
  <2>2. reader' \in [Sources -> Readers]
    BY Zenon, <1>2, <1>3, <2>1 DEF RoomInv, TypeOK
  <2> QED BY Zenon, <2>2, MainIdleType DEF RoomInv, TypeOK
<1>5. ReadersMatch' /\ OpenWindows' /\ NoOverdraft'
  BY Zenon, <1>2, <1>3, WatchesSeeRoom DEF RoomInv, TypeOK, ReadersMatch, OpenWindows, NoOverdraft
<1>6. MainHolds' /\ TodoIsOpen' /\ LeavesSlot'
  BY Zenon, MainIdleType DEF MainHolds, Reallocating, TodoIsOpen, LeavesSlot, Decreasing
<1> QED BY Zenon, <1>4, <1>5, <1>6 DEF RoomInv

\* log_source_release_available_dynamic_window() on a connection that closes.
LEMMA RoomClose ==
  ASSUME RoomInv, NEW s \in Sources, Close(s)
  PROVE  RoomInv'
<1>1. PICK e : e = IF Dynamic THEN IF DynamicPart(s) < 0 THEN window[s]
                                   ELSE Min(window[s], DynamicPart(s))
                   ELSE 0
  BY Zenon
<1>2. /\ window[s] \in Int /\ full[s] \in Int /\ free \in Nat /\ conn[s] = "open" /\ window[s] >= 0
      /\ main.pc = "idle" /\ main.todo = {}
  BY Zenon DEF Close, RoomInv, TypeOK, OpenWindows, TodoIsOpen
<1>3. e \in Nat
  BY <1>1, <1>2, WindowAssumption DEF DynamicPart, Min
<1>4. /\ conn' = [conn EXCEPT ![s] = "draining"]
      /\ reader' = [reader EXCEPT ![s] = "stopped"]
      /\ event' = [event EXCEPT ![s] = FALSE]
      /\ realloc' = [realloc EXCEPT ![s] = FALSE]
      /\ UNCHANGED <<suspend, inflight, toReclaim, pending, balanced, main, ack, ticks>>
  BY Zenon DEF Close
<1>5. /\ window' = [window EXCEPT ![s] = window[s] - e]
      /\ full' = [full EXCEPT ![s] = full[s] - e]
      /\ free' = free + e
  <2>1. CASE Dynamic
    BY Zenon, <1>1, <2>1 DEF Close, ReleaseWindow
  <2>2. CASE ~Dynamic
    BY SMTT(60), <1>1, <1>2, <2>2 DEF Close, RoomInv, TypeOK
  <2> QED BY Zenon, <2>1, <2>2
<1>6. window' \in [Sources -> Int] /\ full' \in [Sources -> Int] /\ free' \in Nat
  BY <1>2, <1>3, <1>5 DEF RoomInv, TypeOK
<1>7. TypeOK'
  BY ZenonT(60), <1>4, <1>6 DEF RoomInv, TypeOK, Readers
<1>8. ReadersMatch' /\ OpenWindows' /\ NoOverdraft'
  BY Zenon, <1>4, <1>5 DEF RoomInv, TypeOK, ReadersMatch, OpenWindows, NoOverdraft
<1>9. MainHolds' /\ TodoIsOpen' /\ LeavesSlot'
  BY Zenon, <1>2, <1>4 DEF MainHolds, Reallocating, TodoIsOpen, LeavesSlot, Decreasing
<1> QED BY Zenon, <1>7, <1>8, <1>9 DEF RoomInv

\* A step of the main thread on a connection that is not open.
LEMMA RoomElsewhere ==
  ASSUME RoomInv, TypeOK', UNCHANGED reader, main'.pc \in {"idle", "destroy"}, main'.todo = {},
         main'.pc = "destroy" => conn'[main'.src] = "closed",
         \A s \in Sources : conn[s] = "open" => conn'[s] = "open" /\ window'[s] = window[s],
         \A s \in Sources : conn'[s] = "open" => conn[s] = "open"
  PROVE  RoomInv'
<1>1. ReadersMatch' /\ OpenWindows'
  BY Zenon DEF RoomInv, TypeOK, ReadersMatch, OpenWindows
<1>2. NoOverdraft'
  BY Zenon DEF RoomInv, TypeOK, ReadersMatch, NoOverdraft
<1>3. MainHolds' /\ TodoIsOpen' /\ LeavesSlot'
  BY Zenon DEF RoomInv, MainHolds, Reallocating, TodoIsOpen, LeavesSlot, Decreasing
<1> QED BY Zenon, <1>1, <1>2, <1>3 DEF RoomInv

\* log_source_destroy_dynamic_window() releases what was reclaimed.
LEMMA RoomDestroy ==
  ASSUME RoomInv, NEW s \in Sources, Destroy(s)
  PROVE  RoomInv'
<1>1. PICK k : k = Max0(Reclaimable(s, window[s]) + pending[s])
  BY Zenon
<1>2. k \in Nat /\ main \in MainState /\ main.todo = {} /\ conn[s] = "draining"
  BY <1>1 DEF Destroy, RoomInv, TypeOK, TodoIsOpen, Max0, Reclaimable, Min
<1>3. /\ conn' = [conn EXCEPT ![s] = "closed"]
      /\ full' = [full EXCEPT ![s] = full[s] - k] /\ free' = free + k
      /\ toReclaim' = [toReclaim EXCEPT ![s] = 0]
      /\ pending' = [pending EXCEPT ![s] = 0]
      /\ UNCHANGED <<window, suspend, inflight, balanced, reader, event, realloc, ack, ticks>>
  BY Zenon, <1>1 DEF Destroy, ReleaseWindow
<1>4. PICK m : m = [main EXCEPT !.pc = "destroy", !.src = s] /\ main' = m
  BY Zenon DEF Destroy
<1>5. m \in MainState /\ m.pc = "destroy" /\ m.src = s /\ m.todo = {}
  BY Zenon, <1>2, <1>4 DEF MainState, MainPCs
<1>6. /\ full' \in [Sources -> Int] /\ toReclaim' \in [Sources -> Int]
      /\ pending' \in [Sources -> Int] /\ free' \in Nat
  BY <1>2, <1>3 DEF RoomInv, TypeOK
<1>7. TypeOK'
  BY Zenon, <1>3, <1>4, <1>5, <1>6 DEF RoomInv, TypeOK
<1> QED BY SMTT(60), <1>2, <1>3, <1>4, <1>5, <1>7, RoomElsewhere DEF RoomInv, TypeOK

\* ... and then the rest of the dynamic window of the closed connection.
LEMMA RoomDestroyRest ==
  ASSUME RoomInv, DestroyRest
  PROVE  RoomInv'
<1>1. PICK s, k : s = main.src /\ k = DynamicPart(s)
  BY Zenon
<1>2. s \in Sources /\ k \in Nat /\ conn[s] # "open"
  BY <1>1, WindowAssumption DEF DestroyRest, RoomInv, TypeOK, MainState, DynamicPart, MainHolds
<1>3. /\ window' = [window EXCEPT ![s] = window[s] - k]
      /\ full' = [full EXCEPT ![s] = full[s] - k] /\ free' = free + k
      /\ main' = MainIdle
      /\ UNCHANGED <<suspend, inflight, toReclaim, pending, balanced, conn, reader, event,
                     realloc, ack, ticks>>
  BY Zenon, <1>1 DEF DestroyRest, ReleaseWindow, readers
<1>4. window' \in [Sources -> Int] /\ full' \in [Sources -> Int] /\ free' \in Nat
  BY <1>2, <1>3 DEF RoomInv, TypeOK
<1>5. TypeOK'
  BY Zenon, <1>3, <1>4, MainIdleType DEF RoomInv, TypeOK
<1>6. \A t \in Sources : conn[t] = "open" => window'[t] = window[t]
  BY Zenon, <1>2, <1>3 DEF RoomInv, TypeOK
<1> QED BY Zenon, <1>3, <1>5, <1>6, MainIdleType, RoomElsewhere

\* A new connection starts with its static window.
LEMMA RoomAccept ==
  ASSUME RoomInv, NEW s \in Sources, Accept(s)
  PROVE  RoomInv'
<1> USE DEF Accept, pool
<1>1. /\ window' \in [Sources -> Int] /\ full' \in [Sources -> Int]
      /\ conn' \in [Sources -> {"open", "draining", "closed"}]
      /\ suspend' \in [Sources -> BOOLEAN] /\ reader' \in [Sources -> Readers]
  BY WindowAssumption DEF RoomInv, TypeOK, Readers
<1>2. TypeOK'
  BY Zenon, <1>1 DEF RoomInv, TypeOK
<1>3. ReadersMatch' /\ OpenWindows' /\ NoOverdraft'
  BY SMTT(60), WindowAssumption DEF RoomInv, TypeOK, ReadersMatch, OpenWindows, NoOverdraft
<1>4. MainHolds' /\ TodoIsOpen' /\ LeavesSlot'
  BY Zenon DEF RoomInv, MainHolds, Reallocating, TodoIsOpen, LeavesSlot, Decreasing
<1> QED BY Zenon, <1>2, <1>3, <1>4 DEF RoomInv

\* Every step of every thread.
LEMMA RoomNext ==
  ASSUME Counts(Sources), RoomInv, [Next]_vars
  PROVE  RoomInv'
<1>1. ASSUME NEW s \in Sources,
             Read(s) \/ FinishFetch(s) \/ WakeupTriggered(s) \/ Close(s) \/ Destroy(s) \/ Accept(s)
      PROVE  RoomInv'
  BY Zenon, <1>1, RoomStartFetch, RoomPost, RoomFinishFetch, RoomWakeupTriggered, RoomClose, RoomDestroy,
     RoomAccept DEF Read
<1>2. ASSUME NEW d \in AckThreads, AckStep(d) PROVE RoomInv'
  BY Zenon, <1>2, RoomAckGather, RoomAckPend, RoomAckAdd, RoomAckEnd DEF AckStep
<1>3. ASSUME NEW d \in AckThreads, NEW s \in Sources, NEW refused \in BOOLEAN, StartAck(d, s, refused)
      PROVE  RoomInv'
  BY Zenon, <1>3, RoomStartAck
<1>4. ASSUME Tick PROVE RoomInv'
  BY Zenon, <1>4, RoomTick
<1>5. ASSUME MainStep PROVE RoomInv'
  <2>1. ASSUME Gather("gather", "pend") PROVE RoomInv'
    BY Zenon, <2>1, RoomGather
  <2>2. ASSUME Gather("gather2", "pend2") PROVE RoomInv'
    BY Zenon, <2>2, RoomGather
  <2>3. ASSUME Pend("pend", "release") PROVE RoomInv'
    BY Zenon, <2>3, RoomPend
  <2>4. ASSUME Pend("pend2", "subtract") PROVE RoomInv'
    BY Zenon, <2>4, RoomPend
  <2> QED BY Zenon, <1>5, <2>1, <2>2, <2>3, <2>4, RoomReleaseReclaimed, RoomRebalance, RoomRequest, RoomSubtract,
             RoomFinishRealloc, RoomDestroyRest, RoomSchedule DEF MainStep
<1>6. ASSUME UNCHANGED vars PROVE RoomInv'
  <2>1. TypeOK'
    BY Zenon, <1>6 DEF vars, RoomInv, TypeOK
  <2> QED BY Zenon, <1>6, <2>1 DEF vars, RoomInv, ReadersMatch, OpenWindows, MainHolds, TodoIsOpen, LeavesSlot,
                            NoOverdraft
<1> QED BY Zenon, <1>1, <1>2, <1>3, <1>4, <1>5, <1>6 DEF Next

\* With it come the types of the variables.
LEMMA RoomTypes == ASSUME RoomInv PROVE TypeOK
BY Zenon DEF RoomInv

----------------------------------------------------------------------------
(* ResumeInv is inductive where the wakeup is exact.                       *)

\* wakeup_threshold is unsigned.
LEMMA ThresholdType == Threshold \in Nat
<1>1. InitWindow \div 4 \in Nat
  BY WindowAssumption
<1> QED BY Zenon, <1>1, WindowAssumption DEF Threshold, Min

\* A static window never ends below zero.
LEMMA StaticRoomNext ==
  ASSUME PoolSize = 0, RoomInv, RoomInv', StaticInv, StaticRoom, [Next]_vars
  PROVE  StaticRoom'
<1>1. ASSUME NEW s \in Sources,
             StartFetch(s) \/ FinishFetch(s) \/ WakeupTriggered(s) \/ Close(s) \/ Destroy(s)
      PROVE  StaticRoom'
  BY SMTT(60), <1>1 DEF StaticRoom, StartFetch, FinishFetch, WakeupTriggered, Close, Destroy, Dynamic, counters
<1>2. ASSUME NEW s \in Sources, Post(s) PROVE StaticRoom'
  <2>1. conn'[s] = "open"
    BY Zenon, <1>2 DEF Post, RoomInv, ReadersMatch
  <2> QED BY ZenonT(60), <1>2, <2>1 DEF StaticRoom, Post, RoomInv, TypeOK, OpenWindows
<1>3. ASSUME NEW s \in Sources, Accept(s) PROVE StaticRoom'
  BY SMTT(60), <1>3, WindowAssumption, RoomTypes DEF StaticRoom, Accept, TypeOK
<1>4. ASSUME NEW d \in AckThreads, AckAdd(d) PROVE StaticRoom'
  <2>1. ack[d].n \in Nat /\ ack[d].src \in Sources
    BY Zenon, RoomTypes DEF TypeOK, AckState
  <2> QED BY <1>4, <2>1, RoomTypes DEF StaticRoom, AckAdd, TypeOK
<1>5. ASSUME NEW d \in AckThreads,
             AckGather(d) \/ AckPend(d) \/ AckResume(d) \/ AckWake(d) \/ AckSuspend(d)
      PROVE  StaticRoom'
  BY ZenonT(60), <1>5 DEF StaticRoom, AckGather, AckPend, AckResume, AckWake, AckSuspend, counters
<1>6. ASSUME NEW d \in AckThreads, NEW s \in Sources, NEW refused \in BOOLEAN, StartAck(d, s, refused)
      PROVE  StaticRoom'
  BY Zenon, <1>6 DEF StaticRoom, StartAck
<1>7. ~Tick
  BY DEF Tick, Dynamic
<1>8. ASSUME MainStep PROVE StaticRoom'
  <2>1. DestroyRest
    BY ZenonT(60), <1>8 DEF StaticInv, MainStep, Gather, Pend, ReleaseReclaimed, Rebalance, RequestReclamation,
                ReadEmptyWindow, Subtract, FinishRealloc, Schedule
  <2>2. main.src \in Sources
    BY Zenon, RoomTypes DEF TypeOK, MainState
  <2>3. full[main.src] = InitWindow
    BY Zenon, <2>2 DEF StaticInv, StaticSource
  <2> QED
    BY <2>1, <2>2, <2>3, WindowAssumption
    DEF StaticRoom, DestroyRest, DynamicPart, RoomInv, TypeOK
<1>9. ASSUME UNCHANGED vars PROVE StaticRoom'
  BY Zenon, <1>9 DEF StaticRoom, vars
<1> QED BY Zenon, <1>1, <1>2, <1>3, <1>4, <1>5, <1>6, <1>7, <1>8, <1>9 DEF Next, AckStep, Read

\* Init
LEMMA ResumeInit == Init => ResumeInv
<1> SUFFICES ASSUME Init PROVE ResumeInv
  BY Zenon
<1>1. \A d \in AckThreads : ResumeThread(ack[d])
  BY Zenon, AckIdleType DEF Init, ResumeThread
<1> QED BY Zenon, <1>1 DEF Init, ResumeInv, NoLostResume

\* No destination thread steps, and no reader is left suspended with an open
\* window: it was so before, with a wakeup under way, or one is posted.
ResumeQuiet(s) ==
    /\ suspend'[s] => suspend[s]
    /\ \/ reader'[s] # "suspended" \/ event'[s] \/ suspend'[s] \/ window'[s] <= Threshold
       \/ /\ reader[s] = "suspended" /\ ~suspend[s] /\ window[s] > Threshold
          /\ event[s] => event'[s]

\* A step of a reader or of the main thread.
LEMMA ResumeFrame ==
  ASSUME RoomInv, RoomInv', ResumeInv, ack' = ack, \A s \in Sources : ResumeQuiet(s)
  PROVE  ResumeInv'
<1>1. \A d \in AckThreads : ResumeThread(ack[d])'
  BY Zenon DEF ResumeInv, ResumeThread
<1>2. ~Suspends => \A s \in Sources : ~suspend'[s]
  BY Zenon DEF ResumeInv, ResumeQuiet
<1>3. ASSUME NEW s \in Sources, reader'[s] = "suspended", ~suspend'[s], window'[s] > Threshold
      PROVE  WakeupUnderWay(s)'
  <2>1. ~(window'[s] <= Threshold)
    BY <1>3, ThresholdType DEF RoomInv, TypeOK
  <2>2. CASE event'[s]
    BY Zenon, <2>2 DEF WakeupUnderWay
  <2>3. CASE ~event'[s]
    <3>1. reader[s] = "suspended" /\ ~suspend[s] /\ window[s] > Threshold /\ ~event[s]
      BY Zenon, <1>3, <2>1, <2>3 DEF ResumeQuiet
    <3>2. WakeupUnderWay(s)
      BY Zenon, <3>1 DEF ResumeInv, NoLostResume
    <3> QED BY Zenon, <3>1, <3>2 DEF WakeupUnderWay
  <2> QED BY Zenon, <2>2, <2>3
<1>4. NoLostResume'
  BY Zenon, <1>3 DEF NoLostResume
<1> QED BY Zenon, <1>1, <1>2, <1>4 DEF ResumeInv

\* log_reader_update_watches() leaves suspended only a reader whose window is
\* empty or whose suspend bit is set.
LEMMA WatchesAreQuiet ==
  ASSUME RoomInv, NEW s \in Sources, reader'[s] = UpdatedWatches(s),
         window' = window, suspend' = suspend
  PROVE  ResumeQuiet(s)
BY SMTT(60), ThresholdType, RoomTypes DEF TypeOK, ResumeQuiet, UpdatedWatches, Suspended

\* A connection that the step does not touch.
LEMMA UntouchedIsQuiet ==
  ASSUME RoomInv, NEW s \in Sources, reader'[s] = reader[s], window'[s] = window[s],
         suspend'[s] = suspend[s], event'[s] = event[s]
  PROVE  ResumeQuiet(s)
BY SMTT(60), ThresholdType, RoomTypes DEF TypeOK, ResumeQuiet

\* Steps of a connection's reader and of its life.
LEMMA ResumeReader ==
  ASSUME RoomInv, RoomInv', ResumeInv, NEW s \in Sources,
         Read(s) \/ FinishFetch(s) \/ WakeupTriggered(s) \/ Close(s) \/ Destroy(s) \/ Accept(s)
  PROVE  ResumeInv'
<1> USE DEF counters, RoomInv, TypeOK
<1>1. ack' = ack
  BY Zenon DEF Read, StartFetch, Post, FinishFetch, WakeupTriggered, Close, Destroy, Accept
<1>2. ASSUME NEW t \in Sources, t # s PROVE ResumeQuiet(t)
  <2>1. /\ reader'[t] = reader[t] /\ window'[t] = window[t]
        /\ suspend'[t] = suspend[t] /\ event'[t] = event[t]
    BY SMTT(60), <1>2 DEF Read, StartFetch, Post, FinishFetch, WakeupTriggered, Close, Destroy, Accept
  <2> QED BY Zenon, <2>1, UntouchedIsQuiet
<1>3. ResumeQuiet(s)
  <2>1. CASE StartFetch(s) \/ Post(s) \/ Close(s) \/ Accept(s)
    BY ZenonT(60), <2>1 DEF StartFetch, Post, Close, Accept, ResumeQuiet
  <2>2. CASE FinishFetch(s)
    <3>1. CASE realloc[s]
      BY Zenon, <2>2, <3>1 DEF FinishFetch, ResumeQuiet
    <3>2. CASE ~realloc[s]
      BY Zenon, <2>2, <3>2, WatchesAreQuiet DEF FinishFetch
    <3> QED BY Zenon, <3>1, <3>2
  <2>3. CASE WakeupTriggered(s)
    <3>1. CASE reader[s] \in {"polling", "suspended"}
      BY ZenonT(60), <2>3, <3>1, WatchesAreQuiet DEF WakeupTriggered
    <3>2. CASE reader[s] \notin {"polling", "suspended"}
      BY Zenon, <2>3, <3>2 DEF WakeupTriggered, ResumeQuiet
    <3> QED BY Zenon, <3>1, <3>2
  <2>4. CASE Destroy(s)
    BY Zenon, <2>4, UntouchedIsQuiet DEF Destroy
  <2> QED BY Zenon, <2>1, <2>2, <2>3, <2>4 DEF Read
<1> QED BY Zenon, <1>1, <1>2, <1>3, ResumeFrame

\* _inc_balanced() wakes the reader of an empty window: with a threshold of zero
\* that is when the window opens.
LEMMA ResumeRebalance ==
  ASSUME RoomInv, RoomInv', ResumeInv, Threshold = 0, Rebalance
  PROVE  ResumeInv'
<1>1. /\ main.src \in Sources /\ ack' = ack /\ reader' = reader /\ suspend' = suspend
      /\ \A t \in Sources : t # main.src => window'[t] = window[t] /\ event'[t] = event[t]
  BY Zenon, RoomTypes DEF Rebalance, Increase, TypeOK, MainState
<1>2. PICK s \in Sources : s = main.src
  BY Zenon, <1>1
<1>3. \/ window'[s] = window[s] /\ event'[s] = event[s]
      \/ \E k \in Nat : /\ window'[s] = window[s] + k
                        /\ event'[s] = (event[s] \/ (window[s] = 0 /\ k # 0))
  <2>1. ASSUME toReclaim[s] = 0, DynamicPart(s) \in 0..(balanced - 1),
               Increase(s, Min(free, balanced - DynamicPart(s)))
        PROVE  \E k \in Nat : /\ window'[s] = window[s] + k
                             /\ event'[s] = (event[s] \/ (window[s] = 0 /\ k # 0))
    <3>1. PICK k : k = Min(free, balanced - DynamicPart(s))
      BY Zenon
    <3>2. k \in Nat
      BY SMTT(60), <2>1, <3>1, RoomTypes DEF Min, TypeOK
    <3> QED BY Zenon, <2>1, <3>1, <3>2, RoomTypes DEF Increase, TypeOK
  <2> QED BY Zenon, <1>2, <2>1 DEF Rebalance
<1>4. window[s] \in Int /\ event[s] \in BOOLEAN /\ (conn[s] = "open" => window[s] >= 0)
  BY Zenon DEF RoomInv, TypeOK, OpenWindows
<1>5. ResumeQuiet(s)
  <2>1. reader[s] = "suspended" => window[s] >= 0
    BY Zenon, <1>4 DEF RoomInv, ReadersMatch
  <2>2. CASE window'[s] = window[s] /\ event'[s] = event[s]
    BY Zenon, <1>1, <2>2, UntouchedIsQuiet
  <2>3. ASSUME NEW k \in Nat, window'[s] = window[s] + k,
               event'[s] = (event[s] \/ (window[s] = 0 /\ k # 0))
        PROVE  ResumeQuiet(s)
    <3>1. (event[s] => event'[s]) /\ (window[s] = 0 /\ k # 0 => event'[s])
      BY Zenon, <2>3
    <3>2. reader[s] = "suspended" =>
             window[s] > 0 \/ window'[s] = 0 \/ (window[s] = 0 /\ k # 0)
      BY <1>4, <2>1, <2>3
    <3>3. suspend'[s] = suspend[s] /\ reader'[s] = reader[s]
      BY Zenon, <1>1
    <3> QED BY SMTT(60), <3>1, <3>2, <3>3 DEF ResumeQuiet
  <2> QED BY ZenonT(60), <1>3, <2>2, <2>3
<1>6. \A t \in Sources : ResumeQuiet(t)
  BY Zenon, <1>1, <1>2, <1>5, UntouchedIsQuiet
<1> QED BY Zenon, <1>1, <1>6, ResumeFrame

\* The other steps of the main thread open no window.
LEMMA ResumeMain ==
  ASSUME RoomInv, RoomInv', ResumeInv, Rebalance => Threshold = 0, Tick \/ MainStep
  PROVE  ResumeInv'
<1>1. CASE \/ Tick \/ Gather("gather", "pend") \/ Pend("pend", "release") \/ ReleaseReclaimed
           \/ RequestReclamation \/ ReadEmptyWindow
           \/ Gather("gather2", "pend2") \/ Pend("pend2", "subtract")
           \/ \E s \in Sources : Schedule(s)
  <2>1. UNCHANGED <<ack, reader, window, suspend, event>>
    BY Zenon, <1>1 DEF Tick, Gather, Pend, ReleaseReclaimed, RequestReclamation, ReadEmptyWindow, Schedule,
                counters, readers
  <2> QED BY Zenon, <2>1, UntouchedIsQuiet, ResumeFrame
<1>2. CASE Rebalance
  BY Zenon, <1>2, ResumeRebalance
<1>3. main.src \in Sources /\ main.now \in Nat
  BY Zenon, RoomTypes DEF TypeOK, MainState
<1>4. CASE Subtract
  <2>1. /\ UNCHANGED <<ack, reader, suspend, event>>
        /\ window' = [window EXCEPT ![main.src] = @ - main.now]
    BY Zenon, <1>4 DEF Subtract, readers
  <2>2. \A s \in Sources : ResumeQuiet(s)
    BY SMTT(60), <1>3, <2>1, ThresholdType, RoomTypes DEF ResumeQuiet, TypeOK
  <2> QED BY Zenon, <2>1, <2>2, ResumeFrame
<1>5. CASE FinishRealloc
  <2>1. /\ UNCHANGED <<ack, window, suspend, event>>
        /\ reader' = [reader EXCEPT ![main.src] = UpdatedWatches(main.src)]
    BY Zenon, <1>5 DEF FinishRealloc, counters
  <2>2. ResumeQuiet(main.src)
    BY Zenon, <1>3, <2>1, WatchesAreQuiet, RoomTypes DEF TypeOK
  <2>3. \A s \in Sources : s # main.src => ResumeQuiet(s)
    BY Zenon, <2>1, UntouchedIsQuiet, RoomTypes DEF TypeOK
  <2> QED BY Zenon, <2>1, <2>2, <2>3, ResumeFrame
<1>6. CASE DestroyRest
  <2>1. /\ UNCHANGED <<ack, reader, suspend, event>>
        /\ \A s \in Sources : s # main.src => window'[s] = window[s]
    BY Zenon, <1>3, <1>6, RoomTypes DEF DestroyRest, readers, TypeOK
  <2>2. reader[main.src] = "stopped"
    BY ZenonT(60), <1>3, <1>6 DEF DestroyRest, RoomInv, MainHolds, ReadersMatch
  <2>3. ResumeQuiet(main.src)
    BY Zenon, <1>3, <2>1, <2>2 DEF ResumeQuiet
  <2>4. \A s \in Sources : s # main.src => ResumeQuiet(s)
    BY Zenon, <2>1, UntouchedIsQuiet
  <2> QED BY Zenon, <2>1, <2>3, <2>4, ResumeFrame
<1> QED BY Zenon, <1>1, <1>2, <1>4, <1>5, <1>6 DEF MainStep

\* A destination thread d steps for connection s, its record becoming a: it
\* leaves no suspended reader with an open window without a wakeup.
ResumeMoves(d, a, s) ==
    /\ ack' = [ack EXCEPT ![d] = a]
    /\ ack[d].wake => ack[d].src = s
    /\ ResumeThread(a)
    /\ reader' = reader
    /\ \A t \in Sources : t # s =>
          window'[t] = window[t] /\ suspend'[t] = suspend[t] /\ event'[t] = event[t]
    /\ ~Suspends => ~suspend'[s]
    /\ reader[s] = "suspended" /\ ~suspend'[s] /\ window'[s] > Threshold =>
          \/ event'[s]
          \/ a.wake /\ a.src = s
          \/ /\ ~ack[d].wake /\ ~suspend[s] /\ window[s] > Threshold
             /\ event[s] => event'[s]

\* A step of a destination thread.
LEMMA ResumeAckFrame ==
  ASSUME RoomInv, ResumeInv, NEW d \in AckThreads, NEW a, NEW s \in Sources, ResumeMoves(d, a, s)
  PROVE  ResumeInv'
<1>1. ack'[d] = a /\ \A e \in AckThreads : e # d => ack'[e] = ack[e]
  BY Zenon, RoomTypes DEF ResumeMoves, TypeOK
<1>2. \A e \in AckThreads : ResumeThread(ack[e])'
  <2>1. \A e \in AckThreads : ResumeThread(ack'[e])
    BY Zenon, <1>1 DEF ResumeInv, ResumeMoves
  <2> QED BY Zenon, <2>1 DEF ResumeThread
<1>3. ~Suspends => \A t \in Sources : ~suspend'[t]
  BY Zenon DEF ResumeInv, ResumeMoves
<1>4. ASSUME NEW t \in Sources, reader'[t] = "suspended", ~suspend'[t], window'[t] > Threshold
      PROVE  WakeupUnderWay(t)'
  <2>1. CASE t = s
    <3>1. CASE event'[s] \/ (a.wake /\ a.src = s)
      BY Zenon, <1>1, <2>1, <3>1 DEF WakeupUnderWay
    <3>2. CASE /\ ~ack[d].wake /\ ~suspend[s] /\ window[s] > Threshold
               /\ event[s] => event'[s]
      <4>1. WakeupUnderWay(s)
        BY Zenon, <1>4, <2>1, <3>2 DEF ResumeInv, NoLostResume, ResumeMoves
      <4> QED BY ZenonT(60), <1>1, <2>1, <3>2, <4>1 DEF WakeupUnderWay
    <3>3. reader[s] = "suspended" /\ ~suspend'[s] /\ window'[s] > Threshold
      BY Zenon, <1>4, <2>1 DEF ResumeMoves
    <3> QED BY Zenon, <3>1, <3>2, <3>3 DEF ResumeMoves
  <2>2. CASE t # s
    <3>1. /\ event'[t] = event[t] /\ (ack[d].wake => ack[d].src # t)
          /\ reader[t] = "suspended" /\ ~suspend[t] /\ window[t] > Threshold
      BY ZenonT(60), <1>4, <2>2 DEF ResumeMoves
    <3>2. WakeupUnderWay(t)
      BY Zenon, <3>1 DEF ResumeInv, NoLostResume
    <3> QED BY ZenonT(60), <1>1, <3>1, <3>2 DEF WakeupUnderWay
  <2> QED BY Zenon, <2>1, <2>2
<1>5. NoLostResume'
  BY Zenon, <1>4 DEF NoLostResume
<1> QED BY Zenon, <1>2, <1>3, <1>5 DEF ResumeInv

\* Until its slot is back in the window, an acknowledgement owes no wakeup.
LEMMA ResumeAckBegin ==
  ASSUME RoomInv, ResumeInv, NEW d \in AckThreads, NEW s \in Sources, NEW refused \in BOOLEAN,
         StartAck(d, s, refused) \/ AckGather(d) \/ AckPend(d)
  PROVE  ResumeInv'
<1>1. UNCHANGED <<window, suspend, reader, event>>
  BY Zenon DEF StartAck, AckGather, AckPend, readers
<1>2. ResumeThread(ack[d]) /\ ack[d].pc \notin {"resume", "wake"} /\ ack[d] \in AckState
  BY Zenon, RoomTypes DEF ResumeInv, StartAck, AckGather, AckPend, TypeOK
<1>3. ~ack[d].wake
  BY Zenon, <1>2 DEF ResumeThread
<1>4. PICK a : /\ ack' = [ack EXCEPT ![d] = a]
               /\ ~a.wake /\ a.pc \notin {"resume", "suspend"} /\ (~Suspends => ~a.suspends)
  <2>1. CASE StartAck(d, s, refused)
    <3>1. PICK a : a = [AckIdle EXCEPT !.pc = IF Dynamic THEN "gather" ELSE "add",
                                       !.src = s, !.n = 1, !.suspends = refused]
      BY Zenon
    <3>2. a.pc \in {"gather", "add"} /\ a.suspends = refused /\ a.wake = FALSE
      BY Zenon, <3>1, AckIdleType DEF AckState, AckIdle
    <3>3. ack' = [ack EXCEPT ![d] = a] /\ (refused => Suspends)
      BY Zenon, <2>1, <3>1 DEF StartAck
    <3> QED BY Zenon, <3>2, <3>3
  <2>2. CASE AckGather(d)
    <3>1. PICK r : r = Reclaimable(ack[d].src, ack[d].n)
      BY Zenon
    <3>2. PICK a : a = [ack[d] EXCEPT !.pc = IF r # 0 THEN "pend" ELSE "add",
                                      !.n = ack[d].n - r, !.reclaim = r]
      BY Zenon
    <3>3. a.pc \in {"pend", "add"} /\ a.suspends = ack[d].suspends /\ a.wake = ack[d].wake
      BY Zenon, <1>2, <3>2 DEF AckState
    <3>4. ack' = [ack EXCEPT ![d] = a]
      BY Zenon, <2>2, <3>1, <3>2, RoomTypes DEF AckGather, TypeOK
    <3> QED BY Zenon, <1>2, <1>3, <3>3, <3>4 DEF ResumeThread
  <2>3. CASE AckPend(d)
    <3>1. PICK a : a = [ack[d] EXCEPT !.pc = "add", !.reclaim = 0]
      BY Zenon
    <3>2. a.pc = "add" /\ a.suspends = ack[d].suspends /\ a.wake = ack[d].wake
      BY Zenon, <1>2, <3>1 DEF AckState
    <3>3. ack' = [ack EXCEPT ![d] = a]
      BY ZenonT(60), <2>3, <3>1, RoomTypes DEF AckPend, TypeOK
    <3> QED BY Zenon, <1>2, <1>3, <3>2, <3>3 DEF ResumeThread
  <2> QED BY Zenon, <2>1, <2>2, <2>3
<1>5. ResumeThread(a)
  BY Zenon, <1>4 DEF ResumeThread
<1>6. ~Suspends => ~suspend[s]
  BY Zenon DEF ResumeInv
<1>7. ResumeMoves(d, a, s)
  BY Zenon, <1>1, <1>3, <1>4, <1>5, <1>6 DEF ResumeMoves
<1> QED BY Zenon, <1>7, ResumeAckFrame

\* The slot that takes the window over the threshold owes a wakeup; where
\* messages are refused, so does every one that finds the source suspended.
LEMMA ResumeAckAdd ==
  ASSUME RoomInv, ResumeInv, NEW d \in AckThreads, AckAdd(d),
         Suspends => Threshold = 0 /\ ack[d].n = 1 /\ StaticRoom
  PROVE  ResumeInv'
<1>1. ack[d] \in AckState /\ ack[d].pc = "add" /\ ResumeThread(ack[d])
  BY Zenon, RoomTypes DEF AckAdd, TypeOK, ResumeInv
<1>2. PICK s \in Sources : s = ack[d].src
  BY Zenon, <1>1 DEF AckState
<1>3. ~ack[d].wake /\ ack[d].n \in Nat
  BY Zenon, <1>1 DEF ResumeThread, AckState
<1>4. window[s] \in Int /\ suspend[s] \in BOOLEAN
  BY Zenon, RoomTypes DEF TypeOK
<1>5. PICK resume \in BOOLEAN : resume = Suspended(s)
  BY Zenon, <1>4 DEF Suspended
<1>6. PICK wake \in BOOLEAN : wake = (Crosses(window[s], ack[d].n) \/ (resume /\ window[s] > 0))
  BY ZenonT(60) DEF Crosses
<1>7. PICK a : a = Remaining(ack[d], resume, wake)
  BY Zenon
<1>8. /\ ack' = [ack EXCEPT ![d] = a]
      /\ window' = [window EXCEPT ![s] = @ + ack[d].n]
      /\ UNCHANGED <<suspend, reader, event>>
  BY Zenon, <1>2, <1>5, <1>6, <1>7, RoomTypes DEF AckAdd, TypeOK, readers
<1>9. /\ a.wake = wake /\ (a.pc = "resume" => resume) /\ (resume => a.pc = "resume")
      /\ (~resume /\ wake => a.pc = "wake") /\ (a.pc = "suspend" => ack[d].suspends)
      /\ (a.suspends => ack[d].suspends) /\ (a.pc # "idle" => a.src = s)
  BY SMTT(60), <1>1, <1>2, <1>7, RemainingType
<1>10. Suspends /\ resume => wake
  <2>1. ASSUME Suspends, resume PROVE wake
    <3>1. window[s] >= 0 /\ (window[s] = 0 => Crosses(window[s], ack[d].n))
      BY SMTT(60), <2>1, <1>4 DEF StaticRoom, Crosses
    <3>2. window[s] = 0 \/ window[s] > 0
      BY SMTT(60), <1>4, <3>1
    <3> QED BY Zenon, <1>6, <2>1, <3>1, <3>2
  <2> QED BY Zenon, <2>1
<1>11. ResumeThread(a)
  BY Zenon, <1>1, <1>9, <1>10 DEF ResumeThread
<1>12. ~(window[s] > Threshold) /\ window'[s] > Threshold => wake /\ a.src = s
  <2>1. ASSUME ~(window[s] > Threshold), window'[s] > Threshold PROVE Crosses(window[s], ack[d].n)
    BY SMTT(60), <1>3, <1>4, <1>8, <2>1, ThresholdType, RoomTypes DEF Crosses, TypeOK
  <2> QED BY ZenonT(60), <1>6, <1>9, <2>1
<1>13. ~Suspends => ~suspend[s]
  BY Zenon DEF ResumeInv
<1>14. \A t \in Sources : t # s => window'[t] = window[t]
  BY Zenon, <1>8, RoomTypes DEF TypeOK
<1>15. ResumeMoves(d, a, s)
  BY ZenonT(60), <1>3, <1>8, <1>9, <1>11, <1>12, <1>13, <1>14 DEF ResumeMoves
<1> QED BY ZenonT(60), <1>15, ResumeAckFrame

\* Lifting the suspend bit keeps the wakeup that is owed; waking posts it.
LEMMA ResumeAckEnd ==
  ASSUME RoomInv, ResumeInv, NEW d \in AckThreads, AckResume(d) \/ AckWake(d) \/ AckSuspend(d)
  PROVE  ResumeInv'
<1>1. ack[d] \in AckState /\ ResumeThread(ack[d]) /\ ack[d].wake \in BOOLEAN
  BY Zenon, RoomTypes DEF TypeOK, ResumeInv, AckState
<1>2. PICK s \in Sources : s = ack[d].src
  BY Zenon, <1>1 DEF AckState
<1>3. PICK f \in BOOLEAN : f = FALSE
  BY Zenon
<1>4. ~Suspends => ~suspend[s]
  BY Zenon DEF ResumeInv
<1>5. CASE AckResume(d)
  <2>1. PICK a : a = Remaining(ack[d], f, ack[d].wake)
    BY Zenon
  <2>2. /\ a.wake = ack[d].wake /\ a.pc # "resume" /\ (ack[d].wake => a.pc = "wake")
        /\ (a.pc = "suspend" => ack[d].suspends) /\ (a.suspends => ack[d].suspends)
        /\ (a.pc # "idle" => a.src = s)
    BY SMTT(60), <1>1, <1>2, <1>3, <2>1, RemainingType
  <2>3. /\ ack' = [ack EXCEPT ![d] = a]
        /\ suspend' = [suspend EXCEPT ![s] = FALSE]
        /\ UNCHANGED <<window, reader, event>>
    BY Zenon, <1>2, <1>3, <1>5, <2>1 DEF AckResume, readers
  <2>4. ResumeThread(a)
    BY ZenonT(60), <1>1, <2>2 DEF ResumeThread
  <2>5. Suspends => ack[d].wake
    BY Zenon, <1>1, <1>5 DEF AckResume, ResumeThread
  <2>6. ~suspend'[s] /\ \A t \in Sources : t # s => suspend'[t] = suspend[t]
    BY Zenon, <2>3, RoomTypes DEF TypeOK
  <2>7. ResumeMoves(d, a, s)
    BY ZenonT(60), <1>2, <1>4, <2>2, <2>3, <2>4, <2>5, <2>6 DEF ResumeMoves
  <2> QED BY Zenon, <2>7, ResumeAckFrame
<1>6. CASE AckWake(d)
  <2>1. PICK a : a = Remaining(ack[d], f, f)
    BY Zenon
  <2>2. /\ ~a.wake /\ a.pc # "resume" /\ (a.pc = "suspend" => ack[d].suspends)
        /\ (a.suspends => ack[d].suspends)
    BY SMTT(60), <1>1, <1>3, <2>1, RemainingType
  <2>3. /\ ack' = [ack EXCEPT ![d] = a]
        /\ event' = [event EXCEPT ![s] = @ \/ conn[s] = "open"]
        /\ UNCHANGED <<window, reader, suspend>>
    BY Zenon, <1>2, <1>3, <1>6, <2>1 DEF AckWake, counters
  <2>4. ResumeThread(a)
    BY ZenonT(60), <1>1, <2>2 DEF ResumeThread
  <2>5. /\ reader[s] = "suspended" => event'[s]
        /\ \A t \in Sources : t # s => event'[t] = event[t]
    BY ZenonT(60), <2>3 DEF RoomInv, TypeOK, ReadersMatch
  <2>6. ResumeMoves(d, a, s)
    BY Zenon, <1>2, <1>4, <2>2, <2>3, <2>4, <2>5 DEF ResumeMoves
  <2> QED BY Zenon, <2>6, ResumeAckFrame
<1>7. CASE AckSuspend(d)
  <2>1. PICK a : a = AckIdle
    BY Zenon
  <2>2. ResumeThread(a)
    BY Zenon, <2>1, AckIdleType DEF ResumeThread
  <2>3. /\ ack' = [ack EXCEPT ![d] = a]
        /\ suspend' = [suspend EXCEPT ![s] = TRUE]
        /\ UNCHANGED <<window, reader, event>>
    BY Zenon, <1>2, <1>7, <2>1 DEF AckSuspend, readers
  <2>4. Suspends /\ ~ack[d].wake
    BY Zenon, <1>1, <1>7 DEF AckSuspend, ResumeThread
  <2>5. suspend'[s] /\ \A t \in Sources : t # s => suspend'[t] = suspend[t]
    BY Zenon, <2>3, RoomTypes DEF TypeOK
  <2>6. ResumeMoves(d, a, s)
    BY ZenonT(60), <2>2, <2>3, <2>4, <2>5 DEF ResumeMoves
  <2> QED BY Zenon, <2>6, ResumeAckFrame
<1> QED BY Zenon, <1>5, <1>6, <1>7

\* Every step.
LEMMA ResumeNext ==
  ASSUME WakeupIsExact, RoomInv, RoomInv', ResumeInv,
         PoolSize = 0 => StaticInv /\ StaticRoom, [Next]_vars
  PROVE  ResumeInv'
<1>1. ASSUME NEW s \in Sources,
             Read(s) \/ FinishFetch(s) \/ WakeupTriggered(s) \/ Close(s) \/ Destroy(s) \/ Accept(s)
      PROVE  ResumeInv'
  BY Zenon, <1>1, ResumeReader
<1>2. ASSUME NEW d \in AckThreads, AckStep(d) PROVE ResumeInv'
  <2>1. CASE AckGather(d) \/ AckPend(d)
    <3>1. PICK s \in Sources, refused \in BOOLEAN : TRUE
      BY Zenon, WindowAssumption
    <3> QED BY Zenon, <2>1, <3>1, ResumeAckBegin
  <2>2. CASE AckAdd(d)
    <3>1. Suspends => Threshold = 0 /\ PoolSize = 0
      BY Zenon DEF WakeupIsExact
    <3>2. Suspends => StaticRoom /\ StaticAck(ack[d])
      BY Zenon, <3>1 DEF StaticInv
    <3>3. Suspends => ack[d].n = 1
      BY Zenon, <2>2, <3>2 DEF AckAdd, StaticAck
    <3> QED BY Zenon, <2>2, <3>1, <3>2, <3>3, ResumeAckAdd
  <2> QED BY Zenon, <1>2, <2>1, <2>2, ResumeAckEnd DEF AckStep
<1>3. ASSUME NEW d \in AckThreads, NEW s \in Sources, NEW refused \in BOOLEAN, StartAck(d, s, refused)
      PROVE  ResumeInv'
  BY Zenon, <1>3, ResumeAckBegin
<1>4. Rebalance => Threshold = 0
  BY Zenon DEF WakeupIsExact, Rebalance, StaticInv
<1>5. CASE Tick \/ MainStep
  BY Zenon, <1>4, <1>5, ResumeMain
<1>6. ASSUME UNCHANGED vars PROVE ResumeInv'
  BY Zenon, <1>6 DEF vars, ResumeInv, ResumeThread, NoLostResume, WakeupUnderWay
<1> QED BY Zenon, <1>1, <1>2, <1>3, <1>5, <1>6 DEF Next

----------------------------------------------------------------------------
(* The acknowledgements that have a slot to give back.                     *)

HasSlot(a, s) == a.src = s /\ a.n + a.reclaim > 0

\* AckSlots counts them: it changes by one when one thread gets or gives back
\* its slot.
LEMMA AckSlotsStep ==
  ASSUME Counts(AckThreads), ack \in [AckThreads -> AckState], NEW d \in AckThreads, NEW a,
         ack' = [ack EXCEPT ![d] = a], NEW s
  PROVE  /\ AckSlots(s) \in Nat /\ AckSlots(s)' \in Nat
         /\ (HasSlot(ack[d], s) <=> HasSlot(a, s)) => AckSlots(s)' = AckSlots(s)
         /\ HasSlot(ack[d], s) /\ ~HasSlot(a, s) => AckSlots(s)' = AckSlots(s) - 1
         /\ ~HasSlot(ack[d], s) /\ HasSlot(a, s) => AckSlots(s)' = AckSlots(s) + 1
<1>1. PICK S : S = {c \in AckThreads : HasSlot(ack[c], s)}
  BY Zenon
<1>2. PICK T : T = {c \in AckThreads : HasSlot(ack[c], s)}'
  BY Zenon
<1>3. AckSlots(s) = Cardinality(S) /\ AckSlots(s)' = Cardinality(T)
  BY Zenon, <1>1, <1>2 DEF AckSlots, HasSlot
<1>4. \A c \in AckThreads : c \in S <=> HasSlot(ack[c], s)
  BY Zenon, <1>1
<1>5. \A c \in AckThreads : c \in T <=> HasSlot(IF c = d THEN a ELSE ack[c], s)
  BY Zenon, <1>2 DEF HasSlot
<1>6. S \subseteq AckThreads /\ T \subseteq AckThreads
  BY Zenon, <1>1, <1>2
<1>7. Cardinality(S) \in Nat /\ Cardinality(T) \in Nat
  BY Zenon, <1>6 DEF Counts
<1>8. (HasSlot(ack[d], s) <=> HasSlot(a, s)) => T = S
  BY Zenon, <1>4, <1>5, <1>6
<1>9. HasSlot(ack[d], s) /\ ~HasSlot(a, s) => T = S \ {d} /\ d \in S
  BY Zenon, <1>4, <1>5, <1>6
<1>10. ~HasSlot(ack[d], s) /\ HasSlot(a, s) => T = S \cup {d} /\ d \notin S
  BY Zenon, <1>4, <1>5, <1>6
<1>11. /\ d \in S => Cardinality(S \ {d}) = Cardinality(S) - 1
       /\ d \notin S => Cardinality(S \cup {d}) = Cardinality(S) + 1
  BY Zenon, <1>6 DEF Counts
<1> QED BY Zenon, <1>3, <1>7, <1>8, <1>9, <1>10, <1>11

\* Their number is a natural number.
LEMMA AckSlotsType ==
  ASSUME Counts(AckThreads)
  PROVE  \A s : AckSlots(s) \in Nat
BY Zenon DEF AckSlots, Counts

----------------------------------------------------------------------------
(* SlotInv is inductive while the sizes are in range.                      *)

\* A step of the reader or the main thread that keeps what a connection has
\* from falling behind its full window.
LEMMA SlotsFrame ==
  ASSUME Counts(AckThreads), RoomInv, RoomInv', SlotInv, UNCHANGED ack, CountersInRange',
         \A s \in Sources : conn'[s] # "closed" =>
            /\ conn[s] # "closed"
            /\ window'[s] + inflight'[s] + pending'[s] - full'[s]
                  >= window[s] + inflight[s] + pending[s] - full[s]
  PROVE  SlotInv'
<1>1. \A s : AckSlots(s)' = AckSlots(s)
  BY Zenon DEF AckSlots
<1>2. SlotsKept'
  BY SMTT(60), <1>1, AckSlotsType DEF RoomInv, SlotInv, SlotsKept, TypeOK
<1>3. \A d \in AckThreads : AckShape(ack[d])'
  BY Zenon DEF SlotInv, AckShape
<1> QED BY Zenon, <1>2, <1>3 DEF SlotInv

\* Init
LEMMA SlotInit ==
  ASSUME Init
  PROVE  SlotInv
<1> SUFFICES ASSUME Init PROVE SlotInv
  BY Zenon
<1>1. \A d \in AckThreads : AckShape(ack[d])
  BY Zenon, AckIdleType DEF Init, AckShape
<1>2. CountersInRange
  BY MainIdleType DEF Init, CountersInRange
<1>3. SlotsKept
  BY Zenon DEF Init, SlotsKept
<1> QED BY Zenon, <1>1, <1>2, <1>3 DEF SlotInv

\* A step that leaves the counters alone keeps the slots accounted for.
LEMMA SlotQuiet ==
  ASSUME Counts(AckThreads), RoomInv, RoomInv', SlotInv,
         UNCHANGED <<conn, ack, full, pending, toReclaim, window, inflight>>,
         main'.n >= 0, main'.pc # "request"
  PROVE  SlotInv'
<1>1. CountersInRange'
  BY Zenon DEF SlotInv, CountersInRange
<1>2. \A s \in Sources : window'[s] + inflight'[s] + pending'[s] - full'[s]
                            >= window[s] + inflight[s] + pending[s] - full[s]
  BY SMTT(60), RoomTypes DEF TypeOK
<1> QED BY Zenon, <1>1, <1>2, SlotsFrame

\* Posting moves a slot from the window to the messages in flight.
LEMMA SlotPost ==
  ASSUME Counts(AckThreads), RoomInv, RoomInv', SlotInv, NEW s \in Sources, Post(s)
  PROVE  SlotInv'
<1>1. CountersInRange'
  BY Zenon DEF Post, SlotInv, CountersInRange
<1>2. \A t \in Sources : window'[t] + inflight'[t] + pending'[t] - full'[t]
                            >= window[t] + inflight[t] + pending[t] - full[t]
  BY SMTT(60), RoomTypes DEF Post, TypeOK
<1> QED BY Zenon, <1>1, <1>2, SlotsFrame DEF Post

\* The reader, and the main thread's steps that leave the counters alone.
LEMMA SlotReader ==
  ASSUME Counts(AckThreads), RoomInv, RoomInv', SlotInv, NEW s \in Sources,
         StartFetch(s) \/ FinishFetch(s) \/ WakeupTriggered(s) \/ Schedule(s)
  PROVE  SlotInv'
<1>1. UNCHANGED <<conn, ack, full, pending, toReclaim, window, inflight>>
  BY Zenon DEF StartFetch, FinishFetch, WakeupTriggered, Schedule, counters
<1>2. main \in MainState /\ main.n >= 0
  BY Zenon, RoomTypes DEF TypeOK, SlotInv, CountersInRange
<1>3. main'.n >= 0 /\ main'.pc # "request"
  <2>1. CASE StartFetch(s) \/ WakeupTriggered(s)
    BY Zenon, <1>2, <2>1 DEF StartFetch, WakeupTriggered
  <2>2. CASE FinishFetch(s)
    <3>1. window[s] >= 0
      BY Zenon, <2>2 DEF FinishFetch, RoomInv, TypeOK, ReadersMatch, OpenWindows
    <3> QED BY Zenon, <1>2, <2>2, <3>1 DEF FinishFetch, MainState
  <2>3. CASE Schedule(s)
    <3>1. window[s] >= 0
      BY Zenon, <2>3 DEF Schedule, RoomInv, TypeOK, TodoIsOpen, OpenWindows
    <3>2. CASE reader[s] \in {"working", "posting"} /\ main.todo = {s}
      BY <2>3, <3>2, MainIdleType DEF Schedule
    <3>3. CASE reader[s] \in {"working", "posting"} /\ main.todo # {s}
      BY Zenon, <1>2, <2>3, <3>3 DEF Schedule, MainState
    <3>4. CASE reader[s] \notin {"working", "posting"}
      BY Zenon, <1>2, <2>3, <3>1, <3>4 DEF Schedule, MainState
    <3> QED BY Zenon, <3>2, <3>3, <3>4
  <2> QED BY Zenon, <2>1, <2>2, <2>3
<1> QED BY Zenon, <1>1, <1>3, SlotQuiet

\* The timer, the second look at the window, and the end of a reallocation.
LEMMA SlotMainQuiet ==
  ASSUME Counts(AckThreads), RoomInv, RoomInv', SlotInv, Tick \/ ReadEmptyWindow \/ FinishRealloc
  PROVE  SlotInv'
<1>1. UNCHANGED <<conn, ack, full, pending, toReclaim, window, inflight>>
  BY Zenon DEF Tick, ReadEmptyWindow, FinishRealloc, counters, readers
<1>2. main \in MainState /\ main.n >= 0 /\ main.src \in Sources
  BY Zenon, RoomTypes DEF TypeOK, SlotInv, CountersInRange, MainState
<1>3. main'.n >= 0 /\ main'.pc # "request"
  <2>1. CASE Tick
    BY Zenon, <1>2, <2>1 DEF Tick, MainState
  <2>2. CASE ReadEmptyWindow
    <3>1. window[main.src] >= 0
      BY Zenon, <2>2, <1>2 DEF ReadEmptyWindow, RoomInv, MainHolds, Reallocating, OpenWindows
    <3> QED BY Zenon, <1>2, <2>2, <3>1 DEF ReadEmptyWindow, MainState
  <2>3. CASE FinishRealloc
    BY <2>3, MainIdleType DEF FinishRealloc
  <2> QED BY Zenon, <2>1, <2>2, <2>3
<1> QED BY Zenon, <1>1, <1>3, SlotQuiet

\* The compensation takes from the reclamation what it adds to the pending slots.
LEMMA SlotGather ==
  ASSUME Counts(AckThreads), RoomInv, RoomInv', SlotInv, NEW from, NEW to, to # "request", Gather(from, to)
  PROVE  SlotInv'
<1>1. PICK s, r : s = main.src /\ r = Reclaimable(s, main.n)
  BY Zenon
<1>2. /\ main \in MainState /\ s \in Sources /\ main.n \in Int /\ main.n >= 0
      /\ toReclaim \in [Sources -> Int] /\ toReclaim[s] >= 0
  BY Zenon, <1>1, RoomTypes DEF TypeOK, MainState, SlotInv, CountersInRange
<1>3. r \in Int /\ r >= 0 /\ r <= toReclaim[s]
  BY <1>1, <1>2 DEF Reclaimable, Min
<1>4. /\ toReclaim' = [toReclaim EXCEPT ![s] = toReclaim[s] - r]
      /\ main' = [main EXCEPT !.pc = to, !.n = r]
      /\ UNCHANGED <<conn, ack, full, pending, window, inflight>>
  BY Zenon, <1>1 DEF Gather, readers
<1>5. main'.n = r /\ main'.pc = to
  BY Zenon, <1>2, <1>4 DEF MainState
<1>6. CountersInRange'
  BY <1>2, <1>3, <1>4, <1>5 DEF SlotInv, CountersInRange
<1>7. \A t \in Sources : window'[t] + inflight'[t] + pending'[t] - full'[t]
                            >= window[t] + inflight[t] + pending[t] - full[t]
  BY <1>4, RoomTypes DEF TypeOK
<1> QED BY Zenon, <1>4, <1>6, <1>7, SlotsFrame

\* What the compensation has reclaimed is pending.
LEMMA SlotPend ==
  ASSUME Counts(AckThreads), RoomInv, RoomInv', SlotInv, NEW from, NEW to, to # "request", Pend(from, to)
  PROVE  SlotInv'
<1>1. PICK s, k : s = main.src /\ k = main.n
  BY Zenon
<1>2. /\ main \in MainState /\ s \in Sources /\ k \in Int /\ k >= 0
      /\ pending \in [Sources -> Int] /\ pending[s] >= 0
  BY Zenon, <1>1, RoomTypes DEF TypeOK, MainState, SlotInv, CountersInRange
<1>3. /\ pending' = [pending EXCEPT ![s] = pending[s] + k]
      /\ main' = [main EXCEPT !.pc = to, !.n = 0]
      /\ UNCHANGED <<conn, ack, full, toReclaim, window, inflight>>
  BY Zenon, <1>1 DEF Pend, readers
<1>4. main'.n = 0 /\ main'.pc = to
  BY Zenon, <1>2, <1>3 DEF MainState
<1>5. CountersInRange'
  BY <1>2, <1>3, <1>4 DEF SlotInv, CountersInRange
<1>6. \A t \in Sources : window'[t] + inflight'[t] + pending'[t] - full'[t]
                            >= window[t] + inflight[t] + pending[t] - full[t]
  BY <1>2, <1>3, RoomTypes DEF TypeOK
<1> QED BY Zenon, <1>3, <1>5, <1>6, SlotsFrame

\* _release_reclaimed_dynamic_window(): the pending slots leave the full window.
LEMMA SlotReleaseReclaimed ==
  ASSUME Counts(AckThreads), RoomInv, RoomInv', SlotInv, ReleaseReclaimed
  PROVE  SlotInv'
<1>1. PICK s, k : s = main.src /\ k = pending[s]
  BY Zenon
<1>2. main \in MainState /\ s \in Sources /\ k \in Int /\ k >= 0 /\ main.n >= 0
  BY Zenon, <1>1, RoomTypes DEF TypeOK, MainState, SlotInv, CountersInRange
<1>3. Max0(k) = k
  BY <1>2 DEF Max0
<1>4. /\ full' = [full EXCEPT ![s] = full[s] - k]
      /\ pending' = [pending EXCEPT ![s] = 0]
      /\ main' = [main EXCEPT !.pc = "rebalance"]
      /\ UNCHANGED <<conn, ack, toReclaim, window, inflight>>
  BY Zenon, <1>1, <1>3 DEF ReleaseReclaimed, ReleaseWindow, readers
<1>5. main'.n = main.n /\ main'.pc = "rebalance"
  BY Zenon, <1>2, <1>4 DEF MainState
<1>6. CountersInRange'
  BY <1>2, <1>4, <1>5, RoomTypes DEF SlotInv, CountersInRange, TypeOK
<1>7. \A t \in Sources : window'[t] + inflight'[t] + pending'[t] - full'[t]
                            >= window[t] + inflight[t] + pending[t] - full[t]
  BY <1>1, <1>2, <1>4, RoomTypes DEF TypeOK
<1> QED BY Zenon, <1>4, <1>6, <1>7, SlotsFrame

\* _rebalance_dynamic_window(): an increase adds to the window and to the full
\* window; a decrease that must wait asks for what is not free.
LEMMA SlotRebalance ==
  ASSUME Counts(AckThreads), RoomInv, RoomInv', SlotInv, SizesInRange, Rebalance
  PROVE  SlotInv'
<1>1. PICK s, dyn, dec : s = main.src /\ dyn = DynamicPart(s) /\ dec = dyn - balanced
  BY Zenon
<1>2. /\ main \in MainState /\ s \in Sources /\ dyn \in Nat /\ dec \in Int
      /\ balanced \in Nat /\ window[s] \in Int /\ main.n >= 0
  BY <1>1, WindowAssumption
     DEF Rebalance, RoomInv, TypeOK, MainState, DynamicPart, SizesInRange, MainHolds, Reallocating,
         SlotInv, CountersInRange
<1>3. UNCHANGED <<inflight, toReclaim, pending, conn, ack>>
  BY Zenon DEF Rebalance
<1>4. CASE main' = Done /\ UNCHANGED <<window, full>>
  <2>1. main'.n = 0 /\ main'.pc # "request"
    BY Zenon, <1>2, <1>4, DoneType
  <2> QED BY <1>3, <1>4, <2>1, SlotQuiet
<1>5. CASE main' = Done /\ Increase(s, Min(free, balanced - dyn))
  <2>1. main'.n = 0 /\ main'.pc # "request"
    BY Zenon, <1>2, <1>5, DoneType
  <2>2. PICK k : k = Min(free, balanced - dyn)
    BY Zenon
  <2>3. /\ k \in Int /\ full' = [full EXCEPT ![s] = full[s] + k]
        /\ window' = [window EXCEPT ![s] = window[s] + k]
    BY <1>2, <1>5, <2>2, RoomTypes DEF Increase, Min, TypeOK
  <2>4. CountersInRange'
    BY SMTT(60), <1>3, <2>1 DEF SlotInv, CountersInRange
  <2>5. \A t \in Sources : window'[t] + inflight'[t] + pending'[t] - full'[t]
                              >= window[t] + inflight[t] + pending[t] - full[t]
    BY <1>2, <1>3, <2>3, RoomTypes DEF TypeOK
  <2> QED BY Zenon, <1>3, <2>4, <2>5, SlotsFrame
<1>6. CASE /\ dyn \notin 0..balanced
           /\ main' = IF FreeEnough(s, dec)
                      THEN [main EXCEPT !.pc = "subtract", !.now = dec]
                      ELSE [main EXCEPT !.pc = "request", !.dec = dec, !.now = Max0(window[s] - 1)]
           /\ UNCHANGED <<window, full, free, event>>
  <2>1. dec > 0
    BY <1>1, <1>2, <1>6
  <2>2. CASE FreeEnough(s, dec)
    <3>1. main'.n = main.n /\ main'.pc = "subtract"
      BY Zenon, <1>2, <1>6, <2>2 DEF MainState
    <3> QED BY Zenon, <1>2, <1>3, <1>6, <3>1, SlotQuiet
  <2>3. CASE ~FreeEnough(s, dec)
    <3>1. PICK k : k = Max0(window[s] - 1)
      BY Zenon
    <3>2. k <= dec
      BY <1>2, <2>1, <2>3, <3>1 DEF FreeEnough, Max0
    <3>3. main' = [main EXCEPT !.pc = "request", !.dec = dec, !.now = k]
      BY Zenon, <1>6, <2>3, <3>1
    <3>4. main'.n = main.n /\ main'.dec = dec /\ main'.now = k
      BY Zenon, <1>2, <3>3 DEF MainState
    <3>5. CountersInRange'
      BY <1>2, <1>3, <3>2, <3>4 DEF SlotInv, CountersInRange
    <3>6. \A t \in Sources : window'[t] + inflight'[t] + pending'[t] - full'[t]
                                >= window[t] + inflight[t] + pending[t] - full[t]
      BY <1>3, <1>6, RoomTypes DEF TypeOK
    <3> QED BY Zenon, <1>3, <3>5, <3>6, SlotsFrame
  <2> QED BY Zenon, <2>2, <2>3
<1> QED BY Zenon, <1>1, <1>4, <1>5, <1>6 DEF Rebalance

\* _request_dynamic_window_reclamation() asks for a number of slots.
LEMMA SlotRequest ==
  ASSUME Counts(AckThreads), RoomInv, RoomInv', SlotInv, RequestReclamation
  PROVE  SlotInv'
<1>1. PICK s, k : s = main.src /\ k = main.dec - main.now
  BY Zenon
<1>2. main \in MainState /\ s \in Sources /\ k \in Int /\ k >= 0 /\ main.n >= 0
  BY SMTT(60), <1>1, RoomTypes DEF RequestReclamation, TypeOK, MainState, SlotInv, CountersInRange
<1>3. toReclaim[s] + main.dec - main.now = toReclaim[s] + k
  BY Zenon, <1>1, <1>2, RoomTypes DEF TypeOK, MainState
<1>4. /\ toReclaim' = [toReclaim EXCEPT ![s] = toReclaim[s] + k]
      /\ main' = [main EXCEPT !.pc = "read"]
      /\ UNCHANGED <<conn, ack, full, pending, window, inflight>>
  BY Zenon, <1>1, <1>3 DEF RequestReclamation, readers
<1>5. main'.n = main.n /\ main'.pc = "read"
  BY Zenon, <1>2, <1>4 DEF MainState
<1>6. CountersInRange'
  BY <1>2, <1>4, <1>5, RoomTypes DEF SlotInv, CountersInRange, TypeOK
<1>7. \A t \in Sources : window'[t] + inflight'[t] + pending'[t] - full'[t]
                            >= window[t] + inflight[t] + pending[t] - full[t]
  BY <1>4, RoomTypes DEF TypeOK
<1> QED BY Zenon, <1>4, <1>6, <1>7, SlotsFrame

\* The end of _dec_balanced() takes from the window what it takes from the full
\* window.
LEMMA SlotSubtract ==
  ASSUME Counts(AckThreads), RoomInv, RoomInv', SlotInv, Subtract
  PROVE  SlotInv'
<1>1. PICK s, k : s = main.src /\ k = main.now
  BY Zenon
<1>2. main \in MainState /\ s \in Sources /\ k \in Nat
  BY Zenon, <1>1, RoomTypes DEF TypeOK, MainState
<1>3. /\ window' = [window EXCEPT ![s] = window[s] - k]
      /\ full' = [full EXCEPT ![s] = full[s] - k]
      /\ main' = Done
      /\ UNCHANGED <<conn, ack, toReclaim, pending, inflight>>
  BY Zenon, <1>1 DEF Subtract, ReleaseWindow, readers
<1>4. main'.n = 0 /\ main'.pc # "request"
  BY Zenon, <1>2, <1>3, DoneType
<1>5. CountersInRange'
  BY SMTT(60), <1>3, <1>4 DEF SlotInv, CountersInRange
<1>6. \A t \in Sources : window'[t] + inflight'[t] + pending'[t] - full'[t]
                            >= window[t] + inflight[t] + pending[t] - full[t]
  BY SMTT(60), <1>2, <1>3, RoomTypes DEF TypeOK
<1> QED BY Zenon, <1>3, <1>5, <1>6, SlotsFrame

\* log_source_release_available_dynamic_window() does the same.
LEMMA SlotClose ==
  ASSUME Counts(AckThreads), RoomInv, RoomInv', SlotInv, NEW s \in Sources, Close(s)
  PROVE  SlotInv'
<1>1. PICK e : e = IF Dynamic THEN IF DynamicPart(s) < 0 THEN window[s]
                                   ELSE Min(window[s], DynamicPart(s))
                   ELSE 0
  BY Zenon
<1>2. e \in Int
  BY <1>1, WindowAssumption, RoomTypes DEF DynamicPart, Min, TypeOK
<1>3. /\ window' = [window EXCEPT ![s] = window[s] - e]
      /\ full' = [full EXCEPT ![s] = full[s] - e]
  <2>1. CASE Dynamic
    BY Zenon, <1>1, <2>1 DEF Close, ReleaseWindow
  <2>2. CASE ~Dynamic
    BY <1>1, <2>2, RoomTypes DEF Close, TypeOK
  <2> QED BY Zenon, <2>1, <2>2
<1>4. UNCHANGED <<main, ack, toReclaim, pending, inflight>> /\ conn[s] = "open"
      /\ conn' = [conn EXCEPT ![s] = "draining"]
  BY Zenon DEF Close
<1>5. CountersInRange'
  BY Zenon, <1>4 DEF SlotInv, CountersInRange
<1>6. \A t \in Sources : conn'[t] # "closed" =>
         /\ conn[t] # "closed"
         /\ window'[t] + inflight'[t] + pending'[t] - full'[t]
               >= window[t] + inflight[t] + pending[t] - full[t]
  BY <1>2, <1>3, <1>4, RoomTypes DEF TypeOK
<1> QED BY Zenon, <1>4, <1>5, <1>6, SlotsFrame

\* A closed connection has no slots to account for.
LEMMA SlotDestroy ==
  ASSUME Counts(AckThreads), RoomInv, RoomInv', SlotInv, NEW s \in Sources, Destroy(s)
  PROVE  SlotInv'
<1>1. /\ conn' = [conn EXCEPT ![s] = "closed"]
      /\ toReclaim' = [toReclaim EXCEPT ![s] = 0]
      /\ pending' = [pending EXCEPT ![s] = 0]
      /\ \A t \in Sources : t # s => full'[t] = full[t]
      /\ main' = [main EXCEPT !.pc = "destroy", !.src = s]
      /\ UNCHANGED <<window, inflight, ack>>
  BY Zenon, RoomTypes DEF Destroy, ReleaseWindow, TypeOK
<1>2. main'.n = main.n /\ main'.pc = "destroy" /\ main.n >= 0
  BY Zenon, <1>1, RoomTypes DEF TypeOK, MainState, SlotInv, CountersInRange
<1>3. CountersInRange'
  BY <1>1, <1>2, RoomTypes DEF SlotInv, CountersInRange, TypeOK
<1>4. \A t \in Sources : conn'[t] # "closed" =>
         /\ conn[t] # "closed"
         /\ window'[t] + inflight'[t] + pending'[t] - full'[t]
               >= window[t] + inflight[t] + pending[t] - full[t]
  BY SMTT(60), <1>1, RoomTypes DEF TypeOK
<1> QED BY Zenon, <1>1, <1>3, <1>4, SlotsFrame

\* The rest of the destruction.
LEMMA SlotDestroyRest ==
  ASSUME Counts(AckThreads), RoomInv, RoomInv', SlotInv, DestroyRest
  PROVE  SlotInv'
<1>1. /\ main.src \in Sources /\ conn[main.src] = "closed"
      /\ \A t \in Sources : t # main.src => window'[t] = window[t] /\ full'[t] = full[t]
      /\ main' = MainIdle
      /\ UNCHANGED <<conn, toReclaim, pending, inflight, ack>>
  BY Zenon DEF DestroyRest, ReleaseWindow, RoomInv, TypeOK, MainHolds, MainState, readers
<1>2. CountersInRange'
  <2>1. \A t \in Sources : toReclaim'[t] >= 0 /\ pending'[t] >= 0
    BY Zenon, <1>1 DEF SlotInv, CountersInRange
  <2>2. main'.n >= 0 /\ main'.pc # "request"
    BY SMTT(60), <1>1, MainIdleType
  <2> QED BY Zenon, <2>1, <2>2 DEF CountersInRange
<1>3. \A t \in Sources : conn'[t] # "closed" =>
         /\ conn[t] # "closed"
         /\ window'[t] + inflight'[t] + pending'[t] - full'[t]
               >= window[t] + inflight[t] + pending[t] - full[t]
  <2>1. SUFFICES ASSUME NEW t \in Sources, conn'[t] # "closed"
                  PROVE  /\ conn[t] # "closed"
                         /\ window'[t] + inflight'[t] + pending'[t] - full'[t]
                               >= window[t] + inflight[t] + pending[t] - full[t]
    BY Zenon
  <2>2. conn[t] # "closed" /\ window'[t] = window[t] /\ full'[t] = full[t]
    BY Zenon, <1>1, <2>1
  <2>3. PICK k \in Int : k = window[t] + inflight[t] + pending[t] - full[t]
    BY SMTT(60), RoomTypes DEF TypeOK
  <2>4. inflight'[t] = inflight[t] /\ pending'[t] = pending[t]
    BY Zenon, <1>1
  <2>5. k >= k
    BY SMT, <2>3
  <2> QED BY Zenon, <2>2, <2>3, <2>4, <2>5
<1> QED BY Zenon, <1>1, <1>2, <1>3, SlotsFrame

\* A new connection has its whole window free.
LEMMA SlotAccept ==
  ASSUME Counts(AckThreads), RoomInv, RoomInv', SlotInv, NEW s \in Sources, Accept(s)
  PROVE  SlotInv'
<1>1. /\ conn' = [conn EXCEPT ![s] = "open"]
      /\ window' = [window EXCEPT ![s] = InitWindow]
      /\ full' = [full EXCEPT ![s] = InitWindow]
      /\ UNCHANGED <<main, toReclaim, pending, inflight, ack>>
  BY Zenon DEF Accept
<1>2. CountersInRange'
  BY Zenon, <1>1 DEF SlotInv, CountersInRange
<1>3. \A t : AckSlots(t)' = AckSlots(t) /\ AckSlots(t) \in Nat
  BY ZenonT(60), <1>1, AckSlotsType DEF AckSlots
<1>4. SlotsKept'
  BY <1>1, <1>3, WindowAssumption, RoomTypes DEF SlotInv, SlotsKept, CountersInRange, TypeOK
<1>5. \A d \in AckThreads : AckShape(ack[d])'
  BY ZenonT(60), <1>1 DEF SlotInv, AckShape
<1> QED BY Zenon, <1>2, <1>4, <1>5 DEF SlotInv

\* A step of destination thread d about connection s: its own slot moves, and
\* the counter it is moved to or from makes up for it.
SlotMoves(d, a, s) ==
    /\ ack' = [ack EXCEPT ![d] = a] /\ AckShape(a)
    /\ UNCHANGED <<conn, full, main>>
    /\ \A t \in Sources : t # s =>
          /\ window'[t] = window[t] /\ inflight'[t] = inflight[t] /\ pending'[t] = pending[t]
          /\ HasSlot(a, t) <=> HasSlot(ack[d], t)
    /\ window'[s] + inflight'[s] + pending'[s] + AckSlots(s)'
          >= window[s] + inflight[s] + pending[s] + AckSlots(s)
    /\ \A t \in Sources : toReclaim'[t] >= 0 /\ pending'[t] >= 0

\* Such a step keeps the slots accounted for.
LEMMA SlotsAckFrame ==
  ASSUME Counts(AckThreads), RoomInv, RoomInv', SlotInv, NEW d \in AckThreads, NEW a, NEW s \in Sources,
         SlotMoves(d, a, s)
  PROVE  SlotInv'
<1> USE DEF SlotMoves
<1>1. CountersInRange'
  BY ZenonT(60) DEF SlotInv, CountersInRange
<1>2. \A t \in Sources : t # s => AckSlots(t)' = AckSlots(t)
  BY Zenon, AckSlotsStep, RoomTypes DEF TypeOK
<1>3. AckSlots(s)' \in Nat
  BY Zenon, AckSlotsStep, RoomTypes DEF TypeOK
<1>4. SlotsKept'
  BY SMTT(60), <1>2, <1>3, AckSlotsType DEF RoomInv, SlotInv, SlotsKept, TypeOK
<1>5. \A c \in AckThreads : AckShape(ack[c])'
  <2>1. \A c \in AckThreads : ack'[c] = IF c = d THEN a ELSE ack[c]
    BY RoomTypes DEF TypeOK
  <2>2. AckShape(a) /\ \A c \in AckThreads : AckShape(ack[c])
    BY Zenon DEF SlotInv
  <2>3. \A c \in AckThreads : AckShape(ack'[c])
    BY ZenonT(60), <2>1, <2>2
  <2> QED BY Zenon, <2>3 DEF AckShape
<1> QED BY ZenonT(60), <1>1, <1>4, <1>5 DEF SlotInv

\* A destination thread takes the slot of the message it acknowledges.
LEMMA SlotStartAck ==
  ASSUME Counts(AckThreads), RoomInv, RoomInv', SlotInv, NEW d \in AckThreads, NEW s \in Sources,
         NEW refused \in BOOLEAN, StartAck(d, s, refused)
  PROVE  SlotInv'
<1>1. PICK a : a = [AckIdle EXCEPT !.pc = IF Dynamic THEN "gather" ELSE "add",
                                   !.src = s, !.n = 1, !.suspends = refused]
  BY Zenon
<1>2. a.pc \in {"gather", "add"} /\ a.src = s /\ a.n = 1 /\ a.reclaim = 0
  BY Zenon, <1>1, AckIdleType DEF AckState, AckIdle
<1>3. /\ ack' = [ack EXCEPT ![d] = a]
      /\ inflight' = [inflight EXCEPT ![s] = inflight[s] - 1]
      /\ UNCHANGED <<window, full, toReclaim, pending, conn, main>>
      /\ ack[d].pc = "idle"
  BY Zenon, <1>1 DEF StartAck, readers
<1>4. AckShape(a)
  BY Zenon, <1>2 DEF AckShape
<1>5. ack[d].n = 0 /\ ack[d].reclaim = 0
  <2>1. AckShape(ack[d])
    BY Zenon DEF SlotInv
  <2> QED BY Zenon, <1>3, <2>1 DEF AckShape
<1>6. \A t \in Sources : ~HasSlot(ack[d], t) /\ (HasSlot(a, t) <=> t = s)
  BY SMTT(60), <1>2, <1>5 DEF HasSlot
<1>7. AckSlots(s)' = AckSlots(s) + 1 /\ AckSlots(s) \in Nat
  BY ZenonT(60), <1>3, <1>6, AckSlotsStep, RoomTypes DEF TypeOK
<1>8. /\ \A t \in Sources : toReclaim'[t] >= 0 /\ pending'[t] >= 0
      /\ \A t \in Sources : t # s => inflight'[t] = inflight[t]
      /\ window'[s] + inflight'[s] + pending'[s] + AckSlots(s)'
            >= window[s] + inflight[s] + pending[s] + AckSlots(s)
  BY <1>3, <1>7, RoomTypes DEF SlotInv, CountersInRange, TypeOK
<1>20. SlotMoves(d, a, s)
  BY Zenon, <1>3, <1>4, <1>6, <1>8 DEF SlotMoves
<1> QED BY Zenon, <1>2, <1>20, SlotsAckFrame

\* gather_dynamic_window_reclamation(): the slot goes to the reclamation or
\* stays for the window.
LEMMA SlotAckGather ==
  ASSUME Counts(AckThreads), RoomInv, RoomInv', SlotInv, NEW d \in AckThreads, AckGather(d)
  PROVE  SlotInv'
<1>1. PICK s, r : s = ack[d].src /\ r = Reclaimable(s, ack[d].n)
  BY Zenon
<1>2. /\ ack[d] \in AckState /\ s \in Sources /\ ack[d].n = 1 /\ ack[d].reclaim = 0
      /\ toReclaim[s] \in Int /\ toReclaim[s] >= 0
  BY Zenon, <1>1, RoomTypes DEF AckGather, TypeOK, AckState, SlotInv, AckShape, CountersInRange
<1>3. r \in {0, 1} /\ r <= toReclaim[s]
  BY <1>1, <1>2 DEF Reclaimable, Min
<1>4. PICK a : a = [ack[d] EXCEPT !.pc = IF r # 0 THEN "pend" ELSE "add",
                                  !.n = ack[d].n - r, !.reclaim = r]
  BY Zenon
<1>5. /\ a.pc = (IF r # 0 THEN "pend" ELSE "add")
      /\ a.n = 1 - r /\ a.reclaim = r /\ a.src = s
  BY Zenon, <1>1, <1>2, <1>4 DEF AckState
<1>6. /\ ack' = [ack EXCEPT ![d] = a]
      /\ toReclaim' = [toReclaim EXCEPT ![s] = toReclaim[s] - r]
      /\ UNCHANGED <<window, inflight, full, pending, conn, main>>
  BY ZenonT(60), <1>1, <1>4, RoomTypes DEF AckGather, readers, TypeOK
<1>7. AckShape(a)
  BY <1>3, <1>5 DEF AckShape
<1>8. \A t \in Sources : HasSlot(a, t) <=> HasSlot(ack[d], t)
  BY <1>1, <1>2, <1>3, <1>5 DEF HasSlot
<1>9. AckSlots(s)' = AckSlots(s) /\ AckSlots(s) \in Nat
  BY ZenonT(60), <1>2, <1>6, <1>8, AckSlotsStep, RoomTypes DEF TypeOK
<1>10. /\ \A t \in Sources : toReclaim'[t] >= 0 /\ pending'[t] >= 0
       /\ window'[s] + inflight'[s] + pending'[s] + AckSlots(s)'
             >= window[s] + inflight[s] + pending[s] + AckSlots(s)
  BY <1>2, <1>3, <1>6, <1>9, RoomTypes DEF SlotInv, CountersInRange, TypeOK
<1>20. SlotMoves(d, a, s)
  BY ZenonT(60), <1>2, <1>6, <1>7, <1>8, <1>10 DEF SlotMoves
<1> QED BY Zenon, <1>2, <1>20, SlotsAckFrame

\* The reclaimed slot becomes a pending one.
LEMMA SlotAckPend ==
  ASSUME Counts(AckThreads), RoomInv, RoomInv', SlotInv, NEW d \in AckThreads, AckPend(d)
  PROVE  SlotInv'
<1>1. PICK s : s = ack[d].src
  BY Zenon
<1>2. /\ ack[d] \in AckState /\ s \in Sources /\ ack[d].n = 0 /\ ack[d].reclaim = 1
      /\ pending \in [Sources -> Int]
  <2>1. AckShape(ack[d])
    BY Zenon DEF SlotInv
  <2> QED BY Zenon, <1>1, <2>1, RoomTypes DEF AckPend, TypeOK, AckState, AckShape
<1>3. PICK a : a = [ack[d] EXCEPT !.pc = "add", !.reclaim = 0]
  BY Zenon
<1>4. a.pc = "add" /\ a.n = 0 /\ a.reclaim = 0
  BY Zenon, <1>2, <1>3 DEF AckState
<1>5. /\ ack' = [ack EXCEPT ![d] = a]
      /\ pending' = [pending EXCEPT ![s] = pending[s] + 1]
      /\ UNCHANGED <<window, inflight, full, toReclaim, conn, main>>
  BY Zenon, <1>1, <1>2, <1>3, RoomTypes DEF AckPend, readers, TypeOK
<1>6. AckShape(a)
  BY Zenon, <1>4 DEF AckShape
<1>7. \A t \in Sources : ~HasSlot(a, t) /\ (HasSlot(ack[d], t) <=> t = s)
  BY <1>1, <1>2, <1>4 DEF HasSlot
<1>8. AckSlots(s)' = AckSlots(s) - 1 /\ AckSlots(s) \in Nat
  BY ZenonT(60), <1>2, <1>5, <1>7, AckSlotsStep, RoomTypes DEF TypeOK
<1>9. /\ \A t \in Sources : toReclaim'[t] >= 0 /\ pending'[t] >= 0
      /\ \A t \in Sources : t # s => pending'[t] = pending[t]
      /\ window'[s] + inflight'[s] + pending'[s] + AckSlots(s)'
            >= window[s] + inflight[s] + pending[s] + AckSlots(s)
  BY <1>2, <1>5, <1>8, RoomTypes DEF SlotInv, CountersInRange, TypeOK
<1>10. \A t \in Sources : t # s =>
         /\ window'[t] = window[t] /\ inflight'[t] = inflight[t] /\ pending'[t] = pending[t]
         /\ HasSlot(a, t) <=> HasSlot(ack[d], t)
  BY Zenon, <1>5, <1>7, <1>9
<1>11. UNCHANGED <<conn, full, main>>
  BY Zenon, <1>5
<1>12. ack' = [ack EXCEPT ![d] = a]
  BY Zenon, <1>5
<1>20. SlotMoves(d, a, s)
  BY ZenonT(60), <1>2, <1>6, <1>9, <1>10, <1>11, <1>12 DEF SlotMoves
<1> QED BY Zenon, <1>2, <1>20, SlotsAckFrame

\* What remains of the acknowledgement is added to the window.
LEMMA SlotAckAdd ==
  ASSUME Counts(AckThreads), RoomInv, RoomInv', SlotInv, NEW d \in AckThreads, AckAdd(d)
  PROVE  SlotInv'
<1>1. PICK s, n : s = ack[d].src /\ n = ack[d].n
  BY Zenon
<1>2. /\ ack[d] \in AckState /\ s \in Sources /\ n \in {0, 1} /\ ack[d].reclaim = 0
      /\ window \in [Sources -> Int]
  <2>1. AckShape(ack[d])
    BY Zenon DEF SlotInv
  <2> QED BY ZenonT(60), <1>1, <2>1, RoomTypes DEF AckAdd, TypeOK, AckState, AckShape
<1>3. PICK resume \in BOOLEAN, wake \in BOOLEAN : ack' = [ack EXCEPT ![d] = Remaining(ack[d], resume, wake)]
  BY Zenon, <1>1, <1>2, RoomTypes DEF AckAdd, TypeOK, Suspended, Crosses
<1>4. PICK a : a = Remaining(ack[d], resume, wake)
  BY Zenon
<1>5. a.n = 0 /\ a.reclaim = 0 /\ a.pc \notin {"gather", "pend", "add"}
  BY SMTT(60), <1>2, <1>4, RemainingType
<1>6. /\ ack' = [ack EXCEPT ![d] = a]
      /\ window' = [window EXCEPT ![s] = window[s] + n]
      /\ UNCHANGED <<pending, inflight, full, toReclaim, conn, main>>
  BY Zenon, <1>1, <1>3, <1>4 DEF AckAdd, readers
<1>7. AckShape(a)
  BY Zenon, <1>5 DEF AckShape
<1>8. \A t \in Sources : ~HasSlot(a, t) /\ (HasSlot(ack[d], t) <=> t = s /\ n = 1)
  BY SMTT(60), <1>1, <1>2, <1>5 DEF HasSlot
<1>9. AckSlots(s)' = AckSlots(s) - n /\ AckSlots(s) \in Nat
  <2>1. CASE n = 1
    BY ZenonT(60), <1>2, <1>6, <1>8, <2>1, AckSlotsStep, RoomTypes DEF TypeOK
  <2>2. CASE n = 0
    <3>1. HasSlot(ack[d], s) <=> HasSlot(a, s)
      BY <1>2, <1>8, <2>2
    <3>2. AckSlots(s)' = AckSlots(s) /\ AckSlots(s) \in Nat
      BY ZenonT(60), <1>6, <3>1, AckSlotsStep, RoomTypes DEF TypeOK
    <3> QED BY <2>2, <3>2
  <2> QED BY Zenon, <1>2, <2>1, <2>2
<1>10. /\ \A t \in Sources : toReclaim'[t] >= 0 /\ pending'[t] >= 0
       /\ \A t \in Sources : t # s => window'[t] = window[t]
       /\ window'[s] + inflight'[s] + pending'[s] + AckSlots(s)'
             >= window[s] + inflight[s] + pending[s] + AckSlots(s)
  BY <1>2, <1>6, <1>9, RoomTypes DEF SlotInv, CountersInRange, TypeOK
<1>11. \A t \in Sources : t # s =>
         /\ window'[t] = window[t] /\ inflight'[t] = inflight[t] /\ pending'[t] = pending[t]
         /\ HasSlot(a, t) <=> HasSlot(ack[d], t)
  BY Zenon, <1>6, <1>8, <1>10
<1>12. UNCHANGED <<conn, full, main>>
  BY Zenon, <1>6
<1>13. ack' = [ack EXCEPT ![d] = a]
  BY Zenon, <1>6
<1>20. SlotMoves(d, a, s)
  BY Zenon, <1>2, <1>7, <1>10, <1>11, <1>12, <1>13 DEF SlotMoves
<1> QED BY Zenon, <1>2, <1>20, SlotsAckFrame

\* Resuming, waking and suspending: the thread's record afterwards.
LEMMA AckEndRecord ==
  ASSUME RoomInv, NEW d \in AckThreads, AckResume(d) \/ AckWake(d) \/ AckSuspend(d)
  PROVE  \E a : /\ a.n = 0 /\ a.reclaim = 0 /\ a.pc \notin {"gather", "pend", "add"}
                /\ ack' = [ack EXCEPT ![d] = a]
<1>1. ack[d] \in AckState /\ ack[d].wake \in BOOLEAN
  BY Zenon, RoomTypes DEF TypeOK, AckState
<1>2. PICK f \in BOOLEAN : f = FALSE
  BY Zenon
<1>3. CASE AckResume(d)
  <2>1. PICK a : a = Remaining(ack[d], f, ack[d].wake)
    BY Zenon
  <2>2. a.n = 0 /\ a.reclaim = 0 /\ a.pc \notin {"gather", "pend", "add"}
    BY SMTT(60), <1>1, <2>1, RemainingType
  <2> QED BY Zenon, <1>2, <1>3, <2>1, <2>2 DEF AckResume
<1>4. CASE AckWake(d)
  <2>1. PICK a : a = Remaining(ack[d], f, f)
    BY Zenon
  <2>2. a.n = 0 /\ a.reclaim = 0 /\ a.pc \notin {"gather", "pend", "add"}
    BY SMTT(60), <1>1, <2>1, RemainingType
  <2> QED BY Zenon, <1>2, <1>4, <2>1, <2>2 DEF AckWake
<1>5. CASE AckSuspend(d)
  BY Zenon, <1>5, AckIdleType DEF AckSuspend
<1> QED BY Zenon, <1>3, <1>4, <1>5

\* They move no slot.
LEMMA SlotAckEnd ==
  ASSUME Counts(AckThreads), RoomInv, RoomInv', SlotInv, NEW d \in AckThreads,
         AckResume(d) \/ AckWake(d) \/ AckSuspend(d)
  PROVE  SlotInv'
<1>1. /\ ack[d] \in AckState /\ ack[d].src \in Sources
      /\ ack[d].n = 0 /\ ack[d].reclaim = 0
  <2>1. AckShape(ack[d])
    BY Zenon DEF SlotInv
  <2> QED BY Zenon, <2>1, RoomTypes DEF AckResume, AckWake, AckSuspend, TypeOK, AckState, AckShape
<1>2. PICK a : /\ a.n = 0 /\ a.reclaim = 0 /\ a.pc \notin {"gather", "pend", "add"}
               /\ ack' = [ack EXCEPT ![d] = a]
  BY Zenon, AckEndRecord
<1>3. UNCHANGED <<window, pending, inflight, full, toReclaim, conn, main>>
  BY Zenon DEF AckResume, AckWake, AckSuspend, counters, readers
<1>4. AckShape(a)
  BY Zenon, <1>2 DEF AckShape
<1>5. \A t : ~HasSlot(a, t) /\ ~HasSlot(ack[d], t)
  BY SMTT(60), <1>1, <1>2 DEF HasSlot
<1>6. \A t \in Sources : AckSlots(t)' = AckSlots(t) /\ AckSlots(t) \in Nat
  BY ZenonT(60), <1>2, <1>5, AckSlotsStep, RoomTypes DEF TypeOK
<1>7. PICK s \in Sources : s = ack[d].src
  BY Zenon, <1>1
<1>8. /\ \A t \in Sources : toReclaim'[t] >= 0 /\ pending'[t] >= 0
      /\ window'[s] + inflight'[s] + pending'[s] + AckSlots(s)'
            >= window[s] + inflight[s] + pending[s] + AckSlots(s)
  BY <1>3, <1>6, RoomTypes DEF SlotInv, CountersInRange, TypeOK
<1>20. SlotMoves(d, a, s)
  BY Zenon, <1>2, <1>3, <1>4, <1>5, <1>8 DEF SlotMoves
<1> QED BY Zenon, <1>2, <1>20, SlotsAckFrame

\* Every step while no dynamic part has wrapped around.
LEMMA SlotNext ==
  ASSUME Counts(AckThreads), RoomInv, RoomInv', SizesInRange, SlotInv, [Next]_vars
  PROVE  SlotInv'
<1> SUFFICES ASSUME RoomInv, RoomInv', SizesInRange, SlotInv, [Next]_vars PROVE SlotInv'
  BY Zenon
<1>1. ASSUME NEW s \in Sources,
             Read(s) \/ FinishFetch(s) \/ WakeupTriggered(s) \/ Close(s) \/ Destroy(s) \/ Accept(s)
      PROVE  SlotInv'
  BY Zenon, <1>1, SlotReader, SlotPost, SlotClose, SlotDestroy, SlotAccept DEF Read
<1>2. ASSUME NEW d \in AckThreads, AckStep(d) PROVE SlotInv'
  BY Zenon, <1>2, SlotAckGather, SlotAckPend, SlotAckAdd, SlotAckEnd DEF AckStep
<1>3. ASSUME NEW d \in AckThreads, NEW s \in Sources, NEW refused \in BOOLEAN, StartAck(d, s, refused)
      PROVE  SlotInv'
  BY Zenon, <1>3, SlotStartAck
<1>4. ASSUME Tick PROVE SlotInv'
  BY Zenon, <1>4, SlotMainQuiet
<1>5. ASSUME MainStep PROVE SlotInv'
  <2>1. ASSUME Gather("gather", "pend") PROVE SlotInv'
    BY Zenon, <2>1, SlotGather
  <2>2. ASSUME Gather("gather2", "pend2") PROVE SlotInv'
    BY Zenon, <2>2, SlotGather
  <2>3. ASSUME Pend("pend", "release") PROVE SlotInv'
    BY Zenon, <2>3, SlotPend
  <2>4. ASSUME Pend("pend2", "subtract") PROVE SlotInv'
    BY Zenon, <2>4, SlotPend
  <2> QED BY Zenon, <1>5, <2>1, <2>2, <2>3, <2>4, SlotReleaseReclaimed, SlotRebalance, SlotRequest,
             SlotMainQuiet, SlotSubtract, SlotDestroyRest, SlotReader DEF MainStep
<1>6. ASSUME UNCHANGED vars PROVE SlotInv'
  BY Zenon, <1>6 DEF vars, SlotInv, AckShape, CountersInRange, SlotsKept, AckSlots
<1> QED BY Zenon, <1>1, <1>2, <1>3, <1>4, <1>5, <1>6 DEF Next

----------------------------------------------------------------------------
(* StaticInv is inductive for a static window.                             *)

\* Init
LEMMA StaticInit ==
  ASSUME Counts(AckThreads), Init
  PROVE  StaticInv
<1> SUFFICES ASSUME Init PROVE StaticInv
  BY Zenon
<1>1. \A d \in AckThreads : StaticAck(ack[d])
  BY Zenon, AckIdleType DEF Init, StaticAck, AckShape
<1>2. \A s \in Sources : AckSlots(s) = 0
  <2> SUFFICES ASSUME NEW s \in Sources PROVE AckSlots(s) = 0
    BY Zenon
  <2>1. {d \in AckThreads : ack[d].src = s /\ ack[d].n + ack[d].reclaim > 0} = {}
    BY AckIdleType DEF Init
  <2> QED BY Zenon, <2>1 DEF AckSlots, Counts
<1>3. \A s \in Sources : StaticSource(s)
  BY <1>2 DEF Init, StaticSource
<1>4. main.pc \in {"idle", "destroy"}
  BY Zenon, MainIdleType DEF Init
<1> QED BY Zenon, <1>1, <1>3, <1>4 DEF StaticInv

\* A step that leaves the destination threads alone.
LEMMA StaticFrame ==
  ASSUME Counts(AckThreads), RoomInv, RoomInv', StaticInv, UNCHANGED <<ack, full, toReclaim, pending>>,
         main'.pc \in {"idle", "destroy"},
         \A s \in Sources :
            /\ ~realloc'[s]
            /\ window'[s] + inflight'[s] = window[s] + inflight[s]
            /\ conn'[s] # "closed" => conn[s] # "closed"
            /\ conn'[s] = "closed" => conn[s] = "closed" /\ inflight'[s] = inflight[s]
  PROVE  StaticInv'
<1>1. \A s : AckSlots(s)' = AckSlots(s) /\ AckSlots(s) \in Nat
  BY ZenonT(60), AckSlotsType DEF AckSlots
<1>2. ASSUME NEW s \in Sources PROVE StaticSource(s)'
  BY Zenon, <1>1, RoomTypes DEF StaticInv, StaticSource, TypeOK
<1>3. \A d \in AckThreads : StaticAck(ack[d])'
  BY DEF StaticInv, StaticAck, AckShape
<1> QED BY <1>2, <1>3 DEF StaticInv

\* The reader.
LEMMA StaticReader ==
  ASSUME Counts(AckThreads), RoomInv, RoomInv', StaticInv, NEW s \in Sources,
         Read(s) \/ FinishFetch(s) \/ WakeupTriggered(s)
  PROVE  StaticInv'
<1>1. \A t \in Sources : ~realloc[t]
  BY DEF StaticInv, StaticSource
<1>2. UNCHANGED <<ack, full, toReclaim, pending, realloc, main, conn>>
  BY Zenon, <1>1 DEF Read, StartFetch, Post, FinishFetch, WakeupTriggered, counters
<1>3. \A t \in Sources : window'[t] + inflight'[t] = window[t] + inflight[t]
  <2>1. CASE Post(s)
    BY SMTT(60), <2>1, RoomTypes DEF Post, TypeOK
  <2>2. CASE StartFetch(s) \/ FinishFetch(s) \/ WakeupTriggered(s)
    BY Zenon, <2>2 DEF StartFetch, FinishFetch, WakeupTriggered, counters
  <2> QED BY Zenon, <2>1, <2>2 DEF Read
<1>4. \A t \in Sources : conn'[t] = "closed" => inflight'[t] = inflight[t]
  <2>1. CASE Post(s)
    BY Zenon, <2>1 DEF Post, RoomInv, TypeOK, ReadersMatch
  <2>2. CASE StartFetch(s) \/ FinishFetch(s) \/ WakeupTriggered(s)
    BY Zenon, <2>2 DEF StartFetch, FinishFetch, WakeupTriggered, counters
  <2> QED BY <2>1, <2>2 DEF Read
<1>5. main'.pc \in {"idle", "destroy"}
  BY Zenon, <1>2 DEF StaticInv
<1>6. \A t \in Sources : ~realloc'[t] /\ conn'[t] = conn[t]
  BY Zenon, <1>1, <1>2
<1> QED BY Zenon, <1>2, <1>3, <1>4, <1>5, <1>6, StaticFrame

\* Closing a connection whose window is static leaves its counters alone.
LEMMA StaticClose ==
  ASSUME Counts(AckThreads), PoolSize = 0, RoomInv, RoomInv', StaticInv, NEW s \in Sources, Close(s)
  PROVE  StaticInv'
<1>1. UNCHANGED <<ack, full, toReclaim, pending, main, window, inflight>>
  BY SMTT(60) DEF Close, Dynamic
<1>2. \A t \in Sources :
         /\ ~realloc'[t]
         /\ conn'[t] # "closed" => conn[t] # "closed"
         /\ conn'[t] = "closed" => conn[t] = "closed"
  BY ZenonT(60), RoomTypes DEF Close, StaticInv, StaticSource, TypeOK
<1> QED BY Zenon, <1>1, <1>2, StaticFrame DEF StaticInv

\* Destroying one: it has nothing in flight, so no slot is missing.
LEMMA StaticDestroy ==
  ASSUME Counts(AckThreads), PoolSize = 0, RoomInv, RoomInv', StaticInv, NEW s \in Sources, Destroy(s)
  PROVE  StaticInv'
<1>1. Max0(Reclaimable(s, window[s]) + pending[s]) = 0
  BY RoomTypes DEF StaticInv, StaticSource, Reclaimable, Min, Max0, TypeOK
<1>2. full' = full /\ toReclaim' = toReclaim /\ pending' = pending
  BY <1>1, RoomTypes DEF Destroy, ReleaseWindow, TypeOK, StaticInv, StaticSource
<1>3. /\ conn' = [conn EXCEPT ![s] = "closed"] /\ inflight[s] = 0 /\ conn[s] = "draining"
      /\ UNCHANGED <<window, inflight, realloc, ack>>
  BY Zenon DEF Destroy
<1>4. AckSlots(s) = 0
  <2>1. ASSUME NEW d \in AckThreads, ack[d].src = s PROVE ack[d].n + ack[d].reclaim = 0
    <3>1. ack[d].pc = "idle" /\ StaticAck(ack[d])
      BY Zenon, <2>1 DEF Destroy, StaticInv
    <3> QED BY <3>1 DEF StaticAck, AckShape
  <2>2. {d \in AckThreads : ack[d].src = s /\ ack[d].n + ack[d].reclaim > 0} = {}
    BY SMTT(60), <2>1
  <2> QED BY Zenon, <2>2 DEF AckSlots, Counts
<1>5. \A t : AckSlots(t)' = AckSlots(t)
  BY Zenon, <1>3 DEF AckSlots
<1>6. ASSUME NEW t \in Sources PROVE StaticSource(t)'
  BY Zenon, <1>2, <1>3, <1>4, <1>5, RoomTypes DEF StaticInv, StaticSource, TypeOK
<1>7. \A d \in AckThreads : StaticAck(ack[d])'
  BY Zenon, <1>3 DEF StaticInv, StaticAck, AckShape
<1>8. main'.pc = "destroy"
  BY Zenon, RoomTypes DEF Destroy, TypeOK, MainState
<1> QED BY Zenon, <1>6, <1>7, <1>8 DEF StaticInv

\* The rest of the destruction takes nothing, as there is no dynamic part.
LEMMA StaticDestroyRest ==
  ASSUME Counts(AckThreads), PoolSize = 0, RoomInv, RoomInv', StaticInv, DestroyRest
  PROVE  StaticInv'
<1>1. main.src \in Sources /\ DynamicPart(main.src) = 0
  BY SMTT(60), WindowAssumption, RoomTypes DEF StaticInv, StaticSource, TypeOK, MainState, DynamicPart
<1>2. window' = window /\ full' = full
  BY SMTT(60), <1>1, RoomTypes DEF DestroyRest, ReleaseWindow, TypeOK
<1>3. main'.pc = "idle" /\ UNCHANGED <<inflight, toReclaim, pending, ack, conn, realloc>>
  BY Zenon, MainIdleType DEF DestroyRest, readers
<1>4. \A t \in Sources : ~realloc'[t]
  BY Zenon, <1>3 DEF StaticInv, StaticSource
<1>5. \A t \in Sources :
         /\ window'[t] + inflight'[t] = window[t] + inflight[t]
         /\ conn'[t] = conn[t] /\ inflight'[t] = inflight[t]
  BY Zenon, <1>2, <1>3
<1> QED BY Zenon, <1>2, <1>3, <1>4, <1>5, StaticFrame

\* A new connection.
LEMMA StaticAccept ==
  ASSUME Counts(AckThreads), PoolSize = 0, RoomInv, RoomInv', StaticInv, NEW s \in Sources, Accept(s)
  PROVE  StaticInv'
<1>1. /\ conn' = [conn EXCEPT ![s] = "open"] /\ conn[s] = "closed"
      /\ window' = [window EXCEPT ![s] = InitWindow]
      /\ full' = [full EXCEPT ![s] = InitWindow]
      /\ UNCHANGED <<inflight, toReclaim, pending, realloc, main, ack>>
  BY Zenon DEF Accept
<1>2. \A t : AckSlots(t)' = AckSlots(t) /\ AckSlots(t) \in Nat
  BY ZenonT(60), <1>1, AckSlotsType DEF AckSlots
<1>3. ASSUME NEW t \in Sources PROVE StaticSource(t)'
  <2>1. StaticSource(t) /\ StaticSource(s)
    BY Zenon DEF StaticInv
  <2>2. CASE t = s
    <3>1. conn'[s] = "open" /\ window'[s] = InitWindow /\ full'[s] = InitWindow
      BY Zenon, <1>1, RoomTypes DEF TypeOK
    <3>2. inflight'[s] = 0 /\ AckSlots(s)' = 0 /\ InitWindow + 0 + 0 = InitWindow
      BY <1>1, <1>2, <2>1, WindowAssumption DEF StaticSource
    <3>3. toReclaim'[s] = 0 /\ pending'[s] = 0 /\ ~realloc'[s]
      BY Zenon, <1>1, <2>1 DEF StaticSource
    <3> QED BY Zenon, <2>2, <3>1, <3>2, <3>3 DEF StaticSource
  <2>3. CASE t # s
    <3>1. conn'[t] = conn[t] /\ window'[t] = window[t] /\ full'[t] = full[t]
      BY Zenon, <1>1, <2>3, RoomTypes DEF TypeOK
    <3> QED BY Zenon, <1>1, <1>2, <2>1, <3>1 DEF StaticSource
  <2> QED BY Zenon, <2>2, <2>3
<1>4. \A d \in AckThreads : StaticAck(ack[d])'
  BY ZenonT(60), <1>1 DEF StaticInv, StaticAck, AckShape
<1> QED BY Zenon, <1>1, <1>3, <1>4 DEF StaticInv

\* A step of destination thread d about connection s, whose slot moves back to
\* the window.
StaticMoves(d, a, s) ==
    /\ ack' = [ack EXCEPT ![d] = a] /\ StaticAck(a)
    /\ UNCHANGED <<conn, full, main, toReclaim, pending, realloc>>
    /\ \A t \in Sources : t # s =>
          /\ window'[t] = window[t] /\ inflight'[t] = inflight[t]
          /\ HasSlot(a, t) <=> HasSlot(ack[d], t)
    /\ window'[s] + inflight'[s] + AckSlots(s)' = window[s] + inflight[s] + AckSlots(s)
    /\ conn[s] = "closed" => inflight'[s] = 0 /\ AckSlots(s)' = 0

\* Such a step keeps the slots accounted for.
LEMMA StaticAckFrame ==
  ASSUME Counts(AckThreads), RoomInv, RoomInv', StaticInv, NEW d \in AckThreads, NEW a, NEW s \in Sources,
         StaticMoves(d, a, s)
  PROVE  StaticInv'
<1> USE DEF StaticMoves
<1>1. \A t \in Sources : t # s => AckSlots(t)' = AckSlots(t)
  BY ZenonT(60), AckSlotsStep, RoomTypes DEF TypeOK
<1>2. AckSlots(s)' \in Nat /\ \A t : AckSlots(t) \in Nat
  BY ZenonT(60), AckSlotsStep, AckSlotsType, RoomTypes DEF TypeOK
<1>3. ASSUME NEW t \in Sources PROVE StaticSource(t)'
  <2>1. StaticSource(t)
    BY Zenon DEF StaticInv
  <2>2. CASE t = s
    BY Zenon, <2>1, <2>2 DEF StaticSource
  <2>3. CASE t # s
    BY ZenonT(60), <1>1, <2>1, <2>3 DEF StaticSource
  <2> QED BY Zenon, <2>2, <2>3
<1>4. \A c \in AckThreads : StaticAck(ack[c])'
  <2>1. \A c \in AckThreads : ack'[c] = IF c = d THEN a ELSE ack[c]
    BY RoomTypes DEF TypeOK
  <2>2. \A c \in AckThreads : StaticAck(ack[c])
    BY Zenon DEF StaticInv
  <2>3. ASSUME NEW c \in AckThreads PROVE StaticAck(ack'[c])
    <3>1. CASE c = d
      BY Zenon, <2>1, <3>1
    <3>2. CASE c # d
      BY Zenon, <2>1, <2>2, <3>2
    <3> QED BY Zenon, <3>1, <3>2
  <2> QED BY Zenon, <2>3 DEF StaticAck, AckShape
<1> QED BY ZenonT(60), <1>3, <1>4 DEF StaticInv

\* A destination thread takes the slot of the message it acknowledges.
LEMMA StaticStartAck ==
  ASSUME Counts(AckThreads), PoolSize = 0, RoomInv, RoomInv', StaticInv, NEW d \in AckThreads, NEW s \in Sources,
         NEW refused \in BOOLEAN, StartAck(d, s, refused)
  PROVE  StaticInv'
<1>1. PICK a : a = [AckIdle EXCEPT !.pc = "add", !.src = s, !.n = 1, !.suspends = refused]
  BY Zenon
<1>2. a.pc = "add" /\ a.src = s /\ a.n = 1 /\ a.reclaim = 0
  BY Zenon, <1>1, AckIdleType DEF AckState, AckIdle
<1>3. /\ ack' = [ack EXCEPT ![d] = a]
      /\ inflight' = [inflight EXCEPT ![s] = inflight[s] - 1] /\ inflight[s] > 0
      /\ UNCHANGED <<window, full, toReclaim, pending, conn, main, realloc>>
      /\ ack[d].pc = "idle"
  BY <1>1 DEF StartAck, readers, Dynamic
<1>4. StaticAck(a)
  BY Zenon, <1>2 DEF StaticAck, AckShape
<1>5. ack[d].n = 0 /\ ack[d].reclaim = 0
  <2>1. StaticAck(ack[d])
    BY Zenon DEF StaticInv
  <2> QED BY Zenon, <1>3, <2>1 DEF StaticAck, AckShape
<1>6. \A t \in Sources : ~HasSlot(ack[d], t) /\ (HasSlot(a, t) <=> t = s)
  BY SMTT(60), <1>2, <1>5 DEF HasSlot
<1>7. AckSlots(s)' = AckSlots(s) + 1 /\ AckSlots(s) \in Nat
  BY Zenon, <1>3, <1>6, AckSlotsStep, RoomTypes DEF TypeOK
<1>8. conn[s] # "closed"
  BY SMTT(60), <1>3 DEF StaticInv, StaticSource
<1>9. /\ \A t \in Sources : t # s => inflight'[t] = inflight[t]
      /\ window'[s] + inflight'[s] + AckSlots(s)' = window[s] + inflight[s] + AckSlots(s)
  BY SMTT(60), <1>3, <1>7, RoomTypes DEF TypeOK
<1>10. StaticMoves(d, a, s)
  BY ZenonT(60), <1>3, <1>4, <1>6, <1>8, <1>9 DEF StaticMoves
<1> QED BY Zenon, <1>10, StaticAckFrame

\* The slot is given back to the window.
LEMMA StaticAckAdd ==
  ASSUME Counts(AckThreads), RoomInv, RoomInv', StaticInv, NEW d \in AckThreads, AckAdd(d)
  PROVE  StaticInv'
<1>1. PICK s : s = ack[d].src
  BY Zenon
<1>2. /\ ack[d] \in AckState /\ s \in Sources /\ ack[d].n = 1 /\ ack[d].reclaim = 0
      /\ window \in [Sources -> Int]
  <2>1. StaticAck(ack[d])
    BY Zenon DEF StaticInv
  <2> QED BY Zenon, <1>1, <2>1, RoomTypes DEF AckAdd, TypeOK, AckState, StaticAck, AckShape
<1>3. PICK resume \in BOOLEAN, wake \in BOOLEAN : ack' = [ack EXCEPT ![d] = Remaining(ack[d], resume, wake)]
  BY ZenonT(60), <1>1, <1>2, RoomTypes DEF AckAdd, TypeOK, Suspended, Crosses
<1>4. PICK a : a = Remaining(ack[d], resume, wake)
  BY Zenon
<1>5. a.n = 0 /\ a.reclaim = 0 /\ a.pc \notin {"gather", "pend", "add"}
  BY SMTT(60), <1>2, <1>4, RemainingType
<1>6. /\ ack' = [ack EXCEPT ![d] = a]
      /\ window' = [window EXCEPT ![s] = window[s] + 1]
      /\ UNCHANGED <<pending, inflight, full, toReclaim, conn, main, realloc>>
  BY Zenon, <1>1, <1>2, <1>3, <1>4 DEF AckAdd, readers
<1>7. StaticAck(a)
  BY Zenon, <1>5 DEF StaticAck, AckShape
<1>8. \A t \in Sources : ~HasSlot(a, t) /\ (HasSlot(ack[d], t) <=> t = s)
  BY <1>1, <1>2, <1>5 DEF HasSlot
<1>9. AckSlots(s)' = AckSlots(s) - 1 /\ AckSlots(s) \in Nat /\ AckSlots(s)' \in Nat
  BY Zenon, <1>2, <1>6, <1>8, AckSlotsStep, RoomTypes DEF TypeOK
<1>10. conn[s] # "closed"
  BY SMTT(60), <1>2, <1>9 DEF StaticInv, StaticSource
<1>11. /\ \A t \in Sources : t # s => window'[t] = window[t]
       /\ window'[s] + inflight'[s] + AckSlots(s)' = window[s] + inflight[s] + AckSlots(s)
  BY <1>2, <1>6, <1>9, RoomTypes DEF TypeOK
<1>12. StaticMoves(d, a, s)
  BY Zenon, <1>6, <1>7, <1>8, <1>10, <1>11 DEF StaticMoves
<1> QED BY Zenon, <1>2, <1>12, StaticAckFrame

\* Resuming, waking and suspending move no slot.
LEMMA StaticAckEnd ==
  ASSUME Counts(AckThreads), RoomInv, RoomInv', StaticInv, NEW d \in AckThreads,
         AckResume(d) \/ AckWake(d) \/ AckSuspend(d)
  PROVE  StaticInv'
<1>1. /\ ack[d] \in AckState /\ ack[d].src \in Sources
      /\ ack[d].n = 0 /\ ack[d].reclaim = 0
  <2>1. StaticAck(ack[d])
    BY Zenon DEF StaticInv
  <2> QED BY Zenon, <2>1, RoomTypes DEF AckResume, AckWake, AckSuspend, TypeOK, AckState, StaticAck, AckShape
<1>2. PICK a : /\ a.n = 0 /\ a.reclaim = 0 /\ a.pc \notin {"gather", "pend", "add"}
               /\ ack' = [ack EXCEPT ![d] = a]
  BY Zenon, AckEndRecord
<1>3. UNCHANGED <<window, pending, inflight, full, toReclaim, conn, main, realloc>>
  BY ZenonT(60) DEF AckResume, AckWake, AckSuspend, counters, readers
<1>4. StaticAck(a)
  BY Zenon, <1>2 DEF StaticAck, AckShape
<1>5. \A t : ~HasSlot(a, t) /\ ~HasSlot(ack[d], t)
  BY <1>1, <1>2 DEF HasSlot
<1>6. \A t \in Sources : AckSlots(t)' = AckSlots(t) /\ AckSlots(t) \in Nat
  BY Zenon, <1>2, <1>5, AckSlotsStep, RoomTypes DEF TypeOK
<1>7. PICK s \in Sources : s = ack[d].src
  BY Zenon, <1>1
<1>8. /\ window'[s] + inflight'[s] + AckSlots(s)' = window[s] + inflight[s] + AckSlots(s)
      /\ conn[s] = "closed" => inflight'[s] = 0 /\ AckSlots(s)' = 0
  BY Zenon, <1>3, <1>6 DEF StaticInv, StaticSource
<1>9. StaticMoves(d, a, s)
  BY ZenonT(60), <1>2, <1>3, <1>4, <1>5, <1>8 DEF StaticMoves
<1> QED BY Zenon, <1>9, StaticAckFrame

\* Every step; the main thread's reallocation never starts.
LEMMA StaticNext ==
  ASSUME Counts(AckThreads), PoolSize = 0, RoomInv, RoomInv', StaticInv, [Next]_vars
  PROVE  StaticInv'
<1>1. ASSUME NEW s \in Sources,
             Read(s) \/ FinishFetch(s) \/ WakeupTriggered(s) \/ Close(s) \/ Destroy(s) \/ Accept(s)
      PROVE  StaticInv'
  BY Zenon, <1>1, StaticReader, StaticClose, StaticDestroy, StaticAccept
<1>2. ASSUME NEW d \in AckThreads, AckStep(d) PROVE StaticInv'
  <2>1. ack[d].pc \notin {"gather", "pend"}
    <3>1. StaticAck(ack[d])
      BY Zenon DEF StaticInv
    <3> QED BY Zenon, <3>1 DEF StaticAck
  <2>2. AckAdd(d) \/ AckResume(d) \/ AckWake(d) \/ AckSuspend(d)
    BY Zenon, <1>2, <2>1 DEF AckStep, AckGather, AckPend
  <2> QED BY Zenon, <2>2, StaticAckAdd, StaticAckEnd
<1>3. ASSUME NEW d \in AckThreads, NEW s \in Sources, NEW refused \in BOOLEAN, StartAck(d, s, refused)
      PROVE  StaticInv'
  BY Zenon, <1>3, StaticStartAck
<1>4. ~Tick
  BY DEF Tick, Dynamic
<1>5. ASSUME MainStep PROVE StaticInv'
  <2>1. DestroyRest
    BY ZenonT(60), <1>5 DEF StaticInv, MainStep, Gather, Pend, ReleaseReclaimed, Rebalance, RequestReclamation,
                ReadEmptyWindow, Subtract, FinishRealloc, Schedule
  <2> QED BY Zenon, <2>1, StaticDestroyRest
<1>6. ASSUME UNCHANGED vars PROVE StaticInv'
  BY Zenon, <1>6 DEF vars, StaticInv, StaticSource, StaticAck, AckShape, AckSlots
<1> QED BY Zenon, <1>1, <1>2, <1>3, <1>4, <1>5, <1>6 DEF Next

----------------------------------------------------------------------------
(* The theorems.                                                           *)

INSTANCE FiniteSetTheorems

\* The connections and the destination threads, finite sets, can be counted.
LEMMA CountsFinite ==
  ASSUME NEW T, IsFiniteSet(T)
  PROVE  Counts(T)
<1>1. Cardinality({}) = 0
  BY Zenon, FS_EmptySet
<1>2. ASSUME NEW S \in SUBSET T
      PROVE  /\ Cardinality(S) \in Nat
             /\ \A x \in S : Cardinality(S \ {x}) = Cardinality(S) - 1
             /\ \A x \in T \ S : Cardinality(S \cup {x}) = Cardinality(S) + 1
  <2>1. IsFiniteSet(S)
    BY Zenon, FS_Subset
  <2> QED BY Zenon, <2>1, FS_CardinalityType, FS_AddElement, FS_RemoveElement
<1> QED BY Zenon, <1>1, <1>2 DEF Counts

\* The invariant holds in every state of every behaviour.
LEMMA RoomInvariant == Spec => []RoomInv
<1>1. Counts(Sources)
  BY Zenon, CountsFinite, WindowAssumption
<1>2. RoomInv /\ [Next]_vars => RoomInv'
  BY Zenon, <1>1, RoomNext
<1> QED BY <1>2, RoomInit, PTL DEF Spec

\* A reader that polls, or has started to fetch, has room for the message it
\* posts without looking: however posts, acknowledgements, rebalancing and
\* closing connections interleave, for any number of connections, destination
\* threads, any static window and pool, even where the unsigned dynamic part of
\* a window wraps around (_log_source_track_msg() does not overdraw).
THEOREM ReaderHasRoom == Spec => []NoOverdraft
<1>1. RoomInv => NoOverdraft
  BY Zenon DEF RoomInv
<1> QED BY <1>1, RoomInvariant, PTL

\* No slot of a window is lost: as long as no dynamic part has wrapped around,
\* what is free, in flight, being given back or pending makes up the full window
\* (logsource-dyn.c), however acknowledgements, posts, reallocations and closing
\* connections interleave.
THEOREM NoSlotIsLost == Spec /\ []SizesInRange => []NoSlotLost
<1>1. SlotInv => NoSlotLost
  BY Zenon DEF SlotInv, SlotsKept, NoSlotLost
<1>2. Counts(AckThreads)
  BY Zenon, CountsFinite, WindowAssumption
<1>3. Init => SlotInv
  BY Zenon, <1>2, SlotInit
<1>4. RoomInv /\ RoomInv' /\ SizesInRange /\ SlotInv /\ [Next]_vars => SlotInv'
  BY Zenon, <1>2, SlotNext
<1> QED BY <1>1, <1>3, <1>4, RoomInvariant, PTL DEF Spec

\* The invariant holds in every state of every behaviour of a static window.
LEMMA StaticInvariant == ASSUME PoolSize = 0 PROVE Spec => []StaticInv
<1>0. Counts(AckThreads)
  BY Zenon, CountsFinite, WindowAssumption
<1>1. RoomInv /\ RoomInv' /\ StaticInv /\ [Next]_vars => StaticInv'
  BY Zenon, <1>0, StaticNext
<1>2. Init => StaticInv
  BY Zenon, <1>0, StaticInit
<1> QED BY <1>1, <1>2, RoomInvariant, PTL DEF Spec

\* With a static window, the default, a connection never has more messages in
\* flight than log-iw-size() gives it, for any number of connections and
\* destination threads and any size: posts, acknowledgements and closing
\* connections account for every slot.
THEOREM StaticWindowBounds == ASSUME PoolSize = 0 PROVE Spec => []WithinFullWindow
<1>1. ASSUME RoomInv, StaticInv, NEW s \in Sources, conn[s] = "open" PROVE inflight[s] <= full[s]
  <2>1. AckSlots(s) \in Nat
    BY Zenon, CountsFinite, AckSlotsType, WindowAssumption
  <2> QED BY <1>1, <2>1 DEF RoomInv, TypeOK, OpenWindows, StaticInv, StaticSource
<1>2. RoomInv /\ StaticInv => WithinFullWindow
  BY <1>1 DEF WithinFullWindow
<1> QED BY <1>2, RoomInvariant, StaticInvariant, PTL

\* A static window loses no slot either: its size never changes, so the
\* hypothesis of NoSlotIsLost holds.
THEOREM StaticSlotsAreKept == ASSUME PoolSize = 0 PROVE Spec => []NoSlotLost
<1>1. StaticInv => SizesInRange
  BY WindowAssumption DEF StaticInv, StaticSource, SizesInRange
<1> QED BY <1>1, StaticInvariant, NoSlotIsLost, PTL

\* Where the wakeup is exact, a suspended reader whose window has opened again
\* has a wakeup under way, for any number of connections and destination
\* threads: no interleaving of posts, acknowledgements, refusals, closing
\* connections and reallocations leaves it suspended with nobody to wake it.
THEOREM ResumeIsNeverLost == ASSUME WakeupIsExact PROVE Spec => []NoLostResume
<1> DEFINE Static == PoolSize = 0 => StaticInv /\ StaticRoom
<1>0. Counts(AckThreads)
  BY Zenon, CountsFinite, WindowAssumption
<1>1. Init => ResumeInv /\ Static
  <2>1. Init => StaticRoom
    BY WindowAssumption DEF Init, StaticRoom
  <2> QED BY Zenon, <1>0, <2>1, ResumeInit, StaticInit
<1>2. RoomInv /\ RoomInv' /\ ResumeInv /\ Static /\ [Next]_vars => ResumeInv' /\ Static'
  <2> SUFFICES ASSUME RoomInv, RoomInv', ResumeInv, Static, [Next]_vars
               PROVE  ResumeInv' /\ Static'
    BY Zenon
  <2>1. ResumeInv'
    BY Zenon, ResumeNext
  <2>2. Static'
    <3>1. ASSUME PoolSize = 0 PROVE StaticInv' /\ StaticRoom'
      BY Zenon, <1>0, <3>1, StaticNext, StaticRoomNext
    <3> QED BY Zenon, <3>1
  <2> QED BY Zenon, <2>1, <2>2
<1>3. ResumeInv => NoLostResume
  BY Zenon DEF ResumeInv
<1> QED BY <1>1, <1>2, <1>3, RoomInvariant, PTL DEF Spec
============================================================================
