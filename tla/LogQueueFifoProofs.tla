------------------------ MODULE LogQueueFifoProofs ------------------------
(***************************************************************************)
(* Proofs about the memory queue: the sleeping output thread is always     *)
(* woken, no input list is left without a callback, queued_messages is the *)
(* queue's length, the counters beside each list are what they count, and  *)
(* the limit is only exceeded by rewinds.                                  *)
(***************************************************************************)
EXTENDS LogQueueFifo, FiniteSetTheorems, TLAPS

Notifying(t) == pc[t] \in {"notifying", "notifying_uncounted"}

ControlOK ==
    /\ pc \in [Threads -> PCs]
    /\ consumer \in Consumers
    /\ notify \in BOOLEAN
    /\ wakeup \in BOOLEAN

\* A registered callback means that the queue was and still is empty and that
\* nobody is writing from it.
NotifyMeansEmpty ==
    notify => GetLength = 0 /\ consumer \in {"sleeping", "idle"}

\* What will wake a sleeping output thread.
SleeperIsExpected ==
    consumer = "sleeping" => notify \/ wakeup \/ \E t \in Threads : Notifying(t)

WakeupInv == ControlOK /\ NotifyMeansEmpty /\ SleeperIsExpected

\* The invariant that makes NoLostWakeup inductive implies it.
LEMMA WakeupInvImplies == WakeupInv => NoLostWakeup
  BY DEF WakeupInv, NotifyMeansEmpty, SleeperIsExpected, NoLostWakeup, Notifying

\* Taking the callback hands the duty to wake the output thread to the
\* pushing thread (log_queue_push_notify()).
LEMMA TakeNotifyHandsOver ==
  ASSUME WakeupInv, NEW t \in Threads, ~Notifying(t),
         NEW next \in {"notifying", "notifying_uncounted"},
         TakeNotify(t, next), UNCHANGED <<wakeup, consumer>>
  PROVE  WakeupInv'
<1>1. ControlOK'
  BY DEF WakeupInv, ControlOK, TakeNotify, PCs
<1>2. NotifyMeansEmpty'
  BY DEF TakeNotify, NotifyMeansEmpty
<1>3. ASSUME consumer' = "sleeping", ~wakeup'
      PROVE  \E u \in Threads : Notifying(u)'
  <2>1. CASE notify
    <3>1. pc'[t] = next
      BY <2>1 DEF TakeNotify, WakeupInv, ControlOK
    <3> QED BY <3>1 DEF Notifying
  <2>2. CASE ~notify
    <3>1. \A u \in Threads : u # t => pc'[u] = pc[u]
      BY <2>2 DEF TakeNotify, WakeupInv, ControlOK
    <3>2. PICK u \in Threads : Notifying(u)
      BY <1>3, <2>2 DEF WakeupInv, SleeperIsExpected
    <3>3. u # t
      BY <3>2
    <3> QED BY <3>1, <3>2, <3>3 DEF Notifying
  <2> QED BY <2>1, <2>2
<1>4. SleeperIsExpected'
  BY <1>3 DEF SleeperIsExpected, WakeupInv, ControlOK
<1> QED BY <1>1, <1>2, <1>4 DEF WakeupInv

\* A thread that takes the lock and looks at the length changes nothing that
\* the wakeup depends on (log_queue_fifo_push_tail() before it appends).
LEMMA LookingKeepsWakeup ==
  ASSUME WakeupInv, NEW t \in Threads, pc[t] = "idle",
         NEW next \in {"moving", "appending"}, pc' = [pc EXCEPT ![t] = next],
         UNCHANGED <<wait, output, notify, wakeup, consumer>>
  PROVE  WakeupInv'
<1>1. ControlOK'
  BY DEF WakeupInv, ControlOK, PCs
<1>2. NotifyMeansEmpty'
  BY DEF WakeupInv, NotifyMeansEmpty, GetLength
<1>3. \A u \in Threads : Notifying(u) => Notifying(u)'
  BY DEF Notifying, WakeupInv, ControlOK
<1>4. SleeperIsExpected'
  BY <1>3 DEF WakeupInv, SleeperIsExpected
<1> QED BY <1>1, <1>2, <1>4 DEF WakeupInv

\* No step loses the wakeup.
LEMMA WakeupStep == WakeupInv /\ [Next]_vars => WakeupInv'
<1> SUFFICES ASSUME WakeupInv, [Next]_vars PROVE WakeupInv'
  OBVIOUS
<1> USE DEF lists, fates
<1>1. ASSUME NEW t \in InputThreads, NEW fc \in BOOLEAN, NEW old \in BOOLEAN,
             PushFast(t, fc, old)
      PROVE  WakeupInv'
  <2> t \in Threads BY DEF Threads
  <2>1. CASE UNCHANGED <<wait, output, notify, pc, wakeup, consumer>>
    BY <2>1 DEF WakeupInv, ControlOK, NotifyMeansEmpty, SleeperIsExpected, Notifying, GetLength
  <2>2. CASE pc' = [pc EXCEPT ![t] = "moving"]
    BY <1>1, <2>2, LookingKeepsWakeup DEF PushFast, CanPush
  <2> QED BY <1>1, <2>1, <2>2 DEF PushFast, StartMove
<1>2. ASSUME NEW t \in InputThreads, BatchCallback(t)
      PROVE  WakeupInv'
  <2> t \in Threads BY DEF Threads
  <2> QED BY <1>2, LookingKeepsWakeup DEF BatchCallback, StartMove
<1>14. ASSUME NEW t \in InputThreads, Move(t)
       PROVE  WakeupInv'
  <2> t \in Threads BY DEF Threads
  <2> QED BY <1>14, TakeNotifyHandsOver DEF Move, Notifying
<1>3. ASSUME NEW t \in SlowThreads, NEW fc \in BOOLEAN, PushSlow(t, fc)
      PROVE  WakeupInv'
  <2> t \in Threads BY DEF Threads
  <2>1. CASE UNCHANGED <<wait, output, notify, pc, wakeup, consumer>>
    BY <2>1 DEF WakeupInv, ControlOK, NotifyMeansEmpty, SleeperIsExpected, Notifying, GetLength
  <2>2. CASE TakeNotify(t, "notifying_uncounted")
    BY <1>3, <2>2, TakeNotifyHandsOver DEF PushSlow, CanPush, Notifying
  <2>3. CASE pc' = [pc EXCEPT ![t] = "appending"] /\ UNCHANGED <<wait, notify>>
    BY <1>3, <2>3, LookingKeepsWakeup DEF PushSlow, CanPush
  <2> QED BY <1>3, <2>1, <2>2, <2>3 DEF PushSlow, AppendMessage
<1>15. ASSUME NEW t \in SlowThreads, AppendSlow(t)
       PROVE  WakeupInv'
  <2> t \in Threads BY DEF Threads
  <2> QED BY <1>15, TakeNotifyHandsOver DEF AppendSlow, AppendMessage, Notifying
<1>4. ASSUME NEW t \in Threads, CallNotify(t)
      PROVE  WakeupInv'
  BY <1>4 DEF CallNotify, WakeupInv, ControlOK, NotifyMeansEmpty, SleeperIsExpected,
              GetLength, PCs
<1>5. ASSUME NEW t \in Threads, CountPushed(t)
      PROVE  WakeupInv'
  BY <1>5 DEF CountPushed, WakeupInv, ControlOK, NotifyMeansEmpty, SleeperIsExpected,
              Notifying, GetLength, PCs
<1>6. ASSUME NEW added \in 0..Throttle, CheckItems(added)
      PROVE  WakeupInv'
  BY <1>6 DEF CheckItems, WakeupInv, ControlOK, NotifyMeansEmpty, SleeperIsExpected,
              GetLength, Consumers
<1>7. CASE WakeupEvent
  BY <1>7 DEF WakeupEvent, WakeupInv, ControlOK, NotifyMeansEmpty, SleeperIsExpected,
              GetLength, Consumers
<1>8. CASE ThrottleTimer \/ FinishReading \/ PopNothing \/ IoWakeup
  <2>1. /\ consumer' \in {"refilled", "idle", "reading"}
        /\ notify' = FALSE
        /\ UNCHANGED <<pc, wakeup>>
    BY <1>8 DEF ThrottleTimer, FinishReading, PopNothing, IoWakeup, WakeupInv, NotifyMeansEmpty,
                ControlOK
  <2> QED BY <2>1 DEF WakeupInv, ControlOK, NotifyMeansEmpty, SleeperIsExpected, Consumers
<1>9. CASE PopHead
  BY <1>9 DEF PopHead, WakeupInv, ControlOK, NotifyMeansEmpty, SleeperIsExpected
<1>10. ASSUME NEW n \in 1..backlog.len, AckBacklog(n) \/ RewindBacklog(n)
       PROVE  WakeupInv'
  BY <1>10 DEF AckBacklog, RewindBacklog, WakeupInv, ControlOK, NotifyMeansEmpty,
               SleeperIsExpected, Consumers
<1>11. CASE RewindBacklogAll
  BY <1>11 DEF RewindBacklogAll, WakeupInv, ControlOK, NotifyMeansEmpty, SleeperIsExpected,
               Consumers
<1>12. CASE Reload
  BY <1>12 DEF Reload, WakeupInv, ControlOK, NotifyMeansEmpty, SleeperIsExpected, Consumers
<1>13. CASE UNCHANGED vars
  BY <1>13 DEF vars, WakeupInv, ControlOK, NotifyMeansEmpty, SleeperIsExpected, Notifying,
               GetLength
<1> QED
  BY <1>1, <1>2, <1>3, <1>4, <1>5, <1>6, <1>7, <1>8, <1>9, <1>10, <1>11, <1>12, <1>13,
     <1>14, <1>15
     DEF Next, Produce, Callback, Consume

\* For any threads, sizes and throttle, the output thread never sleeps on a
\* queue with messages unless its wakeup is under way: the callback of
\* log_queue_check_items() cannot be lost to a concurrent push.
THEOREM WakeupIsNeverLost == Spec => []NoLostWakeup
<1>1. Init => WakeupInv
  BY DEF Init, WakeupInv, ControlOK, NotifyMeansEmpty, SleeperIsExpected, PCs, Consumers
<1>2. QED
  BY <1>1, WakeupStep, WakeupInvImplies, PTL DEF Spec

----------------------------------------------------------------------------
(* Input lists.                                                            *)

StrandedInv ==
    /\ DOMAIN input = InputThreads
    /\ pc \in [Threads -> PCs]
    /\ NoStrandedInput

\* Every step keeps a callback registered for each input list in use.
LEMMA StrandedStep == StrandedInv /\ [Next]_vars => StrandedInv'
<1> SUFFICES ASSUME StrandedInv, [Next]_vars PROVE StrandedInv'
  OBVIOUS
<1> USE DEF lists, fates, StrandedInv, NoStrandedInput
<1>1. ASSUME NEW t \in InputThreads, NEW fc \in BOOLEAN, NEW old \in BOOLEAN,
             PushFast(t, fc, old)
      PROVE  StrandedInv'
  <2>1. registered' = registered \cup {t}
    BY <1>1 DEF PushFast, Registered
  <2>2. PICK in : input' = [input EXCEPT ![t] = in]
    BY <1>1 DEF PushFast
  <2>3. pc' = pc \/ pc' = [pc EXCEPT ![t] = "moving"]
    BY <1>1 DEF PushFast, StartMove
  <2>4. DOMAIN input' = InputThreads /\ \A u \in InputThreads : u # t => input'[u] = input[u]
    BY <2>2
  <2>5. pc' \in [Threads -> PCs] /\ \A u \in Threads : u # t => pc'[u] = pc[u]
    BY <2>3 DEF PCs
  <2>6. NoStrandedInput'
    <3> SUFFICES ASSUME NEW u \in InputThreads, input'[u].len > 0
                 PROVE  u \in registered' \/ pc'[u] = "moving"
      OBVIOUS
    <3>1. CASE u = t
      BY <2>1, <3>1
    <3>2. CASE u # t
      BY <2>1, <2>4, <2>5, <3>2 DEF Threads
    <3> QED BY <3>1, <3>2
  <2> QED BY <2>4, <2>5, <2>6
<1>2. ASSUME NEW t \in InputThreads, BatchCallback(t)
      PROVE  StrandedInv'
  <2>1. /\ registered' = registered \ {t}
        /\ pc' = [pc EXCEPT ![t] = "moving"]
        /\ input' = input
    BY <1>2 DEF BatchCallback, StartMove
  <2> QED BY <2>1 DEF PCs, Threads
<1>10. ASSUME NEW t \in InputThreads, Move(t)
       PROVE  StrandedInv'
  <2>1. /\ input' = [input EXCEPT ![t] = Empty]
        /\ registered' = registered
        /\ pc' \in {[pc EXCEPT ![t] = "notifying"], [pc EXCEPT ![t] = "idle"]}
    BY <1>10 DEF Move, MoveInput, TakeNotify
  <2>2. Empty.len = 0
    BY DEF Empty
  <2> QED BY <2>1, <2>2 DEF PCs, Threads
<1>3. CASE Reload
  BY <1>3 DEF Reload, Empty
<1>4. ASSUME UNCHANGED <<input, registered, pc>>
      PROVE  StrandedInv'
  BY <1>4
<1>11. ASSUME NEW t \in Threads, pc[t] # "moving", NEW next \in PCs,
              pc' = [pc EXCEPT ![t] = next], UNCHANGED <<input, registered>>
       PROVE  StrandedInv'
  BY <1>11
<1>5. ASSUME NEW t \in Threads, NEW fc \in BOOLEAN, PushSlow(t, fc) \/ AppendSlow(t)
      PROVE  StrandedInv'
  <2>1. /\ pc[t] # "moving" /\ UNCHANGED <<input, registered>>
        /\ pc' = pc \/ \E next \in PCs : pc' = [pc EXCEPT ![t] = next]
    BY <1>5 DEF PushSlow, AppendSlow, AppendMessage, TakeNotify, CanPush, PCs
  <2> QED BY <1>4, <1>11, <2>1
<1>6. ASSUME NEW t \in Threads, CallNotify(t) \/ CountPushed(t)
      PROVE  StrandedInv'
  BY <1>11, <1>6 DEF CallNotify, CountPushed, PCs
<1>7. CASE Consume \/ IoWakeup \/ RewindBacklogAll
  BY <1>4, <1>7 DEF Consume, CheckItems, WakeupEvent, ThrottleTimer, PopHead, PopNothing,
                    FinishReading, IoWakeup, RewindBacklogAll
<1>8. ASSUME NEW n \in 1..backlog.len, AckBacklog(n) \/ RewindBacklog(n)
      PROVE  StrandedInv'
  BY <1>4, <1>8 DEF AckBacklog, RewindBacklog
<1>9. CASE UNCHANGED vars
  BY <1>4, <1>9 DEF vars
<1> QED
  BY <1>1, <1>2, <1>3, <1>5, <1>6, <1>7, <1>8, <1>9, <1>10
     DEF Next, Produce, Callback, Threads

\* A thread that holds messages on its input list has its batch callback
\* registered or is moving them at this moment: log_queue_fifo_push_tail()
\* never strands a message, however its checks and the callbacks interleave.
THEOREM InputIsNeverStranded == Spec => []NoStrandedInput
<1>1. Init => StrandedInv
  BY DEF Init, StrandedInv, NoStrandedInput, Empty, PCs
<1>2. StrandedInv => NoStrandedInput
  BY DEF StrandedInv
<1> QED BY <1>1, <1>2, StrandedStep, PTL DEF Spec

----------------------------------------------------------------------------
(* The queued_messages counter.                                            *)

Counted(q) == q.len \in Int /\ q.nfc \in Int

CountersOK ==
    /\ DOMAIN input = InputThreads
    /\ \A t \in InputThreads : Counted(input[t])
    /\ Counted(wait) /\ Counted(output) /\ Counted(backlog)
    /\ queued \in Int
    /\ pc \in [Threads -> PCs]
    /\ toDrop \in [InputThreads -> Int]

QueuedInv == CountersOK /\ QueuedIsLength

\* A set of threads is finite: the counter lags by one message per thread at
\* most.
LEMMA ThreadSetFinite ==
  ASSUME NEW S \in SUBSET Threads
  PROVE  IsFiniteSet(S) /\ Cardinality(S) \in Nat
<1>1. IsFiniteSet(Threads)
  BY FifoAssumption, FS_Union DEF Threads
<1>2. IsFiniteSet(S)
  BY <1>1, FS_Subset
<1> QED BY <1>2, FS_CardinalityType

\* The number of entries that are not flow controlled is a number.
LEMMA SubrangeCardinality ==
  ASSUME NEW n \in Int, NEW S \in SUBSET (1..n)
  PROVE  Cardinality(S) \in Nat
<1>1. IsFiniteSet(1..n)
  BY FS_Interval
<1>2. IsFiniteSet(S)
  BY <1>1, FS_Subset
<1> QED BY <1>2, FS_CardinalityType

\* Moving an input list counts exactly the messages it adds to the queue.
LEMMA MoveInputCounts ==
  ASSUME CountersOK, NEW t \in InputThreads, MoveInput(t)
  PROVE  /\ input' = [input EXCEPT ![t] = Empty]
         /\ Counted(wait') /\ queued' \in Int
         /\ wait'.len - wait.len = queued' - queued
<1>1. toDrop[t] \in Int /\ Counted(input[t])
  BY DEF CountersOK
<1> DEFINE kept == DropFrom(input[t], toDrop[t])
<1>2. Counted(kept)
  BY <1>1 DEF DropFrom, Counted
<1>3. queued' = queued + kept.len /\ wait' = SpliceTail(wait, kept)
      /\ input' = [input EXCEPT ![t] = Empty]
  BY DEF MoveInput
<1> HIDE DEF kept
<1>4. /\ kept.len \in Int /\ kept.nfc \in Int
      /\ wait.len \in Int /\ wait.nfc \in Int /\ queued \in Int
  BY <1>2 DEF CountersOK, Counted
<1>5. wait'.len = wait.len + kept.len /\ wait'.nfc = wait.nfc + kept.nfc
  BY <1>3 DEF SpliceTail
<1>6. Counted(wait')
  BY <1>4, <1>5 DEF Counted
<1> QED BY <1>3, <1>4, <1>5, <1>6

\* Every step changes the counter by what it changes in the length.
LEMMA QueuedStep == QueuedInv /\ [Next]_vars => QueuedInv'
<1> SUFFICES ASSUME QueuedInv, [Next]_vars PROVE QueuedInv'
  OBVIOUS
<1> USE DEF lists, fates
<1>a. Uncounted \in SUBSET Threads /\ Uncounted' \in SUBSET Threads
  BY DEF Uncounted
<1>b. Cardinality(Uncounted) \in Nat /\ Cardinality(Uncounted') \in Nat
  BY <1>a, ThreadSetFinite
<1>c. ASSUME CountersOK', Uncounted' = Uncounted,
             queued' - queued = (wait'.len + output'.len) - (wait.len + output.len)
      PROVE  QueuedInv'
  <2>1. /\ queued \in Int /\ wait.len \in Int /\ output.len \in Int
        /\ queued' \in Int /\ wait'.len \in Int /\ output'.len \in Int
    BY <1>c DEF QueuedInv, CountersOK, Counted
  <2>2. QueuedIsLength'
    BY <1>b, <1>c, <2>1 DEF QueuedInv, QueuedIsLength, GetLength
  <2> QED BY <1>c, <2>2 DEF QueuedInv
<1>d. ASSUME UNCHANGED <<input, wait, output, backlog, queued, pc, toDrop>>
      PROVE  QueuedInv'
  BY <1>d DEF QueuedInv, QueuedIsLength, CountersOK, Counted, Uncounted, GetLength
<1>e. ASSUME NEW t \in Threads, pc[t] = "moving", TakeNotify(t, "notifying")
      PROVE  Uncounted' = Uncounted /\ pc' \in [Threads -> PCs]
  BY <1>e DEF TakeNotify, Uncounted, QueuedInv, CountersOK, PCs
<1>f. ASSUME NEW t \in InputThreads, NEW in, pc[t] = "idle", StartMove(t, in), Counted(in)
      PROVE  /\ Uncounted' = Uncounted /\ pc' \in [Threads -> PCs]
             /\ toDrop' \in [InputThreads -> Int]
  <2>1. NumToDrop(in) \in Int
    BY <1>f, FifoAssumption DEF NumToDrop, GetNfcLength, Max0, QueuedInv, CountersOK, Counted
  <2>2. toDrop' \in [InputThreads -> Int]
    BY <1>f, <2>1 DEF StartMove, QueuedInv, CountersOK
  <2>3. Uncounted' = Uncounted /\ pc' \in [Threads -> PCs]
    BY <1>f DEF StartMove, Uncounted, QueuedInv, CountersOK, PCs, Threads
  <2> QED BY <2>2, <2>3
<1>1. ASSUME NEW t \in InputThreads, NEW fc \in BOOLEAN, NEW old \in BOOLEAN,
             PushFast(t, fc, old)
      PROVE  QueuedInv'
  <2> DEFINE in == AddTail(input[t], NewMessage(t, fc))
  <2>1. Counted(in)
    BY DEF AddTail, Counted, Nfc, QueuedInv, CountersOK
  <2>2. /\ StartMove(t, in) \/ UNCHANGED <<pc, toDrop>>
        /\ input' = [input EXCEPT ![t] = in]
        /\ UNCHANGED <<wait, output, backlog, queued>>
        /\ pc[t] = "idle"
    BY <1>1 DEF PushFast, CanPush
  <2> HIDE DEF in
  <2>3. /\ Uncounted' = Uncounted /\ pc' \in [Threads -> PCs]
        /\ toDrop' \in [InputThreads -> Int]
    BY <1>f, <2>1, <2>2 DEF QueuedInv, CountersOK, Uncounted
  <2>4. CountersOK'
    BY <2>1, <2>2, <2>3 DEF QueuedInv, CountersOK
  <2> QED BY <1>c, <2>2, <2>3, <2>4 DEF QueuedInv, CountersOK, Counted
<1>2. ASSUME NEW t \in InputThreads, BatchCallback(t)
      PROVE  QueuedInv'
  <2>1. /\ StartMove(t, input[t]) /\ pc[t] = "idle" /\ Counted(input[t])
        /\ UNCHANGED <<input, wait, output, backlog, queued>>
    BY <1>2 DEF BatchCallback, QueuedInv, CountersOK
  <2>2. /\ Uncounted' = Uncounted /\ pc' \in [Threads -> PCs]
        /\ toDrop' \in [InputThreads -> Int]
    BY <1>f, <2>1
  <2>3. CountersOK'
    BY <2>1, <2>2 DEF QueuedInv, CountersOK, Counted
  <2> QED BY <1>c, <2>1, <2>2, <2>3 DEF QueuedInv, CountersOK, Counted
<1>14. ASSUME NEW t \in InputThreads, Move(t)
       PROVE  QueuedInv'
  <2>1. /\ MoveInput(t) /\ TakeNotify(t, "notifying")
        /\ UNCHANGED <<output, backlog, toDrop>>
        /\ pc[t] = "moving" /\ t \in Threads
    BY <1>14 DEF Move, Threads
  <2>2. /\ input' = [input EXCEPT ![t] = Empty]
        /\ Counted(wait') /\ queued' \in Int
        /\ wait'.len - wait.len = queued' - queued
    BY <2>1, MoveInputCounts DEF QueuedInv
  <2>3. Counted(Empty)
    BY DEF Empty, Counted
  <2>4. CountersOK'
    BY <1>e, <2>1, <2>2, <2>3 DEF QueuedInv, CountersOK
  <2> QED BY <1>c, <1>e, <2>1, <2>2, <2>4 DEF QueuedInv, CountersOK, Counted
<1>g. ASSUME NEW t \in Threads, NEW fc \in BOOLEAN, pc[t] \in {"idle", "appending"},
             AppendMessage(t, fc), UNCHANGED <<input, output, backlog, toDrop>>
      PROVE  QueuedInv'
  <2>1. t \notin Uncounted
    BY <1>g DEF Uncounted
  <2>2. /\ wait' = AddTail(wait, NewMessage(t, fc))
        /\ TakeNotify(t, "notifying_uncounted")
        /\ queued' = IF notify THEN queued ELSE queued + 1
    BY <1>g DEF AppendMessage
  <2>3. Counted(wait') /\ wait'.len = wait.len + 1
    BY <2>2 DEF AddTail, Counted, Nfc, QueuedInv, CountersOK
  <2>4. CountersOK'
    BY <1>g, <2>2, <2>3 DEF TakeNotify, QueuedInv, CountersOK, PCs
  <2>5. CASE notify
    <3>1. Uncounted' = Uncounted \cup {t}
      BY <2>2, <2>5 DEF TakeNotify, Uncounted, QueuedInv, CountersOK
    <3>2. Cardinality(Uncounted') = Cardinality(Uncounted) + 1
      BY <1>a, <2>1, <3>1, ThreadSetFinite, FS_AddElement
    <3> QED BY <1>b, <1>g, <2>2, <2>3, <2>4, <2>5, <3>2
            DEF QueuedInv, QueuedIsLength, GetLength, CountersOK, Counted
  <2>6. CASE ~notify
    <3>1. Uncounted' = Uncounted
      BY <1>g, <2>2, <2>6 DEF TakeNotify, Uncounted, QueuedInv, CountersOK
    <3> QED BY <1>c, <1>g, <2>2, <2>3, <2>4, <2>6, <3>1 DEF QueuedInv, CountersOK, Counted
  <2> QED BY <2>5, <2>6
<1>3. ASSUME NEW t \in SlowThreads, NEW fc \in BOOLEAN, PushSlow(t, fc)
      PROVE  QueuedInv'
  <2>1. t \in Threads /\ pc[t] = "idle" /\ UNCHANGED <<input, output, backlog, toDrop>>
    BY <1>3 DEF PushSlow, CanPush, Threads
  <2>2. CASE UNCHANGED <<wait, queued, pc>>
    BY <1>d, <2>1, <2>2
  <2>3. CASE pc' = [pc EXCEPT ![t] = "appending"] /\ UNCHANGED <<wait, queued>>
    <3>1. Uncounted' = Uncounted
      BY <2>1, <2>3 DEF Uncounted, QueuedInv, CountersOK
    <3>2. CountersOK'
      BY <2>1, <2>3 DEF QueuedInv, CountersOK, Counted, PCs
    <3> QED BY <1>c, <2>1, <2>3, <3>1, <3>2 DEF QueuedInv, CountersOK, Counted
  <2>4. CASE AppendMessage(t, fc)
    BY <1>g, <2>1, <2>4
  <2> QED BY <1>3, <2>2, <2>3, <2>4 DEF PushSlow
<1>15. ASSUME NEW t \in SlowThreads, AppendSlow(t)
       PROVE  QueuedInv'
  BY <1>15, <1>g DEF AppendSlow, Threads
<1>4. ASSUME NEW t \in Threads, CallNotify(t)
      PROVE  QueuedInv'
  <2>1. Uncounted' = Uncounted /\ CountersOK'
    BY <1>4 DEF CallNotify, Uncounted, QueuedInv, CountersOK, Counted, PCs
  <2> QED BY <1>4, <1>c, <2>1 DEF CallNotify, QueuedInv, CountersOK, Counted
<1>5. ASSUME NEW t \in Threads, CountPushed(t)
      PROVE  QueuedInv'
  <2>1. Uncounted' = Uncounted \ {t} /\ t \in Uncounted
    BY <1>5 DEF CountPushed, Uncounted, QueuedInv, CountersOK
  <2>2. Cardinality(Uncounted') = Cardinality(Uncounted) - 1
    BY <1>a, <2>1, ThreadSetFinite, FS_RemoveElement
  <2>3. CountersOK'
    BY <1>5 DEF CountPushed, QueuedInv, CountersOK, Counted, PCs
  <2> QED BY <1>5, <1>b, <2>2, <2>3
          DEF CountPushed, QueuedInv, QueuedIsLength, GetLength, CountersOK, Counted
<1>6. CASE Consume /\ ~PopHead
  BY <1>6, <1>d DEF Consume, CheckItems, WakeupEvent, ThrottleTimer, PopNothing, FinishReading
<1>7. CASE PopHead
  <2>1. /\ Counted(Refilled.output) /\ Counted(Refilled.wait)
        /\ Refilled.output.len + Refilled.wait.len = wait.len + output.len
    BY DEF Refilled, Empty, Counted, QueuedInv, CountersOK
  <2>2. Counted(output') /\ output'.len = Refilled.output.len - 1
    BY <1>7, <2>1 DEF PopHead, RemoveHead, Counted, Nfc
  <2>3. Counted(backlog')
    BY <1>7 DEF PopHead, AddTail, Counted, Nfc, QueuedInv, CountersOK
  <2>4. wait' = Refilled.wait /\ queued' = queued - 1 /\ UNCHANGED <<input, pc, toDrop>>
    BY <1>7 DEF PopHead
  <2>5. CountersOK'
    BY <2>1, <2>2, <2>3, <2>4 DEF QueuedInv, CountersOK
  <2> QED BY <1>c, <2>1, <2>2, <2>4, <2>5 DEF QueuedInv, CountersOK, Counted, Uncounted
<1>8. CASE IoWakeup
  BY <1>8, <1>d DEF IoWakeup
<1>9. ASSUME NEW n \in 1..backlog.len, AckBacklog(n)
      PROVE  QueuedInv'
  <2> DEFINE gone == {i \in 1..n : ~backlog.items[i].fc}
  <2>1. n \in Int
    BY DEF QueuedInv, CountersOK, Counted
  <2>2. Cardinality(gone) \in Nat
    BY <2>1, SubrangeCardinality
  <2>3. backlog'.len = backlog.len - n /\ backlog'.nfc = backlog.nfc - Cardinality(gone)
    BY <1>9 DEF AckBacklog
  <2>4. CountersOK'
    BY <1>9, <2>1, <2>2, <2>3 DEF AckBacklog, QueuedInv, CountersOK, Counted
  <2> QED BY <1>9, <1>c, <2>4 DEF AckBacklog, QueuedInv, CountersOK, Counted, Uncounted
<1>10. ASSUME NEW n \in 1..backlog.len, RewindBacklog(n)
       PROVE  QueuedInv'
  <2> DEFINE back == SubSeq(backlog.items, Len(backlog.items) - n + 1, Len(backlog.items))
             moved == Cardinality({i \in 1..n : ~back[i].fc})
  <2>1. n \in Int
    BY DEF QueuedInv, CountersOK, Counted
  <2>2. moved \in Nat
    BY <2>1, SubrangeCardinality
  <2>3. /\ backlog'.len = backlog.len - n /\ backlog'.nfc = backlog.nfc - moved
        /\ output'.len = output.len + n /\ output'.nfc = output.nfc + moved
        /\ queued' = queued + n
        /\ UNCHANGED <<input, wait, pc, toDrop>>
    BY <1>10 DEF RewindBacklog
  <2> HIDE DEF moved
  <2>4. CountersOK'
    BY <2>1, <2>2, <2>3 DEF QueuedInv, CountersOK, Counted
  <2> QED BY <1>c, <2>1, <2>3, <2>4 DEF QueuedInv, CountersOK, Counted, Uncounted
<1>11. CASE RewindBacklogAll
  <2>1. /\ output' = SpliceTail(output, backlog) /\ backlog' = Empty
        /\ queued' = queued + backlog.len
        /\ UNCHANGED <<input, wait, pc, toDrop>>
    BY <1>11 DEF RewindBacklogAll
  <2>2. Counted(output') /\ Counted(backlog') /\ output'.len = output.len + backlog.len
    BY <2>1 DEF SpliceTail, Empty, Counted, QueuedInv, CountersOK
  <2>3. CountersOK'
    BY <2>1, <2>2 DEF QueuedInv, CountersOK, Counted
  <2> QED BY <1>c, <2>1, <2>2, <2>3 DEF QueuedInv, CountersOK, Counted, Uncounted
<1>12. CASE Reload
  <2>1. UNCHANGED <<pc, toDrop>> /\ Uncounted' = {}
    BY <1>12 DEF Reload, Uncounted
  <2>2. CASE KeepOnReload
    BY <1>12, <2>2, <1>d DEF Reload
  <2>3. CASE ~KeepOnReload
    <3>1. /\ input' = [t \in InputThreads |-> Empty] /\ queued' = 0
          /\ wait' = Empty /\ output' = Empty /\ backlog' = Empty
      BY <1>12, <2>3 DEF Reload
    <3>2. CountersOK'
      BY <2>1, <3>1 DEF Empty, Counted, QueuedInv, CountersOK
    <3>3. wait'.len = 0 /\ output'.len = 0
      BY <3>1 DEF Empty
    <3> QED BY <2>1, <3>1, <3>2, <3>3, FS_EmptySet DEF QueuedInv, QueuedIsLength, GetLength
  <2> QED BY <2>2, <2>3
<1>13. CASE UNCHANGED vars
  BY <1>13, <1>d DEF vars
<1> QED
  BY <1>1, <1>2, <1>3, <1>4, <1>5, <1>6, <1>7, <1>8, <1>9, <1>10, <1>11, <1>12, <1>13,
     <1>14, <1>15
     DEF Next, Produce, Callback, Consume

\* The queued_messages counter is the number of queued messages at every
\* step, for any number of threads, but for the messages whose thread has
\* dropped the lock to call the callback and will count them next.
THEOREM QueuedCounterIsExact == Spec => []QueuedIsLength
<1>1. Init => QueuedInv
  <2> SUFFICES ASSUME Init PROVE QueuedInv
    OBVIOUS
  <2>1. CountersOK
    BY DEF Init, CountersOK, Counted, Empty, PCs
  <2>2. Uncounted = {}
    BY DEF Init, Uncounted
  <2>3. wait.len = 0 /\ output.len = 0 /\ queued = 0
    BY DEF Init, Empty
  <2> QED BY <2>1, <2>2, <2>3, FS_EmptySet DEF QueuedInv, QueuedIsLength, GetLength
<1>2. QueuedInv => QueuedIsLength
  BY DEF QueuedInv
<1> QED BY <1>1, <1>2, QueuedStep, PTL DEF Spec

----------------------------------------------------------------------------
(* Positions.                                                              *)

\* The positions of a list of n messages.
LEMMA IntervalSize ==
  ASSUME NEW n \in Nat
  PROVE  IsFiniteSet(1..n) /\ Cardinality(1..n) = n
  BY FS_Interval, FS_EmptySet

\* A set of positions of a list is finite.
LEMMA PositionsFinite ==
  ASSUME NEW n \in Nat, NEW S \in SUBSET (1..n)
  PROVE  IsFiniteSet(S) /\ Cardinality(S) \in 0..n
<1>1. IsFiniteSet(1..n) /\ Cardinality(1..n) = n
  BY IntervalSize
<1>2. IsFiniteSet(S) /\ Cardinality(S) <= n
  BY <1>1, FS_Subset
<1>3. Cardinality(S) \in Nat
  BY <1>2, FS_CardinalityType
<1> QED BY <1>2, <1>3

\* Going one position further counts that position and no other.
LEMMA RankStep ==
  ASSUME NEW n \in Nat, NEW S \in SUBSET (1..n), NEW k \in Nat
  PROVE  /\ Rank(S, k) \in 0..n
         /\ Rank(S, 0) = 0
         /\ Rank(S, n) = Cardinality(S)
         /\ Rank(S, k + 1) = IF k + 1 \in S THEN Rank(S, k) + 1 ELSE Rank(S, k)
<1> DEFINE Upto(j) == {i \in S : i <= j}
<1>0. \A x \in S : x \in Nat /\ 1 <= x /\ x <= n
  OBVIOUS
<1>1. Upto(k) \in SUBSET (1..n) /\ Upto(0) = {} /\ Upto(n) = S
  <2>1. Upto(k) \subseteq 1..n
    OBVIOUS
  <2>2. Upto(0) = {}
    <3>1. \A x \in S : ~(x <= 0)
      BY <1>0
    <3> QED BY <3>1
  <2>3. Upto(n) = S
    BY <1>0
  <2> QED BY <2>1, <2>2, <2>3
<1>2. Upto(k + 1) = IF k + 1 \in S THEN Upto(k) \cup {k + 1} ELSE Upto(k)
  <2>1. \A x \in S : x <= k + 1 <=> x <= k \/ x = k + 1
    BY <1>0
  <2> QED BY <2>1
<1>3. k + 1 \notin Upto(k)
  OBVIOUS
<1>4. \A j : Rank(S, j) = Cardinality(Upto(j))
  BY DEF Rank
<1> HIDE DEF Upto
<1>5. IsFiniteSet(Upto(k)) /\ Cardinality(Upto(k)) \in 0..n
  BY <1>1, PositionsFinite
<1>6. Cardinality(Upto(k) \cup {k + 1}) = Cardinality(Upto(k)) + 1
  BY <1>3, <1>5, FS_AddElement
<1> QED BY <1>1, <1>2, <1>4, <1>5, <1>6, FS_EmptySet

\* Every nonempty set of numbers has a least element.
LEMMA Least ==
  ASSUME NEW S \in SUBSET Nat, S # {}
  PROVE  \E k \in S : \A j \in S : k <= j
<1>1. PICK k \in S : \A j \in S : <<j, k>> \notin OpToRel(<, Nat)
  BY NatLessThanWellFounded, WFMin
<1>2. \A j \in S : ~(j < k)
  BY <1>1 DEF OpToRel
<1> QED BY <1>2

\* A later position of the set has the higher rank.
LEMMA RankGrows ==
  ASSUME NEW n \in Nat, NEW S \in SUBSET (1..n), NEW j \in S, NEW k \in S, j < k
  PROVE  Rank(S, j) < Rank(S, k)
<1> DEFINE A == {i \in S : i <= j}
           B == {i \in S : i <= k}
<1>0. \A x \in S : x \in Nat
  OBVIOUS
<1>1. A \in SUBSET B /\ B \in SUBSET (1..n) /\ A \in SUBSET (1..n) /\ k \in B /\ k \notin A
  <2>1. \A x \in S : x <= j => x <= k
    BY <1>0
  <2>2. A \subseteq B
    BY <2>1
  <2>3. B \subseteq 1..n /\ A \subseteq 1..n
    OBVIOUS
  <2>4. k \in B /\ k \notin A
    BY <1>0
  <2> QED BY <2>2, <2>3, <2>4
<1>2. Rank(S, j) = Cardinality(A) /\ Rank(S, k) = Cardinality(B)
  BY DEF Rank
<1> HIDE DEF A, B
<1>3. IsFiniteSet(B) /\ Cardinality(B) \in 0..n /\ Cardinality(A) \in 0..n
  BY <1>1, PositionsFinite
<1>4. Cardinality(A) <= Cardinality(B) /\ (Cardinality(B) = Cardinality(A) => B = A)
  BY <1>1, <1>3, FS_Subset
<1> QED BY <1>1, <1>2, <1>3, <1>4

\* Ranks are taken: one position of the set for each number up to its size.
LEMMA RankOnto ==
  ASSUME NEW n \in Nat, NEW S \in SUBSET (1..n), NEW i \in 1..Cardinality(S)
  PROVE  \E k \in S : Rank(S, k) = i
<1>1. Cardinality(S) \in 0..n
  BY PositionsFinite
<1> DEFINE T == {k \in Nat : Rank(S, k) >= i}
<1>2. n \in T
  BY <1>1, RankStep
<1>3. PICK k \in T : \A j \in T : k <= j
  BY <1>2, Least
<1>4. k \in Nat /\ Rank(S, k) >= i /\ i \in Nat \ {0}
  BY <1>1
<1>5. k # 0
  BY <1>4, RankStep
<1>6. k - 1 \in Nat /\ k - 1 \notin T
  BY <1>3, <1>4, <1>5
<1>7. Rank(S, k - 1) \in 0..n
  BY <1>6, RankStep
<1>8. Rank(S, k - 1) < i
  BY <1>1, <1>6, <1>7
<1>9. Rank(S, (k - 1) + 1) = IF (k - 1) + 1 \in S THEN Rank(S, k - 1) + 1 ELSE Rank(S, k - 1)
  BY <1>6, RankStep
<1>10. (k - 1) + 1 = k
  BY <1>4
<1> HIDE DEF T
<1> QED BY <1>4, <1>7, <1>8, <1>9, <1>10

\* Nth() lists the positions of a set from the first to the last.
LEMMA NthLists ==
  ASSUME NEW n \in Nat, NEW S \in SUBSET (1..n)
  PROVE  /\ \A i \in 1..Cardinality(S) : Nth(S, i) \in S /\ Rank(S, Nth(S, i)) = i
         /\ \A i, j \in 1..Cardinality(S) : i < j => Nth(S, i) < Nth(S, j)
         /\ \A k \in S : \E i \in 1..Cardinality(S) : Nth(S, i) = k
<1>1. Cardinality(S) \in 0..n
  BY PositionsFinite
<1>2. ASSUME NEW i \in 1..Cardinality(S)
      PROVE  Nth(S, i) \in S /\ Rank(S, Nth(S, i)) = i
  <2>1. \E k \in S : Rank(S, k) = i
    BY RankOnto
  <2> QED BY <2>1 DEF Nth
<1>3. ASSUME NEW i \in 1..Cardinality(S), NEW j \in 1..Cardinality(S), i < j
      PROVE  Nth(S, i) < Nth(S, j)
  <2>1. Nth(S, i) \in S /\ Nth(S, j) \in S /\ Rank(S, Nth(S, i)) = i /\ Rank(S, Nth(S, j)) = j
    BY <1>2
  <2>2. Nth(S, j) < Nth(S, i) => j < i
    BY <2>1, RankGrows
  <2>3. Nth(S, i) \in 1..n /\ Nth(S, j) \in 1..n
    BY <2>1
  <2> QED BY <1>1, <1>3, <2>1, <2>2, <2>3
<1>4. ASSUME NEW k \in S
      PROVE  \E i \in 1..Cardinality(S) : Nth(S, i) = k
  <2> DEFINE A == {j \in S : j <= k}
  <2>1. A \in SUBSET S /\ k \in A /\ A \in SUBSET (1..n)
    <3>1. k \in 1..n /\ k <= k
      OBVIOUS
    <3>2. A \subseteq S /\ A \subseteq 1..n
      OBVIOUS
    <3> QED BY <3>1, <3>2
  <2>2. Rank(S, k) = Cardinality(A)
    BY DEF Rank
  <2> HIDE DEF A
  <2>3. IsFiniteSet(A) /\ Cardinality(A) \in 0..n /\ Cardinality(A) # 0
    BY <2>1, PositionsFinite, FS_EmptySet
  <2>4. Cardinality(A) <= Cardinality(S)
    BY <2>1, PositionsFinite, FS_Subset
  <2>5. Rank(S, k) \in 1..Cardinality(S)
    BY <1>1, <2>2, <2>3, <2>4
  <2>6. Nth(S, Rank(S, k)) \in S /\ Rank(S, Nth(S, Rank(S, k))) = Rank(S, k)
    BY <1>2, <2>5
  <2> DEFINE j == Nth(S, Rank(S, k))
  <2>7. j \in S /\ Rank(S, j) = Rank(S, k)
    BY <2>6
  <2> HIDE DEF j
  <2>8. ~(j < k) /\ ~(k < j)
    <3>1. Rank(S, k) \in Int
      BY <1>1, <2>5
    <3> QED BY <2>7, <3>1, RankGrows
  <2>9. j = k
    BY <2>7, <2>8
  <2> QED BY <2>5, <2>9 DEF j
<1> QED BY <1>2, <1>3, <1>4

----------------------------------------------------------------------------
(* The counters beside a list.                                             *)

Weight(items) == Cardinality(Uncontrolled(items))

Tallied(q) == q \in List /\ q.len = Len(q.items) /\ q.nfc = Weight(q.items)

\* The messages of a list that are not flow controlled are at some of its
\* positions.
LEMMA WeightType ==
  ASSUME NEW s \in Seq(Message)
  PROVE  /\ Uncontrolled(s) \in SUBSET (1..Len(s)) /\ Len(s) \in Nat
         /\ IsFiniteSet(Uncontrolled(s)) /\ Weight(s) \in 0..Len(s)
<1>1. Uncontrolled(s) \in SUBSET (1..Len(s)) /\ Len(s) \in Nat
  BY DEF Uncontrolled
<1> QED BY <1>1, PositionsFinite DEF Weight

\* Splicing two lists.
LEMMA Concat ==
  ASSUME NEW s \in Seq(Message), NEW r \in Seq(Message)
  PROVE  s \o r \in Seq(Message) /\ Len(s \o r) = Len(s) + Len(r)
  OBVIOUS

\* Splicing two lists adds up what is not flow controlled.
LEMMA WeightConcat ==
  ASSUME NEW s \in Seq(Message), NEW r \in Seq(Message)
  PROVE  Weight(s \o r) = Weight(s) + Weight(r)
<1> DEFINE U == Uncontrolled(s)
           V == Uncontrolled(r)
           W == {k + Len(s) : k \in V}
           f == [k \in V |-> k + Len(s)]
<1>1. /\ U \in SUBSET (1..Len(s)) /\ IsFiniteSet(U) /\ Weight(s) \in 0..Len(s)
      /\ V \in SUBSET (1..Len(r)) /\ IsFiniteSet(V) /\ Weight(r) \in 0..Len(r)
      /\ Len(s) \in Nat /\ Len(r) \in Nat
  BY WeightType
<1>2. s \o r \in Seq(Message) /\ Len(s \o r) = Len(s) + Len(r)
  OBVIOUS
<1>3. \A k \in 1..Len(s) : (s \o r)[k] = s[k]
  OBVIOUS
<1>4. \A k \in 1..Len(r) : (s \o r)[k + Len(s)] = r[k]
  OBVIOUS
<1>5. Uncontrolled(s \o r) = U \cup W
  <2>1. ASSUME NEW k \in Uncontrolled(s \o r) PROVE k \in U \cup W
    <3>1. k \in 1..(Len(s) + Len(r)) /\ ~(s \o r)[k].fc
      BY <1>2 DEF Uncontrolled
    <3>2. CASE k <= Len(s)
      <4>1. k \in 1..Len(s)
        BY <1>1, <3>1, <3>2
      <4> QED BY <1>3, <3>1, <4>1 DEF Uncontrolled
    <3>3. CASE k > Len(s)
      <4>1. PICK j \in 1..Len(r) : k = j + Len(s)
        <5>1. k - Len(s) \in 1..Len(r) /\ k = (k - Len(s)) + Len(s)
          BY <1>1, <3>1, <3>3
        <5> QED BY <5>1
      <4>2. ~r[j].fc
        BY <1>4, <3>1, <4>1
      <4>3. j \in V
        BY <4>1, <4>2 DEF Uncontrolled
      <4> QED BY <4>1, <4>3
    <3> QED BY <1>1, <3>1, <3>2, <3>3
  <2>2. ASSUME NEW k \in U PROVE k \in Uncontrolled(s \o r)
    <3>1. k \in 1..Len(s) /\ ~s[k].fc
      BY DEF Uncontrolled
    <3>2. k \in 1..(Len(s) + Len(r))
      BY <1>1, <3>1
    <3> QED BY <1>2, <1>3, <3>1, <3>2 DEF Uncontrolled
  <2>3. ASSUME NEW k \in W PROVE k \in Uncontrolled(s \o r)
    <3>1. PICK j \in V : k = j + Len(s)
      OBVIOUS
    <3>2. j \in 1..Len(r) /\ ~r[j].fc
      BY DEF Uncontrolled
    <3>3. k \in 1..(Len(s) + Len(r))
      BY <1>1, <3>1, <3>2
    <3> QED BY <1>2, <1>4, <3>1, <3>2, <3>3 DEF Uncontrolled
  <2> QED BY <2>1, <2>2, <2>3
<1>6. U \cap W = {}
  <2>1. \A k \in U : k <= Len(s)
    BY <1>1
  <2>2. \A k \in W : k > Len(s)
    <3>1. \A k \in V : k + Len(s) > Len(s)
      BY <1>1
    <3> QED BY <3>1
  <2>3. \A k \in U : k \in Int
    BY <1>1
  <2> QED BY <1>1, <2>1, <2>2, <2>3
<1>7. f \in Bijection(V, W)
  <2>1. \A j, k \in V : j + Len(s) = k + Len(s) => j = k
    BY <1>1
  <2>2. f \in Injection(V, W)
    BY <2>1 DEF Injection, IsInjective
  <2>3. f \in Surjection(V, W)
    BY DEF Surjection
  <2> QED BY <2>2, <2>3 DEF Bijection
<1> HIDE DEF U, V, W, f
<1>8. IsFiniteSet(W) /\ Cardinality(W) = Cardinality(V)
  BY <1>1, <1>7, FS_Bijection DEF ExistsBijection
<1>9. Cardinality(U \cup W) = Cardinality(U) + Cardinality(W) - Cardinality(U \cap W)
  BY <1>1, <1>8, FS_Union
<1>10. Cardinality(U \cap W) = 0
  BY <1>6, FS_EmptySet
<1>11. Weight(s) = Cardinality(U) /\ Weight(r) = Cardinality(V)
       /\ Weight(s \o r) = Cardinality(U \cup W)
  BY <1>5 DEF Weight, U, V
<1> QED BY <1>1, <1>8, <1>9, <1>10, <1>11

\* A list of one message, and of none.
LEMMA WeightOne ==
  ASSUME NEW m \in Message
  PROVE  Weight(<<m>>) = Nfc(m) /\ Weight(<<>>) = 0 /\ Nfc(m) \in 0..1
<1>1. Uncontrolled(<<m>>) = IF m.fc THEN {} ELSE {1}
  BY DEF Uncontrolled
<1>2. Uncontrolled(<<>>) = {}
  BY DEF Uncontrolled
<1>3. Cardinality({1}) = 1 /\ Cardinality({}) = 0
  BY FS_Singleton, FS_EmptySet
<1>4. m.fc \in BOOLEAN
  BY DEF Message
<1>5. Weight(<<m>>) = Cardinality(Uncontrolled(<<m>>)) /\ Weight(<<>>) = Cardinality(Uncontrolled(<<>>))
  BY Zenon DEF Weight
<1>6. Nfc(m) = IF m.fc THEN 0 ELSE 1
  BY Zenon DEF Nfc
<1>7. CASE m.fc
  <2>1. Weight(<<m>>) = 0 /\ Nfc(m) = 0 /\ Weight(<<>>) = 0
    BY <1>1, <1>2, <1>3, <1>5, <1>6, <1>7, Zenon
  <2> QED BY <2>1
<1>8. CASE ~m.fc
  <2>1. Weight(<<m>>) = 1 /\ Nfc(m) = 1 /\ Weight(<<>>) = 0
    BY <1>1, <1>2, <1>3, <1>5, <1>6, <1>8, Zenon
  <2> QED BY <2>1
<1> QED BY <1>7, <1>8

\* The empty list.
LEMMA TallyEmpty == Tallied(Empty) /\ Empty.items = <<>> /\ Empty.len = 0 /\ Empty.nfc = 0
<1>1. Uncontrolled(<<>>) = {}
  BY DEF Uncontrolled
<1>2. Weight(<<>>) = 0
  BY <1>1, FS_EmptySet DEF Weight
<1> QED BY <1>2 DEF Tallied, Empty, List

\* iv_list_add_tail() with its counters.
LEMMA TallyAdd ==
  ASSUME NEW q, Tallied(q), NEW m \in Message
  PROVE  Tallied(AddTail(q, m))
<1>1. q.items \in Seq(Message) /\ q.len = Len(q.items) /\ q.nfc = Weight(q.items)
  BY DEF Tallied, List
<1>2. Append(q.items, m) = q.items \o <<m>> /\ <<m>> \in Seq(Message)
      /\ Append(q.items, m) \in Seq(Message) /\ Len(Append(q.items, m)) = Len(q.items) + 1
  BY <1>1
<1>3. Weight(Append(q.items, m)) = Weight(q.items) + Nfc(m)
  BY <1>1, <1>2, WeightConcat, WeightOne
<1>4. Weight(q.items) \in Nat /\ Len(q.items) \in Nat /\ Nfc(m) \in Nat
  <2>1. Weight(q.items) \in 0..Len(q.items) /\ Len(q.items) \in Nat
    BY <1>1, WeightType
  <2>2. Nfc(m) \in 0..1
    BY WeightOne
  <2> QED BY <2>1, <2>2
<1> QED BY <1>1, <1>2, <1>3, <1>4 DEF Tallied, List, AddTail

\* iv_list_splice_tail_init() with its counters.
LEMMA TallySplice ==
  ASSUME NEW q, Tallied(q), NEW r, Tallied(r)
  PROVE  Tallied(SpliceTail(q, r))
<1>1. /\ q.items \in Seq(Message) /\ q.len = Len(q.items) /\ q.nfc = Weight(q.items)
      /\ r.items \in Seq(Message) /\ r.len = Len(r.items) /\ r.nfc = Weight(r.items)
  BY DEF Tallied, List
<1>2. /\ q.items \o r.items \in Seq(Message)
      /\ Len(q.items \o r.items) = Len(q.items) + Len(r.items)
  BY <1>1
<1>3. Weight(q.items \o r.items) = Weight(q.items) + Weight(r.items)
  BY <1>1, WeightConcat
<1>4. /\ Weight(q.items) \in Nat /\ Len(q.items) \in Nat
      /\ Weight(r.items) \in Nat /\ Len(r.items) \in Nat
  BY <1>1, WeightType
<1> QED BY <1>1, <1>2, <1>3, <1>4 DEF Tallied, List, SpliceTail

\* Cutting a list in two.
LEMMA Cut ==
  ASSUME NEW s \in Seq(Message), NEW n \in 0..Len(s)
  PROVE  /\ SubSeq(s, 1, n) \in Seq(Message) /\ Len(SubSeq(s, 1, n)) = n
         /\ SubSeq(s, n + 1, Len(s)) \in Seq(Message)
         /\ Len(SubSeq(s, n + 1, Len(s))) = Len(s) - n
         /\ s = SubSeq(s, 1, n) \o SubSeq(s, n + 1, Len(s))
         /\ Weight(s) = Weight(SubSeq(s, 1, n)) + Weight(SubSeq(s, n + 1, Len(s)))
<1>1. SubSeq(s, 1, n) \in Seq(Message) /\ Len(SubSeq(s, 1, n)) = n
  OBVIOUS
<1>2. /\ SubSeq(s, n + 1, Len(s)) \in Seq(Message)
      /\ Len(SubSeq(s, n + 1, Len(s))) = Len(s) - n
  OBVIOUS
<1>3. s = SubSeq(s, 1, n) \o SubSeq(s, n + 1, Len(s))
  <2> DEFINE a == SubSeq(s, 1, n)
             b == SubSeq(s, n + 1, Len(s))
  <2>1. \A k \in 1..n : a[k] = s[k]
    OBVIOUS
  <2>2. \A k \in 1..(Len(s) - n) : b[k] = s[k + n]
    OBVIOUS
  <2>3. a \in Seq(Message) /\ Len(a) = n /\ b \in Seq(Message) /\ Len(b) = Len(s) - n
    BY <1>1, <1>2
  <2> HIDE DEF a, b
  <2>4. a \o b \in Seq(Message) /\ Len(a \o b) = Len(s)
    BY <2>3
  <2>5. ASSUME NEW k \in 1..Len(s) PROVE (a \o b)[k] = s[k]
    <3>1. CASE k <= n
      BY <2>1, <2>3, <3>1
    <3>2. CASE k > n
      <4>1. PICK j \in 1..(Len(s) - n) : k = j + n
        <5>1. k - n \in 1..(Len(s) - n) /\ k = (k - n) + n
          BY <3>2
        <5> QED BY <5>1
      <4>2. (a \o b)[k] = b[j]
        BY <2>3, <4>1
      <4>3. b[j] = s[j + n]
        BY <2>2
      <4> QED BY <4>1, <4>2, <4>3
    <3>3. Len(s) \in Nat
      OBVIOUS
    <3>4. k \in Int /\ n \in Int
      BY <3>3
    <3>5. k <= n \/ k > n
      BY <3>4
    <3> QED BY <3>1, <3>2, <3>5, Zenon
  <2> DEFINE c == a \o b
  <2>6. c \in Seq(Message) /\ Len(c) = Len(s) /\ \A k \in 1..Len(s) : c[k] = s[k]
    BY <2>4, <2>5
  <2> HIDE DEF c
  <2>7. c = s
    BY <2>6
  <2>8. a \o b = s
    BY <2>7 DEF c
  <2> QED BY <2>8 DEF a, b
<1>4. Weight(SubSeq(s, 1, n) \o SubSeq(s, n + 1, Len(s)))
        = Weight(SubSeq(s, 1, n)) + Weight(SubSeq(s, n + 1, Len(s)))
  BY <1>1, <1>2, WeightConcat
<1> QED BY <1>1, <1>2, <1>3, <1>4

\* Taking the first message off a list, with its counters.
LEMMA TallyHead ==
  ASSUME NEW q, Tallied(q), q.len > 0
  PROVE  /\ Tallied(RemoveHead(q)) /\ Head(q.items) \in Message
         /\ q.items = <<Head(q.items)>> \o Tail(q.items)
         /\ Tail(q.items) \in Seq(Message)
<1>1. q.items \in Seq(Message) /\ q.len = Len(q.items) /\ q.nfc = Weight(q.items)
  BY DEF Tallied, List
<1>2. q.items # <<>>
  BY <1>1
<1>3. /\ Head(q.items) \in Message /\ Tail(q.items) \in Seq(Message)
      /\ Len(Tail(q.items)) = Len(q.items) - 1
      /\ <<Head(q.items)>> \in Seq(Message)
  BY <1>1, <1>2
<1>4. q.items = <<Head(q.items)>> \o Tail(q.items)
  BY <1>1, <1>2
<1>5. Weight(q.items) = Nfc(Head(q.items)) + Weight(Tail(q.items))
  BY <1>3, <1>4, WeightConcat, WeightOne
<1>6. Weight(Tail(q.items)) \in Nat /\ Nfc(Head(q.items)) \in Nat /\ Len(Tail(q.items)) \in Nat
  <2>1. Weight(Tail(q.items)) \in 0..Len(Tail(q.items)) /\ Len(Tail(q.items)) \in Nat
    BY <1>3, WeightType
  <2>2. Nfc(Head(q.items)) \in 0..1
    BY <1>3, WeightOne
  <2> QED BY <2>1, <2>2
<1>7. Tallied(RemoveHead(q))
  BY <1>1, <1>3, <1>5, <1>6 DEF Tallied, List, RemoveHead
<1> QED BY <1>3, <1>4, <1>7

----------------------------------------------------------------------------
(* Dropping from an input list.                                            *)

\* What log_queue_fifo_drop_messages_from_input_queue() leaves, as a list of
\* positions: the kept ones in their order.
Kept(q, n) == DOMAIN q.items \ OldestUncontrolled(q, n)
Spot(q, n, i) == Nth(Kept(q, n), i)

\* It takes out exactly n messages, none of them flow controlled, and leaves
\* the others.
LEMMA DropCounts ==
  ASSUME NEW q, Tallied(q), NEW n \in 0..q.nfc
  PROVE  /\ OldestUncontrolled(q, n) \in SUBSET Uncontrolled(q.items)
         /\ Kept(q, n) \in SUBSET (1..Len(q.items))
         /\ Cardinality(Kept(q, n)) = Len(q.items) - n
         /\ Cardinality(Uncontrolled(q.items) \ OldestUncontrolled(q, n)) = q.nfc - n
<1> DEFINE s == q.items
           U == Uncontrolled(s)
           O == OldestUncontrolled(q, n)
           f == [i \in 1..n |-> Nth(U, i)]
<1>1. s \in Seq(Message) /\ q.len = Len(s) /\ q.nfc = Cardinality(U)
  BY DEF Tallied, List, Weight
<1>2. U \in SUBSET (1..Len(s)) /\ Len(s) \in Nat /\ IsFiniteSet(U) /\ Cardinality(U) \in Nat
  <2>1. Cardinality(U) \in 0..Len(s)
    BY <1>1, WeightType DEF Weight
  <2> QED BY <1>1, <2>1, WeightType
<1>3. O = {k \in U : Rank(U, k) <= n}
  BY DEF OldestUncontrolled
<1>4. n \in Nat /\ n <= Cardinality(U)
  BY <1>1, <1>2
<1>a. DOMAIN s = 1..Len(s)
  BY <1>1
<1> HIDE DEF s, U, O
<1>5. f \in Bijection(1..n, O)
  <2>0. \A i \in 1..Cardinality(U) : Nth(U, i) \in U /\ Rank(U, Nth(U, i)) = i
    BY <1>2, NthLists, Zenon
  <2>1. \A i \in 1..n : Nth(U, i) \in U /\ Rank(U, Nth(U, i)) = i
    BY <1>2, <1>4, <2>0
  <2>2. \A i \in 1..n : Nth(U, i) \in O
    BY <1>3, <1>4, <2>1
  <2>3. ASSUME NEW k \in O PROVE \E i \in 1..n : f[i] = k
    <3>1. k \in U /\ Rank(U, k) <= n
      BY <1>3
    <3>2. PICK i \in 1..Cardinality(U) : Nth(U, i) = k
      BY <1>2, <3>1, NthLists
    <3>3. Rank(U, k) = i
      BY <1>2, <3>2, NthLists
    <3>4. i \in 1..n
      BY <1>2, <1>4, <3>1, <3>3
    <3> QED BY <3>2, <3>4
  <2>4. f \in Injection(1..n, O)
    <3>1. f \in [1..n -> O]
      BY <2>2
    <3>2. \A i, j \in 1..n : f[i] = f[j] => i = j
      BY <2>1
    <3> QED BY <3>1, <3>2 DEF Injection, IsInjective
  <2>5. f \in Surjection(1..n, O)
    BY <2>2, <2>3 DEF Surjection
  <2> QED BY <2>4, <2>5 DEF Bijection
<1>6. Cardinality(O) = n
  BY <1>4, <1>5, FS_CountingElements DEF ExistsBijection
<1>7. O \subseteq U /\ O \subseteq 1..Len(s)
  BY <1>2, <1>3
<1>8. U \cap O = O /\ (1..Len(s)) \cap O = O
  BY <1>7
<1>9. Cardinality(U \ O) = Cardinality(U) - n
  <2>1. Cardinality(U \ O) = Cardinality(U) - Cardinality(U \cap O)
    BY <1>2, FS_Difference, Zenon
  <2> QED BY <1>6, <1>8, <2>1, Zenon
<1>10. IsFiniteSet(1..Len(s)) /\ Cardinality(1..Len(s)) = Len(s)
  BY <1>2, IntervalSize, Zenon
<1>11. Cardinality((1..Len(s)) \ O) = Len(s) - n
  <2>1. Cardinality((1..Len(s)) \ O) = Cardinality(1..Len(s)) - Cardinality((1..Len(s)) \cap O)
    BY <1>10, FS_Difference, Zenon
  <2> QED BY <1>6, <1>8, <1>10, <2>1, Zenon
<1>12. Kept(q, n) = (1..Len(s)) \ O
  BY <1>a, Zenon DEF Kept, O, s
<1>13. Kept(q, n) \in SUBSET (1..Len(s)) /\ O \in SUBSET U
  BY <1>7, <1>12
<1> QED BY <1>1, <1>9, <1>11, <1>12, <1>13, Zenon DEF s, U, O

\* The kept list: its messages are those of the kept positions, in order.
LEMMA DropKeeps ==
  ASSUME NEW q, Tallied(q), NEW n \in 0..q.nfc
  PROVE  /\ DropFrom(q, n).items \in Seq(Message)
         /\ Len(DropFrom(q, n).items) = Cardinality(Kept(q, n))
         /\ DropFrom(q, n).len = q.len - n /\ DropFrom(q, n).nfc = q.nfc - n
         /\ \A i \in DOMAIN DropFrom(q, n).items :
               /\ Spot(q, n, i) \in Kept(q, n)
               /\ DropFrom(q, n).items[i] = q.items[Spot(q, n, i)]
         /\ \A i, j \in DOMAIN DropFrom(q, n).items : i < j => Spot(q, n, i) < Spot(q, n, j)
         /\ \A k \in Kept(q, n) : \E i \in DOMAIN DropFrom(q, n).items : Spot(q, n, i) = k
<1> DEFINE s == q.items
           K == Kept(q, n)
           c == Cardinality(K)
           d == DropFrom(q, n)
           f(i) == Spot(q, n, i)
<1>1. s \in Seq(Message) /\ Len(s) \in Nat /\ DOMAIN s = 1..Len(s)
  BY DEF Tallied, List
<1>2. K \in SUBSET (1..Len(s))
  BY DropCounts
<1>3. c \in Nat
  BY <1>1, <1>2, PositionsFinite
<1>4. d.items = [i \in 1..c |-> s[Nth(K, i)]] /\ d.len = q.len - n /\ d.nfc = q.nfc - n
  BY DEF DropFrom, Kept
<1>b. \A i : f(i) = Nth(K, i)
  BY DEF Spot
<1> HIDE DEF K, c, d, s, f
<1>5. /\ \A i \in 1..c : Nth(K, i) \in K
      /\ \A i, j \in 1..c : i < j => Nth(K, i) < Nth(K, j)
      /\ \A k \in K : \E i \in 1..c : Nth(K, i) = k
  BY <1>1, <1>2, NthLists DEF c
<1>6. \A i \in 1..c : s[Nth(K, i)] \in Message
  <2>1. \A k \in K : s[k] \in Message
    BY <1>1, <1>2
  <2> QED BY <1>5, <2>1, Zenon
<1>7. d.items \in Seq(Message) /\ Len(d.items) = c /\ DOMAIN d.items = 1..c
  BY <1>3, <1>4, <1>6
<1>8. \A i \in DOMAIN d.items : f(i) \in K /\ d.items[i] = s[f(i)]
  BY <1>4, <1>5, <1>7, <1>b
<1>9. \A i, j \in DOMAIN d.items : i < j => f(i) < f(j)
  BY <1>5, <1>7, <1>b
<1>10. \A k \in K : \E i \in DOMAIN d.items : f(i) = k
  BY <1>5, <1>7, <1>b
<1> QED BY <1>4, <1>7, <1>8, <1>9, <1>10, Zenon DEF K, c, d, s, f

\* Its counters are right.
LEMMA TallyDrop ==
  ASSUME NEW q, Tallied(q), NEW n \in 0..q.nfc
  PROVE  Tallied(DropFrom(q, n))
<1> DEFINE K == Kept(q, n)
           d == DropFrom(q, n)
           f(i) == Spot(q, n, i)
           W == Uncontrolled(d.items)
           R == Uncontrolled(q.items) \ OldestUncontrolled(q, n)
           g == [i \in W |-> f(i)]
<1>1. /\ q.items \in Seq(Message) /\ Len(q.items) \in Nat /\ q.len = Len(q.items)
      /\ DOMAIN q.items = 1..Len(q.items) /\ q.nfc \in Nat
  BY DEF Tallied, List
<1>2. /\ d.items \in Seq(Message) /\ Len(d.items) = Cardinality(K)
      /\ d.len = q.len - n /\ d.nfc = q.nfc - n
      /\ \A i \in DOMAIN d.items : f(i) \in K /\ d.items[i] = q.items[f(i)]
      /\ \A i, j \in DOMAIN d.items : i < j => f(i) < f(j)
      /\ \A k \in K : \E i \in DOMAIN d.items : f(i) = k
  BY DropKeeps, Zenon
<1>3. /\ K \in SUBSET (1..Len(q.items)) /\ Cardinality(K) = Len(q.items) - n
      /\ Cardinality(R) = q.nfc - n
  BY DropCounts
<1>4. R = {k \in K : ~q.items[k].fc}
  BY DEF Kept, Uncontrolled
<1>5. W = {i \in DOMAIN d.items : ~d.items[i].fc}
  BY DEF Uncontrolled
<1>6. d = [items |-> d.items, len |-> q.len - n, nfc |-> q.nfc - n]
  BY DEF DropFrom
<1>7. IsFiniteSet(W) /\ DOMAIN d.items = 1..Len(d.items) /\ Len(d.items) \in Nat
  BY <1>2, WeightType
<1> HIDE DEF K, d, f, W, R
<1>8. g \in Bijection(W, R)
  <2>1. \A i \in W : f(i) \in R
    BY <1>2, <1>4, <1>5
  <2>2. \A i, j \in W : f(i) = f(j) => i = j
    <3> SUFFICES ASSUME NEW i \in W, NEW j \in W, i < j PROVE f(i) # f(j)
      BY <1>5, <1>7
    <3>1. f(i) < f(j) /\ f(i) \in K
      BY <1>2, <1>5
    <3>2. f(i) \in Int
      <4>1. \A k \in K : k \in Int
        BY <1>1, <1>3
      <4> QED BY <3>1, <4>1
    <3> QED BY <3>1, <3>2
  <2>3. \A k \in R : \E i \in W : f(i) = k
    BY <1>2, <1>4, <1>5
  <2>4. g \in Injection(W, R)
    BY <2>1, <2>2 DEF Injection, IsInjective
  <2>5. g \in Surjection(W, R)
    BY <2>1, <2>3 DEF Surjection
  <2> QED BY <2>4, <2>5 DEF Bijection
<1> HIDE DEF g
<1>9. Cardinality(R) = Cardinality(W)
  BY <1>7, <1>8, FS_Bijection DEF ExistsBijection
<1>10. Weight(d.items) = q.nfc - n /\ Len(d.items) = q.len - n
  BY <1>1, <1>2, <1>3, <1>9 DEF Weight, W
<1>11. q.nfc - n \in Nat /\ q.len - n \in Nat
  BY <1>1, <1>7, <1>10
<1>12. Tallied(d)
  BY <1>2, <1>6, <1>10, <1>11 DEF Tallied, List
<1> QED BY <1>12 DEF d

----------------------------------------------------------------------------
(* The counters at every step.                                             *)

CountsInv ==
    /\ input \in [InputThreads -> List] /\ \A t \in InputThreads : Tallied(input[t])
    /\ Tallied(wait) /\ Tallied(output) /\ Tallied(backlog)
    /\ pc \in [Threads -> PCs]
    /\ toDrop \in [InputThreads -> Nat]
    /\ \A t \in InputThreads : pc[t] = "moving" => toDrop[t] \in 0..input[t].nfc
    /\ sent \in [Threads -> Nat] /\ rewinds \in Nat

\* Narrowing a length to 16 bits never makes it larger, and changes nothing
\* below 2^16.
LEMMA Narrowing ==
  ASSUME NEW a \in Nat, NEW b \in Nat \ {0}
  PROVE  a % b \in 0..a /\ (a < b => a % b = a)
<1>1. a % b \in 0..(b - 1)
  OBVIOUS
<1>2. a < b => a % b = a
  OBVIOUS
<1>3. CASE a < b
  BY <1>2, <1>3
<1>4. CASE a >= b
  BY <1>1, <1>4
<1> QED BY <1>2, <1>3, <1>4

\* log_queue_fifo_calculate_num_of_messages_to_drop() never asks for more
\* messages than the list has to give.
LEMMA NumToDropBounded ==
  ASSUME NEW in, Tallied(in), GetNfcLength \in Int
  PROVE  NumToDrop(in) \in 0..in.nfc
<1>1. in.nfc \in Nat /\ LogFifoSize \in Nat /\ InputLenRange \in Nat \ {0}
  BY FifoAssumption DEF Tallied, List
<1> DEFINE l == in.nfc % InputLenRange
           g == GetNfcLength
<1>2. l \in 0..in.nfc
  BY <1>1, Narrowing
<1>3. NumToDrop(in) = IF g + l > LogFifoSize THEN l - Max0(LogFifoSize - g) ELSE 0
  BY DEF NumToDrop
<1>4. g \in Int
  OBVIOUS
<1> HIDE DEF l, g
<1>5. Max0(LogFifoSize - g) = IF LogFifoSize - g < 0 THEN 0 ELSE LogFifoSize - g
  BY DEF Max0
<1> QED BY <1>1, <1>2, <1>3, <1>4, <1>5

\* Refilling output from wait moves the counters along.
LEMMA RefillTallies ==
  ASSUME Tallied(wait), Tallied(output)
  PROVE  /\ Tallied(Refilled.output) /\ Tallied(Refilled.wait)
         /\ Refilled.output.items \o Refilled.wait.items = output.items \o wait.items
         /\ Refilled.output.nfc + Refilled.wait.nfc = GetNfcLength
<1>1. /\ output.items \in Seq(Message) /\ wait.items \in Seq(Message)
      /\ output.len = Len(output.items) /\ wait \in List /\ output \in List
      /\ output.nfc = Weight(output.items) /\ wait.nfc \in Nat /\ output.nfc \in Nat
  BY DEF Tallied, List
<1>2. CASE output.len = 0
  <2>1. output.items = <<>>
    <3>1. \A x \in Seq(Message) : Len(x) = 0 => x = <<>>
      OBVIOUS
    <3> QED BY <1>1, <1>2, <3>1, Zenon
  <2>2. output.items \o wait.items = wait.items
    BY <1>1, <2>1
  <2>3. [wait EXCEPT !.items = wait.items] = wait
    BY <1>1 DEF List
  <2>4. Refilled = [output |-> wait, wait |-> Empty]
    BY <1>2, <2>2, <2>3, Zenon DEF Refilled
  <2>5. Refilled.output = wait /\ Refilled.wait = Empty
    BY <2>4
  <2>6. wait.items \o <<>> = wait.items
    BY <1>1
  <2>7. output.nfc = 0
    BY <1>1, <2>1, TallyEmpty DEF Tallied
  <2>8. wait.nfc + 0 = output.nfc + wait.nfc
    BY <1>1, <2>7
  <2> QED BY <1>1, <2>2, <2>5, <2>6, <2>7, TallyEmpty DEF GetNfcLength
<1>3. CASE output.len # 0
  <2>1. Refilled.output = output /\ Refilled.wait = wait
    BY <1>3 DEF Refilled
  <2> QED BY <1>1, <2>1 DEF GetNfcLength
<1> QED BY <1>2, <1>3

\* log_queue_fifo_ack_backlog() keeps the backlog's counters right.
LEMMA AckTallies ==
  ASSUME Tallied(backlog), NEW n \in 1..backlog.len, AckBacklog(n)
  PROVE  Tallied(backlog') /\ n \in 0..Len(backlog.items)
<1> DEFINE s == backlog.items
           a == SubSeq(s, 1, n)
           b == SubSeq(s, n + 1, Len(s))
<1>1. s \in Seq(Message) /\ backlog.len = Len(s) /\ Len(s) \in Nat /\ backlog.nfc = Weight(s)
  BY DEF Tallied, List
<1>2. n \in 0..Len(s)
  BY <1>1
<1>3. backlog' = [items |-> b, len |-> backlog.len - n,
                  nfc |-> backlog.nfc - Cardinality({i \in 1..n : ~s[i].fc})]
  BY DEF AckBacklog
<1>4. \A i \in 1..n : a[i] = s[i]
  BY <1>1, <1>2
<1> HIDE DEF s
<1>5. /\ a \in Seq(Message) /\ Len(a) = n /\ b \in Seq(Message) /\ Len(b) = Len(s) - n
      /\ Weight(s) = Weight(a) + Weight(b)
  BY <1>1, <1>2, Cut
<1> HIDE DEF a, b
<1>6. Uncontrolled(a) = {i \in 1..n : ~s[i].fc}
  BY <1>4, <1>5 DEF Uncontrolled
<1>7. Weight(a) = Cardinality({i \in 1..n : ~s[i].fc})
  BY <1>6, Zenon DEF Weight
<1>8. Weight(a) \in Nat /\ Weight(b) \in Nat
  <2>1. Weight(a) \in 0..Len(a) /\ Weight(b) \in 0..Len(b) /\ Len(a) \in Nat /\ Len(b) \in Nat
    BY <1>5, WeightType
  <2> QED BY <2>1
<1>9. backlog' = [items |-> b, len |-> Len(b), nfc |-> Weight(b)]
  <2>1. backlog.len - n = Len(b) /\ backlog.nfc - Weight(a) = Weight(b)
    BY <1>1, <1>5, <1>8
  <2> QED BY <1>3, <1>7, <2>1, Zenon
<1>10. Len(b) \in Nat
  BY <1>5
<1>11. Tallied(backlog')
  BY <1>5, <1>8, <1>9, <1>10 DEF Tallied, List
<1> QED BY <1>2, <1>11 DEF s

\* log_queue_fifo_rewind_backlog() keeps the counters right on both sides,
\* and puts back no more uncontrolled messages than it rewinds.
LEMMA RewindTallies ==
  ASSUME Tallied(backlog), Tallied(output), NEW n \in 1..backlog.len, RewindBacklog(n)
  PROVE  /\ Tallied(backlog') /\ Tallied(output') /\ n \in Nat
         /\ output'.nfc <= output.nfc + n
<1> DEFINE s == backlog.items
           m == Len(s) - n
           a == SubSeq(s, 1, m)
           b == SubSeq(s, m + 1, Len(s))
           moved == Cardinality({i \in 1..n : ~b[i].fc})
           o == output.items
<1>1. /\ s \in Seq(Message) /\ backlog.len = Len(s) /\ Len(s) \in Nat /\ backlog.nfc = Weight(s)
      /\ o \in Seq(Message) /\ output.len = Len(o) /\ Len(o) \in Nat /\ output.nfc = Weight(o)
  BY DEF Tallied, List
<1>2. m \in 0..Len(s) /\ n \in Nat /\ Len(s) - m = n /\ (m + 1) - 1 = m
  BY <1>1
<1>3. /\ output' = [items |-> b \o o, len |-> output.len + n, nfc |-> output.nfc + moved]
      /\ backlog' = [items |-> SubSeq(s, 1, (m + 1) - 1), len |-> backlog.len - n,
                     nfc |-> backlog.nfc - moved]
  BY DEF RewindBacklog, PutBack
<1>4. backlog' = [items |-> a, len |-> backlog.len - n, nfc |-> backlog.nfc - moved]
  BY <1>2, <1>3
<1> HIDE DEF s, m, moved, o
<1>5. /\ a \in Seq(Message) /\ Len(a) = m /\ b \in Seq(Message) /\ Len(b) = Len(s) - m
      /\ Weight(s) = Weight(a) + Weight(b)
  BY <1>1, <1>2, Cut
<1> HIDE DEF a, b
<1>6. Uncontrolled(b) = {i \in 1..n : ~b[i].fc}
  BY <1>2, <1>5 DEF Uncontrolled
<1>7. moved = Weight(b)
  BY <1>6, Zenon DEF Weight, moved
<1>8. Weight(a) \in Nat /\ Weight(b) \in 0..n /\ Weight(o) \in Nat
  <2>1. Weight(a) \in 0..Len(a) /\ Weight(b) \in 0..Len(b) /\ Weight(o) \in 0..Len(o)
    BY <1>1, <1>5, WeightType
  <2> QED BY <1>1, <1>2, <1>5, <2>1
<1>9. /\ b \o o \in Seq(Message) /\ Len(b \o o) = n + Len(o)
      /\ Weight(b \o o) = Weight(b) + Weight(o)
  <2>1. Len(b) = n
    BY <1>2, <1>5, Zenon
  <2>2. b \o o \in Seq(Message) /\ Len(b \o o) = n + Len(o)
    BY <1>1, <1>5, <2>1, Concat, Zenon
  <2>3. Weight(b \o o) = Weight(b) + Weight(o)
    BY <1>1, <1>5, WeightConcat, Zenon
  <2> QED BY <2>2, <2>3, Zenon
<1>10. backlog' = [items |-> a, len |-> Len(a), nfc |-> Weight(a)]
  <2>1. backlog.len - n = Len(a) /\ backlog.nfc - moved = Weight(a)
    BY <1>1, <1>2, <1>5, <1>7, <1>8
  <2> QED BY <1>4, <2>1, Zenon
<1>11. output' = [items |-> b \o o, len |-> Len(b \o o), nfc |-> Weight(b \o o)]
  <2>1. output.len + n = Len(b \o o) /\ output.nfc + moved = Weight(b \o o)
    BY <1>1, <1>2, <1>7, <1>8, <1>9
  <2> QED BY <1>3, <2>1, Zenon
<1>12. Tallied(backlog')
  BY <1>2, <1>5, <1>8, <1>10 DEF Tallied, List
<1>13. Weight(b \o o) \in Nat /\ Len(b \o o) \in Nat
  BY <1>1, <1>2, <1>8, <1>9
<1> DEFINE c == b \o o
<1>14. c \in Seq(Message) /\ output' = [items |-> c, len |-> Len(c), nfc |-> Weight(c)]
       /\ Weight(c) \in Nat /\ Len(c) \in Nat /\ Weight(c) <= Weight(o) + n
  BY <1>2, <1>8, <1>9, <1>11, <1>13
<1> HIDE DEF c
<1>15. Tallied(output') /\ output'.nfc <= output.nfc + n
  BY <1>1, <1>14 DEF Tallied, List
<1> QED BY <1>2, <1>12, <1>15

\* Every step keeps the counters of every list right.
LEMMA CountsStep == CountsInv /\ [Next]_vars => CountsInv'
<1> SUFFICES ASSUME CountsInv, [Next]_vars PROVE CountsInv'
  OBVIOUS
<1> USE DEF lists, fates
<1>a. ASSUME UNCHANGED <<input, wait, output, backlog, pc, toDrop, sent, rewinds>>
      PROVE  CountsInv'
  BY <1>a, Zenon DEF CountsInv
<1>b. GetNfcLength \in Int
  BY DEF CountsInv, GetNfcLength, Tallied, List
<1>c. ASSUME NEW t \in Threads, NEW fc \in BOOLEAN
      PROVE  NewMessage(t, fc) \in Message
  BY DEF NewMessage, Message, CountsInv
<1>d. ASSUME NEW t \in Threads, pc[t] # "moving", NEW next \in PCs \ {"moving"},
             pc' = [pc EXCEPT ![t] = next]
      PROVE  pc' \in [Threads -> PCs] /\ \A u \in Threads : pc'[u] = "moving" => pc[u] = "moving"
  BY <1>d DEF CountsInv
<1>1. ASSUME NEW t \in InputThreads, NEW fc \in BOOLEAN, NEW old \in BOOLEAN,
             PushFast(t, fc, old)
      PROVE  CountsInv'
  <2> DEFINE in == AddTail(input[t], NewMessage(t, fc))
  <2>1. t \in Threads
    BY DEF Threads
  <2>2. Tallied(in)
    BY <1>c, <2>1, TallyAdd DEF CountsInv
  <2>3. /\ StartMove(t, in) \/ UNCHANGED <<pc, toDrop>>
        /\ input' = [input EXCEPT ![t] = in] /\ sent' = [sent EXCEPT ![t] = @ + 1]
        /\ UNCHANGED <<wait, output, backlog, rewinds>>
        /\ pc[t] = "idle"
    BY <1>1 DEF PushFast, CanPush
  <2>4. NumToDrop(in) \in 0..in.nfc
    BY <1>b, <2>2, NumToDropBounded
  <2>5. in \in List
    BY <2>2 DEF Tallied
  <2> HIDE DEF in
  <2>6. in.nfc \in Nat
    BY <2>5 DEF List
  <2>7. /\ input' \in [InputThreads -> List] /\ input'[t] = in
        /\ \A u \in InputThreads : u # t => input'[u] = input[u]
    BY <2>3, <2>5 DEF CountsInv
  <2>8. \A u \in InputThreads : Tallied(input'[u])
    BY <2>2, <2>7 DEF CountsInv
  <2>9. sent' \in [Threads -> Nat]
    BY <2>1, <2>3 DEF CountsInv
  <2>10. /\ pc' \in [Threads -> PCs] /\ toDrop' \in [InputThreads -> Nat]
         /\ \A u \in InputThreads : pc'[u] = "moving" => toDrop'[u] \in 0..input'[u].nfc
    <3>1. CASE UNCHANGED <<pc, toDrop>>
      BY <2>3, <2>7, <3>1 DEF CountsInv
    <3>2. CASE StartMove(t, in)
      <4>1. toDrop' = [toDrop EXCEPT ![t] = NumToDrop(in)] /\ pc' = [pc EXCEPT ![t] = "moving"]
        BY <3>2 DEF StartMove
      <4>2. /\ pc' \in [Threads -> PCs] /\ toDrop' \in [InputThreads -> Nat]
            /\ toDrop'[t] = NumToDrop(in)
            /\ \A u \in InputThreads : u # t => toDrop'[u] = toDrop[u] /\ pc'[u] = pc[u]
        BY <2>1, <2>4, <2>6, <4>1 DEF CountsInv, PCs, Threads
      <4> QED BY <2>4, <2>7, <4>2 DEF CountsInv
    <3> QED BY <2>3, <3>1, <3>2
  <2> QED BY <2>3, <2>7, <2>8, <2>9, <2>10, Zenon DEF CountsInv
<1>2. ASSUME NEW t \in InputThreads, BatchCallback(t)
      PROVE  CountsInv'
  <2>1. /\ toDrop' = [toDrop EXCEPT ![t] = NumToDrop(input[t])]
        /\ pc' = [pc EXCEPT ![t] = "moving"]
        /\ UNCHANGED <<input, wait, output, backlog, sent, rewinds>>
    BY <1>2 DEF BatchCallback, StartMove
  <2>2. NumToDrop(input[t]) \in 0..input[t].nfc /\ input[t].nfc \in Nat
    BY <1>b, NumToDropBounded DEF CountsInv, Tallied, List
  <2>3. /\ pc' \in [Threads -> PCs] /\ toDrop' \in [InputThreads -> Nat]
        /\ toDrop'[t] = NumToDrop(input[t])
        /\ \A u \in InputThreads : u # t => toDrop'[u] = toDrop[u] /\ pc'[u] = pc[u]
    BY <2>1, <2>2 DEF CountsInv, PCs, Threads
  <2>4. \A u \in InputThreads : pc'[u] = "moving" => toDrop'[u] \in 0..input'[u].nfc
    BY <2>1, <2>2, <2>3 DEF CountsInv
  <2> QED BY <2>1, <2>3, <2>4, Zenon DEF CountsInv
<1>3. ASSUME NEW t \in InputThreads, Move(t)
      PROVE  CountsInv'
  <2> DEFINE kept == DropFrom(input[t], toDrop[t])
  <2>1. /\ pc[t] = "moving" /\ TakeNotify(t, "notifying")
        /\ wait' = SpliceTail(wait, kept) /\ input' = [input EXCEPT ![t] = Empty]
        /\ UNCHANGED <<output, backlog, toDrop, rewinds, sent>>
    BY <1>3 DEF Move, MoveInput
  <2>2. Tallied(kept)
    BY <2>1, TallyDrop DEF CountsInv
  <2> HIDE DEF kept
  <2>3. Tallied(wait')
    BY <2>1, <2>2, TallySplice DEF CountsInv
  <2>4. Tallied(Empty) /\ Empty \in List
    BY TallyEmpty DEF Tallied
  <2>5. /\ input' \in [InputThreads -> List] /\ input'[t] = Empty
        /\ \A u \in InputThreads : u # t => input'[u] = input[u]
    BY <2>1, <2>4 DEF CountsInv
  <2>6. /\ pc' \in [Threads -> PCs] /\ pc'[t] # "moving"
        /\ \A u \in InputThreads : u # t => pc'[u] = pc[u]
    BY <2>1 DEF TakeNotify, CountsInv, PCs, Threads
  <2>7. \A u \in InputThreads : Tallied(input'[u])
    BY <2>4, <2>5 DEF CountsInv
  <2>8. \A u \in InputThreads : pc'[u] = "moving" => toDrop'[u] \in 0..input'[u].nfc
    BY <2>1, <2>5, <2>6 DEF CountsInv
  <2> QED BY <2>1, <2>3, <2>5, <2>6, <2>7, <2>8, Zenon DEF CountsInv
<1>e. ASSUME NEW t \in Threads, NEW fc \in BOOLEAN, pc[t] # "moving",
             AppendMessage(t, fc), UNCHANGED <<input, output, backlog, toDrop, rewinds>>
      PROVE  CountsInv'
  <2>1. /\ wait' = AddTail(wait, NewMessage(t, fc)) /\ sent' = [sent EXCEPT ![t] = @ + 1]
        /\ TakeNotify(t, "notifying_uncounted")
    BY <1>e DEF AppendMessage
  <2>2. Tallied(wait')
    BY <1>c, <2>1, TallyAdd DEF CountsInv
  <2>3. sent' \in [Threads -> Nat]
    BY <2>1 DEF CountsInv
  <2>4. pc' \in [Threads -> PCs] /\ \A u \in Threads : pc'[u] = "moving" => pc[u] = "moving"
    BY <1>e, <2>1 DEF TakeNotify, CountsInv, PCs
  <2>5. \A u \in InputThreads : pc'[u] = "moving" => toDrop'[u] \in 0..input'[u].nfc
    BY <1>e, <2>4 DEF CountsInv, Threads
  <2> QED BY <1>e, <2>2, <2>3, <2>4, <2>5, Zenon DEF CountsInv
<1>f. ASSUME NEW t \in Threads, pc[t] # "moving", NEW next \in PCs \ {"moving"},
             pc' = [pc EXCEPT ![t] = next],
             UNCHANGED <<input, wait, output, backlog, toDrop, sent, rewinds>>
      PROVE  CountsInv'
  <2>1. \A u \in InputThreads : pc'[u] = "moving" => toDrop'[u] \in 0..input'[u].nfc
    BY <1>d, <1>f DEF CountsInv, Threads
  <2>2. pc' \in [Threads -> PCs]
    BY <1>d, <1>f
  <2> QED BY <1>f, <2>1, <2>2, Zenon DEF CountsInv
<1>4. ASSUME NEW t \in SlowThreads, NEW fc \in BOOLEAN, PushSlow(t, fc)
      PROVE  CountsInv'
  <2>1. t \in Threads /\ pc[t] = "idle" /\ UNCHANGED <<input, output, backlog, toDrop, rewinds>>
    BY <1>4 DEF PushSlow, CanPush, Threads
  <2>2. CASE UNCHANGED <<wait, pc>> /\ sent' = [sent EXCEPT ![t] = @ + 1]
    <3>1. sent' \in [Threads -> Nat]
      BY <2>1, <2>2 DEF CountsInv
    <3> QED BY <2>1, <2>2, <3>1, Zenon DEF CountsInv
  <2>3. CASE pc' = [pc EXCEPT ![t] = "appending"] /\ UNCHANGED <<wait, sent>>
    BY <1>f, <2>1, <2>3 DEF PCs
  <2>4. CASE AppendMessage(t, fc)
    BY <1>e, <2>1, <2>4
  <2> QED BY <1>4, <2>2, <2>3, <2>4 DEF PushSlow
<1>5. ASSUME NEW t \in SlowThreads, AppendSlow(t)
      PROVE  CountsInv'
  BY <1>5, <1>e DEF AppendSlow, Threads
<1>6. ASSUME NEW t \in Threads, CallNotify(t) \/ CountPushed(t)
      PROVE  CountsInv'
  BY <1>6, <1>f DEF CallNotify, CountPushed, PCs
<1>7. CASE (Consume /\ ~PopHead) \/ IoWakeup
  BY <1>7, <1>a DEF Consume, CheckItems, WakeupEvent, ThrottleTimer, PopNothing, FinishReading,
                    IoWakeup
<1>8. CASE PopHead
  <2>1. /\ output' = RemoveHead(Refilled.output) /\ wait' = Refilled.wait
        /\ backlog' = AddTail(backlog, Head(Refilled.output.items))
        /\ Refilled.output.len > 0
        /\ UNCHANGED <<input, pc, toDrop, rewinds, sent>>
    BY <1>8 DEF PopHead
  <2>2. Tallied(Refilled.output) /\ Tallied(Refilled.wait)
    BY RefillTallies DEF CountsInv
  <2>3. Tallied(output') /\ Head(Refilled.output.items) \in Message
    BY <2>1, <2>2, TallyHead
  <2>4. Tallied(backlog')
    BY <2>1, <2>3, TallyAdd DEF CountsInv
  <2> QED BY <2>1, <2>2, <2>3, <2>4, Zenon DEF CountsInv
<1>9. ASSUME NEW n \in 1..backlog.len, AckBacklog(n)
      PROVE  CountsInv'
  <2>1. UNCHANGED <<input, wait, output, pc, toDrop, rewinds, sent>>
    BY <1>9 DEF AckBacklog
  <2>2. Tallied(backlog')
    BY <1>9, AckTallies DEF CountsInv
  <2> QED BY <2>1, <2>2, Zenon DEF CountsInv
<1>10. ASSUME NEW n \in 1..backlog.len, RewindBacklog(n)
       PROVE  CountsInv'
  <2>1. UNCHANGED <<input, wait, pc, toDrop, sent>> /\ rewinds' = rewinds + n
    BY <1>10 DEF RewindBacklog
  <2>2. Tallied(backlog') /\ Tallied(output') /\ n \in Nat
    BY <1>10, RewindTallies DEF CountsInv
  <2>3. rewinds' \in Nat
    BY <2>1, <2>2 DEF CountsInv
  <2> QED BY <2>1, <2>2, <2>3, Zenon DEF CountsInv
<1>11. CASE RewindBacklogAll
  <2>1. /\ output' = SpliceTail(output, backlog) /\ backlog' = Empty
        /\ rewinds' = rewinds + backlog.len
        /\ UNCHANGED <<input, wait, pc, toDrop, sent>>
    BY <1>11 DEF RewindBacklogAll
  <2>2. Tallied(output') /\ Tallied(backlog')
    BY <2>1, TallySplice, TallyEmpty DEF CountsInv
  <2>3. rewinds' \in Nat
    BY <2>1 DEF CountsInv, Tallied, List
  <2> QED BY <2>1, <2>2, <2>3, Zenon DEF CountsInv
<1>12. CASE Reload
  <2>1. UNCHANGED <<pc, toDrop, rewinds, sent>> /\ \A u \in Threads : pc[u] = "idle"
    BY <1>12 DEF Reload
  <2>2. CASE KeepOnReload
    BY <1>12, <1>a, <2>1, <2>2 DEF Reload
  <2>3. CASE ~KeepOnReload
    <3>1. /\ input' = [t \in InputThreads |-> Empty]
          /\ wait' = Empty /\ output' = Empty /\ backlog' = Empty
      BY <1>12, <2>3 DEF Reload
    <3>2. Tallied(Empty) /\ Empty \in List
      BY TallyEmpty DEF Tallied
    <3>3. input' \in [InputThreads -> List] /\ \A u \in InputThreads : Tallied(input'[u])
      BY <3>1, <3>2
    <3>4. \A u \in InputThreads : pc'[u] # "moving"
      BY <2>1 DEF Threads
    <3> QED BY <2>1, <3>1, <3>2, <3>3, <3>4, Zenon DEF CountsInv
  <2> QED BY <2>2, <2>3
<1>13. CASE UNCHANGED vars
  BY <1>13, <1>a DEF vars
<1> QED
  BY <1>1, <1>2, <1>3, <1>4, <1>5, <1>6, <1>7, <1>8, <1>9, <1>10, <1>11, <1>12, <1>13
     DEF Next, Produce, Callback, Consume

----------------------------------------------------------------------------
(* The limit.                                                              *)

Holds(t) == pc[t] \in {"moving", "appending"}

\* What a thread that looked at the length is about to add still fits, but
\* for what was rewound, before or after it looked.
LimitInv ==
    /\ \A t, u \in Threads : Holds(t) /\ Holds(u) => t = u
    /\ LimitExceededOnlyByRewind
    /\ \A t \in InputThreads : pc[t] = "moving" =>
          GetNfcLength + (input[t].nfc - toDrop[t]) <= LogFifoSize + rewinds
    /\ \A t \in Threads : pc[t] = "appending" => GetNfcLength + 1 <= LogFifoSize + rewinds

\* An input list's length fits in the 16 bits it is narrowed to
\* (log_queue_fifo_calculate_num_of_messages_to_drop()).
InputFits == \A t \in InputThreads : input[t].nfc < InputLenRange

\* The lengths are numbers.
LEMMA LengthType ==
  ASSUME CountsInv
  PROVE  /\ GetNfcLength \in Nat /\ rewinds \in Nat /\ LogFifoSize \in Nat
         /\ wait.nfc \in Nat /\ output.nfc \in Nat /\ backlog.nfc \in Nat /\ backlog.len \in Nat
         /\ \A t \in InputThreads : input[t].nfc \in Nat /\ toDrop[t] \in Nat
<1>1. wait.nfc \in Nat /\ output.nfc \in Nat /\ backlog.nfc \in Nat /\ backlog.len \in Nat
  BY DEF CountsInv, Tallied, List
<1>2. \A t \in InputThreads : input[t].nfc \in Nat /\ toDrop[t] \in Nat
  BY DEF CountsInv, List
<1>3. GetNfcLength \in Nat
  BY <1>1 DEF GetNfcLength
<1> QED BY <1>1, <1>2, <1>3, FifoAssumption DEF CountsInv

\* What is left of an input list after the drop fits.
LEMMA DropIsEnough ==
  ASSUME CountsInv, LimitExceededOnlyByRewind, NEW in, in.nfc \in Nat, in.nfc < InputLenRange
  PROVE  GetNfcLength + (in.nfc - NumToDrop(in)) <= LogFifoSize + rewinds
<1> DEFINE g == GetNfcLength
           l == in.nfc % InputLenRange
<1>1. g \in Nat /\ rewinds \in Nat /\ LogFifoSize \in Nat /\ g <= LogFifoSize + rewinds
  BY LengthType DEF LimitExceededOnlyByRewind
<1>2. l = in.nfc
  BY Narrowing, FifoAssumption
<1>3. NumToDrop(in) = IF g + l > LogFifoSize THEN l - Max0(LogFifoSize - g) ELSE 0
  BY DEF NumToDrop
<1> HIDE DEF g, l
<1>4. Max0(LogFifoSize - g) = IF LogFifoSize - g < 0 THEN 0 ELSE LogFifoSize - g
  BY DEF Max0
<1>5. g + (in.nfc - NumToDrop(in)) <= LogFifoSize + rewinds
  BY <1>1, <1>2, <1>3, <1>4
<1> QED BY <1>5 DEF g

\* Every step keeps the queue within its limit and what was rewound.
LEMMA LimitStep ==
  ASSUME CountsInv, CountsInv', LimitInv, InputFits', [Next]_vars
  PROVE  LimitInv'
<1> USE DEF lists, fates
<1> DEFINE g == GetNfcLength
           room == LogFifoSize + rewinds
<1>t. /\ g \in Nat /\ g' \in Nat /\ room \in Nat /\ room' \in Nat /\ rewinds \in Nat /\ rewinds' \in Nat
      /\ LogFifoSize \in Nat
      /\ \A t \in InputThreads : input[t].nfc \in Nat /\ toDrop[t] \in Nat
  <2>1. GetNfcLength' \in Nat /\ rewinds' \in Nat
    <3>1. wait'.nfc \in Nat /\ output'.nfc \in Nat
      BY DEF CountsInv, Tallied, List
    <3> QED BY <3>1 DEF GetNfcLength, CountsInv
  <2> QED BY <2>1, LengthType
<1>i. /\ \A t, u \in Threads : Holds(t) /\ Holds(u) => t = u
      /\ g <= room
      /\ \A t \in InputThreads : pc[t] = "moving" => g + (input[t].nfc - toDrop[t]) <= room
      /\ \A t \in Threads : pc[t] = "appending" => g + 1 <= room
  BY Zenon DEF LimitInv, LimitExceededOnlyByRewind
<1>p. pc \in [Threads -> PCs] /\ toDrop \in [InputThreads -> Nat] /\ InputThreads \subseteq Threads
      /\ DOMAIN input = InputThreads
  BY DEF CountsInv, Threads
<1>l. Locked = \E t \in Threads : Holds(t)
  BY Zenon DEF Locked, Holds
<1>g. ASSUME UNCHANGED <<wait, output>> PROVE g' = g
  BY <1>g DEF GetNfcLength
<1>r. ASSUME UNCHANGED rewinds PROVE room' = room
  BY <1>r
<1>q. ASSUME \A t, u \in Threads : Holds(t)' /\ Holds(u)' => t = u,
             g' <= room',
             \A t \in InputThreads : pc'[t] = "moving" => g' + (input'[t].nfc - toDrop'[t]) <= room',
             \A t \in Threads : pc'[t] = "appending" => g' + 1 <= room'
      PROVE  LimitInv'
  BY <1>q, Zenon DEF LimitInv, LimitExceededOnlyByRewind
<1> HIDE DEF g, room
<1>a. ASSUME NEW k \in Nat, g' <= g + k, room' = room + k, UNCHANGED <<input, pc, toDrop>>
      PROVE  LimitInv'
  <2>1. \A t, u \in Threads : Holds(t)' /\ Holds(u)' => t = u
    BY <1>a, <1>i DEF Holds
  <2>0. g \in Nat /\ g' \in Nat /\ room \in Nat /\ room' \in Nat /\ g <= room
    BY <1>t, <1>i, Zenon
  <2>2. g' <= room'
    BY <1>a, <2>0
  <2>3. \A t \in InputThreads : pc'[t] = "moving" => g' + (input'[t].nfc - toDrop'[t]) <= room'
    <3> SUFFICES ASSUME NEW t \in InputThreads, pc'[t] = "moving"
                 PROVE  g' + (input'[t].nfc - toDrop'[t]) <= room'
      OBVIOUS
    <3>1. g + (input[t].nfc - toDrop[t]) <= room /\ input[t].nfc \in Nat /\ toDrop[t] \in Nat
      BY <1>a, <1>i, <1>t
    <3>2. input'[t].nfc = input[t].nfc /\ toDrop'[t] = toDrop[t]
      BY <1>a
    <3> QED BY <1>a, <2>0, <3>1, <3>2
  <2>4. \A t \in Threads : pc'[t] = "appending" => g' + 1 <= room'
    <3>0. \A x, y, z, w \in Nat : x <= y + k /\ z = w + k /\ y + 1 <= w => x + 1 <= z
      OBVIOUS
    <3>1. g + 1 <= room => g' + 1 <= room'
      BY <1>a, <2>0, <3>0, Zenon
    <3> QED BY <1>a, <1>i, <3>1
  <2> QED BY <1>q, <2>1, <2>2, <2>3, <2>4
<1>b. ASSUME g' <= room', NEW t \in Threads, ~Holds(t)', \A u \in Threads \ {t} : ~Holds(u)',
             pc' \in [Threads -> PCs]
      PROVE  LimitInv'
  <2>1. \A u \in Threads : ~Holds(u)'
    BY <1>b
  <2>2. \A u \in Threads : pc'[u] # "moving" /\ pc'[u] # "appending"
    BY <2>1 DEF Holds
  <2> QED BY <1>b, <1>p, <1>q, <2>1, <2>2
<1>c. ASSUME NEW t \in Threads, ~Holds(t), NEW next \in PCs \ {"moving", "appending"},
             pc' = [pc EXCEPT ![t] = next],
             UNCHANGED <<input, wait, output, toDrop, rewinds>>
      PROVE  LimitInv'
  <2>1. pc'[t] = next /\ \A u \in Threads : u # t => pc'[u] = pc[u]
    BY <1>c, <1>p
  <2>2. \A u \in Threads : pc'[u] \in {"moving", "appending"} => pc'[u] = pc[u]
    BY <2>1
  <2>3. \A u, v \in Threads : Holds(u)' /\ Holds(v)' => u = v
    BY <1>i, <2>2 DEF Holds
  <2>4. g' = g /\ room' = room
    BY <1>c, <1>g, <1>r
  <2>5. \A u \in InputThreads : pc'[u] = "moving" => g' + (input'[u].nfc - toDrop'[u]) <= room'
    <3> SUFFICES ASSUME NEW u \in InputThreads, pc'[u] = "moving"
                 PROVE  g' + (input'[u].nfc - toDrop'[u]) <= room'
      OBVIOUS
    <3>1. pc[u] = "moving"
      BY <1>p, <2>2
    <3>2. g + (input[u].nfc - toDrop[u]) <= room
      BY <1>i, <3>1
    <3> QED BY <1>c, <2>4, <3>2
  <2>6. \A u \in Threads : pc'[u] = "appending" => g' + 1 <= room'
    BY <1>i, <2>2, <2>4
  <2>7. g' <= room'
    BY <1>i, <2>4
  <2> QED BY <1>q, <2>3, <2>5, <2>6, <2>7
<1>m. ASSUME NEW t \in InputThreads, NEW in, ~Locked, StartMove(t, in), in = input'[t],
             in.nfc \in Nat, UNCHANGED <<wait, output, rewinds>>
      PROVE  LimitInv'
  <2>1. in.nfc < InputLenRange
    BY <1>m DEF InputFits
  <2>2. GetNfcLength + (in.nfc - NumToDrop(in)) <= LogFifoSize + rewinds
    BY <1>m, <2>1, DropIsEnough DEF LimitInv
  <2>3. g' = g /\ room' = room
    BY <1>m, <1>g, <1>r
  <2>4. g + (in.nfc - NumToDrop(in)) <= room
    BY <2>2 DEF g, room
  <2>5. toDrop' = [toDrop EXCEPT ![t] = NumToDrop(in)] /\ pc' = [pc EXCEPT ![t] = "moving"]
    BY <1>m DEF StartMove
  <2>6. /\ toDrop'[t] = NumToDrop(in) /\ pc'[t] = "moving" /\ t \in Threads
        /\ \A u \in Threads : u # t => pc'[u] = pc[u]
    BY <1>p, <2>5
  <2>7. \A u \in Threads : Holds(u)' => u = t
    <3>1. \A u \in Threads : ~Holds(u)
      BY <1>l, <1>m
    <3> QED BY <2>6, <3>1 DEF Holds
  <2>8. \A u, v \in Threads : Holds(u)' /\ Holds(v)' => u = v
    BY <2>7
  <2>9. \A u \in InputThreads : pc'[u] = "moving" => g' + (input'[u].nfc - toDrop'[u]) <= room'
    <3> SUFFICES ASSUME NEW u \in InputThreads, pc'[u] = "moving"
                 PROVE  g' + (input'[u].nfc - toDrop'[u]) <= room'
      OBVIOUS
    <3>1. u = t
      BY <1>p, <2>7 DEF Holds
    <3> QED BY <1>m, <2>3, <2>4, <2>6, <3>1
  <2>10. \A u \in Threads : pc'[u] # "appending"
    BY <2>6, <2>7 DEF Holds
  <2> QED BY <1>i, <1>q, <2>3, <2>8, <2>9, <2>10
<1>1. ASSUME NEW t \in InputThreads, NEW fc \in BOOLEAN, NEW old \in BOOLEAN,
             PushFast(t, fc, old)
      PROVE  LimitInv'
  <2> DEFINE in == AddTail(input[t], NewMessage(t, fc))
  <2>1. /\ StartMove(t, in) \/ UNCHANGED <<pc, toDrop>>
        /\ input' = [input EXCEPT ![t] = in]
        /\ UNCHANGED <<wait, output, rewinds>> /\ pc[t] = "idle"
    BY <1>1 DEF PushFast, CanPush
  <2> HIDE DEF in
  <2>2. input'[t] = in /\ \A u \in InputThreads : u # t => input'[u] = input[u]
    BY <1>p, <2>1
  <2>3. in.nfc \in Nat
    BY <2>2 DEF CountsInv, List
  <2>4. CASE StartMove(t, in)
    BY <1>m, <2>1, <2>2, <2>3, <2>4 DEF StartMove
  <2>5. CASE UNCHANGED <<pc, toDrop>>
    <3>1. g' = g /\ room' = room
      BY <2>1, <1>g, <1>r
    <3>2. \A u, v \in Threads : Holds(u)' /\ Holds(v)' => u = v
      BY <1>i, <2>5 DEF Holds
    <3>3. \A u \in InputThreads : pc'[u] = "moving" => g' + (input'[u].nfc - toDrop'[u]) <= room'
      BY <1>i, <2>1, <2>2, <2>5, <3>1
    <3>4. \A u \in Threads : pc'[u] = "appending" => g' + 1 <= room'
      BY <1>i, <2>5, <3>1
    <3> QED BY <1>i, <1>q, <3>1, <3>2, <3>3, <3>4
  <2> QED BY <2>1, <2>4, <2>5
<1>2. ASSUME NEW t \in InputThreads, BatchCallback(t)
      PROVE  LimitInv'
  <2>1. StartMove(t, input[t]) /\ UNCHANGED <<input, wait, output, rewinds>>
    BY <1>2 DEF BatchCallback
  <2>2. ~Locked /\ input[t] = input'[t] /\ input[t].nfc \in Nat
    BY <1>t, <2>1 DEF StartMove
  <2> QED BY <1>m, <2>1, <2>2
<1>3. ASSUME NEW t \in InputThreads, Move(t)
      PROVE  LimitInv'
  <2> DEFINE kept == DropFrom(input[t], toDrop[t])
  <2>1. /\ pc[t] = "moving" /\ TakeNotify(t, "notifying")
        /\ wait' = SpliceTail(wait, kept)
        /\ UNCHANGED <<output, rewinds>>
    BY <1>3 DEF Move, MoveInput
  <2>2. kept.nfc = input[t].nfc - toDrop[t]
    BY DEF DropFrom
  <2> HIDE DEF kept
  <2>3. wait'.nfc = wait.nfc + kept.nfc
    BY <2>1 DEF SpliceTail
  <2>4. g' = g + (input[t].nfc - toDrop[t])
    <3>1. wait.nfc \in Nat /\ output.nfc \in Nat /\ input[t].nfc \in Nat /\ toDrop[t] \in Nat
      BY LengthType
    <3> QED BY <2>1, <2>2, <2>3, <3>1 DEF g, GetNfcLength
  <2>5. g' <= room'
    BY <1>i, <1>r, <2>1, <2>4
  <2>6. /\ pc'[t] \in {"notifying", "idle"} /\ t \in Threads
        /\ \A u \in Threads : u # t => pc'[u] = pc[u]
    BY <1>p, <2>1 DEF TakeNotify
  <2>7. ~Holds(t)' /\ \A u \in Threads \ {t} : ~Holds(u)'
    BY <1>i, <2>1, <2>6 DEF Holds
  <2>8. pc' \in [Threads -> PCs]
    BY DEF CountsInv
  <2> QED BY <1>b, <2>5, <2>6, <2>7, <2>8
<1>d. ASSUME NEW t \in Threads, NEW fc \in BOOLEAN, AppendMessage(t, fc),
             (pc[t] = "appending" /\ ~fc) \/ (~Locked /\ fc),
             UNCHANGED <<output, rewinds>>
      PROVE  LimitInv'
  <2>1. wait' = AddTail(wait, NewMessage(t, fc)) /\ TakeNotify(t, "notifying_uncounted")
    BY <1>d DEF AppendMessage
  <2>2. wait'.nfc = wait.nfc + (IF fc THEN 0 ELSE 1)
    BY <2>1 DEF AddTail, NewMessage, Nfc
  <2>3. g' = g + (IF fc THEN 0 ELSE 1)
    <3>1. wait.nfc \in Nat /\ output.nfc \in Nat
      BY LengthType
    <3> QED BY <1>d, <2>2, <3>1 DEF g, GetNfcLength
  <2>4. room' = room
    BY <1>d, <1>r
  <2>5. g' <= room'
    <3>1. CASE pc[t] = "appending" /\ ~fc
      BY <1>i, <2>3, <2>4, <3>1
    <3>2. CASE fc
      BY <1>i, <1>t, <2>3, <2>4, <3>2
    <3> QED BY <1>d, <3>1, <3>2
  <2>6. /\ pc'[t] \in {"notifying_uncounted", "idle"}
        /\ \A u \in Threads : u # t => pc'[u] = pc[u]
    BY <1>p, <2>1 DEF TakeNotify
  <2>7. \A u \in Threads \ {t} : ~Holds(u)
    BY <1>d, <1>i, <1>l DEF Holds
  <2>8. ~Holds(t)' /\ \A u \in Threads \ {t} : ~Holds(u)'
    BY <2>6, <2>7 DEF Holds
  <2>9. pc' \in [Threads -> PCs]
    BY DEF CountsInv
  <2> QED BY <1>b, <2>5, <2>8, <2>9
<1>4. ASSUME NEW t \in SlowThreads, NEW fc \in BOOLEAN, PushSlow(t, fc)
      PROVE  LimitInv'
  <2>1. t \in Threads /\ ~Locked /\ pc[t] = "idle" /\ UNCHANGED <<input, output, toDrop, rewinds>>
    BY <1>4 DEF PushSlow, CanPush, Threads
  <2>2. CASE UNCHANGED <<wait, pc>>
    <3>1. g' = g /\ room' = room
      BY <1>g, <1>r, <2>1, <2>2
    <3>2. g' <= g + 0 /\ room' = room + 0
      BY <1>t, <3>1
    <3> QED BY <1>a, <2>1, <2>2, <3>2
  <2>3. CASE ~fc /\ ~MustDrop(fc) /\ pc' = [pc EXCEPT ![t] = "appending"] /\ UNCHANGED wait
    <3>1. g' = g /\ room' = room
      BY <1>g, <1>r, <2>1, <2>3
    <3>2. g + 1 <= room
      <4>1. ~(GetNfcLength >= LogFifoSize)
        BY <2>3 DEF MustDrop
      <4>2. ~(g >= LogFifoSize) /\ room = LogFifoSize + rewinds
        BY <4>1 DEF g, room
      <4> QED BY <1>t, <4>2
    <3>3. pc'[t] = "appending" /\ \A u \in Threads : u # t => pc'[u] = pc[u]
      BY <1>p, <2>1, <2>3
    <3>4. \A u \in Threads : Holds(u)' => u = t
      BY <1>l, <2>1, <3>3 DEF Holds
    <3>5. \A u \in InputThreads : pc'[u] # "moving"
      BY <1>p, <3>3, <3>4 DEF Holds
    <3>6. \A u, v \in Threads : Holds(u)' /\ Holds(v)' => u = v
      BY <3>4
    <3> QED BY <1>i, <1>q, <3>1, <3>2, <3>5, <3>6
  <2>4. CASE fc /\ AppendMessage(t, fc)
    BY <1>d, <2>1, <2>4
  <2> QED BY <1>4, <2>2, <2>3, <2>4 DEF PushSlow
<1>5. ASSUME NEW t \in SlowThreads, AppendSlow(t)
      PROVE  LimitInv'
  BY <1>5, <1>d DEF AppendSlow, Threads
<1>6. ASSUME NEW t \in Threads, CallNotify(t) \/ CountPushed(t)
      PROVE  LimitInv'
  <2>1. /\ ~Holds(t) /\ UNCHANGED <<input, wait, output, toDrop, rewinds>>
        /\ \E next \in PCs \ {"moving", "appending"} : pc' = [pc EXCEPT ![t] = next]
    BY <1>6 DEF CallNotify, CountPushed, PCs, Holds
  <2> QED BY <1>c, <2>1
<1>7. ASSUME UNCHANGED <<input, wait, output, pc, toDrop, rewinds>>
      PROVE  LimitInv'
  <2>1. g' = g /\ room' = room
    BY <1>7, <1>g, <1>r
  <2>2. g' <= g + 0 /\ room' = room + 0
    BY <1>t, <2>1
  <2> QED BY <1>7, <1>a, <2>2
<1>8. CASE (Consume /\ ~PopHead) \/ IoWakeup
  BY <1>7, <1>8 DEF Consume, CheckItems, WakeupEvent, ThrottleTimer, PopNothing, FinishReading,
                    IoWakeup
<1>9. CASE PopHead
  <2>1. /\ output' = RemoveHead(Refilled.output) /\ wait' = Refilled.wait
        /\ Refilled.output.len > 0 /\ UNCHANGED <<input, pc, toDrop, rewinds>>
    BY <1>9 DEF PopHead
  <2>2. /\ Tallied(Refilled.output) /\ Tallied(Refilled.wait)
        /\ Refilled.output.nfc + Refilled.wait.nfc = g
    BY RefillTallies DEF CountsInv, g
  <2> DEFINE r == Refilled.output
             w == Refilled.wait
             m == Head(r.items)
  <2>3. output'.nfc = r.nfc - Nfc(m) /\ wait'.nfc = w.nfc
    BY <2>1 DEF RemoveHead
  <2>4. m \in Message
    BY <2>1, <2>2, TallyHead
  <2>5. r.nfc \in Nat /\ w.nfc \in Nat
    BY <2>2 DEF Tallied, List
  <2> HIDE DEF r, w, m
  <2>6. Nfc(m) \in 0..1
    BY <2>4, WeightOne
  <2>7. r.nfc + w.nfc = g
    BY <2>2 DEF r, w
  <2>8. g' <= g
    BY <2>3, <2>5, <2>6, <2>7 DEF g, GetNfcLength
  <2>9. room' = room
    BY <1>r, <2>1
  <2>10. g' <= g + 0 /\ room' = room + 0
    BY <1>t, <2>8, <2>9
  <2> QED BY <1>a, <2>1, <2>10
<1>10. ASSUME NEW n \in 1..backlog.len, AckBacklog(n)
       PROVE  LimitInv'
  BY <1>7, <1>10 DEF AckBacklog
<1>11. ASSUME NEW n \in 1..backlog.len, RewindBacklog(n)
       PROVE  LimitInv'
  <2>1. UNCHANGED <<input, wait, pc, toDrop>> /\ rewinds' = rewinds + n
    BY <1>11 DEF RewindBacklog
  <2>2. output'.nfc <= output.nfc + n /\ n \in Nat
    BY <1>11, RewindTallies DEF CountsInv
  <2>3. wait.nfc \in Nat /\ output.nfc \in Nat /\ output'.nfc \in Nat
    BY DEF CountsInv, Tallied, List
  <2>4. g' <= g + n
    BY <2>1, <2>2, <2>3 DEF g, GetNfcLength
  <2>5. room' = room + n
    BY <1>t, <2>1, <2>2 DEF room
  <2> QED BY <1>a, <2>1, <2>2, <2>4, <2>5
<1>12. CASE RewindBacklogAll
  <2>1. /\ output' = SpliceTail(output, backlog) /\ rewinds' = rewinds + backlog.len
        /\ UNCHANGED <<input, wait, pc, toDrop>>
    BY <1>12 DEF RewindBacklogAll
  <2>2. output'.nfc = output.nfc + backlog.nfc
    BY <2>1 DEF SpliceTail
  <2>3. /\ wait.nfc \in Nat /\ output.nfc \in Nat /\ backlog.nfc \in Nat /\ backlog.len \in Nat
    BY LengthType
  <2>4. backlog.nfc <= backlog.len
    <3>1. /\ backlog.items \in Seq(Message) /\ backlog.len = Len(backlog.items)
          /\ backlog.nfc = Weight(backlog.items)
      BY DEF CountsInv, Tallied, List
    <3>2. Weight(backlog.items) \in 0..Len(backlog.items) /\ Len(backlog.items) \in Nat
      BY <3>1, WeightType
    <3> QED BY <3>1, <3>2
  <2>5. g' = g + backlog.nfc
    BY <2>1, <2>2, <2>3 DEF g, GetNfcLength
  <2>6. room' = room + backlog.len
    BY <1>t, <2>1, <2>3 DEF room
  <2>7. g' <= g + backlog.len
    BY <1>t, <2>3, <2>4, <2>5
  <2> QED BY <1>a, <2>1, <2>3, <2>6, <2>7
<1>13. CASE Reload
  <2>1. UNCHANGED <<pc, toDrop, rewinds>> /\ \A u \in Threads : pc[u] = "idle"
    BY <1>13 DEF Reload
  <2>2. CASE KeepOnReload
    BY <1>13, <1>7, <2>1, <2>2 DEF Reload
  <2>3. CASE ~KeepOnReload
    <3>1. wait' = Empty /\ output' = Empty
      BY <1>13, <2>3 DEF Reload
    <3>2. g' = 0
      BY <3>1, TallyEmpty DEF g, GetNfcLength
    <3>3. \A u \in Threads : ~Holds(u)' /\ pc'[u] # "moving" /\ pc'[u] # "appending"
      BY <2>1 DEF Holds
    <3>4. g' <= room'
      BY <1>t, <3>2
    <3> QED BY <1>p, <1>q, <3>3, <3>4
  <2> QED BY <2>2, <2>3
<1>14. CASE UNCHANGED vars
  BY <1>14, <1>7 DEF vars
<1> QED
  BY <1>1, <1>2, <1>3, <1>4, <1>5, <1>6, <1>8, <1>9, <1>10, <1>11, <1>12, <1>13, <1>14
     DEF Next, Produce, Callback, Consume

\* The counters start right.
LEMMA CountsInit == Init => CountsInv
<1> SUFFICES ASSUME Init PROVE CountsInv
  OBVIOUS
<1>1. Tallied(Empty) /\ Empty \in List
  BY TallyEmpty DEF Tallied
<1>2. /\ input = [t \in InputThreads |-> Empty] /\ wait = Empty /\ output = Empty /\ backlog = Empty
      /\ pc = [t \in Threads |-> "idle"] /\ toDrop = [t \in InputThreads |-> 0]
      /\ sent = [t \in Threads |-> 0] /\ rewinds = 0
  BY DEF Init
<1>3. \A t \in InputThreads : pc[t] = "idle"
  BY <1>2 DEF Threads
<1> QED BY <1>1, <1>2, <1>3 DEF CountsInv, PCs

\* The messages on a queue exceed log-fifo-size() by no more than what was
\* rewound into it, for any threads and sizes, although a pushing thread
\* decides what to drop before it appends: as long as no input list outgrows
\* the 16 bits its length is narrowed to.
THEOREM LimitIsKept == Spec /\ []InputFits => []LimitExceededOnlyByRewind
<1>1. Init => LimitInv
  <2> SUFFICES ASSUME Init PROVE LimitInv
    OBVIOUS
  <2>1. /\ pc = [t \in Threads |-> "idle"] /\ wait = Empty /\ output = Empty /\ rewinds = 0
    BY DEF Init
  <2>2. \A t \in Threads : pc[t] = "idle"
    BY <2>1
  <2>3. GetNfcLength = 0
    BY <2>1, TallyEmpty DEF GetNfcLength
  <2>4. LimitExceededOnlyByRewind
    BY <2>1, <2>3, FifoAssumption DEF LimitExceededOnlyByRewind
  <2> QED BY <2>2, <2>4 DEF LimitInv, Holds, Threads
<1>2. LimitInv => LimitExceededOnlyByRewind
  BY DEF LimitInv
<1> QED BY <1>1, <1>2, CountsInit, CountsStep, LimitStep, PTL DEF Spec
===========================================================================
