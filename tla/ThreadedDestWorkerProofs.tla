---------------------- MODULE ThreadedDestWorkerProofs ----------------------
(***************************************************************************)
(* Proofs about the worker of a threaded destination: its queue, the       *)
(* driver's request and what the sources are told.                         *)
(***************************************************************************)
EXTENDS ThreadedDestWorker, TLAPS

\* The worker's record.
WorkerState ==
    [stored : Seq(Messages), taken : Nat, buckets : Nat, connected : BOOLEAN,
     batch_size : Nat, rewound_batch_size : Nat, retries_on_error_counter : Nat,
     retries_counter : Nat, enable_batching : BOOLEAN, suspended : BOOLEAN,
     unreachable : BOOLEAN, last_key : Nat, body : Seq(Messages),
     due : SUBSET {"batch", "idle", "token"}, delivered : SUBSET Messages,
     written : SUBSET Messages, dropped : SUBSET Messages, mixed : BOOLEAN, faults : Nat]

-----------------------------------------------------------------------------
(* The invariant, of a worker x after p messages have been pushed.         *)

\* The queue holds the messages pushed last, in order; all earlier ones have
\* been written or dropped.
QueueKept(x, p) ==
    /\ Len(x.stored) <= p /\ p <= Len(KeyOf)
    /\ \A i \in 1 .. Len(x.stored) : x.stored[i] = p - Len(x.stored) + i
    /\ 1 .. (p - Len(x.stored)) \subseteq x.written \cup x.dropped

\* batch_size counts the backlog, what was written was delivered, and no
\* request mixed keys.
Accounted(x) ==
    /\ x.taken <= Len(x.stored) /\ x.batch_size = x.taken
    /\ x.written \subseteq x.delivered
    /\ FlushOnKeyChange => ~x.mixed

Kept(x, p) == x \in WorkerState /\ QueueKept(x, p) /\ Accounted(x)

\* The messages of the request have the key of the oldest message in the queue.
RequestHasOneKey(x) ==
    FlushOnKeyChange =>
        \A j \in 1 .. Len(x.body) : x.stored # <<>> /\ KeyOf[x.body[j]] = KeyOf[x.stored[1]]

\* The request holds the backlog: a request that was kept when the header slot
\* failed may hold more.
RequestHoldsBacklog(x) ==
    /\ \A i \in 1 .. x.taken : \E j \in 1 .. Len(x.body) : x.body[j] = x.stored[i]
    /\ ~SlotFails => x.body = Backlog(x)

\* The worker remembers the key of its batch.
KeyIsRemembered(x) ==
    FlushOnKeyChange /\ x.taken > 0 => x.last_key = KeyOf[x.stored[1]]

Ready(x) == RequestHasOneKey(x) /\ RequestHoldsBacklog(x) /\ KeyIsRemembered(x)

WorkerInv ==
    /\ pushed \in Nat /\ pc \in {"main", "inserts", "break", "quit", "exited"}
    /\ Kept(w, pushed)
    /\ pc # "exited" => Ready(w)
    /\ NoStaleCallback

\* Every message that was pushed is in the queue, or was written or dropped.
NothingIsLost ==
    \A m \in 1 .. pushed : m \in w.written \cup w.dropped \cup Range(w.stored)
-----------------------------------------------------------------------------
(* Sequences.                                                              *)

\* The messages left when the first n are removed.
LEMMA TailOfQueue ==
  ASSUME NEW S, NEW s \in Seq(S), NEW n \in 0 .. Len(s),
         NEW t, t = SubSeq(s, n + 1, Len(s))
  PROVE  /\ t \in Seq(S) /\ Len(t) = Len(s) - n
         /\ \A i \in 1 .. Len(t) : t[i] = s[n + i]
OBVIOUS

\* The first n messages.
LEMMA HeadOfQueue ==
  ASSUME NEW S, NEW s \in Seq(S), NEW n \in 0 .. Len(s),
         NEW t, t = SubSeq(s, 1, n)
  PROVE  /\ t \in Seq(S) /\ Len(t) = n
         /\ \A i \in 1 .. n : t[i] = s[i]
OBVIOUS

\* One message more.
LEMMA HeadAppend ==
  ASSUME NEW S, NEW s \in Seq(S), NEW n \in 0 .. Len(s), n < Len(s)
  PROVE  Append(SubSeq(s, 1, n), s[n + 1]) = SubSeq(s, 1, n + 1)
OBVIOUS

\* The backlog of a worker.
LEMMA BacklogType ==
  ASSUME NEW x \in WorkerState, x.taken <= Len(x.stored)
  PROVE  /\ Backlog(x) \in Seq(Messages) /\ Len(Backlog(x)) = x.taken
         /\ \A i \in 1 .. x.taken : Backlog(x)[i] = x.stored[i]
         /\ Range(Backlog(x)) = {x.stored[i] : i \in 1 .. x.taken}
<1>1. /\ x.stored \in Seq(Messages) /\ x.taken \in 0 .. Len(x.stored)
  BY DEF WorkerState
<1>2. PICK t : t = SubSeq(x.stored, 1, x.taken)
  BY Zenon
<1>3. /\ t \in Seq(Messages) /\ Len(t) = x.taken
      /\ \A i \in 1 .. x.taken : t[i] = x.stored[i]
  BY <1>1, <1>2, HeadOfQueue
<1>4. Range(t) = {x.stored[i] : i \in 1 .. x.taken}
  BY <1>1, <1>3 DEF Range
<1> QED BY <1>2, <1>3, <1>4 DEF Backlog

-----------------------------------------------------------------------------
(* The result of a driver call.                                            *)

\* Nothing of the queue and of the request changes.
SameBatch(x, y) ==
    /\ y.stored = x.stored /\ y.taken = x.taken /\ y.batch_size = x.batch_size
    /\ y.body = x.body /\ y.last_key = x.last_key /\ y.mixed = x.mixed
    /\ y.delivered = x.delivered /\ y.written = x.written /\ y.dropped = x.dropped

\* What processing a result never touches.
SameRequest(x, y) ==
    /\ y.body = x.body /\ y.last_key = x.last_key /\ y.mixed = x.mixed
    /\ y.delivered = x.delivered /\ y.taken = 0 /\ y.batch_size = 0

\* The backlog is removed from the queue.
Acked(x, y) ==
    /\ SameRequest(x, y)
    /\ y.stored = SubSeq(x.stored, x.taken + 1, Len(x.stored))

\* The backlog is put back.
Rewound(x, y) ==
    /\ SameRequest(x, y)
    /\ y.stored = x.stored /\ y.written = x.written /\ y.dropped = x.dropped

\* log_threaded_dest_worker_ack_messages() of the whole batch.
LEMMA AckType ==
  ASSUME NEW x \in WorkerState, x.taken <= Len(x.stored), x.batch_size = x.taken,
         NEW y, y = AckMessages(x, x.batch_size)
  PROVE  y \in WorkerState /\ Acked(x, y) /\ y.written = x.written /\ y.dropped = x.dropped
<1>1. /\ x.stored \in Seq(Messages) /\ x.taken \in 0 .. Len(x.stored) /\ x.batch_size \in Nat
  BY DEF WorkerState
<1>2. PICK s : s = SubSeq(x.stored, x.batch_size + 1, Len(x.stored))
  BY Zenon
<1>3. s \in Seq(Messages)
  BY <1>1, <1>2, TailOfQueue
<1>4. PICK k \in Nat, n \in Nat, z \in Nat :
         k = x.taken - x.batch_size /\ n = x.batch_size - x.batch_size /\ z = 0
  BY <1>1
<1>5. k = 0 /\ n = 0
  BY <1>1, <1>4
<1>6. y = [x EXCEPT !.stored = s, !.taken = k, !.retries_on_error_counter = z, !.batch_size = n]
  BY <1>2, <1>4 DEF AckMessages
<1>7. y \in WorkerState
  BY ZenonT(60), <1>3, <1>6 DEF WorkerState
<1>8. /\ y.stored = s /\ y.taken = k /\ y.batch_size = n
      /\ y.body = x.body /\ y.last_key = x.last_key /\ y.mixed = x.mixed
      /\ y.delivered = x.delivered /\ y.written = x.written /\ y.dropped = x.dropped
  BY <1>6 DEF WorkerState
<1> QED BY <1>2, <1>5, <1>7, <1>8 DEF Acked, SameRequest

\* log_threaded_dest_worker_rewind_messages() of the whole batch.
LEMMA RewindType ==
  ASSUME NEW x \in WorkerState, x.batch_size = x.taken, NEW y, y = RewindBatch(x)
  PROVE  y \in WorkerState /\ Rewound(x, y)
<1>1. PICK k \in Nat, n \in Nat :
         k = x.taken - x.batch_size /\ n = x.batch_size - x.batch_size
  BY DEF WorkerState
<1>2. k = 0 /\ n = 0
  BY <1>1 DEF WorkerState
<1>3. y = [x EXCEPT !.taken = k, !.rewound_batch_size = x.batch_size, !.batch_size = n]
  BY <1>1 DEF RewindBatch, RewindMessages
<1>4. y \in WorkerState
  BY ZenonT(60), <1>3 DEF WorkerState
<1>5. /\ y.stored = x.stored /\ y.taken = k /\ y.batch_size = n
      /\ y.body = x.body /\ y.last_key = x.last_key /\ y.mixed = x.mixed
      /\ y.delivered = x.delivered /\ y.written = x.written /\ y.dropped = x.dropped
  BY <1>3 DEF WorkerState
<1> QED BY <1>2, <1>4, <1>5 DEF Rewound, SameRequest

\* _disconnect_and_suspend()
LEMMA DisconnectType ==
  ASSUME NEW x \in WorkerState, NEW y, y = DisconnectAndSuspend(x)
  PROVE  y \in WorkerState /\ SameBatch(x, y)
BY Zenon DEF DisconnectAndSuspend, WorkerState, SameBatch

\* The batch is accepted: what it held counts as written.
LEMMA AcceptType ==
  ASSUME NEW x \in WorkerState, x.taken <= Len(x.stored), x.batch_size = x.taken,
         NEW y, y = AcceptBatch(x)
  PROVE  /\ y \in WorkerState /\ Acked(x, y)
         /\ y.written = x.written \cup Range(Backlog(x)) /\ y.dropped = x.dropped
<1>1. PICK v : v = x.written \cup Range(Backlog(x))
  BY Zenon
<1>2. v \in SUBSET Messages
  BY <1>1, BacklogType DEF WorkerState
<1>3. PICK z : z = [x EXCEPT !.written = v]
  BY Zenon
<1>4. z \in WorkerState
  BY Zenon, <1>2, <1>3 DEF WorkerState
<1>5. /\ z.taken = x.taken /\ z.stored = x.stored /\ z.batch_size = x.batch_size
      /\ z.body = x.body /\ z.last_key = x.last_key /\ z.mixed = x.mixed
      /\ z.delivered = x.delivered /\ z.written = v /\ z.dropped = x.dropped
  BY <1>3 DEF WorkerState
<1>6. y = AckMessages(z, z.batch_size)
  BY <1>1, <1>3, <1>5 DEF AcceptBatch
<1>7. y \in WorkerState /\ Acked(z, y) /\ y.written = z.written /\ y.dropped = z.dropped
  BY <1>4, <1>5, <1>6, AckType
<1> QED BY <1>1, <1>5, <1>7 DEF Acked, SameRequest

\* The batch is dropped.
LEMMA DropType ==
  ASSUME NEW x \in WorkerState, x.taken <= Len(x.stored), x.batch_size = x.taken,
         NEW y, y = DropBatch(x)
  PROVE  /\ y \in WorkerState /\ Acked(x, y)
         /\ y.written = x.written /\ y.dropped = x.dropped \cup Range(Backlog(x))
<1>1. PICK v : v = x.dropped \cup Range(Backlog(x))
  BY Zenon
<1>2. v \in SUBSET Messages
  BY SMTT(60), <1>1, BacklogType DEF WorkerState
<1>3. PICK z : z = [x EXCEPT !.dropped = v]
  BY Zenon
<1>4. z \in WorkerState
  BY Zenon, <1>2, <1>3 DEF WorkerState
<1>5. /\ z.taken = x.taken /\ z.stored = x.stored /\ z.batch_size = x.batch_size
      /\ z.body = x.body /\ z.last_key = x.last_key /\ z.mixed = x.mixed
      /\ z.delivered = x.delivered /\ z.dropped = v /\ z.written = x.written
  BY <1>3 DEF WorkerState
<1>6. y = AckMessages(z, z.batch_size)
  BY <1>1, <1>3, <1>5 DEF DropBatch
<1>7. y \in WorkerState /\ Acked(z, y) /\ y.written = z.written /\ y.dropped = z.dropped
  BY <1>4, <1>5, <1>6, AckType
<1> QED BY <1>1, <1>5, <1>7 DEF Acked, SameRequest
\* The driver's results, other than that the message was queued.
Results == {"SUCCESS", "DROP", "ERROR", "NOT_CONNECTED", "RETRY"}

\* The batch is rewound and the worker suspended.
LEMMA RewindAndSuspendType ==
  ASSUME NEW x \in WorkerState, x.batch_size = x.taken,
         NEW y, y = DisconnectAndSuspend(RewindBatch(x))
  PROVE  y \in WorkerState /\ Rewound(x, y)
<1>1. PICK z : z = RewindBatch(x)
  OBVIOUS
<1>2. z \in WorkerState /\ Rewound(x, z)
  BY <1>1, RewindType
<1>3. y \in WorkerState /\ SameBatch(z, y)
  BY <1>1, <1>2, DisconnectType
<1> QED BY <1>2, <1>3 DEF Rewound, SameRequest, SameBatch

\* _process_result_error()
LEMMA ErrorType ==
  ASSUME NEW x \in WorkerState, x.taken <= Len(x.stored), x.batch_size = x.taken,
         NEW y, y = ProcessResultError(x)
  PROVE  /\ y \in WorkerState
         /\ \/ /\ Acked(x, y) /\ y.written = x.written
               /\ y.dropped = x.dropped \cup Range(Backlog(x))
            \/ Rewound(x, y)
<1>0. PICK n \in Nat : n = x.retries_on_error_counter + 1
  BY DEF WorkerState
<1>1. PICK z : z = [x EXCEPT !.retries_on_error_counter = n]
  BY Zenon
<1>2. z \in WorkerState /\ SameBatch(x, z)
  BY Zenon, <1>1 DEF WorkerState, SameBatch
<1>3. Backlog(z) = Backlog(x)
  BY <1>2 DEF Backlog, SameBatch
<1>4. y = DropBatch(z) \/ y = DisconnectAndSuspend(RewindBatch(z))
  BY <1>0, <1>1 DEF ProcessResultError
<1>5. z.taken <= Len(z.stored) /\ z.batch_size = z.taken
  BY <1>2 DEF SameBatch
<1>6. CASE y = DropBatch(z)
  <2>1. /\ y \in WorkerState /\ Acked(z, y)
        /\ y.written = z.written /\ y.dropped = z.dropped \cup Range(Backlog(z))
    BY <1>2, <1>5, <1>6, DropType
  <2> QED BY <1>2, <1>3, <2>1 DEF Acked, SameRequest, SameBatch
<1>7. CASE y = DisconnectAndSuspend(RewindBatch(z))
  <2>1. y \in WorkerState /\ Rewound(z, y)
    BY <1>2, <1>5, <1>7, RewindAndSuspendType
  <2> QED BY <1>2, <2>1 DEF Rewound, SameRequest, SameBatch
<1> QED BY <1>4, <1>6, <1>7

\* _process_result_not_connected()
LEMMA NotConnectedType ==
  ASSUME NEW x \in WorkerState, x.batch_size = x.taken,
         NEW y, y = ProcessResultNotConnected(x)
  PROVE  y \in WorkerState /\ Rewound(x, y)
<1>1. PICK n \in Nat : n = 0
  OBVIOUS
<1>2. PICK z : z = [x EXCEPT !.retries_counter = n]
  BY Zenon
<1>3. z \in WorkerState /\ SameBatch(x, z)
  BY Zenon, <1>2 DEF WorkerState, SameBatch
<1>4. y = DisconnectAndSuspend(RewindBatch(z))
  BY <1>1, <1>2 DEF ProcessResultNotConnected
<1>5. z.batch_size = z.taken
  BY <1>3 DEF SameBatch
<1>6. y \in WorkerState /\ Rewound(z, y)
  BY <1>3, <1>4, <1>5, RewindAndSuspendType
<1> QED BY <1>3, <1>6 DEF Rewound, SameRequest, SameBatch

\* _process_result_retry()
LEMMA RetryType ==
  ASSUME NEW x \in WorkerState, x.batch_size = x.taken, NEW y, y = ProcessResultRetry(x)
  PROVE  y \in WorkerState /\ Rewound(x, y)
<1>0. PICK n \in Nat : n = x.retries_counter + 1
  BY DEF WorkerState
<1>1. PICK z : z = [x EXCEPT !.retries_counter = n]
  BY Zenon
<1>2. z \in WorkerState /\ SameBatch(x, z)
  BY Zenon, <1>1 DEF WorkerState, SameBatch
<1>3. y = ProcessResultNotConnected(z) \/ y = RewindBatch(z)
  BY <1>0, <1>1 DEF ProcessResultRetry
<1>4. z.batch_size = z.taken
  BY <1>2 DEF SameBatch
<1>5. y \in WorkerState /\ Rewound(z, y)
  BY <1>2, <1>3, <1>4, NotConnectedType, RewindType
<1> QED BY <1>2, <1>5 DEF Rewound, SameRequest, SameBatch

\* _process_result(): the batch is accepted, dropped or rewound as a whole, and
\* accepted only when the driver reports success.
LEMMA ResultType ==
  ASSUME NEW x \in WorkerState, x.taken <= Len(x.stored), x.batch_size = x.taken,
         NEW result \in Results, NEW y, y = ProcessResult(x, result)
  PROVE  /\ y \in WorkerState
         /\ \/ /\ result = "SUCCESS"
               /\ Acked(x, y)
               /\ y.written = x.written \cup Range(Backlog(x)) /\ y.dropped = x.dropped
            \/ /\ result \in {"DROP", "ERROR"}
               /\ Acked(x, y)
               /\ y.written = x.written /\ y.dropped = x.dropped \cup Range(Backlog(x))
            \/ result # "SUCCESS" /\ Rewound(x, y)
<1>1. CASE result = "SUCCESS"
  <2>1. y = AcceptBatch(x)
    BY <1>1 DEF ProcessResult
  <2> QED BY <1>1, <2>1, AcceptType
<1>2. CASE result = "DROP"
  <2>1. PICK z : z = DropBatch(x)
    OBVIOUS
  <2>2. y = DisconnectAndSuspend(z)
    BY <1>2, <2>1 DEF ProcessResult
  <2>3. /\ z \in WorkerState /\ Acked(x, z)
        /\ z.written = x.written /\ z.dropped = x.dropped \cup Range(Backlog(x))
    BY <2>1, DropType
  <2>4. y \in WorkerState /\ SameBatch(z, y)
    BY <2>2, <2>3, DisconnectType
  <2> QED BY <1>2, <2>3, <2>4 DEF Acked, SameRequest, SameBatch
<1>3. CASE result = "ERROR"
  <2>1. y = ProcessResultError(x)
    BY <1>3 DEF ProcessResult
  <2> QED BY <1>3, <2>1, ErrorType
<1>4. CASE result = "NOT_CONNECTED"
  <2>1. y = ProcessResultNotConnected(x)
    BY <1>4 DEF ProcessResult
  <2> QED BY <1>4, <2>1, NotConnectedType
<1>5. CASE result = "RETRY"
  <2>1. y = ProcessResultRetry(x)
    BY <1>5 DEF ProcessResult
  <2> QED BY <1>5, <2>1, RetryType
<1> QED BY <1>1, <1>2, <1>3, <1>4, <1>5 DEF Results
-----------------------------------------------------------------------------
(* What the results leave of the queue.                                    *)

\* Removing the backlog keeps the order of the rest; what was removed is
\* accounted for.
LEMMA AckedKept ==
  ASSUME NEW p \in Nat, NEW x, NEW y \in WorkerState, Kept(x, p), Acked(x, y),
         x.written \cup x.dropped \cup Range(Backlog(x)) \subseteq y.written \cup y.dropped,
         y.written \subseteq y.delivered
  PROVE  /\ Kept(y, p) /\ Waiting(y) = Waiting(x)
         /\ Waiting(x) > 0 => NextKey(y) = NextKey(x)
         /\ x.taken = 0 => y.stored = x.stored
<1>1. /\ x \in WorkerState /\ x.stored \in Seq(Messages) /\ x.taken \in 0 .. Len(x.stored)
      /\ x.batch_size = x.taken /\ Len(x.stored) \in Nat
  <2>1. x \in WorkerState /\ x.taken <= Len(x.stored) /\ x.batch_size = x.taken
    BY DEF Kept, Accounted
  <2>2. x.stored \in Seq(Messages) /\ x.taken \in Nat
    BY <2>1 DEF WorkerState
  <2>3. Len(x.stored) \in Nat
    BY <2>2
  <2> QED BY <2>1, <2>2, <2>3
<1>2. /\ y.stored \in Seq(Messages) /\ Len(y.stored) = Len(x.stored) - x.taken
      /\ \A i \in 1 .. Len(y.stored) : y.stored[i] = x.stored[x.taken + i]
  <2>1. y.stored = SubSeq(x.stored, x.taken + 1, Len(x.stored))
    BY DEF Acked
  <2>2. PICK s \in Seq(Messages), t \in Seq(Messages) : s = x.stored /\ t = y.stored
    BY <1>1 DEF WorkerState
  <2>3. PICK n \in 0 .. Len(s) : n = x.taken
    BY <1>1, <2>2
  <2>4. t = SubSeq(s, n + 1, Len(s))
    BY <2>1, <2>2, <2>3
  <2>5. t \in Seq(Messages) /\ Len(t) = Len(s) - n /\ \A i \in 1 .. Len(t) : t[i] = s[n + i]
    BY <2>4, TailOfQueue
  <2> QED BY <2>2, <2>3, <2>5
<1>3. y.taken = 0 /\ y.batch_size = 0 /\ y.mixed = x.mixed
  BY DEF Acked, SameRequest
<1>4. Accounted(y)
  BY <1>2, <1>3 DEF Accounted, Kept
<1>5. /\ Len(x.stored) <= p /\ p <= Len(KeyOf)
      /\ \A i \in 1 .. Len(x.stored) : x.stored[i] = p - Len(x.stored) + i
      /\ 1 .. (p - Len(x.stored)) \subseteq x.written \cup x.dropped
  BY Zenon DEF Kept, QueueKept
<1>6. \A i \in 1 .. Len(y.stored) : y.stored[i] = p - Len(y.stored) + i
  <2>1. ASSUME NEW i \in 1 .. Len(y.stored) PROVE y.stored[i] = p - Len(y.stored) + i
    <3>1. x.taken + i \in 1 .. Len(x.stored) /\ i \in Int
      BY <1>1, <1>2, <2>1
    <3>2. y.stored[i] = p - Len(x.stored) + (x.taken + i)
      BY Zenon, <1>2, <1>5, <2>1, <3>1
    <3> QED BY <1>1, <1>2, <3>1, <3>2
  <2> QED BY Zenon, <2>1
<1>7. ASSUME NEW m \in 1 .. (p - Len(y.stored)) PROVE m \in y.written \cup y.dropped
  <2>1. CASE m \in 1 .. (p - Len(x.stored))
    BY <1>5, <2>1
  <2>2. CASE m \notin 1 .. (p - Len(x.stored))
    <3>1. PICK i \in 1 .. x.taken : m = p - Len(x.stored) + i
      <4>1. m - (p - Len(x.stored)) \in 1 .. x.taken
        BY SMTT(60), <1>1, <1>2, <1>5, <2>2
      <4> QED BY <1>1, <1>5, <4>1
    <3>2. x.stored[i] = m
      <4>1. i \in 1 .. Len(x.stored)
        BY <1>1
      <4> QED BY Zenon, <1>5, <3>1, <4>1
    <3>3. m \in Range(Backlog(x))
      BY <1>1, <3>2, BacklogType
    <3> QED BY <3>3
  <2> QED BY <2>1, <2>2
<1>8. QueueKept(y, p)
  BY <1>1, <1>2, <1>5, <1>6, <1>7 DEF QueueKept
<1>9. Waiting(y) = Waiting(x) /\ (Waiting(x) > 0 => NextKey(y) = NextKey(x))
  BY <1>1, <1>2, <1>3 DEF Waiting, NextKey
<1>10. x.taken = 0 => y.stored = x.stored
  BY <1>1 DEF Acked
<1> QED BY <1>4, <1>8, <1>9, <1>10 DEF Kept

\* A rewind loses nothing.
LEMMA RewoundKept ==
  ASSUME NEW p \in Nat, NEW x, NEW y \in WorkerState, Kept(x, p), Rewound(x, y)
  PROVE  Kept(y, p)
<1>1. QueueKept(y, p)
  BY Zenon DEF Kept, QueueKept, Rewound
<1>2. Accounted(y)
  <2>1. Len(y.stored) \in Nat
    BY DEF WorkerState
  <2> QED BY <2>1 DEF Kept, Accounted, Rewound, SameRequest
<1> QED BY <1>1, <1>2 DEF Kept

\* What a result leaves behind.
Settled(x, y, result) ==
    /\ y.taken = 0 /\ y.body = x.body /\ y.last_key = x.last_key
    /\ y.stored = x.stored \/ result \in {"SUCCESS", "DROP", "ERROR"}
    /\ x.taken = 0 => y.stored = x.stored
    /\ result = "SUCCESS" =>
          /\ Waiting(y) = Waiting(x)
          /\ Waiting(x) > 0 => NextKey(y) = NextKey(x)

\* _process_result() loses no message, and tells the sources that one was
\* written only if it was delivered.
LEMMA ResultKept ==
  ASSUME NEW p \in Nat, NEW x, Kept(x, p), NEW result \in Results,
         result = "SUCCESS" => Range(Backlog(x)) \subseteq x.delivered,
         NEW y, y = ProcessResult(x, result)
  PROVE  Kept(y, p) /\ Settled(x, y, result)
<1>1. x \in WorkerState /\ x.taken <= Len(x.stored) /\ x.batch_size = x.taken
  BY DEF Kept, Accounted
<1>2. /\ y \in WorkerState
      /\ \/ /\ result = "SUCCESS"
            /\ Acked(x, y)
            /\ y.written = x.written \cup Range(Backlog(x)) /\ y.dropped = x.dropped
         \/ /\ result \in {"DROP", "ERROR"}
            /\ Acked(x, y)
            /\ y.written = x.written /\ y.dropped = x.dropped \cup Range(Backlog(x))
         \/ result # "SUCCESS" /\ Rewound(x, y)
  BY <1>1, ResultType
<1>3. CASE result \in {"SUCCESS", "DROP", "ERROR"} /\ Acked(x, y)
                /\ x.written \cup x.dropped \cup Range(Backlog(x)) = y.written \cup y.dropped
                /\ (result = "SUCCESS" => y.written = x.written \cup Range(Backlog(x)))
                /\ (result # "SUCCESS" => y.written = x.written)
  <2>1. y.delivered = x.delivered /\ x.written \subseteq x.delivered
    BY <1>3 DEF Acked, SameRequest, Kept, Accounted
  <2>2. y.written \subseteq y.delivered
    BY <1>3, <2>1
  <2>3. /\ Kept(y, p) /\ Waiting(y) = Waiting(x)
        /\ Waiting(x) > 0 => NextKey(y) = NextKey(x)
        /\ x.taken = 0 => y.stored = x.stored
    BY <1>2, <1>3, <2>2, AckedKept
  <2> QED BY <1>3, <2>3 DEF Settled, Acked, SameRequest
<1>4. CASE result # "SUCCESS" /\ Rewound(x, y)
  <2>1. Kept(y, p)
    BY <1>2, <1>4, RewoundKept
  <2> QED BY <1>4, <2>1 DEF Settled, Rewound, SameRequest
<1> QED BY <1>2, <1>3, <1>4
-----------------------------------------------------------------------------
(* The driver.                                                             *)

\* What a request that has been sent leaves of the worker.
LEMMA SentType ==
  ASSUME NEW x \in WorkerState, RequestHasOneKey(x), FlushOnKeyChange => ~x.mixed,
         NEW y, y = Sent(x)
  PROVE  /\ y \in WorkerState /\ (FlushOnKeyChange => ~y.mixed) /\ y.body = <<>>
         /\ y.stored = x.stored /\ y.taken = x.taken /\ y.batch_size = x.batch_size
         /\ y.last_key = x.last_key /\ y.written = x.written /\ y.dropped = x.dropped
         /\ y.delivered = x.delivered /\ y.faults = x.faults
<1>0. PICK e \in Seq(Messages) : e = <<>>
  <2>1. << >> \in Seq(Messages)
    OBVIOUS
  <2> QED BY Zenon, <2>1
<1>1. PICK b \in BOOLEAN :
         b = (x.mixed \/ \E i, j \in DOMAIN x.body : KeyOf[x.body[i]] # KeyOf[x.body[j]])
  BY Zenon
<1>2. y = [x EXCEPT !.body = e, !.mixed = b]
  BY <1>0, <1>1 DEF Sent
<1>3. x.body \in Seq(Messages) /\ DOMAIN x.body = 1 .. Len(x.body)
  BY DEF WorkerState
<1>4. FlushOnKeyChange => ~b
  BY Zenon, <1>1, <1>3 DEF RequestHasOneKey
<1>5. y \in WorkerState
  BY ZenonT(60), <1>2 DEF WorkerState
<1> QED BY Zenon, <1>0, <1>2, <1>4, <1>5 DEF WorkerState

\* What a flush may do: the queue and the batch are as they were; on success the
\* backlog has been delivered; the request is empty, or it is kept.
FlushOf(x, mode, o) ==
    /\ o.result \in Results
    /\ o.w \in WorkerState
    /\ o.w.stored = x.stored /\ o.w.taken = x.taken /\ o.w.batch_size = x.batch_size
    /\ o.w.last_key = x.last_key /\ o.w.written = x.written /\ o.w.dropped = x.dropped
    /\ x.delivered \subseteq o.w.delivered
    /\ FlushOnKeyChange => ~o.w.mixed
    /\ o.result = "SUCCESS" => Range(Backlog(x)) \subseteq o.w.delivered
    /\ \/ o.w.body = <<>>
       \/ /\ o.w.body = x.body
          /\ \/ x.taken = 0
             \/ o.result \in {"NOT_CONNECTED", "RETRY"} /\ (SlotFails \/ mode = "EXPEDITE")

\* The driver's flush() as the http() driver implements it.
LEMMA DriverFlushType ==
  ASSUME NEW p \in Nat, NEW x, Kept(x, p), RequestHasOneKey(x), RequestHoldsBacklog(x),
         NEW mode \in {"NORMAL", "EXPEDITE"}, NEW o \in DriverFlush(x, mode)
  PROVE  FlushOf(x, mode, o)
<1>1. /\ x \in WorkerState /\ x.taken <= Len(x.stored) /\ x.batch_size = x.taken
      /\ (FlushOnKeyChange => ~x.mixed)
  BY DEF Kept, Accounted
<1>2. Range(Backlog(x)) \subseteq Range(x.body)
  <2>1. Range(Backlog(x)) = {x.stored[i] : i \in 1 .. x.taken}
    BY <1>1, BacklogType
  <2>2. Range(x.body) = {x.body[j] : j \in 1 .. Len(x.body)}
    BY <1>1 DEF WorkerState, Range
  <2> QED BY <2>1, <2>2 DEF RequestHoldsBacklog
<1>3. PICK s : s = Sent(x)
  OBVIOUS
<1>4. /\ s \in WorkerState /\ (FlushOnKeyChange => ~s.mixed) /\ s.body = <<>>
      /\ s.stored = x.stored /\ s.taken = x.taken /\ s.batch_size = x.batch_size
      /\ s.last_key = x.last_key /\ s.written = x.written /\ s.dropped = x.dropped
      /\ s.delivered = x.delivered /\ s.faults = x.faults
  BY <1>1, <1>3, SentType
<1>5. CASE x.batch_size = 0 /\ o = Outcome(x, "SUCCESS")
  <2>1. Range(Backlog(x)) = {}
    <3>1. Range(Backlog(x)) = {x.stored[i] : i \in 1 .. x.taken}
      BY <1>1, BacklogType
    <3>2. 1 .. x.taken = {}
      BY <1>1, <1>5
    <3> QED BY <3>1, <3>2
  <2> QED BY Zenon, <1>1, <1>5, <2>1 DEF FlushOf, Outcome, Results
<1>6. CASE mode = "EXPEDITE" /\ o = Outcome(x, "RETRY")
  BY <1>1, <1>6 DEF FlushOf, Outcome, Results
<1>7. CASE SlotFails /\ o = Outcome([x EXCEPT !.faults = @ + 1], "NOT_CONNECTED")
  <2>1. PICK n \in Nat : n = x.faults + 1
    BY <1>1 DEF WorkerState
  <2>2. PICK z : z = [x EXCEPT !.faults = n]
    BY Zenon
  <2>3. z \in WorkerState /\ SameBatch(x, z)
    BY Zenon, <1>1, <2>2 DEF WorkerState, SameBatch
  <2>4. o = Outcome(z, "NOT_CONNECTED")
    BY <1>7, <2>1, <2>2
  <2> QED BY <1>1, <1>7, <2>3, <2>4 DEF FlushOf, Outcome, Results, SameBatch
<1>8. ASSUME NEW result \in {"NOT_CONNECTED", "ERROR", "DROP", "RETRY"},
             o = Outcome([s EXCEPT !.faults = @ + 1], result)
      PROVE  FlushOf(x, mode, o)
  <2>1. PICK n \in Nat : n = s.faults + 1
    BY <1>4 DEF WorkerState
  <2>2. PICK z : z = [s EXCEPT !.faults = n]
    BY Zenon
  <2>3. z \in WorkerState /\ SameBatch(s, z)
    BY Zenon, <1>4, <2>2 DEF WorkerState, SameBatch
  <2>4. o = Outcome(z, result)
    BY <1>8, <2>1, <2>2
  <2> QED BY <1>4, <1>8, <2>3, <2>4 DEF FlushOf, Outcome, Results, SameBatch
<1>9. CASE o = Outcome([s EXCEPT !.delivered = @ \cup Range(x.body)], "SUCCESS")
  <2>0. Range(x.body) \subseteq Messages /\ s.delivered \subseteq Messages
    <3>1. x.body \in Seq(Messages) /\ s.delivered \subseteq Messages
      BY <1>1, <1>4 DEF WorkerState
    <3> QED BY <3>1 DEF Range
  <2>1. PICK v \in SUBSET Messages : v = s.delivered \cup Range(x.body)
    BY Zenon, <2>0
  <2>2. PICK z : z = [s EXCEPT !.delivered = v]
    BY Zenon
  <2>3. /\ z \in WorkerState
        /\ z.stored = s.stored /\ z.taken = s.taken /\ z.batch_size = s.batch_size
        /\ z.body = s.body /\ z.last_key = s.last_key /\ z.mixed = s.mixed
        /\ z.delivered = v /\ z.written = s.written /\ z.dropped = s.dropped
    BY Zenon, <1>4, <2>2 DEF WorkerState
  <2>4. o = Outcome(z, "SUCCESS")
    BY <1>9, <2>1, <2>2
  <2> QED BY <1>2, <1>4, <2>1, <2>3, <2>4 DEF FlushOf, Outcome, Results
<1> QED BY <1>3, <1>5, <1>6, <1>7, <1>8, <1>9 DEF DriverFlush, FailedHeaders, FailedRequests

\* log_threaded_dest_worker_flush() also stores the time of the flush.
LEMMA FlushType ==
  ASSUME NEW p \in Nat, NEW x, Kept(x, p), RequestHasOneKey(x), RequestHoldsBacklog(x),
         NEW mode \in {"NORMAL", "EXPEDITE"}, NEW o \in WorkerFlush(x, mode)
  PROVE  FlushOf(x, mode, o)
<1>1. PICK q \in DriverFlush(x, mode) : o = Outcome([q.w EXCEPT !.due = @ \ {"batch"}], q.result)
  BY Zenon DEF WorkerFlush
<1>2. FlushOf(x, mode, q)
  BY DriverFlushType
<1>3. PICK d \in SUBSET {"batch", "idle", "token"} : d = q.w.due \ {"batch"}
  BY Zenon, <1>2 DEF FlushOf, WorkerState
<1>4. PICK z : z = [q.w EXCEPT !.due = d]
  BY Zenon
<1>5. z \in WorkerState /\ SameBatch(q.w, z)
  BY Zenon, <1>2, <1>4 DEF FlushOf, WorkerState, SameBatch
<1>6. o.w = z /\ o.result = q.result
  BY <1>1, <1>3, <1>4 DEF Outcome
<1> QED BY <1>2, <1>5, <1>6 DEF FlushOf, SameBatch
\* A flush leaves the queue alone.
LEMMA FlushKept ==
  ASSUME NEW p \in Nat, NEW x, Kept(x, p), NEW mode, NEW o, FlushOf(x, mode, o)
  PROVE  /\ Kept(o.w, p) /\ Backlog(o.w) = Backlog(x)
         /\ Waiting(o.w) = Waiting(x) /\ NextKey(o.w) = NextKey(x)
<1> USE DEF FlushOf
<1>1. QueueKept(o.w, p)
  BY Zenon DEF Kept, QueueKept
<1>2. Accounted(o.w)
  BY DEF Kept, Accounted
<1>3. Backlog(o.w) = Backlog(x) /\ Waiting(o.w) = Waiting(x) /\ NextKey(o.w) = NextKey(x)
  BY DEF Backlog, Waiting, NextKey
<1> QED BY <1>1, <1>2, <1>3 DEF Kept

\* A flush whose result is processed leaves no batch, and a request that fits it.
LEMMA FlushProcessed ==
  ASSUME NEW p \in Nat, NEW x, Kept(x, p), RequestHasOneKey(x), RequestHoldsBacklog(x),
         NEW o, FlushOf(x, "NORMAL", o), NEW y, y = ProcessResult(o.w, o.result)
  PROVE  /\ Kept(y, p) /\ Ready(y) /\ y.taken = 0 /\ y.last_key = x.last_key
         /\ o.result = "SUCCESS" =>
              /\ Waiting(y) = Waiting(x)
              /\ Waiting(x) > 0 => NextKey(y) = NextKey(x)
<1>1. /\ Kept(o.w, p) /\ Backlog(o.w) = Backlog(x)
      /\ Waiting(o.w) = Waiting(x) /\ NextKey(o.w) = NextKey(x)
  BY FlushKept
<1>2. o.result \in Results /\ (o.result = "SUCCESS" => Range(Backlog(o.w)) \subseteq o.w.delivered)
  BY <1>1 DEF FlushOf
<1>3. Kept(y, p) /\ Settled(o.w, y, o.result)
  BY <1>1, <1>2, ResultKept
<1>4. y.taken = 0 /\ y.body = o.w.body /\ y.last_key = x.last_key /\ y \in WorkerState
  BY <1>3 DEF Settled, FlushOf, Kept
<1>5. \/ y.body = <<>>
      \/ y.body = x.body /\ y.stored = x.stored /\ (SlotFails \/ x.taken = 0)
  <2>1. CASE o.w.body = <<>>
    BY <1>4, <2>1
  <2>2. CASE o.w.body = x.body /\ x.taken = 0
    <3>1. y.stored = x.stored
      BY <1>3, <2>2 DEF Settled, FlushOf
    <3> QED BY <1>4, <2>2, <3>1
  <2>3. CASE o.w.body = x.body /\ o.result \in {"NOT_CONNECTED", "RETRY"} /\ SlotFails
    <3>1. y.stored = x.stored
      BY <1>3, <2>3 DEF Settled, FlushOf
    <3> QED BY <1>4, <2>3, <3>1
  <2> QED BY <2>1, <2>2, <2>3 DEF FlushOf
<1>6. RequestHasOneKey(y)
  <2>1. CASE y.body = <<>>
    BY <2>1 DEF RequestHasOneKey
  <2>2. CASE y.body = x.body /\ y.stored = x.stored
    BY <2>2 DEF RequestHasOneKey
  <2> QED BY <1>5, <2>1, <2>2
<1>7. Backlog(y) = <<>>
  <2>1. Backlog(y) \in Seq(Messages) /\ Len(Backlog(y)) = 0
    BY <1>3, <1>4, BacklogType DEF Kept, Accounted
  <2> QED BY <2>1
<1>8. RequestHoldsBacklog(y)
  <2>1. ~SlotFails => y.body = <<>>
    <3>1. ASSUME ~SlotFails, y.body = x.body, x.taken = 0 PROVE y.body = <<>>
      <4>1. Backlog(x) \in Seq(Messages) /\ Len(Backlog(x)) = 0
        BY <3>1, BacklogType DEF Kept, Accounted
      <4>2. x.body = Backlog(x)
        BY <3>1 DEF RequestHoldsBacklog
      <4> QED BY <3>1, <4>1, <4>2
    <3> QED BY <1>5, <3>1
  <2> QED BY <1>4, <1>7, <2>1 DEF RequestHoldsBacklog
<1>9. KeyIsRemembered(y)
  BY <1>4 DEF KeyIsRemembered
<1> QED BY <1>1, <1>3, <1>4, <1>6, <1>8, <1>9 DEF Ready, Settled

\* _perform_flush(): nothing is done while the worker is suspended.
LEMMA PerformFlushKept ==
  ASSUME NEW p \in Nat, NEW x, Kept(x, p), RequestHasOneKey(x), RequestHoldsBacklog(x),
         x.suspended => KeyIsRemembered(x), NEW o \in PerformFlush(x)
  PROVE  /\ Kept(o.w, p) /\ Ready(o.w)
         /\ ~x.suspended /\ o.result = "SUCCESS" =>
              /\ o.w.taken = 0 /\ o.w.last_key = x.last_key /\ Waiting(o.w) = Waiting(x)
              /\ Waiting(x) > 0 => NextKey(o.w) = NextKey(x)
<1>1. CASE x.suspended
  BY <1>1 DEF PerformFlush, Outcome, Ready
<1>2. CASE ~x.suspended
  <2>1. PICK q \in WorkerFlush(x, "NORMAL") : o = Outcome(ProcessResult(q.w, q.result), q.result)
    BY <1>2 DEF PerformFlush
  <2>2. PICK mode \in {"NORMAL", "EXPEDITE"} : mode = "NORMAL"
    OBVIOUS
  <2>3. FlushOf(x, mode, q)
    BY <2>1, <2>2, FlushType
  <2>4. PICK y : y = ProcessResult(q.w, q.result)
    OBVIOUS
  <2>5. /\ Kept(y, p) /\ Ready(y) /\ y.taken = 0 /\ y.last_key = x.last_key
        /\ q.result = "SUCCESS" =>
             /\ Waiting(y) = Waiting(x)
             /\ Waiting(x) > 0 => NextKey(y) = NextKey(x)
    BY <2>2, <2>3, <2>4, FlushProcessed
  <2>6. o.w = y /\ o.result = q.result
    BY <2>1, <2>4 DEF Outcome
  <2> QED BY <2>5, <2>6
<1> QED BY <1>1, <1>2

-----------------------------------------------------------------------------
(* The insert loop.                                                        *)

\* A step that touches neither the queue nor the request.
LEMMA SameBatchKept ==
  ASSUME NEW p \in Nat, NEW x, NEW y \in WorkerState, SameBatch(x, y)
  PROVE  /\ Kept(x, p) => Kept(y, p)
         /\ Ready(x) => Ready(y)
<1> USE DEF SameBatch
<1>1. Kept(x, p) => Kept(y, p)
  BY Zenon DEF Kept, QueueKept, Accounted
<1>2. Ready(x) => Ready(y)
  BY DEF Ready, RequestHasOneKey, RequestHoldsBacklog, KeyIsRemembered, Backlog
<1> QED BY <1>1, <1>2

\* The worker may take the next message: the batch it joins has its key.
Fits(x) ==
    /\ Waiting(x) > 0
    /\ FlushOnKeyChange => x.last_key = NextKey(x)

\* The flush before a message with another key.
LEMMA KeyChangeKept ==
  ASSUME NEW p \in Nat, NEW x, Kept(x, p), Ready(x), ~x.suspended, Waiting(x) > 0,
         NEW o \in FlushIfKeyChanges(x)
  PROVE  /\ Kept(o.w, p) /\ Ready(o.w)
         /\ o.result = "SUCCESS" => Fits(o.w)
<1>1. /\ x \in WorkerState /\ x.stored \in Seq(Messages) /\ x.taken \in Nat
      /\ x.taken <= Len(x.stored) /\ x.batch_size = x.taken
  BY DEF Kept, Accounted, WorkerState
<1>2. CASE ~FlushOnKeyChange
  BY <1>2 DEF FlushIfKeyChanges, Outcome, Fits
<1>3. CASE FlushOnKeyChange
  <2>1. PICK k \in Nat : k = NextKey(x)
    <3>1. x.taken + 1 \in 1 .. Len(x.stored)
      BY <1>1 DEF Waiting
    <3>2. x.stored[x.taken + 1] \in DOMAIN KeyOf
      BY <1>1, <3>1 DEF Messages
    <3> QED BY <3>2, ThreadedDestAssumption DEF NextKey
  <2>2. PICK y : y = [x EXCEPT !.last_key = k]
    BY Zenon
  <2>3. /\ y \in WorkerState
        /\ y.stored = x.stored /\ y.taken = x.taken /\ y.batch_size = x.batch_size
        /\ y.body = x.body /\ y.last_key = k /\ y.mixed = x.mixed
        /\ y.delivered = x.delivered /\ y.written = x.written /\ y.dropped = x.dropped
        /\ y.suspended = x.suspended
    BY Zenon, <1>1, <2>2 DEF WorkerState
  <2>4. Kept(y, p)
    BY Zenon, <2>3 DEF Kept, QueueKept, Accounted
  <2>5. RequestHasOneKey(y) /\ RequestHoldsBacklog(y)
    BY <2>3 DEF Ready, RequestHasOneKey, RequestHoldsBacklog, Backlog
  <2>6. Waiting(y) = Waiting(x) /\ NextKey(y) = NextKey(x)
    BY <2>3 DEF Waiting, NextKey
  <2>7. CASE x.batch_size # 0 /\ x.last_key # k
    <3>1. o \in PerformFlush(y)
      BY <1>3, <2>1, <2>2, <2>7 DEF FlushIfKeyChanges
    <3>2. /\ Kept(o.w, p) /\ Ready(o.w)
          /\ ~y.suspended /\ o.result = "SUCCESS" =>
               /\ o.w.taken = 0 /\ o.w.last_key = y.last_key /\ Waiting(o.w) = Waiting(y)
               /\ Waiting(y) > 0 => NextKey(o.w) = NextKey(y)
      BY <2>3, <2>4, <2>5, <3>1, PerformFlushKept
    <3> QED BY <2>1, <2>3, <2>6, <3>2 DEF Fits
  <2>8. CASE ~(x.batch_size # 0 /\ x.last_key # k)
    <3>1. o = Outcome(y, "SUCCESS")
      BY <1>3, <2>1, <2>2, <2>8 DEF FlushIfKeyChanges
    <3>2. o.w = y
      BY <3>1 DEF Outcome
    <3>3. KeyIsRemembered(y)
      <4>1. x.taken > 0 => x.last_key = k
        BY <1>1, <2>8
      <4> QED BY <2>3, <4>1 DEF Ready, KeyIsRemembered
    <3> QED BY <2>1, <2>3, <2>4, <2>5, <2>6, <3>2, <3>3 DEF Fits, Ready
  <2> QED BY <2>7, <2>8
<1> QED BY <1>2, <1>3
\* The worker after it has taken the next message and the driver has added it
\* to its request.
Added(x) == [PopHead(x) EXCEPT !.body = Append(@, x.stored[x.taken + 1])]

\* A message that fits joins the batch and the request.
LEMMA AddedReady ==
  ASSUME NEW p \in Nat, NEW x, Kept(x, p), Ready(x), Fits(x), NEW y, y = Added(x)
  PROVE  Kept(y, p) /\ Ready(y)
<1>1. /\ x \in WorkerState /\ x.stored \in Seq(Messages) /\ x.taken \in Nat
      /\ x.taken < Len(x.stored) /\ x.batch_size = x.taken /\ x.body \in Seq(Messages)
      /\ Len(x.stored) \in Nat /\ Len(x.body) \in Nat
  <2>1. /\ x \in WorkerState /\ x.batch_size = x.taken
    BY DEF Kept, Accounted
  <2>2. x.stored \in Seq(Messages) /\ x.taken \in Nat /\ x.body \in Seq(Messages)
    BY <2>1 DEF WorkerState
  <2> QED BY <2>1, <2>2 DEF Fits, Waiting
<1>2. PICK m \in Messages : m = x.stored[x.taken + 1]
  <2>1. x.taken + 1 \in 1 .. Len(x.stored)
    BY <1>1
  <2> QED BY <1>1, <2>1
<1>3. PICK n \in Nat, k \in Nat : n = x.taken + 1 /\ k = IF x.buckets > 0 THEN x.buckets - 1 ELSE x.buckets
  BY <1>1 DEF WorkerState
<1>4. PICK b \in Seq(Messages) : b = Append(x.body, m)
  <2>1. Append(x.body, m) \in Seq(Messages)
    BY <1>1
  <2> QED BY Zenon, <2>1
<1>5. PICK z : z = [x EXCEPT !.taken = n, !.batch_size = n, !.buckets = k]
  OBVIOUS
<1>6. z = PopHead(x) /\ z \in WorkerState /\ z.body = x.body
  <2>1. z = PopHead(x)
    BY <1>1, <1>3, <1>5 DEF PopHead
  <2>2. z \in WorkerState
    BY Zenon, <1>1, <1>5 DEF WorkerState
  <2>3. z.body = x.body
    BY <1>1, <1>5 DEF WorkerState
  <2> QED BY <2>1, <2>2, <2>3
<1>7. y = [z EXCEPT !.body = b]
  BY <1>2, <1>4, <1>6 DEF Added
<1>8. y \in WorkerState
  BY Zenon, <1>6, <1>7 DEF WorkerState
<1>9. /\ y.stored = x.stored /\ y.taken = n /\ y.batch_size = n
      /\ y.body = b /\ y.last_key = x.last_key /\ y.mixed = x.mixed
      /\ y.delivered = x.delivered /\ y.written = x.written /\ y.dropped = x.dropped
  <2>1. /\ z.stored = x.stored /\ z.taken = n /\ z.batch_size = n
        /\ z.last_key = x.last_key /\ z.mixed = x.mixed
        /\ z.delivered = x.delivered /\ z.written = x.written /\ z.dropped = x.dropped
    BY <1>1, <1>5 DEF WorkerState
  <2> QED BY <1>6, <1>7, <2>1 DEF WorkerState
<1>10. Kept(y, p)
  <2>1. QueueKept(y, p)
    BY Zenon, <1>9 DEF Kept, QueueKept
  <2>2. Accounted(y)
    BY <1>1, <1>3, <1>9 DEF Kept, Accounted
  <2> QED BY <1>8, <2>1, <2>2 DEF Kept
<1>11. /\ Len(b) = Len(x.body) + 1 /\ b[Len(x.body) + 1] = m
       /\ \A j \in 1 .. Len(x.body) : b[j] = x.body[j]
  BY <1>1, <1>4
<1>12. FlushOnKeyChange => x.last_key = KeyOf[m] /\ KeyOf[m] = KeyOf[x.stored[1]]
  <2>1. ASSUME FlushOnKeyChange PROVE x.last_key = KeyOf[m] /\ KeyOf[m] = KeyOf[x.stored[1]]
    <3>1. x.last_key = KeyOf[m]
      BY <1>2, <2>1 DEF Fits, NextKey
    <3>2. CASE x.taken = 0
      BY <1>2, <3>1, <3>2
    <3>3. CASE x.taken # 0
      <4>1. x.taken > 0
        BY <1>1, <3>3
      <4> QED BY <2>1, <3>1, <4>1 DEF Ready, KeyIsRemembered
    <3> QED BY <3>2, <3>3
  <2> QED BY <2>1
<1>13. RequestHasOneKey(y)
  <2>1. x.stored # <<>>
    BY <1>1
  <2>2. ASSUME FlushOnKeyChange, NEW j \in 1 .. Len(b) PROVE KeyOf[b[j]] = KeyOf[x.stored[1]]
    <3>1. CASE j = Len(x.body) + 1
      BY <1>11, <1>12, <2>2, <3>1
    <3>2. CASE j # Len(x.body) + 1
      <4>1. j \in 1 .. Len(x.body)
        BY <1>1, <1>11, <3>2
      <4> QED BY <1>11, <2>2, <4>1 DEF Ready, RequestHasOneKey
    <3> QED BY <3>1, <3>2
  <2> QED BY <1>9, <2>1, <2>2 DEF RequestHasOneKey
<1>14. RequestHoldsBacklog(y)
  <2>1. ASSUME NEW i \in 1 .. n PROVE \E j \in 1 .. Len(b) : b[j] = x.stored[i]
    <3>1. CASE i = n
      <4>1. Len(x.body) + 1 \in 1 .. Len(b)
        BY <1>1, <1>11
      <4> QED BY <1>2, <1>3, <1>11, <3>1, <4>1
    <3>2. CASE i # n
      <4>1. i \in 1 .. x.taken
        BY <1>1, <1>3, <3>2
      <4>2. PICK j \in 1 .. Len(x.body) : x.body[j] = x.stored[i]
        BY <4>1 DEF Ready, RequestHoldsBacklog
      <4>3. j \in 1 .. Len(b)
        BY <1>1, <1>11
      <4> QED BY <1>11, <4>2, <4>3
    <3> QED BY <3>1, <3>2
  <2>2. ASSUME ~SlotFails PROVE b = Backlog(y)
    <3>1. x.body = SubSeq(x.stored, 1, x.taken)
      BY <2>2 DEF Ready, RequestHoldsBacklog, Backlog
    <3>2. PICK s \in Seq(Messages) : s = x.stored
      BY <1>1
    <3>3. PICK t \in 0 .. Len(s) : t = x.taken
      BY <1>1, <3>2
    <3>4. Append(SubSeq(s, 1, t), s[t + 1]) = SubSeq(s, 1, t + 1)
      BY <1>1, <3>2, <3>3, HeadAppend
    <3> QED BY <1>2, <1>3, <1>4, <1>9, <3>1, <3>2, <3>3, <3>4 DEF Backlog
  <2> QED BY <1>9, <2>1, <2>2 DEF RequestHoldsBacklog
<1>15. KeyIsRemembered(y)
  BY <1>9, <1>12 DEF KeyIsRemembered
<1> QED BY <1>10, <1>13, <1>14, <1>15 DEF Ready

\* The insert of one message, with the flush of a request that has enough bytes
\* and of a batch that has enough lines.
LEMMA InsertKept ==
  ASSUME NEW p \in Nat, NEW x, Kept(x, p), Ready(x), Fits(x), NEW y \in InsertOne(x)
  PROVE  Kept(y, p) /\ Ready(y)
<1>1. PICK a : a = Added(x)
  OBVIOUS
<1>2. Kept(a, p) /\ Ready(a)
  BY <1>1, AddedReady
<1>3. PICK o \in DriverInsert(PopHead(x), x.stored[x.taken + 1]) :
         y \in FlushIfBatchFull(ProcessResult([o.w EXCEPT !.due = @ \ {"idle"}], o.result))
  BY Zenon DEF InsertOne
<1>4. o = Outcome(a, "QUEUED") \/ o \in WorkerFlush(a, "NORMAL")
  BY <1>1, <1>3 DEF DriverInsert, Added
<1>5. PICK z : z = ProcessResult([o.w EXCEPT !.due = @ \ {"idle"}], o.result)
  OBVIOUS
<1>6. Kept(z, p) /\ Ready(z)
  <2>1. CASE o = Outcome(a, "QUEUED")
    <3>1. o.w = a /\ o.result = "QUEUED" /\ a \in WorkerState
      BY <1>2, <2>1 DEF Outcome, Kept
    <3>2. PICK d \in SUBSET {"batch", "idle", "token"}, e \in BOOLEAN :
             d = a.due \ {"idle"} /\ e = TRUE
      BY Zenon, <3>1 DEF WorkerState
    <3>3. z = [[a EXCEPT !.due = d] EXCEPT !.enable_batching = e]
      BY <1>5, <3>1, <3>2 DEF ProcessResult
    <3>4. PICK b : b = [a EXCEPT !.due = d]
      BY Zenon
    <3>5. b \in WorkerState /\ SameBatch(a, b)
      BY Zenon, <3>1, <3>4 DEF WorkerState, SameBatch
    <3>6. z \in WorkerState /\ SameBatch(b, z)
      BY ZenonT(60), <3>3, <3>4, <3>5 DEF WorkerState, SameBatch
    <3> QED BY <1>2, <3>5, <3>6, SameBatchKept
  <2>2. CASE o \in WorkerFlush(a, "NORMAL")
    <3>1. PICK mode \in {"NORMAL", "EXPEDITE"} : mode = "NORMAL"
      OBVIOUS
    <3>2. FlushOf(a, mode, o)
      BY <1>2, <2>2, <3>1, FlushType DEF Ready
    <3>3. PICK d \in SUBSET {"batch", "idle", "token"} : d = o.w.due \ {"idle"}
      BY Zenon, <3>2 DEF FlushOf, WorkerState
    <3>4. PICK b : b = [o.w EXCEPT !.due = d]
      BY Zenon
    <3>5. b \in WorkerState /\ SameBatch(o.w, b)
      BY ZenonT(60), <3>2, <3>4 DEF FlushOf, WorkerState, SameBatch
    <3>6. PICK q : q = Outcome(b, o.result)
      OBVIOUS
    <3>7. q.w = b /\ q.result = o.result
      BY <3>6 DEF Outcome
    <3>8. FlushOf(a, mode, q)
      BY <3>2, <3>5, <3>7 DEF FlushOf, SameBatch
    <3>9. z = ProcessResult(q.w, q.result)
      BY <1>5, <3>3, <3>4, <3>7
    <3> QED BY <1>2, <3>1, <3>8, <3>9, FlushProcessed DEF Ready
  <2> QED BY <1>4, <2>1, <2>2
<1>7. CASE y = z
  BY <1>6, <1>7
<1>8. ASSUME NEW o2 \in PerformFlush(z), y = o2.w PROVE Kept(y, p) /\ Ready(y)
  BY SMTT(60), <1>6, <1>8, PerformFlushKept DEF Ready
<1> QED BY Zenon, <1>3, <1>5, <1>7, <1>8 DEF FlushIfBatchFull
\* The throttle's refill touches neither the queue nor the request.
LEMMA RefilledType ==
  ASSUME NEW x \in WorkerState, NEW y \in Refilled(x)
  PROVE  y \in WorkerState /\ SameBatch(x, y)
<1>1. CASE y = x
  BY <1>1 DEF SameBatch
<1>2. ASSUME NEW n \in Nat, y = [x EXCEPT !.due = @ \ {"token"}, !.buckets = n]
      PROVE  y \in WorkerState /\ SameBatch(x, y)
  <2>1. PICK d \in SUBSET {"batch", "idle", "token"} : d = x.due \ {"token"}
    BY Zenon DEF WorkerState
  <2>2. y = [x EXCEPT !.due = d, !.buckets = n]
    BY <1>2, <2>1
  <2>3. y \in WorkerState
    BY Zenon, <2>2 DEF WorkerState
  <2> QED BY Zenon, <2>2, <2>3 DEF WorkerState, SameBatch
<1>3. \A n \in (IF x.buckets = Throttle THEN {Throttle} ELSE x.buckets + 1 .. Throttle) : n \in Nat
  <2>1. x.buckets \in Nat
    BY DEF WorkerState
  <2> QED BY <2>1, ThreadedDestAssumption
<1> QED BY Zenon, <1>1, <1>2, <1>3 DEF Refilled

\* The flush at the end of _perform_work().
LEMMA FlushIfDueKept ==
  ASSUME NEW p \in Nat, NEW x, Kept(x, p), Ready(x), NEW y \in FlushIfDue(x)
  PROVE  Kept(y, p) /\ Ready(y)
<1>1. CASE y = x
  BY <1>1
<1>2. ASSUME NEW o \in PerformFlush(x), y = o.w PROVE Kept(y, p) /\ Ready(y)
  BY <1>2, PerformFlushKept DEF Ready
<1> QED BY <1>1, <1>2 DEF FlushIfDue

-----------------------------------------------------------------------------
(* WorkerInv is inductive.                                                 *)

\* Init
LEMMA WorkerInit == Init => WorkerInv
<1> SUFFICES ASSUME Init PROVE WorkerInv
  OBVIOUS
<1>1. PICK e \in Seq(Messages), z \in Nat, f \in BOOLEAN : e = <<>> /\ z = 0 /\ f = FALSE
  <2>1. << >> \in Seq(Messages)
    OBVIOUS
  <2> QED BY Zenon, <2>1
<1>2. w = [stored |-> e, taken |-> z, buckets |-> Throttle,
           connected |-> f, batch_size |-> z, rewound_batch_size |-> z,
           retries_on_error_counter |-> z, retries_counter |-> z,
           enable_batching |-> f, suspended |-> f,
           unreachable |-> f, last_key |-> z, body |-> e,
           due |-> {}, delivered |-> {}, written |-> {}, dropped |-> {},
           mixed |-> f, faults |-> z]
  BY ZenonT(60), <1>1 DEF Init
<1>3. w \in WorkerState
  BY <1>2, ThreadedDestAssumption DEF WorkerState
<1>4. /\ w.stored = <<>> /\ w.taken = 0 /\ w.batch_size = 0 /\ w.body = <<>>
      /\ w.written = {} /\ w.delivered = {} /\ ~w.mixed
  BY <1>1, <1>2
<1>5. pushed = 0 /\ pc = "main" /\ Len(KeyOf) \in Nat
  BY ThreadedDestAssumption DEF Init
<1>6. QueueKept(w, pushed) /\ Accounted(w)
  BY <1>4, <1>5 DEF QueueKept, Accounted
<1>7. Backlog(w) = <<>>
  <2>1. Backlog(w) \in Seq(Messages) /\ Len(Backlog(w)) = 0
    BY <1>3, <1>4, <1>6, BacklogType DEF Accounted
  <2> QED BY <2>1
<1>8. Ready(w)
  BY <1>4, <1>7 DEF Ready, RequestHasOneKey, RequestHoldsBacklog, KeyIsRemembered
<1> QED BY <1>3, <1>5, <1>6, <1>8 DEF WorkerInv, Kept, NoStaleCallback

\* A step that leaves the queue and the request alone.
LEMMA WorkerQuiet ==
  ASSUME WorkerInv, w' \in WorkerState, SameBatch(w, w'), pushed' = pushed,
         pc' \in {"main", "inserts", "break", "quit", "exited"},
         pc' # "exited" => pc # "exited", NoStaleCallback'
  PROVE  WorkerInv'
<1>1. pushed \in Nat /\ Kept(w, pushed) /\ (pc # "exited" => Ready(w))
  BY DEF WorkerInv
<1> QED BY <1>1, SameBatchKept DEF WorkerInv
\* Every step that serves messages: the insert loop and the end of it.
LEMMA WorkerServes ==
  ASSUME WorkerInv, NEW x, Kept(x, pushed), Ready(x), w' \in WorkerState, SameBatch(x, w'),
         pushed' = pushed, pc' \in {"main", "inserts", "break"}
  PROVE  WorkerInv'
<1>1. pushed \in Nat
  BY DEF WorkerInv
<1>2. Kept(w', pushed) /\ Ready(w')
  BY <1>1, SameBatchKept
<1> QED BY <1>1, <1>2 DEF WorkerInv, NoStaleCallback

\* One iteration of the insert loop.
LEMMA WorkerInsertMessage == ASSUME WorkerInv, InsertMessage PROVE WorkerInv'
<1>1. pushed \in Nat /\ pushed' = pushed /\ Kept(w, pushed) /\ Ready(w)
      /\ ~w.suspended /\ Waiting(w) > 0
  BY DEF WorkerInv, InsertMessage
<1>2. PICK o \in FlushIfKeyChanges(w) :
         IF o.result # "SUCCESS"
         THEN EndIteration(o.w)
         ELSE IF Throttle > 0 /\ o.w.buckets = 0
         THEN w' = o.w /\ pc' = "break"
         ELSE \E x \in InsertOne(o.w) : EndIteration(x)
  BY DEF InsertMessage
<1>3. /\ Kept(o.w, pushed) /\ Ready(o.w)
      /\ o.result = "SUCCESS" => Fits(o.w)
  BY <1>1, <1>2, KeyChangeKept
<1>4. ASSUME NEW x, Kept(x, pushed), Ready(x), EndIteration(x) PROVE WorkerInv'
  <2>1. x \in WorkerState
    BY <1>4 DEF Kept
  <2>2. PICK n \in Nat : n = IF x.rewound_batch_size > 0 THEN x.rewound_batch_size - 1 ELSE 0
    BY <2>1 DEF WorkerState
  <2>3. w' = [x EXCEPT !.rewound_batch_size = n]
    BY <1>4, <2>2 DEF EndIteration
  <2>4. w' \in WorkerState /\ SameBatch(x, w')
    BY Zenon, <2>1, <2>3 DEF WorkerState, SameBatch
  <2>5. pc' \in {"main", "inserts", "break"}
    BY <1>4 DEF EndIteration
  <2> QED BY <1>1, <1>4, <2>4, <2>5, WorkerServes
<1>5. CASE w' = o.w /\ pc' = "break"
  <2>1. w' \in WorkerState /\ SameBatch(o.w, w')
    BY <1>3, <1>5 DEF Kept, SameBatch
  <2> QED BY <1>1, <1>3, <1>5, <2>1, WorkerServes
<1>6. ASSUME o.result = "SUCCESS", NEW x \in InsertOne(o.w), EndIteration(x) PROVE WorkerInv'
  <2>1. Kept(x, pushed) /\ Ready(x)
    BY <1>1, <1>3, <1>6, InsertKept
  <2> QED BY <1>4, <1>6, <2>1
<1> QED BY <1>2, <1>3, <1>4, <1>5, <1>6

\* The end of the insert loop.
LEMMA WorkerEndInserts == ASSUME WorkerInv, EndInserts PROVE WorkerInv'
<1>1. /\ pushed \in Nat /\ pushed' = pushed /\ Kept(w, pushed) /\ Ready(w) /\ w \in WorkerState
      /\ pc' = "main"
  BY DEF WorkerInv, EndInserts, Kept
<1>2. PICK n \in Nat : n = 0
  OBVIOUS
<1>3. PICK z : z = [w EXCEPT !.rewound_batch_size = n]
  BY Zenon
<1>4. z \in WorkerState /\ SameBatch(w, z)
  BY Zenon, <1>1, <1>3 DEF WorkerState, SameBatch
<1>5. Kept(z, pushed) /\ Ready(z)
  BY <1>1, <1>4, SameBatchKept
<1>6. w' \in FlushIfDue(z)
  BY <1>2, <1>3 DEF EndInserts
<1>7. Kept(w', pushed) /\ Ready(w')
  BY <1>1, <1>5, <1>6, FlushIfDueKept
<1> QED BY <1>1, <1>7 DEF WorkerInv, NoStaleCallback

\* Connecting touches neither the queue nor the request.
LEMMA WorkerConnect == ASSUME WorkerInv, Connect PROVE WorkerInv'
<1>1. w \in WorkerState /\ pc = "main" /\ pc' = pc /\ pushed' = pushed
  BY SMTT(60) DEF WorkerInv, Kept, Connect, WorkIsDue
<1>2. PICK ok \in BOOLEAN, bad \in BOOLEAN, n \in Nat :
         /\ bad = ~ok
         /\ w' = [w EXCEPT !.connected = ok, !.suspended = bad, !.unreachable = bad, !.faults = n]
  <2>1. PICK ok \in BOOLEAN :
           w' = [w EXCEPT !.connected = ok, !.suspended = ~ok, !.unreachable = ~ok,
                          !.faults = IF ok THEN @ ELSE @ + 1]
    BY Zenon DEF Connect
  <2>2. w.faults \in Nat
    BY <1>1 DEF WorkerState
  <2>3. PICK n \in Nat : n = IF ok THEN w.faults ELSE w.faults + 1
    BY <2>2
  <2> QED BY ZenonT(60), <2>1, <2>3
<1>3. w' \in WorkerState
  BY ZenonT(60), <1>1, <1>2 DEF WorkerState
<1>4. SameBatch(w, w')
  BY <1>1, <1>2 DEF WorkerState, SameBatch
<1> QED BY <1>1, <1>3, <1>4, WorkerQuiet DEF NoStaleCallback

\* The worker that is no longer suspended and has refilled its throttle.
LEMMA WakingType ==
  ASSUME WorkerInv, pc = "main", NEW x \in Refilled([w EXCEPT !.suspended = FALSE])
  PROVE  x \in WorkerState /\ SameBatch(w, x) /\ Kept(x, pushed) /\ Ready(x)
<1>1. w \in WorkerState /\ pushed \in Nat /\ Kept(w, pushed) /\ Ready(w)
  BY DEF WorkerInv, Kept
<1>2. PICK f \in BOOLEAN : f = FALSE
  BY Zenon
<1>3. PICK z : z = [w EXCEPT !.suspended = f]
  BY Zenon
<1>4. z \in WorkerState /\ SameBatch(w, z)
  BY Zenon, <1>1, <1>3 DEF WorkerState, SameBatch
<1>5. x \in WorkerState /\ SameBatch(z, x)
  BY Zenon, <1>2, <1>3, <1>4, RefilledType
<1>6. SameBatch(w, x)
  BY <1>4, <1>5 DEF SameBatch
<1> QED BY <1>1, <1>5, <1>6, SameBatchKept

\* Work begins, or there is nothing to do.
LEMMA WorkerStart == ASSUME WorkerInv, StartInserts \/ Sleep PROVE WorkerInv'
<1>1. pc = "main" /\ pushed' = pushed /\ pc' \in {"main", "inserts"}
  BY DEF StartInserts, Sleep, WorkIsDue
<1>2. PICK x \in Refilled([w EXCEPT !.suspended = FALSE]) :
         w' = x \/ w' = [x EXCEPT !.due = @ \ {"batch"}]
  BY Zenon DEF StartInserts, Sleep
<1>3. x \in WorkerState /\ SameBatch(w, x)
  BY Zenon, <1>1, <1>2, WakingType
<1>4. PICK d \in SUBSET {"batch", "idle", "token"} : d = x.due \ {"batch"}
  BY Zenon, <1>3 DEF WorkerState
<1>5. w' \in WorkerState /\ SameBatch(x, w')
  <2>1. CASE w' = x
    BY <1>3, <2>1 DEF SameBatch
  <2>2. CASE w' = [x EXCEPT !.due = d]
    BY Zenon, <1>3, <2>2 DEF WorkerState, SameBatch
  <2> QED BY <1>2, <1>4, <2>1, <2>2
<1>6. SameBatch(w, w')
  BY <1>3, <1>5 DEF SameBatch
<1> QED BY <1>1, <1>5, <1>6, WorkerQuiet DEF NoStaleCallback

\* The flush of messages that wait in the driver.
LEMMA WorkerFlushPending == ASSUME WorkerInv, FlushPending PROVE WorkerInv'
<1>1. pc = "main" /\ pushed' = pushed /\ pc' = pc /\ pushed \in Nat
  BY DEF FlushPending, WorkIsDue, WorkerInv
<1>2. PICK x \in Refilled([w EXCEPT !.suspended = FALSE]) : w' \in FlushIfDue(x)
  BY DEF FlushPending
<1>3. Kept(x, pushed) /\ Ready(x)
  BY Zenon, <1>1, <1>2, WakingType
<1>4. Kept(w', pushed) /\ Ready(w')
  BY <1>1, <1>2, <1>3, FlushIfDueKept
<1> QED BY <1>1, <1>4 DEF WorkerInv, NoStaleCallback
\* Steps that do not touch the worker: events, the callback, the request to exit.
LEMMA WorkerEvents ==
  ASSUME WorkerInv, WakeUp \/ ShutDown \/ MessageBecameAvailable \/ RequestWorkerExit
  PROVE  WorkerInv'
<1>1. w' = w /\ pushed' = pushed /\ w \in WorkerState
  BY DEF WakeUp, ShutDown, MessageBecameAvailable, RequestWorkerExit, WorkerInv, Kept
<1>2. /\ pc' \in {"main", "inserts", "break", "quit", "exited"}
      /\ pc' # "exited" => pc # "exited"
      /\ NoStaleCallback'
  BY DEF WakeUp, ShutDown, MessageBecameAvailable, RequestWorkerExit, WorkerInv, NoStaleCallback
<1>3. SameBatch(w, w')
  BY <1>1 DEF SameBatch
<1> QED BY <1>1, <1>2, <1>3, WorkerQuiet

\* Time passes.
LEMMA WorkerTimePasses == ASSUME WorkerInv, NEW c \in Clocks, TimePasses(c) PROVE WorkerInv'
<1>1. w \in WorkerState /\ pushed' = pushed /\ pc' = pc /\ push_notify' = push_notify
  BY DEF TimePasses, WorkerInv, Kept
<1>2. PICK d \in SUBSET {"batch", "idle", "token"} : d = w.due \cup {c}
  BY Zenon, <1>1 DEF WorkerState, Clocks
<1>3. w' = [w EXCEPT !.due = d]
  BY <1>2 DEF TimePasses
<1>4. w' \in WorkerState /\ SameBatch(w, w')
  BY ZenonT(60), <1>1, <1>3 DEF WorkerState, SameBatch
<1> QED BY <1>1, <1>4, WorkerQuiet DEF WorkerInv, NoStaleCallback

\* The last flush of a worker that leaves; the driver may keep a request that
\* nobody will send.
LEMMA WorkerFinalFlush == ASSUME WorkerInv, FinalFlush PROVE WorkerInv'
<1>1. /\ pushed \in Nat /\ pushed' = pushed /\ pc' = "exited" /\ push_notify' = push_notify
      /\ Kept(w, pushed) /\ Ready(w) /\ ~push_notify
  BY DEF WorkerInv, FinalFlush, NoStaleCallback
<1>2. PICK mode \in {"NORMAL", "EXPEDITE"} : mode = IF shutting_down THEN "NORMAL" ELSE "EXPEDITE"
  OBVIOUS
<1>3. PICK o \in WorkerFlush(w, mode) :
         w' = [ProcessResult(o.w, o.result) EXCEPT !.taken = 0, !.connected = FALSE]
  BY Zenon, <1>2 DEF FinalFlush
<1>4. FlushOf(w, mode, o)
  BY <1>1, <1>3, FlushType DEF Ready
<1>5. Kept(o.w, pushed) /\ Backlog(o.w) = Backlog(w)
  BY <1>1, <1>4, FlushKept
<1>6. PICK y : y = ProcessResult(o.w, o.result)
  OBVIOUS
<1>7. Kept(y, pushed) /\ Settled(o.w, y, o.result)
  BY <1>1, <1>4, <1>5, <1>6, ResultKept DEF FlushOf
<1>8. PICK n \in Nat, f \in BOOLEAN : n = 0 /\ f = FALSE
  BY Zenon
<1>9. w' = [y EXCEPT !.taken = n, !.connected = f] /\ y \in WorkerState /\ y.taken = 0
  BY Zenon, <1>3, <1>6, <1>7, <1>8 DEF Settled, Kept
<1>10. w' \in WorkerState /\ SameBatch(y, w')
  <2>1. w' \in WorkerState
    BY Zenon, <1>9 DEF WorkerState
  <2> QED BY Zenon, <1>8, <1>9, <2>1 DEF WorkerState, SameBatch
<1>11. Kept(w', pushed)
  BY <1>1, <1>7, <1>10, SameBatchKept
<1> QED BY <1>1, <1>11 DEF WorkerInv, NoStaleCallback

\* A source pushes a message behind those that are stored.
LEMMA WorkerPush == ASSUME WorkerInv, Push PROVE WorkerInv'
<1>1. /\ pushed \in Nat /\ pushed' = pushed + 1 /\ pc' = pc /\ ~push_notify'
      /\ pushed < Len(KeyOf) /\ Len(KeyOf) \in Nat /\ Messages = 1 .. Len(KeyOf)
      /\ Kept(w, pushed) /\ w \in WorkerState
  BY ThreadedDestAssumption DEF WorkerInv, Push, Kept, Messages
<1>2. PICK m \in Messages : m = pushed + 1
  BY <1>1
<1>3. /\ w.stored \in Seq(Messages) /\ Len(w.stored) \in Nat /\ w.taken \in 0 .. Len(w.stored)
      /\ w.batch_size = w.taken
  <2>1. w.stored \in Seq(Messages) /\ w.taken \in Nat
    BY <1>1 DEF WorkerState
  <2> QED BY <1>1, <2>1 DEF Kept, Accounted
<1>4. PICK s \in Seq(Messages) : s = Append(w.stored, m)
  <2>1. Append(w.stored, m) \in Seq(Messages)
    BY <1>3
  <2> QED BY Zenon, <2>1
<1>5. /\ Len(s) = Len(w.stored) + 1 /\ s[Len(w.stored) + 1] = m
      /\ \A i \in 1 .. Len(w.stored) : s[i] = w.stored[i]
  BY <1>3, <1>4
<1>6. w' = [w EXCEPT !.stored = s]
  BY <1>2, <1>4 DEF Push
<1>7. w' \in WorkerState
  BY ZenonT(60), <1>1, <1>6 DEF WorkerState
<1>8. /\ w'.stored = s /\ w'.taken = w.taken /\ w'.batch_size = w.batch_size
      /\ w'.body = w.body /\ w'.last_key = w.last_key /\ w'.mixed = w.mixed
      /\ w'.delivered = w.delivered /\ w'.written = w.written /\ w'.dropped = w.dropped
  BY <1>1, <1>6 DEF WorkerState
<1>9. QueueKept(w', pushed')
  <2>1. /\ Len(w.stored) <= pushed
        /\ \A i \in 1 .. Len(w.stored) : w.stored[i] = pushed - Len(w.stored) + i
        /\ 1 .. (pushed - Len(w.stored)) \subseteq w.written \cup w.dropped
    BY Zenon, <1>1 DEF Kept, QueueKept
  <2>2. ASSUME NEW i \in 1 .. Len(s) PROVE s[i] = pushed' - Len(s) + i
    <3>1. CASE i = Len(w.stored) + 1
      <4>1. s[i] = pushed + 1
        BY <1>2, <1>5, <3>1
      <4>2. pushed' - Len(s) + i = pushed + 1
        <5>1. PICK n \in Nat : n = Len(w.stored)
          BY <1>3
        <5>2. Len(s) = n + 1 /\ i = n + 1 /\ pushed' = pushed + 1
          BY <1>1, <1>5, <3>1, <5>1
        <5>3. (pushed + 1) - (n + 1) + (n + 1) = pushed + 1
          BY <1>1
        <5> QED BY <5>2, <5>3
      <4> QED BY <4>1, <4>2
    <3>2. CASE i # Len(w.stored) + 1
      <4>1. i \in 1 .. Len(w.stored)
        BY <1>3, <1>5, <3>2
      <4>2. s[i] = pushed - Len(w.stored) + i
        BY <1>5, <2>1, <4>1
      <4>3. PICK n \in Nat : n = Len(w.stored)
        BY <1>3
      <4>4. Len(s) = n + 1 /\ pushed' = pushed + 1 /\ s[i] = pushed - n + i
        BY <1>1, <1>5, <4>2, <4>3
      <4>5. i \in Int /\ pushed \in Int
        BY <1>1
      <4>6. (pushed + 1) - (n + 1) + i = pushed - n + i
        BY <4>5
      <4> QED BY Zenon, <4>4, <4>6
    <3> QED BY <3>1, <3>2
  <2>3. pushed' - Len(s) = pushed - Len(w.stored) /\ Len(s) <= pushed' /\ pushed' <= Len(KeyOf)
    BY <1>1, <1>3, <1>5, <2>1
  <2> QED BY <1>8, <2>1, <2>2, <2>3 DEF QueueKept
<1>10. Accounted(w')
  BY <1>1, <1>3, <1>5, <1>8 DEF Kept, Accounted
<1>11. ASSUME Ready(w) PROVE Ready(w')
  <2>1. w.stored # <<>> => s # <<>> /\ s[1] = w.stored[1]
    <3>1. ASSUME w.stored # <<>> PROVE 1 \in 1 .. Len(w.stored)
      BY <1>3, <3>1
    <3>2. s # <<>>
      BY <1>3, <1>5
    <3> QED BY <1>5, <3>1, <3>2
  <2>2. RequestHasOneKey(w')
    BY <1>8, <1>11, <2>1 DEF Ready, RequestHasOneKey
  <2>3. \A i \in 1 .. w.taken : s[i] = w.stored[i]
    BY <1>3, <1>5
  <2>4. Backlog(w') = Backlog(w)
    <3>1. /\ Backlog(w) \in Seq(Messages) /\ Len(Backlog(w)) = w.taken
          /\ \A i \in 1 .. w.taken : Backlog(w)[i] = w.stored[i]
      BY <1>1, <1>3, BacklogType
    <3>2. /\ Backlog(w') \in Seq(Messages) /\ Len(Backlog(w')) = w.taken
          /\ \A i \in 1 .. w.taken : Backlog(w')[i] = s[i]
      BY <1>3, <1>5, <1>7, <1>8, BacklogType
    <3> QED BY <2>3, <3>1, <3>2
  <2>5. RequestHoldsBacklog(w')
    BY <1>8, <1>11, <2>3, <2>4 DEF Ready, RequestHoldsBacklog
  <2>6. KeyIsRemembered(w')
    <3>1. w.taken > 0 => w.stored # <<>>
      BY <1>3
    <3> QED BY <1>8, <1>11, <2>1, <3>1 DEF Ready, KeyIsRemembered
  <2> QED BY <2>2, <2>5, <2>6 DEF Ready
<1> QED BY <1>1, <1>7, <1>9, <1>10, <1>11 DEF WorkerInv, Kept, NoStaleCallback

\* A new worker begins with an empty request and the whole queue before it.
LEMMA WorkerRestart == ASSUME WorkerInv, Restart PROVE WorkerInv'
<1>1. /\ pushed \in Nat /\ pushed' = pushed /\ pc' = "main" /\ Kept(w, pushed)
      /\ w \in WorkerState
  BY DEF WorkerInv, Restart, Kept
<1>2. PICK e \in Seq(Messages), z \in Nat, f \in BOOLEAN : e = <<>> /\ z = 0 /\ f = FALSE
  <2>1. << >> \in Seq(Messages)
    OBVIOUS
  <2> QED BY Zenon, <2>1
<1>3. PICK x : x = [w EXCEPT !.connected = f, !.batch_size = z, !.rewound_batch_size = z,
                             !.retries_on_error_counter = z, !.retries_counter = z,
                             !.enable_batching = f, !.suspended = f,
                             !.unreachable = f, !.last_key = z, !.body = e]
  OBVIOUS
<1>4. w' = [x EXCEPT !.taken = z]
  BY Zenon, <1>2, <1>3 DEF Restart, NewWorker
<1>5. x \in WorkerState
  BY ZenonT(60), <1>1, <1>3 DEF WorkerState
<1>6. w' \in WorkerState
  BY Zenon, <1>4, <1>5 DEF WorkerState
<1>7. /\ w'.stored = w.stored /\ w'.taken = 0 /\ w'.batch_size = 0 /\ w'.body = <<>>
      /\ w'.mixed = w.mixed /\ w'.delivered = w.delivered
      /\ w'.written = w.written /\ w'.dropped = w.dropped
  <2>1. /\ x.stored = w.stored /\ x.batch_size = z /\ x.body = e
        /\ x.mixed = w.mixed /\ x.delivered = w.delivered
        /\ x.written = w.written /\ x.dropped = w.dropped
    BY <1>1, <1>3 DEF WorkerState
  <2> QED BY <1>2, <1>4, <1>5, <2>1 DEF WorkerState
<1>8. Kept(w', pushed)
  <2>1. Len(w.stored) \in Nat
    BY <1>1 DEF WorkerState
  <2>2. QueueKept(w', pushed)
    BY Zenon, <1>1, <1>7 DEF Kept, QueueKept
  <2>3. Accounted(w')
    BY <1>1, <1>7, <2>1 DEF Kept, Accounted
  <2> QED BY <1>6, <2>2, <2>3 DEF Kept
<1>9. Backlog(w') = <<>>
  <2>1. Backlog(w') \in Seq(Messages) /\ Len(Backlog(w')) = 0
    BY <1>6, <1>7, <1>8, BacklogType DEF Kept, Accounted
  <2> QED BY <2>1
<1>10. Ready(w')
  BY <1>7, <1>9 DEF Ready, RequestHasOneKey, RequestHoldsBacklog, KeyIsRemembered
<1> QED BY <1>1, <1>8, <1>10 DEF WorkerInv, NoStaleCallback

\* Every step.
LEMMA WorkerNext == WorkerInv /\ [Next]_vars => WorkerInv'
<1> SUFFICES ASSUME WorkerInv, [Next]_vars PROVE WorkerInv'
  OBVIOUS
<1>1. CASE UNCHANGED vars
  BY Zenon, <1>1 DEF vars, WorkerInv, Kept, QueueKept, Accounted, Ready, RequestHasOneKey,
              RequestHoldsBacklog, KeyIsRemembered, Backlog, NoStaleCallback
<1>2. CASE \E c \in Clocks : TimePasses(c)
  BY <1>2, WorkerTimePasses
<1>3. CASE StartInserts \/ Sleep
  BY <1>3, WorkerStart
<1>4. CASE WakeUp \/ ShutDown \/ MessageBecameAvailable \/ RequestWorkerExit
  BY <1>4, WorkerEvents
<1> QED
  BY <1>1, <1>2, <1>3, <1>4, WorkerInsertMessage, WorkerEndInserts, WorkerConnect,
     WorkerFlushPending, WorkerFinalFlush, WorkerPush, WorkerRestart
  DEF Next

\* The invariant holds in every state of every behaviour.
LEMMA WorkerInvariant == Spec => []WorkerInv
BY WorkerInit, WorkerNext, PTL DEF Spec

-----------------------------------------------------------------------------
(* The theorems.                                                           *)

\* Whatever mix of retries, errors, drops, throttling, key changes and reloads
\* came before, the driver's request is the queue's backlog and batch_size
\* counts it, so that acknowledging or rewinding by count hits what the request
\* held, for any number of messages and any batch size.  (When a plugin fails to
\* add its headers, _add_msg_specific_headers() leaves the request as it was.)
THEOREM RequestIsTheBatch == ASSUME ~SlotFails PROVE Spec => []RequestIsBatch
<1>1. WorkerInv => RequestIsBatch
  BY DEF WorkerInv, RequestIsBatch, InLoop, Ready, RequestHoldsBacklog, Kept, Accounted
<1> QED BY <1>1, WorkerInvariant, PTL

\* A source is told that a message was written only if the server has accepted a
\* request with it, even when a request is kept after its headers failed.
THEOREM WrittenIsDelivered == Spec => []WrittenWasDelivered
<1>1. WorkerInv => WrittenWasDelivered
  BY DEF WorkerInv, WrittenWasDelivered, Kept, Accounted
<1> QED BY <1>1, WorkerInvariant, PTL

\* With flush-on-worker-key-change() no request ever mixes keys, even when a
\* request is kept after its headers failed.
THEOREM RequestsHaveOneKey == Spec => []OneKeyPerRequest
<1>1. WorkerInv => OneKeyPerRequest
  BY DEF WorkerInv, OneKeyPerRequest, Kept, Accounted
<1> QED BY <1>1, WorkerInvariant, PTL

\* The callback of a worker that has left is not in the queue.
THEOREM CallbackIsRemoved == Spec => []NoStaleCallback
<1>1. WorkerInv => NoStaleCallback
  BY DEF WorkerInv
<1> QED BY <1>1, WorkerInvariant, PTL

\* No message is lost by the batches: each one that was pushed is still stored,
\* or was written or dropped.
THEOREM EveryMessageIsAccounted == Spec => []NothingIsLost
<1>1. ASSUME WorkerInv PROVE NothingIsLost
  <2>1. /\ w.stored \in Seq(Messages) /\ Len(w.stored) \in Nat /\ pushed \in Nat
        /\ Len(w.stored) <= pushed
        /\ \A i \in 1 .. Len(w.stored) : w.stored[i] = pushed - Len(w.stored) + i
        /\ 1 .. (pushed - Len(w.stored)) \subseteq w.written \cup w.dropped
    <3>1. w.stored \in Seq(Messages)
      BY <1>1 DEF WorkerInv, Kept, WorkerState
    <3>2. Len(w.stored) \in Nat
      BY <3>1
    <3>3. QueueKept(w, pushed) /\ pushed \in Nat
      BY <1>1 DEF WorkerInv, Kept
    <3> QED BY Zenon, <3>1, <3>2, <3>3 DEF QueueKept
  <2>2. ASSUME NEW m \in 1 .. pushed, m \notin 1 .. (pushed - Len(w.stored))
        PROVE  m \in Range(w.stored)
    <3>1. PICK n \in Nat : n = Len(w.stored)
      BY <2>1
    <3>2. PICK i \in 1 .. n : m = pushed - n + i
      <4>1. m \in Nat /\ m <= pushed /\ ~(m <= pushed - n) /\ m >= 1
        BY <2>1, <2>2, <3>1
      <4>2. m - (pushed - n) \in 1 .. n /\ m = pushed - n + (m - (pushed - n))
        BY <2>1, <4>1
      <4> QED BY <4>2
    <3>3. w.stored[i] = m
      BY <2>1, <3>1, <3>2
    <3>4. i \in DOMAIN w.stored
      BY <2>1, <3>1
    <3> QED BY <3>3, <3>4 DEF Range
  <2> QED BY <2>1, <2>2 DEF NothingIsLost
<1>2. WorkerInv => NothingIsLost
  BY <1>1
<1> QED BY <1>2, WorkerInvariant, PTL
=============================================================================
