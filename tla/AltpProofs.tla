----------------------------- MODULE AltpProofs -----------------------------
(***************************************************************************)
(* Proofs about the ALTP Receiver: a connection that waits for its Batch   *)
(* to become durable is woken.                                             *)
(***************************************************************************)
EXTENDS Altp, TLAPS

\* The states of a connection after its SYNC, and of the Sender after it
\* sent one.
PastSync == {"SYNC", "FRAME", "AWAITING_DURABILITY", "ACKNOWLEDGE", "ACKNOWLEDGE_PARTIAL"}
Late == {"SYNC_SENT", "DATA_SENT", "IN_BATCH", "BATCH_CLOSED"}

\* The connection has taken the Session over, and may have lost it since.
Synced(c) == rec.owner = c \/ rcv[c].displaced

Server ==
    [state : ReceiverStates, run : {"poll", "work", "finish", "suspended"}, ackSent : BOOLEAN,
     timedOut : BOOLEAN, awaiting : BOOLEAN, displaced : BOOLEAN, event : BOOLEAN]

Record(r) == r = [read |-> r.read, acked |-> r.acked, owner |-> r.owner]

----------------------------------------------------------------------------
(* The Receiver.                                                           *)

RecvTypes ==
    /\ rcv \in [Conns -> Server] /\ rcvOpen \in [Conns -> BOOLEAN]
    /\ Record(rec) /\ rec.owner \in Conns \cup {NoOwner}

\* Where a connection may be: one reader runs at a time, a displaced one
\* closes when it runs again, and one that waits has its wakeup armed.
RecvInv ==
    /\ rec.owner # NoOwner => rcvOpen[rec.owner]
    /\ \A c \in Conns : ~rcvOpen[c] => rcv[c] = NewServer
    /\ \A c \in Conns : rcv[c].state \in PastSync => Synced(c)
    /\ \A c, d \in Conns : rcv[c].run = "work" /\ rcv[d].run = "work" => c = d
    /\ \A c \in Conns : rcv[c].run = "work" /\ rcv[c].displaced => rcv[c].state = "CLOSED"
    /\ \A c \in Conns : rcv[c].run # "work" /\ rcv[c].state = "AWAITING_DURABILITY"
          => rcv[c].displaced \/ (rec.owner = c /\ rcv[c].awaiting)
    /\ \A c \in Conns : rcv[c].run = "suspended" =>
          /\ rcv[c].state = "AWAITING_DURABILITY"
          /\ rcv[c].event \/ (rec.owner = c /\ rcv[c].awaiting /\ ~IsDurable)

\* What a step of connection c may make of its server.
Fits(c, s) ==
    /\ s \in Server /\ s.displaced = rcv[c].displaced
    /\ s.state \in PastSync => Synced(c)
    /\ s.run = "work" => \A d \in Conns : rcv[d].run = "work" => d = c
    /\ s.run = "work" /\ s.displaced => s.state = "CLOSED"
    /\ s.run # "work" /\ s.state = "AWAITING_DURABILITY"
          => s.displaced \/ (rec.owner = c /\ s.awaiting)
    /\ s.run = "suspended" =>
          /\ s.state = "AWAITING_DURABILITY"
          /\ s.event \/ (rec.owner = c /\ s.awaiting /\ ~IsDurable')

\* The owner stays, and only it changes the counters.
SameOwner(c) == Record(rec') /\ rec'.owner = rec.owner /\ (rec' = rec \/ rec.owner = c)

ServerSteps(c, s) ==
    /\ rcvOpen[c] /\ rcvOpen' = rcvOpen /\ rcv' = [rcv EXCEPT ![c] = s]
    /\ SameOwner(c) /\ Fits(c, s)

RecvKept ==
    RecvTypes' /\ RecvInv' /\ \A c \in Conns : rcvOpen'[c] /\ Synced(c) => Synced(c)'

\* A step of one connection that fits keeps the Receiver consistent.
LEMMA ServerStep ==
  ASSUME RecvTypes, RecvInv, NEW c \in Conns, NEW s, ServerSteps(c, s)
  PROVE  RecvKept
<1>1. /\ rcvOpen[c] /\ rcvOpen' = rcvOpen /\ rcv' = [rcv EXCEPT ![c] = s]
      /\ Record(rec') /\ rec'.owner = rec.owner /\ (rec' = rec \/ rec.owner = c)
      /\ s \in Server /\ s.displaced = rcv[c].displaced
      /\ s.state \in PastSync => Synced(c)
      /\ s.run = "work" => \A d \in Conns : rcv[d].run = "work" => d = c
      /\ s.run = "work" /\ s.displaced => s.state = "CLOSED"
      /\ s.run # "work" /\ s.state = "AWAITING_DURABILITY"
            => s.displaced \/ (rec.owner = c /\ s.awaiting)
      /\ s.run = "suspended" =>
            /\ s.state = "AWAITING_DURABILITY"
            /\ s.event \/ (rec.owner = c /\ s.awaiting /\ ~IsDurable')
  BY Zenon DEF ServerSteps, SameOwner, Fits
<1>2. /\ rcv \in [Conns -> Server] /\ rcvOpen \in [Conns -> BOOLEAN]
      /\ rec.owner \in Conns \cup {NoOwner}
  BY Zenon DEF RecvTypes
<1>3. /\ rcv' \in [Conns -> Server] /\ rcv'[c] = s
      /\ \A d \in Conns : d # c => rcv'[d] = rcv[d]
  <2> HIDE DEF Server
  <2> QED BY <1>1, <1>2
<1>4. RecvTypes'
  BY <1>1, <1>2, <1>3, Zenon DEF RecvTypes
<1>5. \A d \in Conns : Synced(d) => Synced(d)'
  BY <1>1, <1>3, Zenon DEF Synced
<1>6. \A d \in Conns : rec.owner = d /\ d # c => IsDurable' = IsDurable
  BY <1>1, Zenon DEF IsDurable
<1>7. /\ rec'.owner # NoOwner => rcvOpen'[rec'.owner]
      /\ \A d \in Conns : ~rcvOpen'[d] => rcv'[d] = NewServer
  BY <1>1, <1>3, Zenon DEF RecvInv
<1>8. \A d \in Conns : rcv'[d].state \in PastSync => Synced(d)'
  BY <1>1, <1>3, <1>5, Zenon DEF RecvInv
<1>9. \A d, e \in Conns : rcv'[d].run = "work" /\ rcv'[e].run = "work" => d = e
  BY <1>1, <1>3, Zenon DEF RecvInv
<1>10. \A d \in Conns : rcv'[d].run = "work" /\ rcv'[d].displaced => rcv'[d].state = "CLOSED"
  BY <1>1, <1>3, Zenon DEF RecvInv
<1>11. \A d \in Conns : rcv'[d].run # "work" /\ rcv'[d].state = "AWAITING_DURABILITY"
          => rcv'[d].displaced \/ (rec'.owner = d /\ rcv'[d].awaiting)
  BY <1>1, <1>3, Zenon DEF RecvInv
<1>12. \A d \in Conns : rcv'[d].run = "suspended" =>
          /\ rcv'[d].state = "AWAITING_DURABILITY"
          /\ rcv'[d].event \/ (rec'.owner = d /\ rcv'[d].awaiting /\ ~IsDurable')
  BY <1>1, <1>3, <1>6, Zenon DEF RecvInv
<1>13. RecvInv'
  BY <1>7, <1>8, <1>9, <1>10, <1>11, <1>12, Zenon DEF RecvInv
<1> QED BY <1>4, <1>5, <1>13, Zenon DEF RecvKept

\* A step of one connection, fact by fact.
LEMMA FitsStep ==
  ASSUME RecvTypes, RecvInv, NEW c \in Conns, NEW s,
         rcvOpen[c], rcvOpen' = rcvOpen, rcv' = [rcv EXCEPT ![c] = s], SameOwner(c), Fits(c, s)
  PROVE  RecvKept
  BY ServerStep, Zenon DEF ServerSteps

\* The connection whose reader runs past its SYNC owns the Session.
LEMMA WorkerOwns ==
  ASSUME RecvTypes, RecvInv, NEW c \in Conns, rcv[c].run = "work", Synced(c),
         rcv[c].state # "CLOSED"
  PROVE  /\ rec.owner = c /\ rcv[c].displaced = FALSE
         /\ \A d \in Conns : rcv[d].run = "work" => d = c
<1>1. rcv[c].displaced \in BOOLEAN
  BY DEF RecvTypes, Server
<1>2. ~rcv[c].displaced
  BY Zenon DEF RecvInv
<1>3. rec.owner = c
  BY <1>2, Zenon DEF Synced
<1>4. \A d \in Conns : rcv[d].run = "work" => d = c
  BY Zenon DEF RecvInv
<1> QED BY <1>1, <1>2, <1>3, <1>4, Zenon

\* poll_prepare() between two passes.
LEMMA PollFits ==
  ASSUME RecvTypes, RecvInv, NEW c \in Conns, rcv[c].run # "work", rec' = rec
  PROVE  /\ Fits(c, PollPrepare(rcv[c]))
         /\ Fits(c, [PollPrepare(rcv[c]) EXCEPT !.event = FALSE])
<1> DEFINE s == rcv[c]
           d == Displaced(s)
           p == PollPrepare(s)
           e == [p EXCEPT !.event = FALSE]
<1>1. s \in Server
  BY DEF RecvTypes
<1>2. /\ s.state \in PastSync => Synced(c)
      /\ s.state = "AWAITING_DURABILITY" => s.displaced \/ (rec.owner = c /\ s.awaiting)
  BY Zenon DEF RecvInv
<1>3. IsDurable' = IsDurable
  BY Zenon DEF IsDurable
<1> HIDE DEF s
<1>4. /\ d \in Server /\ d.displaced = s.displaced /\ d.awaiting = s.awaiting
      /\ d.state = IF s.displaced THEN "CLOSED" ELSE s.state
  BY <1>1 DEF Displaced, Server, ReceiverStates
<1> HIDE DEF d
<1>5. /\ p \in Server /\ p.displaced = d.displaced /\ p.awaiting = d.awaiting /\ p.state = d.state
      /\ p.run \in {"poll", "suspended"}
      /\ p.run = "suspended" => d.state = "AWAITING_DURABILITY" /\ ~IsDurable
  <2>1. p = IF d.state = "AWAITING_DURABILITY"
            THEN [d EXCEPT !.run = IF d.timedOut \/ IsDurable THEN "poll" ELSE "suspended"]
            ELSE [d EXCEPT !.timedOut = FALSE, !.run = "poll"]
    BY DEF PollPrepare, d
  <2> QED BY <1>4, <2>1 DEF Server
<1> HIDE DEF p
<1>6. /\ e \in Server /\ e.displaced = p.displaced /\ e.awaiting = p.awaiting /\ e.state = p.state
      /\ e.run = p.run
  BY <1>5 DEF Server
<1> HIDE DEF e
<1>7. Fits(c, p)
  BY <1>2, <1>3, <1>4, <1>5, Zenon DEF Fits, PastSync, s
<1>8. Fits(c, e)
  BY <1>2, <1>3, <1>4, <1>5, <1>6, Zenon DEF Fits, PastSync, s
<1> QED BY <1>7, <1>8, Zenon DEF p, s, e

\* Without threads a pass begins when no other is on.
LEMMA StartFetchKeeps ==
  ASSUME RecvTypes, RecvInv, ~Threaded, NEW c \in Conns, StartFetch(c)
  PROVE  RecvKept
<1> DEFINE s == rcv[c]
           w == [Displaced(s) EXCEPT !.run = "work"]
<1>1. /\ rcvOpen[c] /\ rcvOpen' = rcvOpen /\ rcv' = [rcv EXCEPT ![c] = w] /\ rec' = rec /\ MayRun
  BY DEF StartFetch, wire
<1>2. s \in Server
  BY DEF RecvTypes
<1>3. s.state \in PastSync => Synced(c)
  BY Zenon DEF RecvInv
<1>4. NewServer.run = "poll"
  BY DEF NewServer
<1>5. \A d \in Conns : rcv[d].run # "work"
  BY <1>1, <1>4, Zenon DEF MayRun, RecvInv
<1> HIDE DEF s
<1>6. /\ w \in Server /\ w.displaced = s.displaced /\ w.run = "work"
      /\ w.state = IF s.displaced THEN "CLOSED" ELSE s.state
  BY <1>2 DEF Displaced, Server, ReceiverStates
<1> HIDE DEF w
<1>7. Fits(c, w)
  BY <1>3, <1>5, <1>6, Zenon DEF Fits, PastSync, s
<1>8. SameOwner(c)
  BY <1>1, Zenon DEF SameOwner, RecvTypes
<1> QED BY <1>1, <1>7, <1>8, FitsStep, Zenon

\* Between passes.
LEMMA BetweenKeeps ==
  ASSUME RecvTypes, RecvInv, NEW c \in Conns,
         Finish(c) \/ WakeupTriggered(c) \/ AckTimerExpired(c)
  PROVE  RecvKept
<1>1. rcvOpen[c] /\ rcvOpen' = rcvOpen /\ rec' = rec
  BY DEF Finish, WakeupTriggered, AckTimerExpired, wire
<1>2. SameOwner(c)
  BY <1>1, Zenon DEF SameOwner, RecvTypes
<1>3. rcv[c] \in Server /\ IsDurable' = IsDurable
  BY <1>1 DEF RecvTypes, IsDurable
<1>4. CASE Finish(c)
  <2>1. rcv' = [rcv EXCEPT ![c] = PollPrepare(rcv[c])] /\ rcv[c].run # "work"
    BY <1>4 DEF Finish
  <2>2. Fits(c, PollPrepare(rcv[c]))
    BY <1>1, <2>1, PollFits, Zenon
  <2> QED BY <1>1, <1>2, <2>1, <2>2, FitsStep, Zenon
<1>5. CASE WakeupTriggered(c) /\ rcv[c].run \in {"poll", "suspended"}
  <2>1. rcv' = [rcv EXCEPT ![c] = [PollPrepare(rcv[c]) EXCEPT !.event = FALSE]]
    BY <1>5 DEF WakeupTriggered
  <2>2. Fits(c, [PollPrepare(rcv[c]) EXCEPT !.event = FALSE])
    <3>1. rcv[c].run # "work"
      BY <1>5
    <3> QED BY <1>1, <3>1, PollFits, Zenon
  <2> QED BY <1>1, <1>2, <2>1, <2>2, FitsStep, Zenon
<1>6. CASE WakeupTriggered(c) /\ rcv[c].run \notin {"poll", "suspended"}
  <2> DEFINE s == rcv[c]
             e == [s EXCEPT !.event = FALSE]
  <2>1. rcv' = [rcv EXCEPT ![c] = e]
    BY <1>6 DEF WakeupTriggered
  <2>2. /\ s.state \in PastSync => Synced(c)
        /\ s.run # "work" /\ s.state = "AWAITING_DURABILITY"
              => s.displaced \/ (rec.owner = c /\ s.awaiting)
        /\ s.run = "work" => \A d \in Conns : rcv[d].run = "work" => d = c
        /\ s.run = "work" /\ s.displaced => s.state = "CLOSED"
    BY Zenon DEF RecvInv
  <2> HIDE DEF s
  <2>3. /\ e \in Server /\ e.displaced = s.displaced /\ e.awaiting = s.awaiting
        /\ e.state = s.state /\ e.run = s.run /\ e.run # "suspended"
    BY <1>3, <1>6 DEF Server, s
  <2> HIDE DEF e
  <2>4. Fits(c, e)
    BY <2>2, <2>3, Zenon DEF Fits, s
  <2> QED BY <1>1, <1>2, <2>1, <2>4, FitsStep, Zenon
<1>7. CASE AckTimerExpired(c)
  <2> DEFINE s == rcv[c]
             e == [s EXCEPT !.timedOut = TRUE, !.event = TRUE]
  <2>1. rcv' = [rcv EXCEPT ![c] = e] /\ s.run = "suspended"
    <3>1. rcv' = [rcv EXCEPT ![c].timedOut = TRUE, ![c].event = TRUE] /\ s.run = "suspended"
      BY <1>7 DEF AckTimerExpired
    <3>2. rcv \in [Conns -> Server]
      BY DEF RecvTypes
    <3>3. [rcv EXCEPT ![c].timedOut = TRUE, ![c].event = TRUE] = [rcv EXCEPT ![c] = e]
      BY <3>2
    <3> QED BY <3>1, <3>3, Zenon
  <2>2. /\ s.state \in PastSync => Synced(c)
        /\ s.state = "AWAITING_DURABILITY"
        /\ s.displaced \/ (rec.owner = c /\ s.awaiting)
    BY <2>1 DEF RecvInv
  <2> HIDE DEF s
  <2>3. /\ e \in Server /\ e.displaced = s.displaced /\ e.awaiting = s.awaiting
        /\ e.state = s.state /\ e.run = s.run /\ e.event
    BY <1>3 DEF Server, s
  <2> HIDE DEF e
  <2>4. e.run = "suspended" /\ e.run # "work"
    BY <2>1, <2>3
  <2>5. Fits(c, e)
    BY <2>2, <2>3, <2>4, Zenon DEF Fits, s
  <2> QED BY <1>1, <1>2, <2>1, <2>5, FitsStep, Zenon
<1> QED BY <1>4, <1>5, <1>6, <1>7, Zenon

\* A step within a pass.
LEMMA WorkFits ==
  ASSUME RecvTypes, RecvInv, NEW c \in Conns, rcv[c].run = "work", rcv[c].state # "CLOSED",
         NEW s \in Server, s.displaced = rcv[c].displaced, s.run \in {"work", "finish"},
         s.state \in PastSync => Synced(c),
         s.run = "finish" /\ s.state = "AWAITING_DURABILITY" => s.awaiting
  PROVE  Fits(c, s)
<1>1. \A d \in Conns : rcv[d].run = "work" => d = c
  BY Zenon DEF RecvInv
<1>2. ~rcv[c].displaced
  BY Zenon DEF RecvInv
<1>3. s.run # "suspended"
  OBVIOUS
<1>4. s.run # "work" => s.run = "finish"
  OBVIOUS
<1>5. s.state = "AWAITING_DURABILITY" => rec.owner = c
  BY <1>2 DEF PastSync, Synced
<1> QED BY <1>1, <1>2, <1>3, <1>4, <1>5, Zenon DEF Fits

\* The commands and replies that leave the counters alone.
LEMMA ReplyKeeps ==
  ASSUME RecvTypes, RecvInv, NEW c \in Conns,
         OnGreeting(c) \/ OnEhlo(c) \/ SyncReply(c) \/ OnTerminator(c) \/ FetchReturns(c)
            \/ Acknowledge(c) \/ OnAwaitingDurability(c)
  PROVE  RecvKept
<1> DEFINE s == rcv[c]
<1>1. s \in Server /\ rcv \in [Conns -> Server]
  BY DEF RecvTypes
<1>2. /\ rcvOpen[c] /\ rcvOpen' = rcvOpen /\ rec' = rec
      /\ s.run = "work" /\ s.state # "CLOSED"
  BY DEF OnGreeting, OnEhlo, SyncReply, OnTerminator, FetchReturns, Acknowledge,
         OnAwaitingDurability, Reply, Working, wire
<1>3. s.state \in PastSync => Synced(c)
  BY Zenon DEF RecvInv
<1>4. SameOwner(c)
  BY <1>2, Zenon DEF SameOwner, RecvTypes
<1>5. ASSUME NEW t \in Server, rcv' = [rcv EXCEPT ![c] = t], t.displaced = s.displaced,
             t.run \in {"work", "finish"},
             t.state \in PastSync => Synced(c),
             t.run = "finish" /\ t.state = "AWAITING_DURABILITY" => t.awaiting
      PROVE  RecvKept
  <2>1. Fits(c, t)
    BY <1>2, <1>5, WorkFits, Zenon
  <2> QED BY <1>2, <1>4, <1>5, <2>1, FitsStep, Zenon
<1>6. CASE OnGreeting(c)
  <2> DEFINE t == [s EXCEPT !.state = "COMMAND"]
  <2>1. rcv' = [rcv EXCEPT ![c] = t]
    BY <1>6 DEF OnGreeting, Reply
  <2>2. /\ t \in Server /\ t.displaced = s.displaced /\ t.run = "work" /\ t.state = "COMMAND"
    BY <1>1, <1>2 DEF Server, ReceiverStates
  <2>3. t.state \notin PastSync /\ t.run \in {"work", "finish"} /\ t.run # "finish"
    BY <2>2 DEF PastSync
  <2> HIDE DEF t, s
  <2> QED BY <1>5, <2>1, <2>2, <2>3, Zenon
<1>7. CASE OnEhlo(c)
  <2>1. rcv' = [rcv EXCEPT ![c] = s]
    BY <1>7 DEF OnEhlo, Reply
  <2>2. s.run \in {"work", "finish"} /\ s.run # "finish"
    BY <1>2
  <2> HIDE DEF s
  <2> QED BY <1>1, <1>3, <1>5, <2>1, <2>2, Zenon
<1>8. CASE SyncReply(c) \/ Acknowledge(c)
  <2> DEFINE t == Acknowledged(s)
             u == [s EXCEPT !.state = "AWAITING_DURABILITY", !.awaiting = TRUE]
  <2>1. /\ rcv' = [rcv EXCEPT ![c] = t] \/ rcv' = [rcv EXCEPT ![c] = u]
        /\ s.state \in PastSync
    BY <1>8 DEF SyncReply, Acknowledge, Reply, Working, PastSync
  <2>2. /\ t \in Server /\ t.displaced = s.displaced /\ t.run = "work" /\ t.state = "COMMAND"
        /\ u \in Server /\ u.displaced = s.displaced /\ u.run = "work"
    BY <1>1, <1>2 DEF Server, ReceiverStates, Acknowledged
  <2>3. /\ t.state \notin PastSync /\ t.run \in {"work", "finish"} /\ t.run # "finish"
        /\ u.run \in {"work", "finish"} /\ u.run # "finish"
    BY <2>2 DEF PastSync
  <2> HIDE DEF t, s, u
  <2> QED BY <1>3, <1>5, <2>1, <2>2, <2>3, Zenon
<1>9. CASE OnTerminator(c)
  <2> DEFINE u == [s EXCEPT !.state = "AWAITING_DURABILITY"]
  <2>1. rcv' = [rcv EXCEPT ![c] = u] /\ s.state \in PastSync
    BY <1>9 DEF OnTerminator, Reply, Working, PastSync
  <2>2. u \in Server /\ u.displaced = s.displaced /\ u.run = "work"
    BY <1>1, <1>2 DEF Server, ReceiverStates
  <2>3. u.run \in {"work", "finish"} /\ u.run # "finish"
    BY <2>2
  <2> HIDE DEF s, u
  <2> QED BY <1>3, <1>5, <2>1, <2>2, <2>3, Zenon
<1>10. CASE FetchReturns(c)
  <2> DEFINE t == [s EXCEPT !.run = "finish"]
  <2>1. rcv' = [rcv EXCEPT ![c] = t] /\ s.state # "AWAITING_DURABILITY"
    <3>1. rcv' = [rcv EXCEPT ![c].run = "finish"] /\ s.state # "AWAITING_DURABILITY"
      BY <1>10 DEF FetchReturns, Working
    <3>2. [rcv EXCEPT ![c].run = "finish"] = [rcv EXCEPT ![c] = t]
      BY <1>1
    <3> QED BY <3>1, <3>2, Zenon
  <2>2. /\ t \in Server /\ t.displaced = s.displaced /\ t.run = "finish" /\ t.state = s.state
    BY <1>1, <1>2 DEF Server
  <2>3. t.run \in {"work", "finish"}
    BY <2>2
  <2> HIDE DEF s, t
  <2> QED BY <1>3, <1>5, <2>1, <2>2, <2>3, Zenon
<1>11. CASE OnAwaitingDurability(c)
  <2> DEFINE w == [s EXCEPT !.timedOut = FALSE, !.awaiting = ~IsDurable]
             t1 == [w EXCEPT !.state = "ACKNOWLEDGE"]
             t2 == [w EXCEPT !.run = "finish"]
             t3 == [w EXCEPT !.state = "ACKNOWLEDGE_PARTIAL"]
             t4 == [w EXCEPT !.state = "CLOSED", !.awaiting = FALSE]
  <2>1. /\ \/ rcv' = [rcv EXCEPT ![c] = t1]
           \/ ~IsDurable /\ rcv' = [rcv EXCEPT ![c] = t2]
           \/ rcv' = [rcv EXCEPT ![c] = t3]
           \/ rcv' = [rcv EXCEPT ![c] = t4]
        /\ s.state = "AWAITING_DURABILITY"
    <3>1. IsDurable \in BOOLEAN
      BY DEF IsDurable
    <3>2. \/ IsDurable /\ rcv' = [rcv EXCEPT ![c] = t1]
          \/ ~IsDurable /\ ~s.timedOut /\ rcv' = [rcv EXCEPT ![c] = t2]
          \/ ~IsDurable /\ s.timedOut /\ PartialAck /\ rcv' = [rcv EXCEPT ![c] = t3]
          \/ ~IsDurable /\ s.timedOut /\ ~PartialAck /\ rcv' = [rcv EXCEPT ![c] = t4]
      <4> HIDE DEF IsDurable
      <4> QED BY <1>11, <3>1 DEF OnAwaitingDurability, Reply
    <3>3. s.state = "AWAITING_DURABILITY"
      BY <1>11 DEF OnAwaitingDurability, Working
    <3> HIDE DEF s, w, t1, t2, t3, t4
    <3> QED BY <3>2, <3>3, Zenon
  <2>2. Synced(c)
    BY <1>3, <2>1 DEF PastSync
  <2>3. /\ w \in Server /\ w.displaced = s.displaced /\ w.run = "work"
        /\ w.awaiting = ~IsDurable /\ w.state = s.state
    BY <1>1, <1>2 DEF Server, IsDurable
  <2> HIDE DEF s, w
  <2>4. /\ t1 \in Server /\ t1.displaced = s.displaced /\ t1.run = "work"
        /\ t3 \in Server /\ t3.displaced = s.displaced /\ t3.run = "work"
        /\ t4 \in Server /\ t4.displaced = s.displaced /\ t4.run = "work"
    BY <2>3 DEF Server, ReceiverStates
  <2>5. t2 \in Server /\ t2.displaced = s.displaced /\ t2.run = "finish" /\ t2.awaiting = ~IsDurable
    BY <2>3 DEF Server
  <2> HIDE DEF t1, t2, t3, t4
  <2>6. /\ t1.run \in {"work", "finish"} /\ t1.run # "finish"
        /\ t2.run \in {"work", "finish"}
        /\ t3.run \in {"work", "finish"} /\ t3.run # "finish"
        /\ t4.run \in {"work", "finish"} /\ t4.run # "finish"
    BY <2>4, <2>5
  <2>7. CASE rcv' = [rcv EXCEPT ![c] = t1]
    BY <1>5, <2>2, <2>4, <2>6, <2>7, Zenon
  <2>8. CASE ~IsDurable /\ rcv' = [rcv EXCEPT ![c] = t2]
    BY <1>5, <2>2, <2>5, <2>6, <2>8, Zenon
  <2>9. CASE rcv' = [rcv EXCEPT ![c] = t3]
    BY <1>5, <2>2, <2>4, <2>6, <2>9, Zenon
  <2>10. CASE rcv' = [rcv EXCEPT ![c] = t4]
    BY <1>5, <2>2, <2>4, <2>6, <2>10, Zenon
  <2> QED BY <2>1, <2>7, <2>8, <2>9, <2>10, Zenon
<1> QED BY <1>6, <1>7, <1>8, <1>9, <1>10, <1>11, Zenon

\* The steps that change the counters are the owner's.
LEMMA CountKeeps ==
  ASSUME RecvTypes, RecvInv, NEW c \in Conns, Synced(c),
         OnData(c) \/ (\E m \in Messages : OnFrame(c, m)) \/ AcknowledgePartial(c)
  PROVE  RecvKept
<1> DEFINE s == rcv[c]
           t1 == [s EXCEPT !.state = "FRAME", !.ackSent = FALSE]
           t2 == [s EXCEPT !.run = "finish"]
           t3 == Acknowledged(s)
<1>1. s \in Server /\ rcv \in [Conns -> Server] /\ Record(rec)
  BY DEF RecvTypes
<1>2. /\ rcvOpen[c] /\ rcvOpen' = rcvOpen
      /\ s.run = "work" /\ s.state # "CLOSED"
  BY DEF OnData, OnFrame, AcknowledgePartial, Reply, Working
<1>3. rec.owner = c
  BY <1>2, WorkerOwns, Zenon
<1>4. Record(rec') /\ rec'.owner = rec.owner
  <2>1. \/ rec' = rec \/ rec' = [rec EXCEPT !.read = 0, !.acked = 0]
        \/ rec' = [rec EXCEPT !.read = rec.read + 1] \/ rec' = [rec EXCEPT !.read = rec.acked]
    BY DEF OnData, OnFrame, AcknowledgePartial
  <2> QED BY <1>1, <2>1 DEF Record
<1>5. SameOwner(c)
  BY <1>3, <1>4, Zenon DEF SameOwner
<1>6. \/ rcv' = [rcv EXCEPT ![c] = t1]
      \/ rcv' = [rcv EXCEPT ![c] = t2] /\ s.state = "FRAME"
      \/ rcv' = [rcv EXCEPT ![c] = t3]
  <2>1. [rcv EXCEPT ![c].run = "finish"] = [rcv EXCEPT ![c] = t2]
    BY <1>1
  <2>2. \/ rcv' = [rcv EXCEPT ![c] = t1]
        \/ rcv' = [rcv EXCEPT ![c].run = "finish"] /\ s.state = "FRAME"
        \/ rcv' = [rcv EXCEPT ![c] = t3]
    BY DEF OnData, OnFrame, AcknowledgePartial, Reply, Working
  <2> HIDE DEF s, t1, t2, t3
  <2> QED BY <2>1, <2>2, Zenon
<1>7. /\ t1 \in Server /\ t1.displaced = s.displaced /\ t1.run = "work"
      /\ t2 \in Server /\ t2.displaced = s.displaced /\ t2.run = "finish" /\ t2.state = s.state
      /\ t3 \in Server /\ t3.displaced = s.displaced /\ t3.run = "work"
  BY <1>1, <1>2 DEF Server, ReceiverStates, Acknowledged
<1> HIDE DEF t1, t2, t3
<1>8. /\ t1.run \in {"work", "finish"} /\ t1.run # "finish"
      /\ t2.run \in {"work", "finish"}
      /\ t3.run \in {"work", "finish"} /\ t3.run # "finish"
  BY <1>7
<1>9. Fits(c, t1) /\ Fits(c, t3)
  BY <1>2, <1>7, <1>8, WorkFits, Zenon
<1>10. s.state = "FRAME" => Fits(c, t2)
  <2>1. s.state = "FRAME" => t2.state # "AWAITING_DURABILITY"
    BY <1>7
  <2> QED BY <1>2, <1>7, <1>8, <2>1, WorkFits, Zenon
<1> HIDE DEF s
<1> QED BY <1>2, <1>5, <1>6, <1>9, <1>10, FitsStep, Zenon

\* A report changes the count of durable Frames and wakes the owner.
LEMMA ReportKeeps ==
  ASSUME RecvTypes, RecvInv, NEW c \in Conns, Report(c)
  PROVE  RecvKept
<1> DEFINE o == rec.owner
<1>1. /\ rcv \in [Conns -> Server] /\ rcvOpen \in [Conns -> BOOLEAN] /\ Record(rec)
      /\ o \in Conns \cup {NoOwner}
  BY DEF RecvTypes
<1>2. PICK a : /\ rec' = [rec EXCEPT !.acked = a]
               /\ \/ rcv' = rcv /\ a = rec.acked
                  \/ rcv' = WokenByReport(a)
  <2> DEFINE n == Prefix(c)
             index == pipe[c][n].index
             acked == IF index = Stale THEN rec.acked ELSE NewAcked(index)
  <2>1. /\ rec' = [rec EXCEPT !.acked = acked]
        /\ rcv' = IF index = Stale THEN rcv ELSE WokenByReport(acked)
    BY Zenon DEF Report
  <2>2. index = Stale => acked = rec.acked
    BY Zenon
  <2> HIDE DEF acked, index
  <2>3. index = Stale \/ rcv' = WokenByReport(acked)
    BY <2>1, Zenon
  <2>4. index = Stale => rcv' = rcv
    BY <2>1, Zenon
  <2> QED BY <2>1, <2>2, <2>3, <2>4, Zenon
<1>3. rcvOpen' = rcvOpen
  BY DEF Report, wire
<1>4. Record(rec') /\ rec'.owner = o /\ rec'.read = rec.read /\ rec'.acked = a
  BY <1>1, <1>2 DEF Record
<1>5. IsDurable' <=> a = rec.read
  BY <1>4 DEF IsDurable
<1>6. o # NoOwner => o \in Conns
  BY <1>1, Zenon
<1>7. /\ rcv' \in [Conns -> Server]
      /\ \A d \in Conns :
            /\ rcv'[d].state = rcv[d].state /\ rcv'[d].run = rcv[d].run
            /\ rcv'[d].displaced = rcv[d].displaced /\ rcv'[d].awaiting = rcv[d].awaiting
            /\ rcv[d].event => rcv'[d].event
            /\ ~rcvOpen[d] => rcv'[d] = rcv[d]
      /\ o # NoOwner /\ rcv[o].awaiting /\ ~IsDurable /\ IsDurable' => rcv'[o].event
  <2>1. CASE rcv' = [rcv EXCEPT ![o].event = TRUE] /\ o # NoOwner
    <3>1. o \in Conns /\ rcvOpen[o]
      BY <1>6, <2>1, Zenon DEF RecvInv
    <3>2. /\ rcv' \in [Conns -> Server] /\ rcv'[o].event
          /\ \A d \in Conns :
                /\ rcv'[d].state = rcv[d].state /\ rcv'[d].run = rcv[d].run
                /\ rcv'[d].displaced = rcv[d].displaced /\ rcv'[d].awaiting = rcv[d].awaiting
                /\ rcv[d].event => rcv'[d].event
                /\ d # o => rcv'[d] = rcv[d]
      <4> HIDE DEF o
      <4> QED BY <1>1, <2>1, <3>1 DEF Server
    <3> HIDE DEF o
    <3> QED BY <3>1, <3>2, Zenon
  <2>2. CASE rcv' = rcv /\ ~(o # NoOwner /\ rcv[o].awaiting /\ ~IsDurable /\ IsDurable')
    <3> HIDE DEF o
    <3> QED BY <1>1, <2>2, Zenon
  <2>3. rcv' = rcv /\ a = rec.acked => (IsDurable' <=> IsDurable)
    BY <1>5 DEF IsDurable
  <2>4. rcv' = WokenByReport(a) =>
           \/ rcv' = [rcv EXCEPT ![o].event = TRUE] /\ o # NoOwner
           \/ rcv' = rcv /\ ~(o # NoOwner /\ rcv[o].awaiting /\ a = rec.read)
    BY DEF WokenByReport, Woken
  <2> HIDE DEF o
  <2> QED BY <1>2, <1>5, <2>1, <2>2, <2>3, <2>4, Zenon
<1>8. RecvTypes'
  BY <1>1, <1>3, <1>4, <1>7, Zenon DEF RecvTypes
<1>9. \A d \in Conns : Synced(d)' <=> Synced(d)
  BY <1>4, <1>7, Zenon DEF Synced
<1> HIDE DEF o
<1>10. \A d \in Conns : rcv'[d].run = "suspended" =>
          /\ rcv'[d].state = "AWAITING_DURABILITY"
          /\ rcv'[d].event \/ (rec'.owner = d /\ rcv'[d].awaiting /\ ~IsDurable')
  <2>1. SUFFICES ASSUME NEW d \in Conns, rcv'[d].run = "suspended"
                 PROVE  /\ rcv'[d].state = "AWAITING_DURABILITY"
                        /\ rcv'[d].event \/ (rec'.owner = d /\ rcv'[d].awaiting /\ ~IsDurable')
    BY Zenon
  <2>2. rcv[d].run = "suspended"
    BY <1>7, <2>1, Zenon
  <2>3. /\ rcv[d].state = "AWAITING_DURABILITY"
        /\ rcv[d].event \/ (o = d /\ rcv[d].awaiting /\ ~IsDurable)
    BY <2>2, Zenon DEF RecvInv, o
  <2>4. d # NoOwner
    BY DEF Conns, NoOwner
  <2> QED BY <1>4, <1>7, <2>3, <2>4, Zenon
<1>11. \A d \in Conns : ~rcvOpen'[d] => rcv'[d] = NewServer
  <2>1. \A d \in Conns : ~rcvOpen[d] => rcv[d] = NewServer
    BY Zenon DEF RecvInv
  <2>2. \A d \in Conns : ~rcvOpen[d] => rcv'[d] = rcv[d]
    BY <1>7, Zenon
  <2>3. \A d \in Conns : ~rcvOpen[d] => rcv'[d] = NewServer
    BY <2>1, <2>2, Zenon
  <2> QED BY <1>3, <2>3, Zenon
<1>12. RecvInv'
  <2>1. rec'.owner # NoOwner => rcvOpen'[rec'.owner]
    BY <1>3, <1>4, Zenon DEF RecvInv, o
  <2>2. \A d \in Conns : rcv'[d].state \in PastSync => Synced(d)'
    BY <1>7, <1>9, Zenon DEF RecvInv
  <2>3. \A d, e \in Conns : rcv'[d].run = "work" /\ rcv'[e].run = "work" => d = e
    <3>1. \A d, e \in Conns : rcv[d].run = "work" /\ rcv[e].run = "work" => d = e
      BY Zenon DEF RecvInv
    <3>2. \A d \in Conns : rcv'[d].run = rcv[d].run
      BY <1>7, Zenon
    <3> QED BY <3>1, <3>2, Zenon
  <2>4. \A d \in Conns : rcv'[d].run = "work" /\ rcv'[d].displaced => rcv'[d].state = "CLOSED"
    <3>1. \A d \in Conns : rcv[d].run = "work" /\ rcv[d].displaced => rcv[d].state = "CLOSED"
      BY Zenon DEF RecvInv
    <3>2. \A d \in Conns : rcv'[d].run = rcv[d].run /\ rcv'[d].displaced = rcv[d].displaced
                              /\ rcv'[d].state = rcv[d].state
      BY <1>7, Zenon
    <3> QED BY <3>1, <3>2, Zenon
  <2>5. \A d \in Conns : rcv'[d].run # "work" /\ rcv'[d].state = "AWAITING_DURABILITY"
            => rcv'[d].displaced \/ (rec'.owner = d /\ rcv'[d].awaiting)
    BY <1>4, <1>7, Zenon DEF RecvInv, o
  <2> QED BY <1>10, <1>11, <2>1, <2>2, <2>3, <2>4, <2>5, Zenon DEF RecvInv
<1> QED BY <1>8, <1>9, <1>12, Zenon DEF RecvKept

\* A SYNC: the connection takes the Session over, the owner is displaced and
\* woken.
LEMMA SyncKeeps ==
  ASSUME RecvTypes, RecvInv, NEW c \in Conns, OnSync(c)
  PROVE  RecvKept /\ Synced(c)'
<1> DEFINE o == rec.owner
<1>1. /\ rcv \in [Conns -> Server] /\ rcvOpen \in [Conns -> BOOLEAN] /\ Record(rec)
      /\ o \in Conns \cup {NoOwner}
  BY DEF RecvTypes
<1>2. /\ rcvOpen[c] /\ rcvOpen' = rcvOpen /\ rcv[c].run = "work" /\ rcv[c].state = "COMMAND"
      /\ rec' = [rec EXCEPT !.owner = c] /\ rcv' = TakeOver(c)
  BY DEF OnSync, Working
<1>3. Record(rec') /\ rec'.owner = c
  BY <1>1, <1>2 DEF Record
<1>4. /\ \A d \in Conns : rcv[d].run = "work" => d = c
      /\ o # NoOwner => rcvOpen[o]
      /\ ~rcv[c].displaced
  <2>1. rcv[c].state # "CLOSED"
    BY <1>2
  <2> QED BY <1>2, <2>1, Zenon DEF RecvInv
<1>5. /\ rcv' \in [Conns -> Server]
      /\ rcv'[c].state = "SYNC" /\ rcv'[c].run = "work" /\ rcv'[c].displaced = rcv[c].displaced
      /\ \A d \in Conns \ {c, o} : rcv'[d] = rcv[d]
      /\ o \in Conns \ {c} =>
            /\ rcv'[o].state = rcv[o].state /\ rcv'[o].run = rcv[o].run
            /\ rcv'[o].displaced /\ rcv'[o].event
  <2> DEFINE servers == [rcv EXCEPT ![c].state = "SYNC"]
  <2>1. /\ servers \in [Conns -> Server] /\ servers[c].state = "SYNC" /\ servers[c].run = "work"
        /\ servers[c].displaced = rcv[c].displaced
        /\ \A d \in Conns \ {c} : servers[d] = rcv[d]
    BY <1>1, <1>2 DEF Server, ReceiverStates
  <2>2. CASE o \in {NoOwner, c}
    <3>1. rcv' = servers
      BY <1>2, <2>2 DEF TakeOver
    <3> HIDE DEF servers, o
    <3>2. o \notin Conns \ {c}
      BY <2>2 DEF NoOwner, Conns
    <3> QED BY <2>1, <3>1, <3>2, Zenon
  <2>3. CASE o \notin {NoOwner, c}
    <3>1. rcv' = [servers EXCEPT ![o].displaced = TRUE, ![o].awaiting = FALSE, ![o].event = TRUE]
      BY <1>2, <2>3 DEF TakeOver
    <3>2. o \in Conns /\ o # c
      BY <1>1, <2>3
    <3> HIDE DEF servers, o
    <3>3. /\ rcv' \in [Conns -> Server]
          /\ \A d \in Conns \ {o} : rcv'[d] = servers[d]
          /\ rcv'[o].state = servers[o].state /\ rcv'[o].run = servers[o].run
          /\ rcv'[o].displaced /\ rcv'[o].event
      <4> DEFINE t == [servers[o] EXCEPT !.displaced = TRUE, !.awaiting = FALSE, !.event = TRUE]
      <4>1. rcv' = [servers EXCEPT ![o] = t]
        BY <2>1, <3>1, <3>2
      <4>2. /\ t \in Server /\ t.state = servers[o].state /\ t.run = servers[o].run
            /\ t.displaced /\ t.event
        BY <2>1, <3>2 DEF Server
      <4> HIDE DEF t, Server
      <4> QED BY <2>1, <3>2, <4>1, <4>2
    <3>4. /\ \A d \in Conns \ {c, o} : rcv'[d] = rcv[d]
          /\ rcv'[c] = servers[c] /\ servers[o] = rcv[o]
      BY <2>1, <3>2, <3>3
    <3> QED BY <2>1, <3>2, <3>3, <3>4, Zenon
  <2> QED BY <2>2, <2>3, Zenon
<1>6. RecvTypes'
  <2>1. rec'.owner \in Conns \cup {NoOwner}
    BY <1>3
  <2> QED BY <1>1, <1>2, <1>3, <1>5, <2>1, Zenon DEF RecvTypes
<1> HIDE DEF o
<1>7. \A d \in Conns : d = c \/ d \in Conns \ {c, o} \/ (d = o /\ o \in Conns \ {c})
  OBVIOUS
<1>8. Synced(c)' /\ \A d \in Conns : Synced(d) => Synced(d)'
  <2>1. \A d \in Conns \ {c, o} : Synced(d) => Synced(d)'
    BY <1>5 DEF Synced, o
  <2>2. Synced(c)'
    BY <1>3, Zenon DEF Synced
  <2>3. \A d \in Conns : d = o /\ o \in Conns \ {c} => Synced(d)'
    BY <1>5, Zenon DEF Synced
  <2> QED BY <1>7, <2>1, <2>2, <2>3, Zenon
<1>9. \A d \in Conns : ~rcvOpen'[d] => rcv'[d] = NewServer
  <2>1. o = NoOwner => \A d \in Conns : d # o
    BY DEF NoOwner, Conns
  <2>2. \A d \in Conns : ~rcvOpen[d] => rcv[d] = NewServer
    BY Zenon DEF RecvInv
  <2>3. \A d \in Conns : ~rcvOpen[d] => d \in Conns \ {c, o}
    <3>1. \A d \in Conns : ~rcvOpen[d] => d # c /\ d # o
      BY <1>2, <1>4, <2>1, Zenon
    <3> QED BY <3>1
  <2>4. \A d \in Conns : ~rcvOpen[d] => rcv'[d] = rcv[d]
    BY <1>5, <2>3, Zenon
  <2>5. \A d \in Conns : ~rcvOpen[d] => rcv'[d] = NewServer
    BY <2>2, <2>4, Zenon
  <2> QED BY <1>2, <2>5, Zenon
<1>10. \A d \in Conns : rcv'[d].state \in PastSync => Synced(d)'
  <2>1. \A d \in Conns \ {c} : rcv'[d].state = rcv[d].state
    BY <1>5, <1>7, Zenon
  <2>2. \A d \in Conns : d = c \/ d \in Conns \ {c}
    OBVIOUS
  <2> QED BY <1>8, <2>1, <2>2, Zenon DEF RecvInv
<1>11. \A d \in Conns : rcv'[d].run = rcv[d].run
  BY <1>2, <1>5, <1>7, Zenon
<1>12. \A d \in Conns : rcv'[d].run = "work" => d = c
  BY <1>4, <1>11, Zenon
<1>13. \A d \in Conns : rcv'[d].run # "work" /\ rcv'[d].state = "AWAITING_DURABILITY"
          => rcv'[d].displaced \/ (rec'.owner = d /\ rcv'[d].awaiting)
  <2>1. \A d \in Conns \ {c, o} : d # o
    OBVIOUS
  <2>2. \A d \in Conns : rcv[d].run # "work" /\ rcv[d].state = "AWAITING_DURABILITY"
            => rcv[d].displaced \/ o = d
    BY Zenon DEF RecvInv, o
  <2>3. rcv'[c].run = "work"
    BY <1>5, Zenon
  <2>4. \A d \in Conns : d = o /\ o \in Conns \ {c} => rcv'[d].displaced
    BY <1>5, Zenon
  <2> QED BY <1>5, <1>7, <2>1, <2>2, <2>3, <2>4, Zenon
<1>14. \A d \in Conns : rcv'[d].run = "suspended" =>
          /\ rcv'[d].state = "AWAITING_DURABILITY"
          /\ rcv'[d].event \/ (rec'.owner = d /\ rcv'[d].awaiting /\ ~IsDurable')
  <2>1. \A d \in Conns \ {c, o} : d # o
    OBVIOUS
  <2>2. rcv'[c].run # "suspended"
    BY <1>5
  <2>3. \A d \in Conns : rcv[d].run = "suspended" =>
            rcv[d].state = "AWAITING_DURABILITY" /\ (rcv[d].event \/ o = d)
    BY Zenon DEF RecvInv, o
  <2>4. \A d \in Conns : d = o /\ o \in Conns \ {c} =>
            rcv'[d].event /\ rcv'[d].state = rcv[d].state /\ rcv'[d].run = rcv[d].run
    BY <1>5, Zenon
  <2> QED BY <1>5, <1>7, <2>1, <2>2, <2>3, <2>4, Zenon
<1>15. \A d \in Conns : rcv'[d].run = "work" /\ rcv'[d].displaced => rcv'[d].state = "CLOSED"
  BY <1>4, <1>5, <1>12, Zenon
<1>16. RecvInv'
  <2>1. rec'.owner # NoOwner => rcvOpen'[rec'.owner]
    BY <1>2, <1>3, Zenon
  <2>2. \A d, e \in Conns : rcv'[d].run = "work" /\ rcv'[e].run = "work" => d = e
    BY <1>12, Zenon
  <2> QED BY <1>9, <1>10, <1>13, <1>14, <1>15, <2>1, <2>2, Zenon DEF RecvInv
<1> QED BY <1>6, <1>8, <1>16, Zenon DEF RecvKept

\* The connection is freed and gives the Session up.
LEMMA FreeKeeps ==
  ASSUME RecvTypes, RecvInv, NEW c \in Conns, Free(c)
  PROVE  RecvKept
<1> DEFINE o == rec.owner
           p == IF o = c THEN NoOwner ELSE o
<1>1. /\ rcv \in [Conns -> Server] /\ rcvOpen \in [Conns -> BOOLEAN] /\ Record(rec)
      /\ o \in Conns \cup {NoOwner}
  BY DEF RecvTypes
<1>2. NewServer \in Server /\ NewServer.run = "poll" /\ NewServer.state = "GREETING"
  BY DEF NewServer, Server, ReceiverStates
<1>3. /\ rcv' \in [Conns -> Server] /\ rcv'[c] = NewServer
      /\ \A d \in Conns : d # c => rcv'[d] = rcv[d]
  <2>1. rcv' = [rcv EXCEPT ![c] = NewServer]
    BY DEF Free
  <2> HIDE DEF Server, NewServer
  <2> QED BY <1>1, <1>2, <2>1
<1>4. /\ rcvOpen' \in [Conns -> BOOLEAN] /\ ~rcvOpen'[c]
      /\ \A d \in Conns : d # c => rcvOpen'[d] = rcvOpen[d]
  <2>1. rcvOpen' = [rcvOpen EXCEPT ![c] = FALSE]
    BY DEF Free
  <2> QED BY <1>1, <2>1
<1>5. /\ Record(rec') /\ rec'.owner = p /\ rec'.read = rec.read /\ rec'.acked = rec.acked
  <2>1. rec' = [rec EXCEPT !.owner = p]
    BY DEF Free
  <2> HIDE DEF p
  <2> QED BY <1>1, <2>1 DEF Record
<1>6. IsDurable' = IsDurable
  BY <1>5, Zenon DEF IsDurable
<1>7. p \in Conns \cup {NoOwner} /\ (p # NoOwner => p = o /\ o # c /\ o \in Conns)
  BY <1>1
<1>8. \A d \in Conns : d # c /\ o = d => p = d
  BY Zenon
<1> HIDE DEF p, o
<1>9. RecvTypes'
  BY <1>3, <1>4, <1>5, <1>7, Zenon DEF RecvTypes
<1>10. \A d \in Conns : d # c /\ Synced(d) => Synced(d)'
  BY <1>3, <1>5, <1>8, Zenon DEF Synced, o
<1>11. rec'.owner # NoOwner => rcvOpen'[rec'.owner]
  <2>1. o # NoOwner => rcvOpen[o]
    BY Zenon DEF RecvInv, o
  <2> QED BY <1>4, <1>5, <1>7, <2>1, Zenon
<1>12. \A d \in Conns : ~rcvOpen'[d] => rcv'[d] = NewServer
  <2>1. \A d \in Conns : ~rcvOpen[d] => rcv[d] = NewServer
    BY Zenon DEF RecvInv
  <2>2. \A d \in Conns : d # c /\ ~rcvOpen'[d] => ~rcvOpen[d]
    BY <1>4
  <2>3. \A d \in Conns : d # c /\ ~rcvOpen'[d] => rcv'[d] = rcv[d] /\ rcv[d] = NewServer
    BY <1>3, <2>1, <2>2, Zenon
  <2>4. \A d \in Conns : d # c /\ ~rcvOpen'[d] => rcv'[d] = NewServer
    BY <2>3, Zenon
  <2> QED BY <1>3, <2>4, Zenon
<1>13. /\ rcv'[c].state \notin PastSync /\ rcv'[c].run # "work" /\ rcv'[c].run # "suspended"
       /\ rcv'[c].state # "AWAITING_DURABILITY"
  BY <1>2, <1>3 DEF PastSync
<1>14. \A d \in Conns : rcv'[d].state \in PastSync => Synced(d)'
  BY <1>3, <1>10, <1>13, Zenon DEF RecvInv
<1>15. \A d, e \in Conns : rcv'[d].run = "work" /\ rcv'[e].run = "work" => d = e
  <2>1. \A d, e \in Conns : rcv[d].run = "work" /\ rcv[e].run = "work" => d = e
    BY Zenon DEF RecvInv
  <2> QED BY <1>3, <1>13, <2>1, Zenon
<1>16. \A d \in Conns : rcv'[d].run = "work" /\ rcv'[d].displaced => rcv'[d].state = "CLOSED"
  <2>1. \A d \in Conns : rcv[d].run = "work" /\ rcv[d].displaced => rcv[d].state = "CLOSED"
    BY Zenon DEF RecvInv
  <2> QED BY <1>3, <1>13, <2>1, Zenon
<1>17. \A d \in Conns : rcv'[d].run # "work" /\ rcv'[d].state = "AWAITING_DURABILITY"
          => rcv'[d].displaced \/ (rec'.owner = d /\ rcv'[d].awaiting)
  <2>1. \A d \in Conns : rcv[d].run # "work" /\ rcv[d].state = "AWAITING_DURABILITY"
          => rcv[d].displaced \/ (o = d /\ rcv[d].awaiting)
    BY Zenon DEF RecvInv, o
  <2> QED BY <1>3, <1>5, <1>8, <1>13, <2>1, Zenon
<1>18. \A d \in Conns : rcv'[d].run = "suspended" =>
          /\ rcv'[d].state = "AWAITING_DURABILITY"
          /\ rcv'[d].event \/ (rec'.owner = d /\ rcv'[d].awaiting /\ ~IsDurable')
  <2>1. \A d \in Conns : rcv[d].run = "suspended" =>
          /\ rcv[d].state = "AWAITING_DURABILITY"
          /\ rcv[d].event \/ (o = d /\ rcv[d].awaiting /\ ~IsDurable)
    BY Zenon DEF RecvInv, o
  <2> QED BY <1>3, <1>5, <1>6, <1>8, <1>13, <2>1, Zenon
<1>19. RecvInv'
  BY <1>11, <1>12, <1>14, <1>15, <1>16, <1>17, <1>18, Zenon DEF RecvInv
<1> QED BY <1>4, <1>9, <1>10, <1>19, Zenon DEF RecvKept

\* All connections are new: at first, and after a crash of the Receiver.
Fresh ==
    /\ rcv = [c \in Conns |-> NewServer] /\ rcvOpen = [c \in Conns |-> FALSE]
    /\ Record(rec) /\ rec.owner = NoOwner

\* Connections that are all new are consistent.
LEMMA FreshReceiver == Fresh => RecvTypes /\ RecvInv
<1> SUFFICES ASSUME Fresh PROVE RecvTypes /\ RecvInv
  OBVIOUS
<1> USE DEF Fresh
<1>1. NewServer \in Server
  BY DEF NewServer, Server, ReceiverStates
<1>2. NewServer.run = "poll" /\ NewServer.state = "GREETING"
  BY DEF NewServer
<1>3. \A c \in Conns : rcv[c] = NewServer
  BY Zenon
<1>4. rcv \in [Conns -> Server] /\ rcvOpen \in [Conns -> BOOLEAN]
  <2> HIDE DEF Server, NewServer
  <2> QED BY <1>1
<1>5. RecvTypes
  BY <1>4 DEF RecvTypes
<1>6. \A c \in Conns : /\ rcv[c].state \notin PastSync /\ rcv[c].run # "work"
                       /\ rcv[c].run # "suspended" /\ rcv[c].state # "AWAITING_DURABILITY"
  BY <1>2, <1>3 DEF PastSync
<1>7. RecvInv
  BY <1>3, <1>6, Zenon DEF RecvInv
<1> QED BY <1>5, <1>7, Zenon

\* A crash leaves no connection, and the Session without an owner.
LEMMA CrashKeeps ==
  ASSUME RecvTypes, ReceiverCrash
  PROVE  RecvKept
<1>1. /\ rcv' = [c \in Conns |-> NewServer] /\ rcvOpen' = [c \in Conns |-> FALSE]
      /\ rec' = RestartRule(rec)
  BY DEF ReceiverCrash
<1>2. Record(rec') /\ rec'.owner = NoOwner
  BY <1>1 DEF RecvTypes, Record, RestartRule
<1>3. Fresh'
  BY <1>1, <1>2, Zenon DEF Fresh
<1>4. RecvTypes' /\ RecvInv'
  BY <1>3, FreshReceiver, PTL
<1>5. \A c \in Conns : ~rcvOpen'[c]
  BY <1>1, Zenon
<1> QED BY <1>4, <1>5, Zenon DEF RecvKept

\* The Sender opens the next connection.
LEMMA ConnectKeeps ==
  ASSUME RecvTypes, RecvInv, NEW k \in Conns, ~rcvOpen[k],
         rcvOpen' = [rcvOpen EXCEPT ![k] = TRUE], rcv' = rcv, rec' = rec
  PROVE  RecvKept
<1>1. /\ rcvOpen' \in [Conns -> BOOLEAN] /\ \A d \in Conns : rcvOpen[d] => rcvOpen'[d]
  BY DEF RecvTypes
<1>2. RecvTypes'
  BY <1>1, Zenon DEF RecvTypes
<1>3. \A d \in Conns : Synced(d)' <=> Synced(d)
  BY Zenon DEF Synced
<1>4. IsDurable' = IsDurable
  BY Zenon DEF IsDurable
<1>5. rec'.owner # NoOwner => rcvOpen'[rec'.owner]
  <2>1. rec.owner # NoOwner => rcvOpen[rec.owner] /\ rec.owner \in Conns
    BY Zenon DEF RecvInv, RecvTypes
  <2> QED BY <1>1, <2>1, Zenon
<1>6. RecvInv'
  BY <1>1, <1>3, <1>4, <1>5, Zenon DEF RecvInv
<1> QED BY <1>2, <1>3, <1>6, Zenon DEF RecvKept

\* A step that leaves the connections and the Session Record alone.
LEMMA StillKeeps ==
  ASSUME RecvTypes, RecvInv, rcvOpen' = rcvOpen, rcv' = rcv, rec' = rec
  PROVE  RecvKept
<1>1. RecvTypes'
  BY Zenon DEF RecvTypes
<1>2. \A d \in Conns : Synced(d)' <=> Synced(d)
  BY Zenon DEF Synced
<1>3. IsDurable' = IsDurable
  BY Zenon DEF IsDurable
<1>4. RecvInv'
  BY <1>2, <1>3, Zenon DEF RecvInv
<1> QED BY <1>1, <1>2, <1>4, Zenon DEF RecvKept

----------------------------------------------------------------------------
(* What is on its way to the Receiver.                                     *)

\* A sequence, of whatever it holds.
IsSeq(s) == s \in Seq({s[i] : i \in DOMAIN s})

\* A SYNC is on its way; nothing but EHLOs is in front of the first one.
SyncOn(s) == \E i \in 1..Len(s) : s[i] = <<"SYNC">>
AfterSync(s) == \A i \in 1..Len(s) : s[i] # <<"EHLO">> => \E j \in 1..i : s[j] = <<"SYNC">>

\* A sequence over any set is one.
LEMMA SeqIs ==
  ASSUME NEW S, NEW s \in Seq(S)
  PROVE  IsSeq(s)
BY DEF IsSeq

\* What _drain_output() and _on_reply_line() write goes behind what is there.
LEMMA SeqJoin ==
  ASSUME NEW s, NEW x, IsSeq(s), IsSeq(x)
  PROVE  /\ IsSeq(s \o x) /\ Len(s \o x) = Len(s) + Len(x) /\ Len(s) \in Nat /\ Len(x) \in Nat
         /\ \A i \in 1..Len(s) : (s \o x)[i] = s[i]
         /\ \A i \in 1..Len(x) : (s \o x)[Len(s) + i] = x[i]
<1> DEFINE S == {s[i] : i \in DOMAIN s} \cup {x[i] : i \in DOMAIN x}
<1>1. s \in Seq(S) /\ x \in Seq(S)
  BY DEF IsSeq
<1> HIDE DEF S
<1>2. s \o x \in Seq(S)
  BY <1>1
<1>3. IsSeq(s \o x)
  BY <1>2, SeqIs, Zenon
<1> QED BY <1>1, <1>3

\* A SYNC stays on its way, and in front, when more is written behind it.
LEMMA SyncJoin ==
  ASSUME NEW s, NEW x, IsSeq(s), IsSeq(x)
  PROVE  /\ SyncOn(s) \/ SyncOn(x) => SyncOn(s \o x)
         /\ AfterSync(s) /\ (SyncOn(s) \/ AfterSync(x)) => AfterSync(s \o x)
<1> DEFINE t == s \o x
<1>1. /\ Len(t) = Len(s) + Len(x) /\ Len(s) \in Nat /\ Len(x) \in Nat
      /\ \A i \in 1..Len(s) : t[i] = s[i]
      /\ \A i \in 1..Len(x) : t[Len(s) + i] = x[i]
  BY SeqJoin
<1> HIDE DEF t
<1>2. SyncOn(s) => SyncOn(t)
  <2>1. SUFFICES ASSUME NEW i \in 1..Len(s), s[i] = <<"SYNC">> PROVE SyncOn(t)
    BY DEF SyncOn
  <2>2. i \in 1..Len(t) /\ t[i] = <<"SYNC">>
    BY <1>1, <2>1
  <2> QED BY <2>2, Zenon DEF SyncOn
<1>3. SyncOn(x) => SyncOn(t)
  <2>1. SUFFICES ASSUME NEW i \in 1..Len(x), x[i] = <<"SYNC">> PROVE SyncOn(t)
    BY DEF SyncOn
  <2>2. Len(s) + i \in 1..Len(t) /\ t[Len(s) + i] = <<"SYNC">>
    BY <1>1, <2>1
  <2> QED BY <2>2, Zenon DEF SyncOn
<1>4. ASSUME AfterSync(s), SyncOn(s) \/ AfterSync(x) PROVE AfterSync(t)
  <2>1. SUFFICES ASSUME NEW i \in 1..Len(t), t[i] # <<"EHLO">>
                 PROVE  \E j \in 1..i : t[j] = <<"SYNC">>
    BY DEF AfterSync
  <2>2. CASE i <= Len(s)
    <3>1. i \in 1..Len(s) /\ s[i] # <<"EHLO">>
      BY <1>1, <2>1, <2>2
    <3>2. PICK j \in 1..i : s[j] = <<"SYNC">>
      BY <1>4, <3>1 DEF AfterSync
    <3>3. t[j] = <<"SYNC">>
      BY <1>1, <2>2, <3>2
    <3> QED BY <3>3, Zenon
  <2>3. CASE i > Len(s) /\ SyncOn(s)
    <3>1. PICK j \in 1..Len(s) : s[j] = <<"SYNC">>
      BY <2>3 DEF SyncOn
    <3>2. j \in 1..i /\ t[j] = <<"SYNC">>
      BY <1>1, <2>3, <3>1
    <3> QED BY <3>2, Zenon
  <2>4. CASE i > Len(s) /\ AfterSync(x)
    <3>1. i - Len(s) \in 1..Len(x) /\ t[i] = x[i - Len(s)]
      <4>1. i - Len(s) \in 1..Len(x) /\ Len(s) + (i - Len(s)) = i
        BY <1>1, <2>4
      <4> QED BY <1>1, <4>1
    <3>2. PICK j \in 1..(i - Len(s)) : x[j] = <<"SYNC">>
      BY <2>1, <2>4, <3>1 DEF AfterSync
    <3>3. Len(s) + j \in 1..i /\ t[Len(s) + j] = <<"SYNC">>
      <4>1. j \in 1..Len(x)
        BY <1>1, <3>1, <3>2
      <4> QED BY <1>1, <2>4, <3>2, <4>1
    <3> QED BY <3>3, Zenon
  <2>5. i <= Len(s) \/ i > Len(s)
    BY <1>1
  <2> QED BY <1>4, <2>2, <2>3, <2>4, <2>5, Zenon
<1> QED BY <1>2, <1>3, <1>4, Zenon DEF t

\* An EHLO that is read leaves the SYNC on its way and in front.
LEMMA SyncTail ==
  ASSUME NEW s, IsSeq(s), s # <<>>
  PROVE  /\ IsSeq(Tail(s))
         /\ Head(s) = <<"EHLO">> => /\ SyncOn(s) => SyncOn(Tail(s))
                                    /\ AfterSync(s) => AfterSync(Tail(s))
         /\ AfterSync(s) => Head(s) \in {<<"EHLO">>, <<"SYNC">>}
<1> DEFINE S == {s[i] : i \in DOMAIN s}
           t == Tail(s)
<1>1. s \in Seq(S)
  BY DEF IsSeq
<1> HIDE DEF S
<1>2. /\ t \in Seq(S) /\ Len(s) \in Nat /\ Len(s) > 0 /\ Len(t) = Len(s) - 1
      /\ \A i \in 1..Len(t) : t[i] = s[i + 1]
      /\ Head(s) = s[1]
  BY <1>1
<1>3. IsSeq(t)
  BY <1>2, SeqIs, Zenon
<1>4. <<"EHLO">> # <<"SYNC">>
  OBVIOUS
<1> HIDE DEF t
<1>5. ASSUME s[1] = <<"EHLO">>, SyncOn(s) PROVE SyncOn(t)
  <2>1. PICK i \in 1..Len(s) : s[i] = <<"SYNC">>
    BY <1>5 DEF SyncOn
  <2>2. i # 1
    BY <1>4, <1>5, <2>1
  <2>3. i - 1 \in 1..Len(t) /\ t[i - 1] = s[i]
    <3>1. i - 1 \in 1..Len(t) /\ (i - 1) + 1 = i
      BY <1>2, <2>2
    <3> QED BY <1>2, <3>1
  <2> QED BY <2>1, <2>3, Zenon DEF SyncOn
<1>6. ASSUME s[1] = <<"EHLO">>, AfterSync(s) PROVE AfterSync(t)
  <2>1. SUFFICES ASSUME NEW i \in 1..Len(t), t[i] # <<"EHLO">>
                 PROVE  \E j \in 1..i : t[j] = <<"SYNC">>
    BY DEF AfterSync
  <2>2. i + 1 \in 1..Len(s) /\ s[i + 1] # <<"EHLO">>
    BY <1>2, <2>1
  <2>3. PICK j \in 1..(i + 1) : s[j] = <<"SYNC">>
    BY <1>6, <2>2 DEF AfterSync
  <2>4. j # 1
    BY <1>4, <1>6, <2>3
  <2>5. j - 1 \in 1..i /\ t[j - 1] = <<"SYNC">>
    <3>1. j - 1 \in 1..i /\ j - 1 \in 1..Len(t) /\ (j - 1) + 1 = j
      BY <1>2, <2>3, <2>4
    <3> QED BY <1>2, <2>3, <3>1
  <2> QED BY <2>5, Zenon
<1>7. AfterSync(s) => Head(s) \in {<<"EHLO">>, <<"SYNC">>}
  <2>1. 1 \in 1..Len(s)
    BY <1>2
  <2>2. ASSUME AfterSync(s), s[1] # <<"EHLO">> PROVE s[1] = <<"SYNC">>
    <3>1. PICK j \in 1..1 : s[j] = <<"SYNC">>
      BY <2>1, <2>2 DEF AfterSync
    <3> QED BY <3>1
  <2> QED BY <1>2, <2>2
<1> QED BY <1>2, <1>3, <1>5, <1>6, <1>7, Zenon DEF t

----------------------------------------------------------------------------
(* The Sender, and the wire between the two.                               *)

Client(s) ==
    s = [state |-> s.state, conn |-> s.conn, kind |-> s.kind, posted |-> s.posted, out |-> s.out,
         terminatorDue |-> s.terminatorDue, inPost |-> s.inPost, written |-> s.written,
         release |-> s.release]

WireTypes ==
    /\ sndOpen \in [Conns -> BOOLEAN]
    /\ toReceiver = [c \in Conns |-> toReceiver[c]] /\ \A c \in Conns : IsSeq(toReceiver[c])

\* What the Sender has to write behind a SYNC it has only once that is written.
Settled(s) ==
    /\ Client(s) /\ s.conn \in 0..MaxConns /\ IsSeq(s.out)
    /\ s.out # <<>> \/ s.terminatorDue \/ s.release # None => s.state \in Late

SendInv ==
    /\ Settled(snd)
    /\ snd.state # "CLOSED" => snd.conn \in Conns /\ sndOpen[snd.conn]
    /\ \A c \in Conns : c > snd.conn => ~rcvOpen[c] /\ toReceiver[c] = <<>>

\* The SYNC of the Sender is on its way or was processed, and whatever is not an
\* EHLO comes behind it.
WireInv ==
    /\ snd.state \in Late /\ rcvOpen[snd.conn] => Synced(snd.conn) \/ SyncOn(toReceiver[snd.conn])
    /\ \A c \in Conns : rcvOpen[c] => Synced(c) \/ AfterSync(toReceiver[c])

\* A line the Receiver reads from connection c is taken from the wire.
Taken(c) ==
    /\ toReceiver' = [toReceiver EXCEPT ![c] = Tail(toReceiver[c])]
    /\ toReceiver[c] # <<>>
    /\ Head(toReceiver[c]) = <<"EHLO">> \/ Synced(c)'

\* The Sender stays as it is.
LEMMA ReadKeepsWire ==
  ASSUME RecvKept, WireTypes, SendInv, WireInv, NEW c \in Conns,
         snd' = snd, sndOpen' = sndOpen, rcvOpen' = rcvOpen,
         toReceiver' = toReceiver \/ Taken(c)
  PROVE  (WireTypes /\ SendInv /\ WireInv)'
<1>1. WireTypes'
  <2>1. CASE toReceiver' = toReceiver
    BY <2>1, Zenon DEF WireTypes
  <2>2. CASE Taken(c)
    <3>1. /\ toReceiver' = [toReceiver EXCEPT ![c] = Tail(toReceiver[c])]
          /\ toReceiver = [d \in Conns |-> toReceiver[d]]
          /\ \A d \in Conns : IsSeq(toReceiver[d])
          /\ toReceiver[c] # <<>>
      BY <2>2 DEF Taken, WireTypes
    <3>2. IsSeq(Tail(toReceiver[c]))
      BY <3>1, SyncTail, Zenon
    <3>3. /\ toReceiver' = [d \in Conns |-> toReceiver'[d]]
          /\ toReceiver'[c] = Tail(toReceiver[c])
          /\ \A d \in Conns : d # c => toReceiver'[d] = toReceiver[d]
      BY <3>1
    <3>4. \A d \in Conns : IsSeq(toReceiver'[d])
      BY <3>1, <3>2, <3>3, Zenon
    <3> QED BY <3>3, <3>4, Zenon DEF WireTypes
  <2> QED BY <2>1, <2>2, Zenon
<1>2. \A d \in Conns :
        /\ toReceiver[d] = <<>> => toReceiver'[d] = <<>>
        /\ Synced(d) /\ rcvOpen[d] => Synced(d)'
        /\ \/ toReceiver'[d] = toReceiver[d]
           \/ Synced(d)'
           \/ /\ IsSeq(toReceiver[d]) /\ toReceiver[d] # <<>> /\ Head(toReceiver[d]) = <<"EHLO">>
              /\ toReceiver'[d] = Tail(toReceiver[d])
  <2>1. \A d \in Conns : Synced(d) /\ rcvOpen[d] => Synced(d)'
    BY Zenon DEF RecvKept
  <2>2. CASE toReceiver' = toReceiver
    BY <2>1, <2>2, Zenon
  <2>3. CASE Taken(c)
    <3>1. /\ toReceiver' = [toReceiver EXCEPT ![c] = Tail(toReceiver[c])]
          /\ toReceiver = [d \in Conns |-> toReceiver[d]]
      BY <2>3, Zenon DEF Taken, WireTypes
    <3>2. /\ toReceiver'[c] = Tail(toReceiver[c])
          /\ \A d \in Conns : d # c => toReceiver'[d] = toReceiver[d]
      BY <3>1
    <3>3. IsSeq(toReceiver[c])
      BY Zenon DEF WireTypes
    <3> QED BY <2>1, <2>3, <3>2, <3>3, Zenon DEF Taken
  <2> QED BY <2>2, <2>3, Zenon
<1>3. \A d \in Conns : rcvOpen[d] =>
        /\ Synced(d) \/ SyncOn(toReceiver[d]) => Synced(d)' \/ SyncOn(toReceiver'[d])
        /\ Synced(d) \/ AfterSync(toReceiver[d]) => Synced(d)' \/ AfterSync(toReceiver'[d])
  BY <1>2, SyncTail, Zenon
<1>4. SendInv'
  BY <1>2, Zenon DEF SendInv
<1>5. snd.state \in Late => snd.conn \in Conns
  BY DEF SendInv, Late
<1>6. WireInv'
  <2>1. (snd.state \in Late /\ rcvOpen[snd.conn] => Synced(snd.conn) \/ SyncOn(toReceiver[snd.conn]))'
    <3>1. \A d \in Conns : snd.conn = d /\ snd.state \in Late /\ rcvOpen[d] =>
             Synced(d) \/ SyncOn(toReceiver[d])
      BY Zenon DEF WireInv
    <3>2. \A d \in Conns : snd'.conn = d /\ snd'.state \in Late /\ rcvOpen'[d] =>
             Synced(d)' \/ SyncOn(toReceiver'[d])
      BY <1>3, <3>1, Zenon
    <3>3. \A d \in Conns : snd'.conn = d /\ Synced(d)' => Synced(snd.conn)'
      BY Zenon DEF Synced
    <3> QED BY <1>5, <3>2, <3>3, Zenon
  <2>2. \A d \in Conns : rcvOpen[d] => Synced(d) \/ AfterSync(toReceiver[d])
    BY Zenon DEF WireInv
  <2>3. \A d \in Conns : rcvOpen'[d] => Synced(d)' \/ AfterSync(toReceiver'[d])
    BY <1>3, <2>2, Zenon
  <2> QED BY <2>1, <2>3, Zenon DEF WireInv
<1> QED BY <1>1, <1>4, <1>6, Zenon

\* Connections that are closed, or lost what a closed Sender left.
LEMMA DropKeepsWire ==
  ASSUME RecvTypes, RecvKept, WireTypes, SendInv, WireInv, snd' = snd, sndOpen' = sndOpen,
         toReceiver' = [d \in Conns |-> toReceiver'[d]],
         \A d \in Conns :
            /\ toReceiver'[d] = toReceiver[d] \/ toReceiver'[d] = <<>>
            /\ rcvOpen'[d] => rcvOpen[d]
            /\ rcvOpen'[d] => toReceiver'[d] = toReceiver[d] \/ ~sndOpen[d]
  PROVE  (WireTypes /\ SendInv /\ WireInv)'
<1>1. IsSeq(<<>>) /\ AfterSync(<<>>)
  BY DEF IsSeq, AfterSync
<1>2. WireTypes'
  <2>1. \A d \in Conns : IsSeq(toReceiver[d])
    BY Zenon DEF WireTypes
  <2>2. \A d \in Conns : IsSeq(toReceiver'[d])
    BY <1>1, <2>1, Zenon
  <2> QED BY <2>2, Zenon DEF WireTypes
<1>3. SendInv'
  <2>1. \A d \in Conns : d > snd.conn => ~rcvOpen[d] /\ toReceiver[d] = <<>>
    BY Zenon DEF SendInv
  <2>2. \A d \in Conns : d > snd.conn => ~rcvOpen'[d] /\ toReceiver'[d] = <<>>
    BY <2>1, Zenon
  <2> QED BY <2>2, Zenon DEF SendInv
<1>4. \A d \in Conns : rcvOpen'[d] /\ Synced(d) => Synced(d)'
  BY Zenon DEF RecvKept
<1>5. \A d \in Conns : rcvOpen'[d] => Synced(d)' \/ AfterSync(toReceiver'[d])
  <2>1. \A d \in Conns : rcvOpen[d] => Synced(d) \/ AfterSync(toReceiver[d])
    BY Zenon DEF WireInv
  <2> QED BY <1>1, <1>4, <2>1, Zenon
<1>6. \A d \in Conns : snd.conn = d /\ snd.state \in Late /\ rcvOpen'[d] =>
         Synced(d)' \/ SyncOn(toReceiver'[d])
  <2>1. \A d \in Conns : snd.conn = d /\ snd.state \in Late /\ rcvOpen[d] =>
           Synced(d) \/ SyncOn(toReceiver[d])
    BY Zenon DEF WireInv
  <2>2. \A d \in Conns : snd.conn = d /\ snd.state \in Late => sndOpen[d]
    BY DEF SendInv, Late
  <2> QED BY <1>4, <2>1, <2>2, Zenon
<1>7. snd.state \in Late => snd.conn \in Conns
  BY DEF SendInv, Late
<1>8. \A d \in Conns : snd'.conn = d /\ Synced(d)' => Synced(snd.conn)'
  BY Zenon DEF Synced
<1>9. (snd.state \in Late /\ rcvOpen[snd.conn] => Synced(snd.conn) \/ SyncOn(toReceiver[snd.conn]))'
  BY <1>6, <1>7, <1>8, Zenon
<1>10. WireInv'
  BY <1>5, <1>9, Zenon DEF WireInv
<1> QED BY <1>2, <1>3, <1>10, Zenon

\* The Sender writes x on its connection.
Writes(x) ==
    /\ toReceiver' = [toReceiver EXCEPT ![snd.conn] = toReceiver[snd.conn] \o x]
    /\ IsSeq(x) /\ snd.state # "CLOSED"
    /\ snd.state \in Late \/ AfterSync(x)
    /\ snd'.state \in Late => snd.state \in Late \/ SyncOn(x)

\* It does not close the connection.
GoesOn ==
    /\ Settled(snd') /\ snd'.conn = snd.conn
    /\ snd.state = "CLOSED" => snd'.state = "CLOSED"
    /\ sndOpen' = sndOpen /\ rcvOpen' = rcvOpen

\* A step of the Sender on an open connection.
LEMMA WriteKeepsWire ==
  ASSUME WireTypes, SendInv, WireInv, GoesOn, rcv' = rcv, rec' = rec,
         \/ toReceiver' = toReceiver /\ (snd'.state \in Late => snd.state \in Late)
         \/ \E x : Writes(x)
  PROVE  (WireTypes /\ SendInv /\ WireInv)'
<1> DEFINE k == snd.conn
<1>1. \A d \in Conns : Synced(d)' <=> Synced(d)
  BY Zenon DEF Synced
<1>2. /\ snd'.conn = k /\ sndOpen' = sndOpen /\ rcvOpen' = rcvOpen /\ Settled(snd)'
      /\ snd.state = "CLOSED" => snd'.state = "CLOSED"
  BY Zenon DEF GoesOn, Settled
<1>3. snd.state # "CLOSED" => k \in Conns /\ sndOpen[k]
  BY Zenon DEF SendInv
<1>4. snd'.state \in Late => snd'.state # "CLOSED"
  BY DEF Late
<1>5. \A d \in Conns : snd'.conn = d /\ Synced(d)' => Synced(snd.conn)'
  BY Zenon DEF Synced
<1>6. \A d \in Conns : d > k => ~rcvOpen[d] /\ toReceiver[d] = <<>>
  BY Zenon DEF SendInv
<1>7. \A d \in Conns : rcvOpen[d] => Synced(d) \/ AfterSync(toReceiver[d])
  BY Zenon DEF WireInv
<1>8. snd.state \in Late /\ rcvOpen[k] => Synced(k) \/ SyncOn(toReceiver[k])
  BY Zenon DEF WireInv
<1>9. /\ toReceiver = [d \in Conns |-> toReceiver[d]] /\ \A d \in Conns : IsSeq(toReceiver[d])
      /\ sndOpen \in [Conns -> BOOLEAN]
  BY Zenon DEF WireTypes
<1>10. SUFFICES /\ toReceiver' = [d \in Conns |-> toReceiver'[d]]
                /\ \A d \in Conns : IsSeq(toReceiver'[d])
                /\ \A d \in Conns : d > k => toReceiver'[d] = <<>>
                /\ \A d \in Conns : rcvOpen[d] => Synced(d) \/ AfterSync(toReceiver'[d])
                /\ \A d \in Conns : d = k /\ snd'.state \in Late /\ rcvOpen[d] =>
                      Synced(d) \/ SyncOn(toReceiver'[d])
  <2> HIDE DEF k
  <2>1. WireTypes'
    BY <1>2, <1>9, <1>10, Zenon DEF WireTypes
  <2>2. SendInv'
    <3>1. (snd.state # "CLOSED" => snd.conn \in Conns /\ sndOpen[snd.conn])'
      BY <1>2, <1>3, Zenon
    <3>2. (\A d \in Conns : d > snd.conn => ~rcvOpen[d] /\ toReceiver[d] = <<>>)'
      BY <1>2, <1>6, <1>10, Zenon
    <3> QED BY <1>2, <3>1, <3>2, Zenon DEF SendInv
  <2>3. (snd.state \in Late /\ rcvOpen[snd.conn] => Synced(snd.conn) \/ SyncOn(toReceiver[snd.conn]))'
    BY <1>1, <1>2, <1>3, <1>4, <1>5, <1>10, Zenon
  <2>4. (\A d \in Conns : rcvOpen[d] => Synced(d) \/ AfterSync(toReceiver[d]))'
    BY <1>1, <1>2, <1>10, Zenon
  <2> QED BY <2>1, <2>2, <2>3, <2>4, Zenon DEF WireInv
<1> HIDE DEF k
<1>11. CASE toReceiver' = toReceiver /\ (snd'.state \in Late => snd.state \in Late)
  BY <1>6, <1>7, <1>8, <1>9, <1>11, Zenon
<1>12. CASE \E x : Writes(x)
  <2>1. PICK x : Writes(x)
    BY <1>12, Zenon
  <2>2. /\ toReceiver' = [toReceiver EXCEPT ![k] = toReceiver[k] \o x]
        /\ IsSeq(x) /\ snd.state # "CLOSED"
        /\ snd.state \in Late \/ AfterSync(x)
        /\ snd'.state \in Late => snd.state \in Late \/ SyncOn(x)
    BY <2>1, Zenon DEF Writes, k
  <2>3. k \in Conns
    BY <1>3, <2>2, Zenon
  <2>4. /\ toReceiver' = [d \in Conns |-> toReceiver'[d]] /\ toReceiver'[k] = toReceiver[k] \o x
        /\ \A d \in Conns : d # k => toReceiver'[d] = toReceiver[d]
    <3> DEFINE y == toReceiver[k] \o x
    <3>1. toReceiver' = [toReceiver EXCEPT ![k] = y]
      BY <2>2, Zenon
    <3> HIDE DEF y
    <3>2. /\ toReceiver' = [d \in Conns |-> toReceiver'[d]] /\ toReceiver'[k] = y
          /\ \A d \in Conns : d # k => toReceiver'[d] = toReceiver[d]
      BY <1>9, <2>3, <3>1
    <3> QED BY <3>2, Zenon DEF y
  <2>5. IsSeq(toReceiver'[k])
    BY <1>9, <2>2, <2>3, <2>4, SeqJoin
  <2>6. \A d \in Conns : IsSeq(toReceiver'[d])
    BY <1>9, <2>4, <2>5, Zenon
  <2>7. \A d \in Conns : d > k => d # k
    <3>1. k \in Int
      BY <2>3 DEF Conns
    <3> QED BY <3>1 DEF Conns
  <2>8. \A d \in Conns : d > k => toReceiver'[d] = <<>>
    BY <1>6, <2>4, <2>7, Zenon
  <2>9. /\ SyncOn(toReceiver[k]) \/ SyncOn(x) => SyncOn(toReceiver'[k])
        /\ AfterSync(toReceiver[k]) /\ (SyncOn(toReceiver[k]) \/ AfterSync(x))
              => AfterSync(toReceiver'[k])
    <3> HIDE DEF SyncOn, AfterSync, IsSeq
    <3>1. IsSeq(toReceiver[k])
      BY <1>9, <2>3, Zenon
    <3> DEFINE y == toReceiver[k]
               z == y \o x
    <3>2. IsSeq(y) /\ IsSeq(x) /\ toReceiver'[k] = z
      BY <2>2, <2>4, <3>1, Zenon
    <3> HIDE DEF y
    <3>3. /\ SyncOn(y) \/ SyncOn(x) => SyncOn(z)
          /\ AfterSync(y) /\ (SyncOn(y) \/ AfterSync(x)) => AfterSync(z)
      BY <3>2, SyncJoin, Zenon
    <3> HIDE DEF z
    <3> QED BY <3>2, <3>3, Zenon DEF y
  <2>10. \A d \in Conns : d = k /\ snd'.state \in Late /\ rcvOpen[d] =>
            Synced(d) \/ SyncOn(toReceiver'[d])
    BY <1>8, <2>2, <2>9, Zenon
  <2>11. rcvOpen[k] => Synced(k) \/ AfterSync(toReceiver'[k])
    BY <1>7, <1>8, <2>2, <2>3, <2>9, Zenon
  <2>12. \A d \in Conns : rcvOpen[d] => Synced(d) \/ AfterSync(toReceiver'[d])
    BY <1>7, <2>4, <2>11, Zenon
  <2> QED BY <2>4, <2>6, <2>8, <2>10, <2>12, Zenon
<1> QED BY <1>11, <1>12, Zenon

\* Frames are appended to out_buf and taken from its front.
LEMMA SeqEdit ==
  ASSUME NEW s, IsSeq(s), NEW e
  PROVE  /\ IsSeq(Append(s, e)) /\ Append(s, e) = s \o <<e>> /\ IsSeq(<<e>>)
         /\ \A n \in 1..Len(s) :
               /\ IsSeq(SubSeq(s, n + 1, Len(s))) /\ s # <<>>
               /\ IsSeq([i \in 1..n |-> Frame(s[i])])
<1> DEFINE S == {s[i] : i \in DOMAIN s} \cup {e}
<1>1. s \in Seq(S) /\ e \in S
  BY DEF IsSeq
<1> HIDE DEF S
<1>2. Append(s, e) \in Seq(S) /\ <<e>> \in Seq(S) /\ Append(s, e) = s \o <<e>>
  BY <1>1
<1>3. ASSUME NEW n \in 1..Len(s)
      PROVE  /\ IsSeq(SubSeq(s, n + 1, Len(s))) /\ s # <<>>
             /\ IsSeq([i \in 1..n |-> Frame(s[i])])
  <2>1. SubSeq(s, n + 1, Len(s)) \in Seq(S) /\ s # <<>>
    BY <1>1
  <2> DEFINE x == [i \in 1..n |-> Frame(s[i])]
             F == {Frame(s[i]) : i \in 1..n}
  <2>2. x \in [1..n -> F] /\ n \in Nat
    BY <1>1
  <2>3. x \in Seq(F)
    <3> HIDE DEF F, x
    <3> QED BY <2>2
  <2> HIDE DEF F
  <2> QED BY <2>1, <2>3, SeqIs, Zenon
<1> QED BY <1>2, <1>3, SeqIs, Zenon

Posted(s, o, q) == [s EXCEPT !.out = o, !.posted = q, !.inPost = TRUE]

\* A Frame is put into out_buf; a Batch is closed.
LEMMA ClientEdits ==
  ASSUME NEW s, Client(s), NEW o, NEW q
  PROVE  /\ Client(Posted(s, o, q)) /\ Posted(s, o, q).conn = s.conn
         /\ Posted(s, o, q).out = o /\ Posted(s, o, q).state = s.state
         /\ Client(CloseBatch(s)) /\ CloseBatch(s).conn = s.conn /\ CloseBatch(s).out = s.out
         /\ CloseBatch(s).state = "BATCH_CLOSED"
<1>1. ASSUME NEW t, t = Posted(s, o, q)
      PROVE  Client(t) /\ t.conn = s.conn /\ t.out = o /\ t.state = s.state
  <2>1. /\ t.state = s.state /\ t.conn = s.conn /\ t.kind = s.kind /\ t.posted = q /\ t.out = o
        /\ t.terminatorDue = s.terminatorDue /\ t.inPost = TRUE /\ t.written = s.written
        /\ t.release = s.release
    BY <1>1 DEF Client, Posted
  <2> QED BY <1>1, <2>1 DEF Client, Posted
<1>2. ASSUME NEW t, t = [s EXCEPT !.state = "BATCH_CLOSED", !.terminatorDue = TRUE]
      PROVE  Client(t) /\ t.conn = s.conn /\ t.out = s.out /\ t.state = "BATCH_CLOSED"
  BY <1>2 DEF Client
<1> QED BY <1>1, <1>2, Zenon DEF CloseBatch

\* The Sender posts, skips, flushes, counts or returns: nothing goes on the wire.
LEMMA QuietSenderGoesOn ==
  ASSUME SendInv,
         Post \/ SkipEmpty \/ Flush \/ CountWrittenFrames \/ PostReturns \/ OnReady
            \/ \E n \in 0..(2 * Length) : AtRest /\ snd.state \in {"SYNC_SENT", "BATCH_CLOSED"}
                                             /\ PersistZero(n)
  PROVE  GoesOn /\ (snd'.state \in Late => snd.state \in Late)
<1>1. /\ Client(snd) /\ snd.conn \in 0..MaxConns /\ IsSeq(snd.out)
      /\ snd.out # <<>> \/ snd.terminatorDue \/ snd.release # None => snd.state \in Late
  BY Zenon DEF SendInv, Settled
<1>2. sndOpen' = sndOpen /\ rcvOpen' = rcvOpen
  BY DEF Post, SkipEmpty, Flush, CountWrittenFrames, PostReturns, OnReady, Answer, PersistZero, wire
<1>3. ASSUME snd' = snd PROVE GoesOn /\ (snd'.state \in Late => snd.state \in Late)
  BY <1>2, <1>3, Zenon DEF GoesOn, SendInv
<1>4. ASSUME Client(snd'), snd'.conn = snd.conn, IsSeq(snd'.out), snd.state \in Late,
             snd'.state \in Late
      PROVE  GoesOn /\ (snd'.state \in Late => snd.state \in Late)
  <2>1. snd.state # "CLOSED"
    BY <1>4 DEF Late
  <2> QED BY <1>1, <1>2, <1>4, <2>1, Zenon DEF GoesOn, Settled
<1>5. CASE Post
  <2>1. snd.state = "IN_BATCH" /\ (PostFrame \/ DropOversized)
    BY <1>5 DEF Post
  <2>2. CASE DropOversized
    BY <1>3, <2>2, Zenon DEF DropOversized
  <2>3. CASE PostFrame
    <3> DEFINE m == Head(queue)
               o == Append(snd.out, m)
               q == snd.posted + 1
               s == [snd EXCEPT !.out = o, !.posted = q, !.inPost = TRUE]
    <3>1. snd' = s \/ snd' = CloseBatch(s)
      BY <2>3 DEF PostFrame
    <3>2. IsSeq(o)
      <4> HIDE DEF m
      <4> QED BY <1>1, SeqEdit, Zenon
    <3> HIDE DEF o, q
    <3>3. Client(s) /\ s.conn = snd.conn /\ s.out = o /\ s.state = "IN_BATCH"
      <4>1. s = Posted(snd, o, q)
        BY DEF Posted
      <4> HIDE DEF s
      <4>2. Client(snd)
        BY <1>1, Zenon
      <4>3. /\ Client(Posted(snd, o, q)) /\ Posted(snd, o, q).conn = snd.conn
            /\ Posted(snd, o, q).out = o /\ Posted(snd, o, q).state = snd.state
        BY <4>2, ClientEdits
      <4>4. Client(s) /\ s.conn = snd.conn /\ s.out = o /\ s.state = snd.state
        BY <4>1, <4>3, Zenon
      <4> QED BY <2>1, <4>4, Zenon
    <3> HIDE DEF s
    <3>4. /\ Client(CloseBatch(s)) /\ CloseBatch(s).conn = snd.conn /\ CloseBatch(s).out = o
          /\ CloseBatch(s).state = "BATCH_CLOSED"
      BY <3>3, ClientEdits, Zenon
    <3>5. "IN_BATCH" \in Late /\ "BATCH_CLOSED" \in Late
      BY DEF Late
    <3> QED BY <1>4, <2>1, <3>1, <3>2, <3>3, <3>4, <3>5, Zenon
  <2> QED BY <2>1, <2>2, <2>3, Zenon
<1>6. CASE SkipEmpty
  BY <1>3, <1>6, Zenon DEF SkipEmpty
<1>7. CASE Flush
  <2>1. snd.state \in Late /\ snd' = CloseBatch(snd)
    BY <1>7 DEF Flush, Late
  <2>2. /\ Client(snd') /\ snd'.conn = snd.conn /\ snd'.out = snd.out
        /\ snd'.state = "BATCH_CLOSED"
    BY <1>1, <2>1 DEF Client, CloseBatch
  <2>3. "BATCH_CLOSED" \in Late
    BY DEF Late
  <2> QED BY <1>1, <1>4, <2>1, <2>2, <2>3, Zenon
<1>8. CASE CountWrittenFrames \/ PostReturns
  <2>1. snd' = [snd EXCEPT !.written = 0] \/ snd' = [snd EXCEPT !.inPost = FALSE]
    BY <1>8 DEF CountWrittenFrames, PostReturns
  <2>2. /\ Client(snd') /\ snd'.conn = snd.conn /\ snd'.out = snd.out /\ snd'.state = snd.state
        /\ snd'.terminatorDue = snd.terminatorDue /\ snd'.release = snd.release
    BY <1>1, <2>1 DEF Client
  <2> QED BY <1>1, <1>2, <2>2, Zenon DEF GoesOn, Settled
<1>9. CASE OnReady
  <2>1. snd.state \in Late /\ snd' = [snd EXCEPT !.state = "IN_BATCH"]
    BY <1>9 DEF OnReady, Answer, Late
  <2>2. Client(snd') /\ snd'.conn = snd.conn /\ snd'.out = snd.out /\ snd'.state \in Late
    BY <1>1, <2>1 DEF Client, Late
  <2> QED BY <1>1, <1>4, <2>1, <2>2, Zenon
<1>10. CASE \E n \in 0..(2 * Length) : AtRest /\ snd.state \in {"SYNC_SENT", "BATCH_CLOSED"}
                                          /\ PersistZero(n)
  <2>1. PICK n \in 0..(2 * Length) : AtRest /\ snd.state \in {"SYNC_SENT", "BATCH_CLOSED"}
                                        /\ PersistZero(n)
    BY <1>10, Zenon
  <2>2. snd.state \in Late
    BY <2>1 DEF Late
  <2> DEFINE r == Clamped(n)
  <2>3. snd' = [snd EXCEPT !.release = r]
    BY <2>1, Zenon DEF PersistZero
  <2> HIDE DEF r
  <2>4. Client(snd') /\ snd'.conn = snd.conn /\ snd'.out = snd.out /\ snd'.state = snd.state
    BY <1>1, <2>3 DEF Client
  <2> QED BY <1>1, <1>4, <2>2, <2>4, Zenon
<1> QED BY <1>5, <1>6, <1>7, <1>8, <1>9, <1>10, Zenon

\* The Sender writes a command, Frames or the terminator.
LEMMA WriterGoesOn ==
  ASSUME WireTypes, SendInv,
         OnBanner \/ OnCapabilities \/ (\E n \in 1..Len(snd.out) : Write(n))
            \/ WriteTerminator \/ Release
  PROVE  GoesOn /\ \E x : Writes(x)
<1> DEFINE k == snd.conn
<1>1. /\ Client(snd) /\ snd.conn \in 0..MaxConns /\ IsSeq(snd.out)
      /\ snd.out # <<>> \/ snd.terminatorDue \/ snd.release # None => snd.state \in Late
  BY Zenon DEF SendInv, Settled
<1>2. sndOpen' = sndOpen /\ rcvOpen' = rcvOpen
  BY DEF OnBanner, OnCapabilities, Answer, Write, WriteTerminator, Release
<1>3. /\ snd.state # "CLOSED" => k \in Conns
      /\ \A c \in Conns : IsSeq(toReceiver[c])
  BY Zenon DEF SendInv, WireTypes
<1>4. snd.state \in Late => k \in Conns /\ IsSeq(toReceiver[k]) /\ snd.state # "CLOSED"
  <2>1. snd.state \in Late => snd.state # "CLOSED"
    BY DEF Late
  <2> HIDE DEF k
  <2> QED BY <1>3, <2>1, Zenon
<1>5. ASSUME snd.state \in Late, NEW x, IsSeq(x), Client(snd'), snd'.conn = k, IsSeq(snd'.out),
             snd'.state \in Late,
             toReceiver' = [toReceiver EXCEPT ![k] = toReceiver[k] \o x]
      PROVE  GoesOn /\ \E y : Writes(y)
  <2>1. GoesOn
    BY <1>1, <1>2, <1>4, <1>5, Zenon DEF GoesOn, Settled
  <2>2. Writes(x)
    BY <1>4, <1>5, Zenon DEF Writes
  <2> QED BY <2>1, <2>2, Zenon
<1>6. CASE OnBanner
  <2> DEFINE x == <<<<"EHLO">>>>
  <2>1. /\ snd.state = "AWAIT_BANNER" /\ snd' = [snd EXCEPT !.state = "EHLO_SENT"]
        /\ toReceiver' = [toReceiver EXCEPT ![k] = toReceiver[k] \o x]
    BY <1>6 DEF OnBanner, Answer
  <2>2. /\ Client(snd') /\ snd'.conn = k /\ snd'.out = snd.out /\ snd'.state = "EHLO_SENT"
        /\ snd'.terminatorDue = snd.terminatorDue /\ snd'.release = snd.release
    BY <1>1, <2>1 DEF Client
  <2>3. IsSeq(x) /\ AfterSync(x)
    BY DEF IsSeq, AfterSync
  <2>4. snd.state # "CLOSED" /\ snd.state \notin Late /\ snd'.state \notin Late
    BY <2>1, <2>2 DEF Late
  <2> HIDE DEF x
  <2>5. GoesOn
    BY <1>1, <1>2, <2>2, <2>4, Zenon DEF GoesOn, Settled
  <2>6. Writes(x)
    BY <2>1, <2>3, <2>4, Zenon DEF Writes
  <2> QED BY <2>5, <2>6, Zenon
<1>7. CASE OnCapabilities
  <2> DEFINE x == <<<<"SYNC">>>>
  <2>1. /\ snd.state = "EHLO_SENT" /\ snd' = [snd EXCEPT !.state = "SYNC_SENT"]
        /\ toReceiver' = [toReceiver EXCEPT ![k] = toReceiver[k] \o x]
    BY <1>7 DEF OnCapabilities, Answer
  <2>2. /\ Client(snd') /\ snd'.conn = k /\ snd'.out = snd.out /\ snd'.state = "SYNC_SENT"
        /\ snd'.terminatorDue = snd.terminatorDue /\ snd'.release = snd.release
    BY <1>1, <2>1 DEF Client
  <2>3. IsSeq(x) /\ AfterSync(x) /\ SyncOn(x)
    <3>1. Len(x) = 1 /\ x[1] = <<"SYNC">> /\ IsSeq(x)
      BY DEF IsSeq
    <3>2. \A i \in 1..1 : i = 1
      OBVIOUS
    <3> HIDE DEF x
    <3> QED BY <3>1, <3>2 DEF AfterSync, SyncOn
  <2>4. snd.state # "CLOSED" /\ snd'.state \in Late
    BY <2>1, <2>2 DEF Late
  <2> HIDE DEF x
  <2>5. GoesOn
    BY <1>1, <1>2, <2>2, <2>4, Zenon DEF GoesOn, Settled
  <2>6. Writes(x)
    BY <2>1, <2>3, <2>4, Zenon DEF Writes
  <2> QED BY <2>5, <2>6, Zenon
<1>8. CASE \E n \in 1..Len(snd.out) : Write(n)
  <2>1. PICK n \in 1..Len(snd.out) : Write(n)
    BY <1>8
  <2> DEFINE x == [i \in 1..n |-> Frame(snd.out[i])]
             o == SubSeq(snd.out, n + 1, Len(snd.out))
  <2>2. /\ toReceiver' = [toReceiver EXCEPT ![k] = toReceiver[k] \o x]
        /\ snd' = [snd EXCEPT !.out = o, !.written = n]
    BY <2>1, Zenon DEF Write
  <2>3. IsSeq(o) /\ snd.out # <<>> /\ IsSeq(x)
    BY <1>1, <2>1, SeqEdit, Zenon
  <2> HIDE DEF o, x
  <2>4. Client(snd') /\ snd'.conn = k /\ snd'.out = o /\ snd'.state = snd.state
    BY <1>1, <2>2 DEF Client
  <2> QED BY <1>1, <1>5, <2>2, <2>3, <2>4, Zenon
<1>9. CASE WriteTerminator
  <2>1. /\ snd.terminatorDue /\ snd' = [snd EXCEPT !.terminatorDue = FALSE]
        /\ toReceiver' = [toReceiver EXCEPT ![k] = Append(toReceiver[k], Terminator)]
    BY <1>9 DEF WriteTerminator
  <2>2. snd.state \in Late
    BY <1>1, <2>1, Zenon
  <2>3. IsSeq(<<Terminator>>) /\ Append(toReceiver[k], Terminator) = toReceiver[k] \o <<Terminator>>
    <3> HIDE DEF k
    <3> QED BY <1>4, <2>2, SeqEdit, Zenon
  <2>4. Client(snd') /\ snd'.conn = k /\ snd'.out = snd.out /\ snd'.state = snd.state
    BY <1>1, <2>1 DEF Client
  <2>5. toReceiver' = [toReceiver EXCEPT ![k] = toReceiver[k] \o <<Terminator>>]
    BY <2>1, <2>3, Zenon
  <2> HIDE DEF k
  <2> QED BY <1>1, <1>5, <2>2, <2>3, <2>4, <2>5, Zenon
<1>10. CASE Release
  <2>1. /\ snd.release # None
        /\ snd' = [snd EXCEPT !.release = None, !.posted = 0, !.state = "DATA_SENT"]
        /\ toReceiver' = [toReceiver EXCEPT ![k] = Append(toReceiver[k], <<"DATA">>)]
    BY <1>10 DEF Release
  <2>2. snd.state \in Late
    BY <1>1, <2>1, Zenon
  <2>3. IsSeq(<<<<"DATA">>>>) /\ Append(toReceiver[k], <<"DATA">>) = toReceiver[k] \o <<<<"DATA">>>>
    <3> HIDE DEF k
    <3> QED BY <1>4, <2>2, SeqEdit, Zenon
  <2>4. Client(snd') /\ snd'.conn = k /\ snd'.out = snd.out /\ snd'.state \in Late
    BY <1>1, <2>1 DEF Client, Late
  <2>5. toReceiver' = [toReceiver EXCEPT ![k] = toReceiver[k] \o <<<<"DATA">>>>]
    BY <2>1, <2>3, Zenon
  <2> HIDE DEF k
  <2> QED BY <1>1, <1>5, <2>2, <2>3, <2>4, <2>5, Zenon
<1> QED BY <1>6, <1>7, <1>8, <1>9, <1>10, Zenon

\* A client that is new has nothing to write.
LEMMA NewClientSettled ==
  ASSUME NEW c \in 0..MaxConns, NEW state, NEW kind
  PROVE  /\ Settled(NewClient(c, state, kind)) /\ NewClient(c, state, kind).conn = c
         /\ NewClient(c, state, kind).state = state
<1> DEFINE n == NewClient(c, state, kind)
<1>1. /\ Client(n) /\ n.conn = c /\ n.state = state /\ n.out = <<>> /\ n.terminatorDue = FALSE
      /\ n.release = None
  BY DEF NewClient, Client
<1>2. IsSeq(<<>>)
  BY DEF IsSeq
<1> HIDE DEF n
<1>3. Settled(n)
  BY <1>1, <1>2 DEF Settled
<1> QED BY <1>1, <1>3, Zenon DEF n

\* The Sender closes its connection; what it wrote may still be read.
LEMMA CloseKeepsWire ==
  ASSUME WireTypes, SendInv, WireInv, CloseConnection, rcv' = rcv, rec' = rec
  PROVE  (WireTypes /\ SendInv /\ WireInv)' /\ rcvOpen' = rcvOpen
<1>1. /\ toReceiver' = toReceiver /\ rcvOpen' = rcvOpen
      /\ snd' = NewClient(snd.conn, "CLOSED", snd.kind)
      /\ sndOpen' = [sndOpen EXCEPT ![snd.conn] = FALSE]
  BY DEF CloseConnection
<1>2. snd.conn \in 0..MaxConns
  BY Zenon DEF SendInv, Settled
<1>3. Settled(snd') /\ snd'.conn = snd.conn /\ snd'.state = "CLOSED"
  BY <1>1, <1>2, NewClientSettled
<1>4. sndOpen' \in [Conns -> BOOLEAN]
  BY <1>1 DEF WireTypes
<1>5. WireTypes'
  BY <1>1, <1>4, Zenon DEF WireTypes
<1>6. Settled(snd)'
  BY <1>3, Zenon DEF Settled
<1>7. SendInv'
  BY <1>1, <1>3, <1>6, Zenon DEF SendInv
<1>8. snd'.state \notin Late
  BY <1>3 DEF Late
<1>9. \A d \in Conns : Synced(d)' <=> Synced(d)
  BY Zenon DEF Synced
<1>10. WireInv'
  BY <1>1, <1>8, <1>9, Zenon DEF WireInv
<1> QED BY <1>1, <1>5, <1>7, <1>10, Zenon

\* The Sender opens the next connection, on which nothing is on its way.
LEMMA ConnectKeepsWire ==
  ASSUME RecvTypes, WireTypes, SendInv, WireInv, Connect, rcv' = rcv, rec' = rec
  PROVE  /\ (WireTypes /\ SendInv /\ WireInv)'
         /\ \E k \in Conns : ~rcvOpen[k] /\ rcvOpen' = [rcvOpen EXCEPT ![k] = TRUE]
<1> DEFINE k == snd.conn + 1
<1>1. /\ toReceiver' = toReceiver /\ snd.conn < MaxConns
      /\ snd' = NewClient(k, "AWAIT_BANNER", snd.kind)
      /\ sndOpen' = [sndOpen EXCEPT ![k] = TRUE]
      /\ rcvOpen' = [rcvOpen EXCEPT ![k] = TRUE]
  BY DEF Connect
<1>2. snd.conn \in 0..MaxConns
  BY Zenon DEF SendInv, Settled
<1>3. MaxConns \in Nat
  BY AltpAssumption
<1>4. /\ k \in Conns /\ k \in 0..MaxConns /\ k > snd.conn
      /\ \A d \in Conns : d > k => d > snd.conn /\ d # k
  BY <1>1, <1>2, <1>3 DEF Conns
<1>5. \A d \in Conns : d > snd.conn => ~rcvOpen[d] /\ toReceiver[d] = <<>>
  BY Zenon DEF SendInv
<1> HIDE DEF k
<1>6. Settled(snd') /\ snd'.conn = k /\ snd'.state = "AWAIT_BANNER"
  BY <1>1, <1>4, NewClientSettled
<1>7. /\ sndOpen' \in [Conns -> BOOLEAN] /\ sndOpen'[k]
      /\ \A d \in Conns : d # k => rcvOpen'[d] = rcvOpen[d]
  BY <1>1, <1>4 DEF WireTypes, RecvTypes
<1>8. WireTypes'
  BY <1>1, <1>7, Zenon DEF WireTypes
<1>9. SendInv'
  <2>1. Settled(snd)'
    BY <1>6, Zenon DEF Settled
  <2>2. \A d \in Conns : d > k => ~rcvOpen'[d]
    BY <1>4, <1>5, <1>7
  <2>3. \A d \in Conns : d > k => toReceiver'[d] = <<>>
    BY <1>1, <1>4, <1>5, Zenon
  <2> QED BY <1>4, <1>6, <1>7, <2>1, <2>2, <2>3, Zenon DEF SendInv
<1>10. snd'.state \notin Late
  BY <1>6 DEF Late
<1>11. \A d \in Conns : Synced(d)' <=> Synced(d)
  BY Zenon DEF Synced
<1>12. \A d \in Conns : rcvOpen'[d] => Synced(d)' \/ AfterSync(toReceiver'[d])
  <2>1. AfterSync(<<>>)
    BY DEF AfterSync
  <2>2. AfterSync(toReceiver'[k])
    BY <1>1, <1>4, <1>5, <2>1, Zenon
  <2>3. \A d \in Conns : d # k /\ rcvOpen'[d] => rcvOpen[d]
    BY <1>7
  <2>4. \A d \in Conns : rcvOpen[d] => Synced(d) \/ AfterSync(toReceiver[d])
    BY Zenon DEF WireInv
  <2> QED BY <1>1, <1>11, <2>2, <2>3, <2>4, Zenon
<1>13. WireInv'
  BY <1>10, <1>12, Zenon DEF WireInv
<1>14. ~rcvOpen[k]
  BY <1>4, <1>5, Zenon
<1> QED BY <1>1, <1>4, <1>8, <1>9, <1>13, <1>14, Zenon

----------------------------------------------------------------------------
(* Every step.                                                             *)

AltpInv == RecvTypes /\ RecvInv /\ WireTypes /\ SendInv /\ WireInv

\* At first there is no connection.
LEMMA InitInv == Init => AltpInv
<1> SUFFICES ASSUME Init PROVE AltpInv
  OBVIOUS
<1>1. Fresh
  BY DEF Init, ReceiverInit, WireInit, Fresh, Record
<1>2. RecvTypes /\ RecvInv
  BY <1>1, FreshReceiver, Zenon
<1>3. /\ toReceiver = [c \in Conns |-> <<>>] /\ sndOpen = [c \in Conns |-> FALSE]
      /\ rcvOpen = [c \in Conns |-> FALSE]
  BY DEF Init, WireInit
<1>4. PICK kind : snd = NewClient(0, "CLOSED", kind)
  BY DEF Init, SenderInit
<1>5. 0 \in 0..MaxConns
  BY AltpAssumption
<1>6. Settled(snd) /\ snd.conn = 0 /\ snd.state = "CLOSED"
  BY <1>4, <1>5, NewClientSettled
<1>7. IsSeq(<<>>) /\ AfterSync(<<>>)
  BY DEF IsSeq, AfterSync
<1>8. \A c \in Conns : toReceiver[c] = <<>> /\ ~rcvOpen[c]
  BY <1>3, Zenon
<1>9. sndOpen \in [Conns -> BOOLEAN] /\ toReceiver = [c \in Conns |-> toReceiver[c]]
  BY <1>3
<1>10. WireTypes
  BY <1>7, <1>8, <1>9, Zenon DEF WireTypes
<1>11. SendInv
  BY <1>6, <1>8, Zenon DEF SendInv
<1>12. snd.state \notin Late
  BY <1>6 DEF Late
<1>13. WireInv
  BY <1>8, <1>12, Zenon DEF WireInv
<1> QED BY <1>2, <1>10, <1>11, <1>13, Zenon DEF AltpInv

\* The Sender.
LEMMA SenderKeeps ==
  ASSUME AltpInv, SenderSteps \/ WriteError \/ Disconnect \/ SenderCrash, rcv' = rcv, rec' = rec
  PROVE  AltpInv'
<1>1. RecvTypes /\ RecvInv /\ WireTypes /\ SendInv /\ WireInv
  BY Zenon DEF AltpInv
<1>2. ASSUME rcvOpen' = rcvOpen, (WireTypes /\ SendInv /\ WireInv)' PROVE AltpInv'
  BY <1>1, <1>2, StillKeeps, Zenon DEF AltpInv, RecvKept
<1>3. ASSUME CloseConnection PROVE AltpInv'
  BY <1>1, <1>2, <1>3, CloseKeepsWire, Zenon
<1>4. CASE WriteError \/ Disconnect \/ SenderCrash \/ OnClose
  BY <1>3, <1>4, Zenon DEF WriteError, Disconnect, SenderCrash, OnClose
<1>5. CASE Connect
  <2>1. /\ (WireTypes /\ SendInv /\ WireInv)'
        /\ \E k \in Conns : ~rcvOpen[k] /\ rcvOpen' = [rcvOpen EXCEPT ![k] = TRUE]
    BY <1>1, <1>5, ConnectKeepsWire, Zenon
  <2>2. PICK k \in Conns : ~rcvOpen[k] /\ rcvOpen' = [rcvOpen EXCEPT ![k] = TRUE]
    BY <2>1, Zenon
  <2>3. RecvKept
    BY <1>1, <2>2, ConnectKeeps, Zenon
  <2> QED BY <2>1, <2>3, Zenon DEF AltpInv, RecvKept
<1>6. CASE Post \/ SkipEmpty \/ Flush \/ CountWrittenFrames \/ PostReturns \/ OnReady
  <2>1. GoesOn /\ (snd'.state \in Late => snd.state \in Late)
    BY <1>1, <1>6, QuietSenderGoesOn, Zenon
  <2>2. rcvOpen' = rcvOpen
    BY <2>1, Zenon DEF GoesOn
  <2>3. toReceiver' = toReceiver
    <3>1. CASE OnReady
      <4>1. toReceiver' = [toReceiver EXCEPT ![snd.conn] = toReceiver[snd.conn] \o <<>>]
            /\ snd.state = "DATA_SENT"
        BY <3>1 DEF OnReady, Answer
      <4>2. snd.conn \in Conns
        BY <1>1, <4>1 DEF SendInv
      <4>3. IsSeq(toReceiver[snd.conn]) /\ toReceiver = [c \in Conns |-> toReceiver[c]]
        BY <1>1, <4>2, Zenon DEF WireTypes
      <4>4. toReceiver[snd.conn] \o <<>> = toReceiver[snd.conn]
        BY <4>3 DEF IsSeq
      <4>5. toReceiver' = [toReceiver EXCEPT ![snd.conn] = toReceiver[snd.conn]]
        BY <4>1, <4>4, Zenon
      <4> QED BY <4>2, <4>3, <4>5
    <3>2. CASE Post \/ SkipEmpty \/ Flush \/ CountWrittenFrames \/ PostReturns
      BY <3>2 DEF Post, SkipEmpty, Flush, CountWrittenFrames, PostReturns, wire
    <3> QED BY <1>6, <3>1, <3>2, Zenon
  <2>4. (WireTypes /\ SendInv /\ WireInv)'
    BY <1>1, <2>1, <2>3, WriteKeepsWire, Zenon
  <2> QED BY <1>2, <2>2, <2>4, Zenon
<1>7. CASE OnBanner \/ OnCapabilities \/ (\E n \in 1..Len(snd.out) : Write(n))
              \/ WriteTerminator \/ Release
  <2>1. GoesOn /\ \E x : Writes(x)
    BY <1>1, <1>7, WriterGoesOn, Zenon
  <2>2. rcvOpen' = rcvOpen
    BY <2>1, Zenon DEF GoesOn
  <2>3. (WireTypes /\ SendInv /\ WireInv)'
    BY <1>1, <2>1, WriteKeepsWire, Zenon
  <2> QED BY <1>2, <2>2, <2>3, Zenon
<1>8. CASE \E n \in 0..(2 * Length) : OnAcknowledgement(n)
  <2>1. PICK n \in 0..(2 * Length) : OnAcknowledgement(n)
    BY <1>8, Zenon
  <2>2. \/ CloseConnection
        \/ AtRest /\ snd.state \in {"SYNC_SENT", "BATCH_CLOSED"} /\ PersistZero(n)
    BY <2>1, Zenon DEF OnAcknowledgement
  <2>3. CASE AtRest /\ snd.state \in {"SYNC_SENT", "BATCH_CLOSED"} /\ PersistZero(n)
    <3>1. GoesOn /\ (snd'.state \in Late => snd.state \in Late)
      BY <1>1, <2>3, QuietSenderGoesOn, Zenon
    <3>2. rcvOpen' = rcvOpen /\ toReceiver' = toReceiver
      BY <2>3 DEF PersistZero
    <3>3. (WireTypes /\ SendInv /\ WireInv)'
      BY <1>1, <3>1, <3>2, WriteKeepsWire, Zenon
    <3> QED BY <1>2, <3>2, <3>3, Zenon
  <2> QED BY <1>3, <2>2, <2>3, Zenon
<1> QED BY <1>4, <1>5, <1>6, <1>7, <1>8, Zenon DEF SenderSteps

\* The Receiver and its pipeline.
LEMMA ReceiverKeeps ==
  ASSUME AltpInv, ~Threaded, NEW c \in Conns, snd' = snd,
         Fetching(c) \/ Pipeline(c) \/ AckTimerExpired(c) \/ IdleTimeout(c)
  PROVE  AltpInv'
<1>1. RecvTypes /\ RecvInv /\ WireTypes /\ SendInv /\ WireInv
  BY Zenon DEF AltpInv
<1>2. ASSUME RecvKept, sndOpen' = sndOpen, rcvOpen' = rcvOpen, toReceiver' = toReceiver \/ Taken(c)
      PROVE  AltpInv'
  BY <1>1, <1>2, ReadKeepsWire, Zenon DEF AltpInv, RecvKept
<1>3. CASE StartFetch(c)
  <2>1. sndOpen' = sndOpen /\ rcvOpen' = rcvOpen /\ toReceiver' = toReceiver
    BY <1>3 DEF StartFetch, wire
  <2> QED BY <1>1, <1>2, <1>3, <2>1, StartFetchKeeps, Zenon
<1>4. CASE Finish(c) \/ WakeupTriggered(c) \/ AckTimerExpired(c)
  <2>1. sndOpen' = sndOpen /\ rcvOpen' = rcvOpen /\ toReceiver' = toReceiver
    BY <1>4 DEF Finish, WakeupTriggered, AckTimerExpired, wire
  <2> QED BY <1>1, <1>2, <1>4, <2>1, BetweenKeeps, Zenon
<1>5. CASE OnGreeting(c) \/ OnEhlo(c) \/ SyncReply(c) \/ OnTerminator(c) \/ FetchReturns(c)
              \/ Acknowledge(c) \/ OnAwaitingDurability(c)
  <2>1. RecvKept
    BY <1>1, <1>5, ReplyKeeps, Zenon
  <2>2. sndOpen' = sndOpen /\ rcvOpen' = rcvOpen
    BY <1>5 DEF OnGreeting, OnEhlo, SyncReply, OnTerminator, FetchReturns, Acknowledge,
                OnAwaitingDurability, Reply, wire
  <2>3. \/ toReceiver' = toReceiver
        \/ /\ toReceiver' = [toReceiver EXCEPT ![c] = Tail(toReceiver[c])] /\ toReceiver[c] # <<>>
           /\ Head(toReceiver[c]) = <<"EHLO">> \/ (rcv[c].state = "FRAME" /\ rcvOpen[c])
    BY <1>5 DEF OnGreeting, OnEhlo, SyncReply, OnTerminator, FetchReturns, Acknowledge,
                OnAwaitingDurability, Reply, wire, Line, Working
  <2>4. rcv[c].state = "FRAME" /\ rcvOpen[c] => Synced(c)'
    <3>1. rcv[c].state = "FRAME" => rcv[c].state \in PastSync
      BY DEF PastSync
    <3>2. rcv[c].state \in PastSync => Synced(c)
      BY <1>1, Zenon DEF RecvInv
    <3> QED BY <2>1, <2>2, <3>1, <3>2, Zenon DEF RecvKept
  <2>5. toReceiver' = toReceiver \/ Taken(c)
    BY <2>3, <2>4, Zenon DEF Taken
  <2> QED BY <1>2, <2>1, <2>2, <2>5, Zenon
<1>6. CASE OnData(c) \/ (\E m \in Messages : OnFrame(c, m)) \/ AcknowledgePartial(c)
  <2>1. sndOpen' = sndOpen /\ rcvOpen' = rcvOpen /\ rcvOpen[c]
    BY <1>6 DEF OnData, OnFrame, AcknowledgePartial, Reply, Working
  <2>2. \/ toReceiver' = toReceiver
        \/ toReceiver' = [toReceiver EXCEPT ![c] = Tail(toReceiver[c])] /\ toReceiver[c] # <<>>
    BY <1>6 DEF OnData, OnFrame, AcknowledgePartial, Reply, Line
  <2>3. \/ rcv[c].state \in PastSync
        \/ toReceiver[c] # <<>> /\ Head(toReceiver[c]) = <<"DATA">>
    BY <1>6 DEF OnData, OnFrame, AcknowledgePartial, Line, Working, PastSync
  <2>4. Synced(c)
    <3>1. CASE rcv[c].state \in PastSync
      BY <1>1, <3>1, Zenon DEF RecvInv
    <3>2. CASE toReceiver[c] # <<>> /\ Head(toReceiver[c]) = <<"DATA">>
      <4>1. IsSeq(toReceiver[c])
        BY <1>1, Zenon DEF WireTypes
      <4>2. AfterSync(toReceiver[c]) => Head(toReceiver[c]) \in {<<"EHLO">>, <<"SYNC">>}
        BY <3>2, <4>1, SyncTail, Zenon
      <4>3. ~AfterSync(toReceiver[c])
        <5> HIDE DEF AfterSync
        <5> QED BY <3>2, <4>2
      <4> QED BY <1>1, <2>1, <4>3, Zenon DEF WireInv
    <3> QED BY <2>3, <3>1, <3>2, Zenon
  <2>5. RecvKept
    BY <1>1, <1>6, <2>4, CountKeeps, Zenon
  <2>6. Synced(c)'
    BY <2>1, <2>4, <2>5, Zenon DEF RecvKept
  <2>7. toReceiver' = toReceiver \/ Taken(c)
    BY <2>2, <2>6, Zenon DEF Taken
  <2> QED BY <1>2, <2>1, <2>5, <2>7, Zenon
<1>7. CASE OnSync(c)
  <2>1. RecvKept /\ Synced(c)'
    BY <1>1, <1>7, SyncKeeps, Zenon
  <2>2. /\ sndOpen' = sndOpen /\ rcvOpen' = rcvOpen
        /\ toReceiver' = [toReceiver EXCEPT ![c] = Tail(toReceiver[c])] /\ toReceiver[c] # <<>>
    BY <1>7 DEF OnSync, Line
  <2>3. Taken(c)
    BY <2>1, <2>2, Zenon DEF Taken
  <2> QED BY <1>2, <2>1, <2>2, <2>3, Zenon
<1>8. CASE OnEof(c) \/ IdleTimeout(c)
  <2>1. Free(c)
    BY <1>8, Zenon DEF OnEof, IdleTimeout
  <2>2. RecvKept
    BY <1>1, <2>1, FreeKeeps, Zenon
  <2>3. /\ sndOpen' = sndOpen /\ rcvOpen' = [rcvOpen EXCEPT ![c] = FALSE]
        /\ toReceiver' = [toReceiver EXCEPT ![c] = <<>>]
    BY <2>1 DEF Free
  <2>4. /\ toReceiver = [d \in Conns |-> toReceiver[d]] /\ rcvOpen \in [Conns -> BOOLEAN]
    BY <1>1, Zenon DEF WireTypes, RecvTypes
  <2>5. /\ toReceiver' = [d \in Conns |-> toReceiver'[d]]
        /\ \A d \in Conns :
              /\ toReceiver'[d] = toReceiver[d] \/ toReceiver'[d] = <<>>
              /\ rcvOpen'[d] => rcvOpen[d]
              /\ rcvOpen'[d] => toReceiver'[d] = toReceiver[d] \/ ~sndOpen[d]
    BY <2>3, <2>4
  <2>6. (WireTypes /\ SendInv /\ WireInv)'
    BY <1>1, <2>2, <2>3, <2>5, DropKeepsWire, Zenon
  <2> QED BY <2>2, <2>6, Zenon DEF AltpInv, RecvKept
<1>9. CASE Pipeline(c)
  <2>1. sndOpen' = sndOpen /\ rcvOpen' = rcvOpen /\ toReceiver' = toReceiver
    BY <1>9 DEF Pipeline, Report, Deliver, wire
  <2>2. CASE Report(c)
    BY <1>1, <1>2, <2>1, <2>2, ReportKeeps, Zenon
  <2>3. CASE \E i \in DOMAIN pipe[c] : Deliver(c, i)
    <3>1. rcv' = rcv /\ rec' = rec
      BY <2>3 DEF Deliver
    <3>2. RecvKept
      BY <1>1, <2>1, <3>1, StillKeeps, Zenon
    <3> QED BY <1>2, <2>1, <3>2, Zenon
  <2> QED BY <1>9, <2>2, <2>3, Zenon DEF Pipeline
<1> QED BY <1>3, <1>4, <1>5, <1>6, <1>7, <1>8, <1>9, Zenon DEF Fetching

\* The faults of the Receiver and of the wire.
LEMMA FaultKeeps ==
  ASSUME AltpInv, snd' = snd,
         ReceiverCrash \/ \E c \in Conns : Lose(c) /\ rcv' = rcv /\ rec' = rec
  PROVE  AltpInv'
<1>1. RecvTypes /\ RecvInv /\ WireTypes /\ SendInv /\ WireInv
  BY Zenon DEF AltpInv
<1>2. toReceiver = [d \in Conns |-> toReceiver[d]]
  BY <1>1, Zenon DEF WireTypes
<1>3. ASSUME RecvKept, sndOpen' = sndOpen, toReceiver' = [d \in Conns |-> toReceiver'[d]],
             \A d \in Conns :
                /\ toReceiver'[d] = toReceiver[d] \/ toReceiver'[d] = <<>>
                /\ rcvOpen'[d] => rcvOpen[d]
                /\ rcvOpen'[d] => toReceiver'[d] = toReceiver[d] \/ ~sndOpen[d]
      PROVE  AltpInv'
  <2>1. (WireTypes /\ SendInv /\ WireInv)'
    BY <1>1, <1>3, DropKeepsWire, Zenon
  <2> QED BY <1>3, <2>1, Zenon DEF AltpInv, RecvKept
<1>4. CASE ReceiverCrash
  <2>1. /\ sndOpen' = sndOpen /\ rcvOpen' = [d \in Conns |-> FALSE]
        /\ toReceiver' = [d \in Conns |-> <<>>]
    BY <1>4 DEF ReceiverCrash
  <2>2. /\ toReceiver' = [d \in Conns |-> toReceiver'[d]]
        /\ \A d \in Conns : toReceiver'[d] = <<>> /\ ~rcvOpen'[d]
    BY <2>1
  <2>3. RecvKept
    BY <1>1, <1>4, CrashKeeps, Zenon
  <2> QED BY <1>3, <2>1, <2>2, <2>3, Zenon
<1>5. CASE \E c \in Conns : Lose(c) /\ rcv' = rcv /\ rec' = rec
  <2>1. PICK c \in Conns : Lose(c) /\ rcv' = rcv /\ rec' = rec
    BY <1>5, Zenon
  <2>2. /\ sndOpen' = sndOpen /\ rcvOpen' = rcvOpen /\ ~sndOpen[c]
        /\ toReceiver' = [toReceiver EXCEPT ![c] = <<>>]
    BY <2>1 DEF Lose
  <2>3. RecvKept
    BY <1>1, <2>1, <2>2, StillKeeps, Zenon
  <2>4. /\ toReceiver' = [d \in Conns |-> toReceiver'[d]] /\ toReceiver'[c] = <<>>
        /\ \A d \in Conns : d # c => toReceiver'[d] = toReceiver[d]
    BY <1>2, <2>2
  <2> QED BY <1>3, <2>2, <2>3, <2>4, Zenon
<1> QED BY <1>4, <1>5, Zenon

\* Every step keeps the invariant.
LEMMA NextInv ==
  ASSUME ~Threaded
  PROVE  AltpInv /\ [Next]_vars => AltpInv'
<1> SUFFICES ASSUME AltpInv, [Next]_vars PROVE AltpInv'
  OBVIOUS
<1>1. CASE UNCHANGED vars
  <2>1. /\ rcv' = rcv /\ rec' = rec /\ rcvOpen' = rcvOpen /\ snd' = snd /\ sndOpen' = sndOpen
        /\ toReceiver' = toReceiver
    BY <1>1 DEF vars, wire, sender, receiver
  <2>2. RecvKept
    BY <2>1, StillKeeps, Zenon DEF AltpInv
  <2>3. Settled(snd)' <=> Settled(snd)
    BY <2>1, Zenon DEF Settled
  <2>4. \A d \in Conns : Synced(d)' <=> Synced(d)
    BY <2>1, Zenon DEF Synced
  <2>5. Synced(snd.conn)' <=> Synced(snd.conn)
    BY <2>1, Zenon DEF Synced
  <2>6. WireTypes' /\ SendInv'
    BY <2>1, <2>3, Zenon DEF WireTypes, SendInv, AltpInv
  <2>7. WireInv'
    BY <2>1, <2>4, <2>5, Zenon DEF WireInv, AltpInv
  <2> QED BY <2>2, <2>6, <2>7, Zenon DEF AltpInv, RecvKept
<1>2. CASE (SenderSteps \/ WriteError \/ Disconnect \/ SenderCrash) /\ UNCHANGED receiver
  <2>1. rcv' = rcv /\ rec' = rec
    BY <1>2 DEF receiver
  <2> QED BY <1>2, <2>1, SenderKeeps, Zenon
<1>3. CASE (\E c \in Conns : Fetching(c) \/ Pipeline(c) \/ AckTimerExpired(c) \/ IdleTimeout(c))
              /\ UNCHANGED sender
  <2>1. snd' = snd
    BY <1>3 DEF sender
  <2> QED BY <1>3, <2>1, ReceiverKeeps, Zenon
<1>4. CASE ReceiverCrash /\ UNCHANGED sender
  <2>1. snd' = snd
    BY <1>4 DEF sender
  <2> QED BY <1>4, <2>1, FaultKeeps, Zenon
<1>5. CASE (\E c \in Conns : Lose(c)) /\ UNCHANGED <<sender, receiver>>
  <2>1. snd' = snd /\ rcv' = rcv /\ rec' = rec
    BY <1>5 DEF sender, receiver
  <2> QED BY <1>5, <2>1, FaultKeeps, Zenon
<1> QED BY <1>1, <1>2, <1>3, <1>4, <1>5, Zenon DEF Next, Faults

\* Without threaded(yes), a connection that sleeps in AWAITING_DURABILITY is the
\* owner of a Batch that is not durable, with its wakeup armed, or its wakeup is
\* on the way: no displacement, report, timeout, crash or late line leaves a
\* sleeper that only its acknowledgement timeout would wake.
THEOREM SleeperIsAlwaysWoken ==
  ASSUME ~Threaded
  PROVE  Spec => []SleeperIsWoken
<1>1. Init => AltpInv
  BY InitInv
<1>2. AltpInv /\ [Next]_vars => AltpInv'
  BY NextInv, Zenon
<1>3. AltpInv => SleeperIsWoken
  BY Zenon DEF AltpInv, RecvInv, SleeperIsWoken
<1> QED BY <1>1, <1>2, <1>3, PTL DEF Spec

=============================================================================
