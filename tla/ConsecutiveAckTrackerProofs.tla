-------------------- MODULE ConsecutiveAckTrackerProofs --------------------
(***************************************************************************)
(* Proofs about the consecutive ack tracker, for any number of threads,    *)
(* any window and any stream: an acknowledgement never marks the record of *)
(* another message, every record holds one slot of the window, and the     *)
(* stored position keeps the promise of AckedStream.                       *)
(*                                                                         *)
(* The inductive invariant says what is in the ring: the records of the    *)
(* messages Base + 1 .. posted in order from the head on, the rest free.   *)
(***************************************************************************)
EXTENDS ConsecutiveAckTracker, WellFoundedInduction, TLAPS

\* The last message whose record has left the ring.
Base == posted - count

\* How far behind the head h a slot is.
Offset(h, s) == IF s >= h THEN s - h ELSE s - h + Window

\* The ring holds the messages after Base, in order; other slots are free.
RingInOrder ==
    \A s \in Slots :
        IF Offset(head, s) < count
        THEN ring[s].pos = Base + 1 + Offset(head, s)
        ELSE ring[s] = Free

\* The record requested for the next message is the one after the last.
PendingIsNext == pending # None => count < Window /\ pending = Tail

Tracked(m) == m > Base /\ m <= posted

Unmarked(m) == \A s \in Slots : ring[s].pos = m => ~ring[s].acked

Marking(m) == \E a \in Ackers : acker[a].pc = "mark" /\ acker[a].pos = m

\* A message that a destination has not acknowledged, or that is not posted
\* yet, has an unmarked record and nobody is about to mark it.
OpenRecords ==
    /\ \A m \in Positions : waiting[m] # {} => Tracked(m) /\ Unmarked(m) /\ ~Marking(m)
    /\ src = "count" => Tracked(posted) /\ Unmarked(posted) /\ ~Marking(posted)

\* A thread about to mark a record is the only one, and the record is its own.
MarkersOwnRecords ==
    /\ \A a \in Ackers : acker[a].pc = "mark" =>
          /\ Tracked(acker[a].pos) /\ acker[a].pos \in Positions
          /\ acker[a].slot \in Slots
          /\ ring[acker[a].slot].pos = acker[a].pos /\ ~ring[acker[a].slot].acked
    /\ \A a, b \in Ackers :
          acker[a].pc = "mark" /\ acker[b].pc = "mark" /\ acker[a].pos = acker[b].pos => a = b

\* While the process is not going down, whatever is marked is accepted.
MarkedIsAccepted ==
    ~down =>
        /\ \A m \in 1..Base : m \in accepted
        /\ \A s \in Slots : ring[s].acked => ring[s].pos \in accepted
        /\ \A a \in Ackers : acker[a].pc = "mark" => acker[a].pos \in accepted
        /\ \A m \in Positions : flag[m] # "aborted"

\* A process that goes down reads nothing and only aborts.
DownOnlyAborts ==
    down => src = "poll" /\ \A a \in Ackers : acker[a].pc # "idle" => acker[a].type = "aborted"

SavedIsAccepted == saved <= Base /\ \A m \in 1..saved : m \in accepted

IInv ==
    /\ TypeOK
    /\ WindowMatchesRecords
    /\ RingInOrder
    /\ PendingIsNext
    /\ OpenRecords
    /\ MarkersOwnRecords
    /\ MarkedIsAccepted
    /\ DownOnlyAborts
    /\ SavedIsAccepted

----------------------------------------------------------------------------
(* The ring: slots and offsets.                                            *)

\* The slot i places behind the head is in the ring, at that offset
\* (ring_buffer_element_at()).
LEMMA SlotAtOffset ==
  ASSUME NEW h \in Slots, NEW i \in 0..(Window - 1)
  PROVE  (h + i) % Window \in Slots /\ Offset(h, (h + i) % Window) = i
<1>1. (h + i) % Window = IF h + i < Window THEN h + i ELSE h + i - Window
  BY TrackerAssumption DEF Slots
<1> QED BY <1>1, TrackerAssumption DEF Slots, Offset

\* Every slot is its offset behind the head.
LEMMA OffsetOfSlot ==
  ASSUME NEW h \in Slots, NEW s \in Slots
  PROVE  Offset(h, s) \in 0..(Window - 1) /\ (h + Offset(h, s)) % Window = s
<1>1. Offset(h, s) \in 0..(Window - 1) /\ (h + Offset(h, s) = s \/ h + Offset(h, s) = s + Window)
  BY TrackerAssumption DEF Slots, Offset
<1>2. s % Window = s /\ (s + Window) % Window = s
  BY TrackerAssumption DEF Slots
<1> QED BY <1>1, <1>2

\* Two slots at one offset are the same slot.
LEMMA OffsetInjective ==
  ASSUME NEW h \in Slots, NEW s \in Slots, NEW t \in Slots, Offset(h, s) = Offset(h, t)
  PROVE  s = t
  BY TrackerAssumption DEF Slots, Offset

\* When n records leave at the head, the others move n places forward and the
\* free slots to the back (ring_buffer_drop()).
LEMMA OffsetAfterDrop ==
  ASSUME NEW h \in Slots, NEW n \in 0..Window, NEW s \in Slots
  PROVE  /\ (h + n) % Window \in Slots
         /\ Offset((h + n) % Window, s) =
               IF Offset(h, s) >= n THEN Offset(h, s) - n ELSE Offset(h, s) - n + Window
<1>1. (h + n) % Window = IF h + n < Window THEN h + n ELSE h + n - Window
  BY TrackerAssumption DEF Slots
<1> QED BY <1>1, TrackerAssumption DEF Slots, Offset

\* The slot behind the last record stays when records leave at the head.
LEMMA TailAfterDrop ==
  ASSUME NEW h \in Slots, NEW c \in 0..(Window - 1), NEW n \in 0..c
  PROVE  (((h + n) % Window) + (c - n)) % Window = (h + c) % Window
<1>1. (h + n) % Window = IF h + n < Window THEN h + n ELSE h + n - Window
  BY TrackerAssumption DEF Slots
<1>2. (h + c) % Window = IF h + c < Window THEN h + c ELSE h + c - Window
  BY TrackerAssumption DEF Slots
<1>3. CASE h + n < Window
  BY <1>1, <1>3, TrackerAssumption DEF Slots
<1>4. CASE h + n >= Window
  <2>1. ((h + n) % Window) + (c - n) = h + c - Window /\ h + c >= Window
    BY <1>1, <1>4, TrackerAssumption DEF Slots
  <2>2. (h + c - Window) % Window = h + c - Window
    BY <2>1, TrackerAssumption DEF Slots
  <2>3. (h + c) % Window = h + c - Window
    BY <1>2, <2>1, TrackerAssumption DEF Slots
  <2>4. (((h + n) % Window) + (c - n)) % Window = (h + c - Window) % Window
    BY <2>1, Zenon
  <2> QED BY <2>2, <2>3, <2>4, Zenon
<1> QED BY <1>3, <1>4, TrackerAssumption DEF Slots

\* A set of natural numbers that is not empty has a least element.
LEMMA LeastElement ==
  ASSUME NEW T, T \subseteq Nat, T # {}
  PROVE  \E x \in T : \A y \in T : x <= y
<1> DEFINE R == OpToRel(<, Nat)
<1>1. IsWellFoundedOn(R, Nat)
  BY NatLessThanWellFounded, Zenon
<1>2. \A y, x \in Nat : y < x => <<y, x>> \in R
  BY DEF OpToRel
<1> HIDE DEF R
<1>3. PICK x \in T : \A y \in T : ~(<<y, x>> \in R)
  BY Zenon, <1>1, WFMin
<1>4. ASSUME NEW y \in T PROVE x <= y
  <2>1. x \in Nat /\ y \in Nat
    OBVIOUS
  <2>2. ~(y < x)
    BY <1>2, <1>3, <2>1, Zenon
  <2> QED BY <2>1, <2>2
<1> QED BY <1>4

\* The marked prefix of the ring exists, whatever is marked
\* (ring_buffer_get_continual_range_length()).
LEMMA RangeLength ==
  ASSUME TypeOK
  PROVE  /\ ContinualRangeLength \in 0..count
         /\ \A i \in 0..(ContinualRangeLength - 1) : At(i).acked
<1> DEFINE IsRange(n) == (\A i \in 0..(n - 1) : At(i).acked) /\ (n < count => ~At(n).acked)
           T == {i \in 0..(count - 1) : ~At(i).acked}
<1>0. count \in Nat
  BY TrackerAssumption DEF TypeOK
<1>1. \E n \in 0..count : IsRange(n)
  <2>1. CASE T = {}
    <3>1. IsRange(count)
      BY <1>0, <2>1
    <3> QED BY <1>0, <3>1
  <2>2. CASE T # {}
    <3>1. T \subseteq Nat
      BY <1>0
    <3>2. PICK n \in T : \A y \in T : n <= y
      BY Zenon, <2>2, <3>1, LeastElement
    <3>3. n \in 0..(count - 1) /\ ~At(n).acked
      BY <3>2
    <3>4. ASSUME NEW i \in 0..(n - 1) PROVE At(i).acked
      BY <1>0, <3>2, <3>3
    <3>5. IsRange(n) /\ n \in 0..count
      BY <1>0, <3>3, <3>4
    <3> QED BY <3>5
  <2> QED BY <2>1, <2>2
<1>2. ContinualRangeLength = CHOOSE n \in 0..count : IsRange(n)
  BY DEF ContinualRangeLength
<1> HIDE DEF IsRange
<1>3. ContinualRangeLength \in 0..count /\ IsRange(ContinualRangeLength)
  BY <1>1, <1>2
<1> QED BY <1>3 DEF IsRange

----------------------------------------------------------------------------
(* The records.                                                            *)

\* A tracked message has a record, and SlotOf() finds it.
LEMMA SlotOfMessage ==
  ASSUME TypeOK, RingInOrder, NEW m \in Positions, Tracked(m)
  PROVE  SlotOf(m) \in Slots /\ ring[SlotOf(m)].pos = m
<1> DEFINE i == m - Base - 1
           s == (head + i) % Window
<1>1. i \in 0..(count - 1) /\ i \in 0..(Window - 1) /\ Base + 1 + i = m
  BY TrackerAssumption DEF TypeOK, Tracked, Base, Positions
<1>2. head \in Slots
  BY DEF TypeOK
<1> HIDE DEF i
<1>3. s \in Slots /\ Offset(head, s) = i
  BY <1>1, <1>2, SlotAtOffset
<1> HIDE DEF s
<1>4. i < count
  BY <1>1, TrackerAssumption DEF TypeOK
<1>5. ring[s].pos = m
  BY <1>1, <1>3, <1>4 DEF RingInOrder
<1> QED BY <1>3, <1>5 DEF SlotOf

\* No two records are of the same message.
LEMMA RecordUnique ==
  ASSUME TypeOK, RingInOrder, NEW s \in Slots, NEW t \in Slots,
         ring[s].pos = ring[t].pos, ring[s].pos # 0
  PROVE  s = t
<1>1. Offset(head, s) < count /\ Offset(head, t) < count
  BY DEF RingInOrder, Free
<1>2. Base + 1 + Offset(head, s) = Base + 1 + Offset(head, t)
  BY <1>1 DEF RingInOrder
<1>3. head \in Slots /\ Base \in Int
  BY TrackerAssumption DEF TypeOK, Base
<1>4. Offset(head, s) \in Int /\ Offset(head, t) \in Int
  BY <1>3, OffsetOfSlot
<1>5. Offset(head, s) = Offset(head, t)
  BY <1>2, <1>3, <1>4
<1> QED BY <1>3, <1>5, OffsetInjective

\* Records in use hold a position above Base, so an unused slot is unmarked.
LEMMA UnusedIsFree ==
  ASSUME TypeOK, RingInOrder, SavedIsAccepted, NEW s \in Slots, ring[s].pos = 0
  PROVE  ring[s] = Free
<1>1. head \in Slots /\ Base \in Nat
  BY TrackerAssumption DEF TypeOK, Base, SavedIsAccepted
<1>2. Offset(head, s) \in Nat
  BY <1>1, OffsetOfSlot, TrackerAssumption
<1> QED BY <1>1, <1>2 DEF RingInOrder

----------------------------------------------------------------------------
(* One step keeps the invariant.                                           *)

\* The steps of the source thread and of the process that touch no record.
LEMMA SourceStep ==
  ASSUME IInv, UNCHANGED <<posted, ring, head, count, window, waiting, flag, acker, saved,
                           accepted, restarts>>,
         src' \in {"poll", "fetch", "more", "read"}, src # "count",
         pending' = pending \/ (count # Window /\ pending' = Tail),
         disabled' \in BOOLEAN,
         \/ down' = down /\ (down => src' = "poll")
         \/ down' = TRUE /\ src' = "poll" /\ \A a \in Ackers : acker[a].pc = "idle"
  PROVE  IInv'
<1> USE DEF IInv
<1>0. head + count \in Nat /\ Tail \in Slots
  BY TrackerAssumption DEF TypeOK, Slots, Tail
<1>1. TypeOK'
  BY Zenon, <1>0 DEF TypeOK
<1>2. WindowMatchesRecords'
  BY DEF WindowMatchesRecords
<1>3. RingInOrder'
  BY DEF RingInOrder, Base
<1>4. PendingIsNext'
  BY TrackerAssumption DEF PendingIsNext, Tail, TypeOK
<1>5. OpenRecords'
  BY DEF OpenRecords, Tracked, Unmarked, Marking, Base
<1>6. MarkersOwnRecords'
  BY DEF MarkersOwnRecords, Tracked, Base
<1>7. MarkedIsAccepted'
  BY DEF MarkedIsAccepted, Base
<1>8. DownOnlyAborts'
  BY Zenon DEF DownOnlyAborts
<1>9. SavedIsAccepted'
  BY DEF SavedIsAccepted, Base
<1> QED BY <1>1, <1>2, <1>3, <1>4, <1>5, <1>6, <1>7, <1>8, <1>9

\* consecutive_ack_tracker_track_msg(): the pending record becomes the last.
LEMMA TrackMsgStep ==
  ASSUME IInv, NEW route \in SUBSET Threads, TrackMsg(route)
  PROVE  IInv'
<1> USE DEF IInv
<1> PICK m : m = posted + 1
  OBVIOUS
<1>0. /\ m \in Positions /\ m \in Nat /\ posted \in Nat /\ Length \in Nat
      /\ count \in 0..(Window - 1) /\ count \in Nat /\ count + 1 \in 0..Window
      /\ pending \in Slots /\ head \in Slots /\ pending = Tail
      /\ Base \in Nat
  BY TrackerAssumption DEF TypeOK, TrackMsg, PendingIsNext, Positions, Base, SavedIsAccepted
<1>1. Offset(head, pending) = count
  BY <1>0, SlotAtOffset DEF Tail
<1>2. ring[pending] = Free
  BY <1>0, <1>1 DEF RingInOrder
<1>3. /\ ring'[pending] \in Record /\ ring'[pending].pos = m /\ ~ring'[pending].acked
      /\ \A s \in Slots \ {pending} : ring'[s] = ring[s]
  <2>1. ring[pending] \in Record /\ m \in 0..Length
    BY <1>0 DEF TypeOK, Positions
  <2>2. ring'[pending] = [ring[pending] EXCEPT !.pos = m]
    BY <1>0 DEF TrackMsg, TypeOK
  <2>4. ring'[pending] \in Record /\ ring'[pending].pos = m
        /\ ring'[pending].acked = ring[pending].acked
    BY <2>1, <2>2 DEF Record
  <2>3. \A s \in Slots \ {pending} : ring'[s] = ring[s]
    BY DEF TrackMsg, TypeOK
  <2> QED BY <1>2, <2>3, <2>4 DEF Free
<1>4. Base' = Base /\ posted' = m /\ head' = head /\ count' = count + 1 /\ pending' = None
  BY <1>0 DEF TrackMsg, Base
<1>5. TypeOK'
  <2>1. ring' \in [Slots -> Record]
    <3>2. ring' = [ring EXCEPT ![pending] = ring'[pending]]
      BY <1>0 DEF TrackMsg, TypeOK
    <3> QED BY <1>3, <3>2 DEF TypeOK
  <2>2. waiting' \in [Positions -> SUBSET Threads]
    BY Zenon DEF TrackMsg, TypeOK
  <2>3. flag' \in [Positions -> AckTypes]
    BY Zenon DEF TrackMsg, TypeOK, AckTypes
  <2>4. posted' \in 0..Length /\ count' \in 0..Window
    BY <1>0, <1>4 DEF Positions
  <2>5. UNCHANGED <<head, window, acker, saved, disabled, down, accepted, restarts>>
    BY DEF TrackMsg
  <2>6. pending' \in Slots \cup {None} /\ src' \in {"poll", "fetch", "more", "read", "count", "drop"}
    BY DEF TrackMsg
  <2> QED BY <2>1, <2>2, <2>3, <2>4, <2>5, <2>6 DEF TypeOK
<1>6. WindowMatchesRecords'
  <2>1. src = "read" /\ src' = "count" /\ window' = window
    BY DEF TrackMsg
  <2>2. window \in Int
    BY DEF TypeOK
  <2> QED BY <1>0, <1>4, <2>1, <2>2, TrackerAssumption DEF WindowMatchesRecords
<1>7. RingInOrder'
  <2> SUFFICES ASSUME NEW s \in Slots
               PROVE  IF Offset(head, s) < count + 1
                      THEN ring'[s].pos = Base + 1 + Offset(head, s)
                      ELSE ring'[s] = Free
    BY <1>4 DEF RingInOrder
  <2>1. Offset(head, s) \in 0..(Window - 1)
    BY <1>0, OffsetOfSlot
  <2>2. CASE s = pending
    <3>1. ring'[s].pos = m
      BY <1>3, <2>2
    <3>2. m = Base + 1 + count
      BY <1>0 DEF Base
    <3> QED BY <1>0, <1>1, <2>2, <3>1, <3>2
  <2>3. CASE s # pending
    <3>1. Offset(head, s) # count
      BY <1>0, <1>1, <2>3, OffsetInjective
    <3>2. ring'[s] = ring[s]
      BY <1>3, <2>3
    <3> QED BY <1>0, <2>1, <3>1, <3>2 DEF RingInOrder
  <2> QED BY <2>2, <2>3
<1>8. PendingIsNext'
  BY <1>4 DEF PendingIsNext
<1>9. \A k \in Positions : Tracked(k) => Tracked(k)'
  BY <1>0, <1>4 DEF Tracked, Positions
<1>10. \A k \in Positions : Unmarked(k) => Unmarked(k)'
  BY <1>3 DEF Unmarked
<1>11. UNCHANGED <<acker, saved, accepted, down>>
  BY DEF TrackMsg
<1>12. \A k : Marking(k)' = Marking(k)
  BY <1>11 DEF Marking
<1>13. Tracked(m)' /\ Unmarked(m)' /\ ~Marking(m)'
  <2>1. Tracked(m)'
    BY <1>0, <1>4 DEF Tracked, Base
  <2>2. \A s \in Slots \ {pending} : ring[s].pos # m
    <3> SUFFICES ASSUME NEW s \in Slots PROVE ring[s].pos # m
      OBVIOUS
    <3>1. Offset(head, s) \in 0..(Window - 1)
      BY <1>0, OffsetOfSlot
    <3> QED BY <1>0, <3>1 DEF RingInOrder, Free, Base
  <2>3. Unmarked(m)'
    BY <1>3, <2>2 DEF Unmarked
  <2>4. ~Marking(m)
    BY <1>0 DEF Marking, MarkersOwnRecords, Tracked
  <2> QED BY <2>1, <2>3, <2>4, <1>12
<1>14. OpenRecords'
  <2>1. ASSUME NEW k \in Positions, waiting'[k] # {}
        PROVE  Tracked(k)' /\ Unmarked(k)' /\ ~Marking(k)'
    <3>1. CASE k = m
      BY <1>13, <3>1
    <3>2. CASE k # m
      <4>1. waiting[k] # {}
        BY <2>1, <3>2 DEF TrackMsg, TypeOK
      <4> QED BY <4>1, <1>9, <1>10, <1>12 DEF OpenRecords
    <3> QED BY <3>1, <3>2
  <2> QED BY <1>4, <1>13, <2>1 DEF OpenRecords
<1>15. MarkersOwnRecords'
  <2>1. ASSUME NEW a \in Ackers, acker[a].pc = "mark"
        PROVE  ring'[acker[a].slot] = ring[acker[a].slot]
    <3>1. acker[a].slot \in Slots /\ ring[acker[a].slot].pos = acker[a].pos /\ acker[a].pos \in Positions
      BY <2>1 DEF MarkersOwnRecords
    <3>2. acker[a].slot # pending
      BY <1>2, <3>1 DEF Free, Positions
    <3> QED BY <1>3, <3>1, <3>2
  <2> QED BY <1>9, <1>11, <2>1 DEF MarkersOwnRecords
<1>16. MarkedIsAccepted'
  <2>1. \A s \in Slots : ring'[s].acked => ring[s].acked /\ ring'[s].pos = ring[s].pos
    BY <1>3
  <2>2. ~down => \A k \in Positions : flag'[k] # "aborted"
    BY DEF MarkedIsAccepted, TrackMsg, TypeOK
  <2> QED BY <1>4, <1>11, <2>1, <2>2 DEF MarkedIsAccepted
<1>17. DownOnlyAborts'
  BY DEF DownOnlyAborts, TrackMsg
<1>18. SavedIsAccepted'
  BY <1>4, <1>11 DEF SavedIsAccepted
<1> QED BY <1>5, <1>6, <1>7, <1>8, <1>14, <1>15, <1>16, <1>17, <1>18

\* The thread that has given the last acknowledgement of a message is about to
\* mark its record and nobody else is.
LEMMA StartMarking ==
  ASSUME IInv, NEW a \in Ackers, NEW m \in Positions, NEW type \in AckTypes,
         Tracked(m), Unmarked(m), ~Marking(m),
         acker' = [acker EXCEPT ![a] = [pc |-> "mark", pos |-> m, slot |-> SlotOf(m),
                                        type |-> type]],
         UNCHANGED <<posted, ringVars>>
  PROVE  /\ acker' \in [Ackers -> AckerState]
         /\ MarkersOwnRecords'
         /\ \A k : Marking(k)' => Marking(k) \/ k = m
         /\ acker'[a].pos = m /\ acker'[a].type = type
         /\ \A b \in Ackers \ {a} : acker'[b] = acker[b]
<1> USE DEF IInv
<1> DEFINE r == [pc |-> "mark", pos |-> m, slot |-> SlotOf(m), type |-> type]
<1>1. SlotOf(m) \in Slots /\ ring[SlotOf(m)].pos = m
  BY SlotOfMessage
<1>2. r \in AckerState /\ r.pc = "mark" /\ r.pos = m /\ r.slot = SlotOf(m) /\ r.type = type
  BY <1>1, TrackerAssumption DEF AckerState, Positions
<1>3. acker' = [acker EXCEPT ![a] = r]
  OBVIOUS
<1> HIDE DEF r
<1>4. acker' \in [Ackers -> AckerState]
  BY <1>2, <1>3 DEF TypeOK
<1>5. acker'[a] = r /\ \A b \in Ackers \ {a} : acker'[b] = acker[b]
  BY <1>3 DEF TypeOK
<1>6. ~ring[SlotOf(m)].acked
  BY <1>1 DEF Unmarked
<1>7. ring' = ring /\ posted' = posted /\ Base' = Base
  BY DEF ringVars, Base
<1>8. MarkersOwnRecords'
  <2>1. ASSUME NEW b \in Ackers, acker'[b].pc = "mark"
        PROVE  /\ Tracked(acker[b].pos)' /\ acker'[b].pos \in Positions
               /\ acker'[b].slot \in Slots
               /\ ring'[acker'[b].slot].pos = acker'[b].pos /\ ~ring'[acker'[b].slot].acked
    <3>1. CASE b = a
      BY <1>1, <1>2, <1>5, <1>6, <1>7, <3>1 DEF Tracked
    <3>2. CASE b # a
      <4>1. acker'[b] = acker[b] /\ acker[b].pc = "mark"
        BY <1>5, <2>1, <3>2
      <4> QED BY <1>7, <4>1 DEF Tracked, MarkersOwnRecords
    <3> QED BY <3>1, <3>2
  <2>2. ASSUME NEW b \in Ackers, NEW c \in Ackers, acker'[b].pc = "mark",
               acker'[c].pc = "mark", acker'[b].pos = acker'[c].pos
        PROVE  b = c
    <3>1. \A d \in Ackers \ {a} : acker'[d].pc = "mark" => acker'[d].pos # m
      BY <1>5 DEF Marking
    <3>2. CASE b = a \/ c = a
      BY <1>2, <1>5, <2>2, <3>1, <3>2
    <3>3. CASE b # a /\ c # a
      BY <1>5, <2>2, <3>3 DEF MarkersOwnRecords
    <3> QED BY <3>2, <3>3
  <2> QED BY <2>1, <2>2 DEF MarkersOwnRecords
<1>9. \A k : Marking(k)' => Marking(k) \/ k = m
  BY SMTT(60), <1>2, <1>5 DEF Marking
<1> QED BY <1>2, <1>4, <1>5, <1>8, <1>9

\* _log_source_track_msg() and log_source_drop().
LEMMA CountMsgStep ==
  ASSUME IInv, CountMsg
  PROVE  IInv'
<1> USE DEF IInv
<1>0. /\ src = "count" /\ window' = window - 1 /\ window \in Nat /\ count \in Nat
      /\ UNCHANGED <<posted, ringVars, waiting, flag, saved, disabled, down, restarts>>
  BY DEF CountMsg, TypeOK
<1>1. Tracked(posted) /\ Unmarked(posted) /\ ~Marking(posted)
  BY <1>0 DEF OpenRecords
<1>2. /\ posted \in Positions /\ count >= 1 /\ window >= 1
      /\ window' \in 0..Window /\ Base \in Nat
  BY <1>0, <1>1, TrackerAssumption
     DEF Tracked, Base, TypeOK, Positions, SavedIsAccepted, WindowMatchesRecords
<1>3. src' \in {"more", "poll", "drop"} /\ ~down
  BY <1>0 DEF CountMsg, DownOnlyAborts
<1>4. WindowMatchesRecords'
  BY <1>0, <1>3, TrackerAssumption DEF WindowMatchesRecords, ringVars
<1>5. RingInOrder' /\ Base' = Base
  BY <1>0 DEF RingInOrder, Base, ringVars
<1>6. PendingIsNext'
  BY <1>0 DEF PendingIsNext, ringVars, Tail
<1>7. DownOnlyAborts'
  BY <1>0, <1>3 DEF DownOnlyAborts
<1>8. CASE waiting[posted] # {} /\ UNCHANGED <<acker, accepted>>
  <2>1. TypeOK'
    BY <1>0, <1>2, <1>3, <1>8 DEF TypeOK, ringVars
  <2>2. OpenRecords'
    BY <1>0, <1>3, <1>5, <1>8 DEF OpenRecords, Tracked, Unmarked, Marking, ringVars
  <2>3. MarkersOwnRecords'
    BY <1>0, <1>5, <1>8 DEF MarkersOwnRecords, Tracked, ringVars
  <2>4. MarkedIsAccepted' /\ SavedIsAccepted'
    BY <1>0, <1>5, <1>8 DEF MarkedIsAccepted, SavedIsAccepted, ringVars
  <2> QED BY <1>4, <1>5, <1>6, <1>7, <2>1, <2>2, <2>3, <2>4
<1>9. CASE /\ waiting[posted] = {}
           /\ acker' = [acker EXCEPT ![SourceThread] =
                           [pc |-> "mark", pos |-> posted, slot |-> SlotOf(posted),
                            type |-> "processed"]]
           /\ accepted' = accepted \cup {posted}
  <2>0. SourceThread \in Ackers /\ "processed" \in AckTypes /\ UNCHANGED <<posted, ringVars>>
    BY <1>0 DEF Ackers, AckTypes
  <2>1. /\ acker' \in [Ackers -> AckerState]
        /\ MarkersOwnRecords'
        /\ \A k : Marking(k)' => Marking(k) \/ k = posted
        /\ acker'[SourceThread].pos = posted
        /\ \A b \in Ackers \ {SourceThread} : acker'[b] = acker[b]
    BY Zenon, <1>1, <1>2, <1>9, <2>0, StartMarking
  <2>2. TypeOK'
    BY <1>0, <1>2, <1>3, <1>9, <2>1 DEF TypeOK, ringVars
  <2>3. OpenRecords'
    <3>1. ASSUME NEW k \in Positions, waiting[k] # {}
          PROVE  Tracked(k)' /\ Unmarked(k)' /\ ~Marking(k)'
      <4>1. k # posted /\ Tracked(k) /\ Unmarked(k) /\ ~Marking(k)
        BY SMTT(60), <1>9, <3>1 DEF OpenRecords
      <4> QED BY <1>0, <1>5, <2>1, <4>1 DEF Tracked, Unmarked, ringVars
    <3> QED BY <1>0, <1>3, <3>1 DEF OpenRecords
  <2>4. MarkedIsAccepted'
    BY SMTT(60), <1>0, <1>5, <1>9, <2>1 DEF MarkedIsAccepted, ringVars
  <2>5. SavedIsAccepted'
    BY <1>0, <1>5, <1>9 DEF SavedIsAccepted
  <2> QED BY <1>4, <1>5, <1>6, <1>7, <2>1, <2>2, <2>3, <2>4, <2>5
<1> QED BY <1>8, <1>9 DEF CountMsg

\* log_msg_ack() of a destination.
LEMMA MsgAckStep ==
  ASSUME IInv, NEW d \in Threads, NEW m \in Positions, NEW type \in AckTypes,
         MsgAck(d, m, type)
  PROVE  IInv'
<1> USE DEF IInv
<1>0. /\ d \in waiting[m] /\ (type = "aborted") = down
      /\ waiting' = [waiting EXCEPT ![m] = @ \ {d}]
      /\ UNCHANGED <<posted, src, ringVars, window, saved, disabled, down, restarts>>
      /\ d \in Ackers
  BY DEF MsgAck, Ackers
<1>1. Tracked(m) /\ Unmarked(m) /\ ~Marking(m)
  BY <1>0 DEF OpenRecords
<1>2. waiting' \in [Positions -> SUBSET Threads]
  BY <1>0 DEF TypeOK
<1>3. \A k \in Positions : waiting'[k] # {} => waiting[k] # {}
  BY <1>0 DEF TypeOK
<1>4. /\ flag' \in [Positions -> AckTypes]
      /\ ~down => \A k \in Positions : flag'[k] # "aborted"
      /\ FinalType(m, type) \in AckTypes
  <2>0. flag \in [Positions -> AckTypes] /\ flag[m] \in AckTypes
    BY DEF TypeOK
  <2>1. PICK f \in AckTypes : f = IF type = "suspended" \/ flag[m] = "processed" THEN type ELSE flag[m]
    BY <2>0
  <2>2. flag' = [flag EXCEPT ![m] = f]
    BY <2>1 DEF MsgAck
  <2>3. ~down => f # "aborted"
    BY ZenonT(60), <1>0, <2>1 DEF MarkedIsAccepted
  <2>4. FinalType(m, type) \in AckTypes
    BY <2>0 DEF FinalType
  <2> QED BY <2>0, <2>2, <2>3, <2>4 DEF MarkedIsAccepted
<1>5. WindowMatchesRecords'
  BY <1>0 DEF WindowMatchesRecords, ringVars
<1>6. RingInOrder' /\ Base' = Base
  BY <1>0 DEF RingInOrder, Base, ringVars
<1>7. PendingIsNext'
  BY <1>0 DEF PendingIsNext, ringVars, Tail
<1>8. CASE waiting[m] # {d} /\ UNCHANGED <<acker, accepted>>
  <2>1. TypeOK'
    BY <1>0, <1>2, <1>4, <1>8 DEF TypeOK, ringVars
  <2>2. OpenRecords'
    BY <1>0, <1>3, <1>6, <1>8 DEF OpenRecords, Tracked, Unmarked, Marking, ringVars
  <2>3. MarkersOwnRecords'
    BY SMTT(60), <1>0, <1>6, <1>8 DEF MarkersOwnRecords, Tracked, ringVars
  <2>4. MarkedIsAccepted' /\ SavedIsAccepted'
    BY SMTT(60), <1>0, <1>4, <1>6, <1>8 DEF MarkedIsAccepted, SavedIsAccepted, ringVars
  <2>5. DownOnlyAborts'
    BY <1>0, <1>8 DEF DownOnlyAborts
  <2> QED BY <1>5, <1>6, <1>7, <2>1, <2>2, <2>3, <2>4, <2>5
<1>9. CASE /\ waiting[m] = {d}
           /\ acker' = [acker EXCEPT ![d] = [pc |-> "mark", pos |-> m, slot |-> SlotOf(m),
                                             type |-> FinalType(m, type)]]
           /\ accepted' = IF flag'[m] = "aborted" THEN accepted ELSE accepted \cup {m}
  <2>0. UNCHANGED <<posted, ringVars>>
    BY <1>0
  <2>1. /\ acker' \in [Ackers -> AckerState]
        /\ MarkersOwnRecords'
        /\ \A k : Marking(k)' => Marking(k) \/ k = m
        /\ acker'[d].pos = m /\ acker'[d].type = FinalType(m, type)
        /\ \A b \in Ackers \ {d} : acker'[b] = acker[b]
    BY Zenon, <1>0, <1>1, <1>4, <1>9, <2>0, StartMarking
  <2>2. accepted' \subseteq Positions /\ accepted \subseteq accepted' /\ (~down => m \in accepted')
    BY <1>4, <1>9 DEF TypeOK
  <2>3. TypeOK'
    BY <1>0, <1>2, <1>4, <2>1, <2>2 DEF TypeOK, ringVars
  <2>4. waiting'[m] = {} /\ (src = "count" => m # posted)
    BY <1>0, <1>9 DEF TypeOK, MsgAck, Delivered
  <2>5. OpenRecords'
    <3>1. ASSUME NEW k \in Positions, waiting'[k] # {}
          PROVE  Tracked(k)' /\ Unmarked(k)' /\ ~Marking(k)'
      <4>1. k # m /\ Tracked(k) /\ Unmarked(k) /\ ~Marking(k)
        BY <1>3, <2>4, <3>1 DEF OpenRecords
      <4> QED BY Zenon, <1>0, <1>6, <2>1, <4>1 DEF Tracked, Unmarked, ringVars
    <3>2. ASSUME src = "count"
          PROVE  Tracked(posted)' /\ Unmarked(posted)' /\ ~Marking(posted)'
      <4>1. posted # m /\ Tracked(posted) /\ Unmarked(posted) /\ ~Marking(posted)
        BY <2>4, <3>2 DEF OpenRecords
      <4>2. posted' = posted /\ ring' = ring
        BY <1>0 DEF ringVars
      <4>3. Marking(posted)' => Marking(posted)
        BY SMTT(60), <2>1, <4>1, <4>2 DEF Marking
      <4> QED BY <1>6, <4>1, <4>2, <4>3 DEF Tracked, Unmarked
    <3> QED BY SMTT(60), <1>0, <3>1, <3>2 DEF OpenRecords
  <2>6. MarkedIsAccepted'
    BY <1>0, <1>4, <1>6, <2>1, <2>2 DEF MarkedIsAccepted, ringVars
  <2>7. SavedIsAccepted'
    BY <1>0, <1>6, <2>2 DEF SavedIsAccepted
  <2>8. DownOnlyAborts'
    BY Zenon, <1>0, <2>1 DEF DownOnlyAborts, FinalType
  <2> QED BY <1>5, <1>6, <1>7, <2>1, <2>3, <2>5, <2>6, <2>7, <2>8
<1> QED BY <1>8, <1>9 DEF MsgAck

\* consecutive_ack_tracker_manage_msg_ack() before the lock: the record that is
\* marked is the thread's own.
LEMMA MarkRecordStep ==
  ASSUME IInv, NEW a \in Ackers, MarkRecord(a)
  PROVE  IInv'
<1> USE DEF IInv
<1> PICK t : t = acker[a].slot
  OBVIOUS
<1>0. /\ acker[a].pc = "mark" /\ t \in Slots /\ ring[t].pos = acker[a].pos
      /\ ring' = [ring EXCEPT ![t].acked = TRUE]
      /\ acker' = [acker EXCEPT ![a].pc = "lock"]
      /\ UNCHANGED <<posted, src, pending, head, count, window, waiting, flag, saved, disabled,
                     down, accepted, restarts>>
  BY DEF MarkRecord, MarkersOwnRecords
<1>1. /\ ring' \in [Slots -> Record]
      /\ ring'[t].pos = ring[t].pos /\ ring'[t].acked
      /\ \A s \in Slots \ {t} : ring'[s] = ring[s]
  <2>1. ring[t] \in Record
    BY <1>0 DEF TypeOK
  <2>2. ring' = [ring EXCEPT ![t] = [ring[t] EXCEPT !.acked = TRUE]]
    BY <1>0 DEF TypeOK
  <2>3. PICK r : r = [ring[t] EXCEPT !.acked = TRUE]
    OBVIOUS
  <2>4. r \in Record /\ r.pos = ring[t].pos /\ r.acked
    BY Zenon, <2>1, <2>3 DEF Record
  <2>5. ring' = [ring EXCEPT ![t] = r]
    BY <2>2, <2>3
  <2> QED BY <1>0, <2>4, <2>5 DEF TypeOK
<1>2. /\ acker' \in [Ackers -> AckerState]
      /\ acker'[a].pc = "lock" /\ acker'[a].type = acker[a].type
      /\ \A b \in Ackers \ {a} : acker'[b] = acker[b]
  <2>1. acker[a] \in AckerState
    BY DEF TypeOK
  <2>2. acker' = [acker EXCEPT ![a] = [acker[a] EXCEPT !.pc = "lock"]]
    BY <1>0 DEF TypeOK
  <2>3. PICK r : r = [acker[a] EXCEPT !.pc = "lock"]
    OBVIOUS
  <2>4. r \in AckerState /\ r.pc = "lock" /\ r.type = acker[a].type
    BY <2>1, <2>3 DEF AckerState
  <2>5. acker' = [acker EXCEPT ![a] = r]
    BY <2>2, <2>3
  <2> QED BY <2>4, <2>5 DEF TypeOK
<1>3. TypeOK'
  BY <1>0, <1>1, <1>2 DEF TypeOK
<1>4. WindowMatchesRecords' /\ PendingIsNext' /\ SavedIsAccepted' /\ Base' = Base
  BY <1>0 DEF WindowMatchesRecords, PendingIsNext, SavedIsAccepted, Base, Tail
<1>5. Offset(head, t) < count
  <2>1. ring[t].pos # 0
    BY <1>0 DEF MarkersOwnRecords, Positions
  <2> QED BY <1>0, <2>1 DEF RingInOrder, Free
<1>6. RingInOrder'
  BY <1>0, <1>1, <1>4, <1>5 DEF RingInOrder
<1>7. ASSUME NEW k, Unmarked(k), ~Marking(k)
      PROVE  Unmarked(k)' /\ ~Marking(k)'
  <2>1. k # ring[t].pos
    BY <1>0, <1>7 DEF Marking
  <2> QED BY <1>1, <1>2, <1>7, <2>1 DEF Unmarked, Marking
<1>8. OpenRecords'
  <2>1. ASSUME NEW k \in Positions, waiting'[k] # {}
        PROVE  Tracked(k)' /\ Unmarked(k)' /\ ~Marking(k)'
    BY <1>0, <1>4, <1>7, <2>1 DEF OpenRecords, Tracked
  <2>2. ASSUME src = "count"
        PROVE  Tracked(posted)' /\ Unmarked(posted)' /\ ~Marking(posted)'
    <3>1. Tracked(posted) /\ Unmarked(posted) /\ ~Marking(posted)
      BY <2>2 DEF OpenRecords
    <3>2. PICK k : k = posted
      OBVIOUS
    <3>3. Unmarked(k)' /\ ~Marking(k)'
      BY <1>7, <3>1, <3>2
    <3>4. posted' = k
      BY <1>0, <3>2
    <3> QED BY <1>4, <3>1, <3>2, <3>3, <3>4 DEF Tracked, Unmarked, Marking
  <2> QED BY <1>0, <2>1, <2>2 DEF OpenRecords
<1>9. MarkersOwnRecords'
  <2>1. ASSUME NEW b \in Ackers, acker'[b].pc = "mark"
        PROVE  b # a /\ acker'[b] = acker[b] /\ acker[b].slot # t
    <3>1. b # a /\ acker'[b] = acker[b]
      BY <1>2, <2>1
    <3>2. acker[b].pos # acker[a].pos
      BY <1>0, <2>1, <3>1 DEF MarkersOwnRecords
    <3> QED BY <1>0, <2>1, <3>1, <3>2 DEF MarkersOwnRecords
  <2>2. ASSUME NEW b \in Ackers, acker'[b].pc = "mark"
        PROVE  /\ Tracked(acker[b].pos)' /\ acker'[b].pos \in Positions
               /\ acker'[b].slot \in Slots
               /\ ring'[acker'[b].slot].pos = acker'[b].pos /\ ~ring'[acker'[b].slot].acked
    BY SMTT(60), <1>0, <1>1, <1>4, <2>1, <2>2 DEF Tracked, MarkersOwnRecords
  <2>3. ASSUME NEW b \in Ackers, NEW c \in Ackers, acker'[b].pc = "mark",
               acker'[c].pc = "mark", acker'[b].pos = acker'[c].pos
        PROVE  b = c
    BY <2>1, <2>3 DEF MarkersOwnRecords
  <2> QED BY <2>2, <2>3 DEF MarkersOwnRecords
<1>10. MarkedIsAccepted'
  <2> SUFFICES ASSUME ~down PROVE MarkedIsAccepted'
    BY <1>0 DEF MarkedIsAccepted
  <2>1. acker[a].pos \in accepted
    BY <1>0 DEF MarkedIsAccepted
  <2>2. \A s \in Slots : ring'[s].acked => ring'[s].pos \in accepted
    BY <1>0, <1>1, <2>1 DEF MarkedIsAccepted
  <2>3. \A b \in Ackers : acker'[b].pc = "mark" => acker'[b].pos \in accepted
    BY <1>2 DEF MarkedIsAccepted
  <2> QED BY <1>0, <1>4, <2>2, <2>3 DEF MarkedIsAccepted
<1>11. DownOnlyAborts'
  BY <1>0, <1>2 DEF DownOnlyAborts
<1> QED BY <1>3, <1>4, <1>6, <1>8, <1>9, <1>10, <1>11

\* _ack_records_untrack_msg(): only marked records leave, and the stored
\* position moves to the last of them.
LEMMA UntrackStep ==
  ASSUME IInv, NEW a \in Ackers, Untrack(a)
  PROVE  /\ IInv'
         /\ \/ saved' = saved
            \/ saved' \in saved..posted /\ 1..saved' \subseteq accepted
<1> USE DEF IInv
<1> PICK n : n = ContinualRangeLength
  OBVIOUS
<1>0. /\ n \in 0..count /\ n \in Nat /\ n \in 0..Window /\ count \in Nat /\ count \in 0..Window
      /\ head \in Slots /\ Base \in Nat /\ posted \in Nat /\ saved \in Nat /\ window \in Nat
      /\ \A i \in 0..(n - 1) : At(i).acked
  BY RangeLength, TrackerAssumption DEF TypeOK, Base, SavedIsAccepted
<1>1. /\ acker[a].pc = "lock"
      /\ saved' = IF n > 0 /\ SavesBookmark(acker[a].type) THEN At(n - 1).pos ELSE saved
      /\ ring' = Dropped(n)
      /\ head' = (head + n) % Window
      /\ count' = count - n
      /\ window' = window + n
      /\ acker' = [acker EXCEPT ![a] = Idle]
      /\ UNCHANGED <<posted, src, pending, waiting, flag, disabled, down, accepted, restarts>>
  BY <1>0 DEF Untrack, Returned
<1>2. \A s \in Slots : ring'[s] = IF Offset(head, s) < n THEN Free ELSE ring[s]
  <2> SUFFICES ASSUME NEW s \in Slots
               PROVE  (\E i \in 0..(n - 1) : s = (head + i) % Window) <=> Offset(head, s) < n
    BY <1>1 DEF Dropped
  <2>1. Offset(head, s) \in 0..(Window - 1) /\ (head + Offset(head, s)) % Window = s
    BY <1>0, OffsetOfSlot
  <2>2. ASSUME NEW i \in 0..(n - 1), s = (head + i) % Window
        PROVE  Offset(head, s) < n
    <3>1. i \in 0..(Window - 1)
      BY <1>0, TrackerAssumption
    <3>2. Offset(head, s) = i
      BY <1>0, <2>2, <3>1, SlotAtOffset
    <3> QED BY <1>0, <3>2
  <2>3. ASSUME Offset(head, s) < n
        PROVE  \E i \in 0..(n - 1) : s = (head + i) % Window
    <3>1. Offset(head, s) \in 0..(n - 1)
      BY <1>0, <2>1, <2>3
    <3> QED BY <2>1, <3>1
  <2> QED BY <2>2, <2>3
<1>3. ASSUME NEW s \in Slots, Offset(head, s) < n
      PROVE  ring[s].acked
  <2>1. Offset(head, s) \in 0..(Window - 1) /\ (head + Offset(head, s)) % Window = s
    BY <1>0, OffsetOfSlot
  <2>2. At(Offset(head, s)).acked
    BY <1>0, <1>3, <2>1
  <2> QED BY <2>1, <2>2 DEF At
<1>4. Base' = Base + n /\ Base' \in Nat /\ Base' <= posted
  BY <1>0, <1>1 DEF Base
<1>5. acker' \in [Ackers -> AckerState] /\ acker'[a].pc = "idle" /\ \A b \in Ackers \ {a} : acker'[b] = acker[b]
  <2>1. Idle \in AckerState /\ Idle.pc = "idle"
    BY TrackerAssumption DEF Idle, AckerState, AckTypes
  <2> QED BY <1>1, <2>1 DEF TypeOK
<1>6. RingInOrder'
  <2> SUFFICES ASSUME NEW s \in Slots
               PROVE  IF Offset(head', s) < count - n
                      THEN ring'[s].pos = Base + n + 1 + Offset(head', s)
                      ELSE ring'[s] = Free
    BY <1>1, <1>4 DEF RingInOrder
  <2>1. Offset(head, s) \in 0..(Window - 1)
    BY <1>0, OffsetOfSlot
  <2>2. Offset(head', s) = IF Offset(head, s) >= n THEN Offset(head, s) - n
                           ELSE Offset(head, s) - n + Window
    BY <1>0, <1>1, OffsetAfterDrop
  <2>3. CASE Offset(head, s) < n
    <3>1. ~(Offset(head', s) < count - n)
      BY <1>0, <2>1, <2>2, <2>3, TrackerAssumption
    <3> QED BY <1>2, <2>3, <3>1
  <2>4. CASE ~(Offset(head, s) < n)
    <3>1. Offset(head', s) = Offset(head, s) - n /\ (Offset(head', s) < count - n <=> Offset(head, s) < count)
      BY <1>0, <2>1, <2>2, <2>4
    <3>2. ring'[s] = ring[s]
      BY <1>2, <2>4
    <3> QED BY <1>0, <2>1, <3>1, <3>2 DEF RingInOrder
  <2> QED BY <2>3, <2>4
<1>8. WindowMatchesRecords'
  BY <1>0, <1>1, TrackerAssumption DEF WindowMatchesRecords
<1>9. PendingIsNext'
  <2> SUFFICES ASSUME pending # None PROVE count - n < Window /\ pending = Tail'
    BY <1>1 DEF PendingIsNext
  <2>1. count < Window /\ pending = (head + count) % Window /\ count \in 0..(Window - 1)
    BY <1>0, TrackerAssumption DEF PendingIsNext, Tail
  <2>2. Tail' = (((head + n) % Window) + (count - n)) % Window
    BY <1>1 DEF Tail
  <2>3. Tail' = (head + count) % Window
    BY <1>0, <2>1, <2>2, TailAfterDrop
  <2>4. count - n < Window
    BY <1>0, <2>1, TrackerAssumption
  <2> QED BY <2>1, <2>3, <2>4
<1>10. ASSUME NEW s \in Slots, ring[s].pos \in Nat \ {0}, ~ring[s].acked
       PROVE  ring'[s] = ring[s] /\ ring[s].pos > Base + n
  <2>1. Offset(head, s) \in 0..(Window - 1)
    BY <1>0, OffsetOfSlot
  <2>2. ~(Offset(head, s) < n)
    BY <1>3, <1>10
  <2>3. ring[s].pos = Base + 1 + Offset(head, s)
    BY <1>10 DEF RingInOrder, Free
  <2> QED BY <1>0, <1>2, <2>1, <2>2, <2>3
<1>11. ASSUME NEW k \in Positions, Tracked(k), Unmarked(k), ~Marking(k)
       PROVE  Tracked(k)' /\ Unmarked(k)' /\ ~Marking(k)'
  <2>1. SlotOf(k) \in Slots /\ ring[SlotOf(k)].pos = k
    BY <1>11, SlotOfMessage
  <2>2. k > Base + n /\ k <= posted
    BY <1>10, <1>11, <2>1 DEF Unmarked, Tracked, Positions
  <2>3. Tracked(k)'
    BY SMTT(60), <1>1, <1>4, <2>2 DEF Tracked
  <2>4. Unmarked(k)'
    <3>1. k # 0
      BY DEF Positions
    <3> QED BY <1>2, <1>11, <3>1 DEF Unmarked, Free
  <2>5. ~Marking(k)'
    BY SMTT(60), <1>5, <1>11 DEF Marking
  <2> QED BY <2>3, <2>4, <2>5
<1>12. OpenRecords'
  <2>1. ASSUME NEW k \in Positions, waiting'[k] # {}
        PROVE  Tracked(k)' /\ Unmarked(k)' /\ ~Marking(k)'
    BY <1>1, <1>11, <2>1 DEF OpenRecords
  <2>2. ASSUME src = "count"
        PROVE  Tracked(posted)' /\ Unmarked(posted)' /\ ~Marking(posted)'
    <3>1. Tracked(posted) /\ Unmarked(posted) /\ ~Marking(posted)
      BY <2>2 DEF OpenRecords
    <3>2. PICK k : k = posted
      OBVIOUS
    <3>3. k \in Positions
      BY <1>0, <3>1, <3>2, TrackerAssumption DEF Tracked, Positions, TypeOK
    <3>4. Tracked(k)' /\ Unmarked(k)' /\ ~Marking(k)'
      BY <1>11, <3>1, <3>2, <3>3
    <3>5. posted' = k
      BY SMTT(60), <1>1, <3>2
    <3> QED BY <3>4, <3>5 DEF Tracked, Unmarked, Marking
  <2> QED BY ZenonT(60), <1>1, <2>1, <2>2 DEF OpenRecords
<1>13. MarkersOwnRecords'
  <2>1. ASSUME NEW b \in Ackers, acker'[b].pc = "mark"
        PROVE  /\ acker'[b] = acker[b]
               /\ Tracked(acker[b].pos)' /\ acker'[b].pos \in Positions
               /\ acker'[b].slot \in Slots
               /\ ring'[acker'[b].slot].pos = acker'[b].pos /\ ~ring'[acker'[b].slot].acked
    <3>1. acker'[b] = acker[b] /\ acker[b].pc = "mark"
      BY <1>5, <2>1
    <3>2. PICK t, m : t = acker[b].slot /\ m = acker[b].pos
      OBVIOUS
    <3>3. /\ Tracked(m) /\ m \in Positions /\ t \in Slots
          /\ ring[t].pos = m /\ ~ring[t].acked
      BY <3>1, <3>2 DEF MarkersOwnRecords
    <3>4. m \in Nat \ {0}
      BY <3>3 DEF Positions
    <3>5. ring'[t] = ring[t] /\ m > Base + n
      BY <1>10, <3>3, <3>4
    <3>6. Tracked(m)'
      BY <1>1, <1>4, <3>3, <3>5 DEF Tracked
    <3> QED BY ZenonT(60), <3>1, <3>2, <3>3, <3>5, <3>6 DEF Tracked
  <2>2. ASSUME NEW b \in Ackers, NEW c \in Ackers, acker'[b].pc = "mark",
               acker'[c].pc = "mark", acker'[b].pos = acker'[c].pos
        PROVE  b = c
    BY <2>1, <2>2 DEF MarkersOwnRecords
  <2> QED BY ZenonT(60), <2>1, <2>2 DEF MarkersOwnRecords
<1>14. ASSUME ~down, NEW k \in 1..(Base + n)
       PROVE  k \in accepted
  <2>1. CASE k <= Base
    BY <1>0, <1>14, <2>1 DEF MarkedIsAccepted
  <2>2. CASE k > Base
    <3>1. k \in Positions /\ Tracked(k)
      BY <1>0, <1>1, <1>4, <1>14, <2>2, TrackerAssumption DEF Tracked, Positions, TypeOK
    <3>2. PICK t \in Slots : ring[t].pos = k
      BY <3>1, SlotOfMessage
    <3>3. ring[t].acked
      BY SMTT(60), <1>0, <1>10, <3>2
    <3> QED BY <1>14, <3>2, <3>3 DEF MarkedIsAccepted
  <2> QED BY SMTT(60), <1>0, <2>1, <2>2
<1>15. MarkedIsAccepted'
  <2> SUFFICES ASSUME ~down PROVE MarkedIsAccepted'
    BY <1>1 DEF MarkedIsAccepted
  <2>1. \A k \in 1..Base' : k \in accepted'
    BY SMTT(60), <1>1, <1>4, <1>14
  <2>2. \A s \in Slots : ring'[s].acked => ring'[s].pos \in accepted'
    BY SMTT(60), <1>1, <1>2 DEF MarkedIsAccepted, Free
  <2>3. \A b \in Ackers : acker'[b].pc = "mark" => acker'[b].pos \in accepted'
    BY <1>1, <1>5 DEF MarkedIsAccepted
  <2> QED BY SMTT(60), <1>1, <2>1, <2>2, <2>3 DEF MarkedIsAccepted
<1>16. DownOnlyAborts'
  BY <1>1, <1>5 DEF DownOnlyAborts
<1>17. \/ saved' = saved
       \/ saved' = Base + n /\ ~down
  <2> SUFFICES ASSUME n > 0, acker[a].type # "aborted", saved' = At(n - 1).pos
               PROVE  saved' = Base + n /\ ~down
    BY <1>1 DEF SavesBookmark
  <2>1. ~down
    BY <1>1 DEF DownOnlyAborts
  <2>2. n - 1 \in 0..(Window - 1) /\ n - 1 < count
    BY <1>0, TrackerAssumption
  <2>3. PICK t : t = (head + (n - 1)) % Window
    OBVIOUS
  <2>4. t \in Slots /\ Offset(head, t) = n - 1
    BY <1>0, <2>2, <2>3, SlotAtOffset
  <2>5. ring[t].pos = Base + 1 + (n - 1)
    BY <2>2, <2>4 DEF RingInOrder
  <2> QED BY <1>0, <2>1, <2>3, <2>5 DEF At
<1>18. SavedIsAccepted' /\ (saved' = saved \/ (saved' \in saved..posted /\ 1..saved' \subseteq accepted))
  <2>1. CASE saved' = saved
    BY <1>0, <1>1, <1>4, <2>1 DEF SavedIsAccepted
  <2>2. CASE saved' = Base + n /\ ~down
    <3>1. \A k \in 1..saved' : k \in accepted
      BY <1>14, <2>2
    <3> QED BY <1>0, <1>1, <1>4, <2>2, <3>1 DEF SavedIsAccepted
  <2> QED BY <1>17, <2>1, <2>2
<1>19. TypeOK'
  <2>1. ring' \in [Slots -> Record]
    <3>1. Free \in Record
      BY TrackerAssumption DEF Free, Record
    <3> QED BY <1>1, <3>1 DEF Dropped, TypeOK
  <2>2. head' \in Slots
    BY <1>0, <1>1, OffsetAfterDrop
  <2>3. count' \in 0..Window /\ window' \in 0..Window
    <3>1. src = "count" => count - n >= 1
      <4>1. src' = "count" => posted' > Base'
        BY <1>12 DEF OpenRecords, Tracked
      <4> QED BY <1>0, <1>1, <1>4, <4>1 DEF Base
    <3>2. CASE src = "count"
      <4>1. window + count = Window + 1
        BY <3>2 DEF WindowMatchesRecords
      <4> QED BY <1>0, <1>1, <3>1, <3>2, <4>1, TrackerAssumption
    <3>3. CASE src # "count"
      <4>1. window + count = Window
        BY <3>3, TrackerAssumption DEF WindowMatchesRecords
      <4> QED BY <1>0, <1>1, <4>1, TrackerAssumption
    <3> QED BY <3>2, <3>3
  <2>4. saved' \in 0..Length
    <3>1. CASE n > 0
      <4>1. (head + (n - 1)) % Window \in Slots
        BY <1>0, <3>1, SlotAtOffset, TrackerAssumption
      <4>2. ring[(head + (n - 1)) % Window] \in Record
        BY <4>1 DEF TypeOK
      <4>3. At(n - 1).pos \in 0..Length
        BY <4>2 DEF At, Record
      <4> QED BY <1>1, <4>3 DEF TypeOK
    <3>2. CASE ~(n > 0)
      BY <1>1, <3>2 DEF TypeOK
    <3> QED BY <3>1, <3>2
  <2> QED BY <1>1, <1>5, <2>1, <2>2, <2>3, <2>4 DEF TypeOK
<1> QED BY <1>6, <1>8, <1>9, <1>12, <1>13, <1>15, <1>16, <1>18, <1>19

\* A restart leaves an empty ring over the stored position.
LEMMA RestartStep ==
  ASSUME IInv, Restart
  PROVE  IInv'
<1> USE DEF IInv
<1>1. /\ posted' = saved /\ src' = "poll" /\ pending' = None /\ head' = 0 /\ count' = 0
      /\ ring' = [s \in Slots |-> Free] /\ window' = Window
      /\ waiting' = [m \in Positions |-> {}] /\ flag' = [m \in Positions |-> "processed"]
      /\ acker' = [a \in Ackers |-> Idle] /\ down' = FALSE /\ disabled' = FALSE
      /\ saved' = saved /\ accepted' = accepted /\ restarts' \in 0..MaxRestarts
  BY TrackerAssumption DEF Restart, TypeOK
<1>2. Base' = saved /\ saved \in Nat
  BY SMTT(60), <1>1 DEF Base, TypeOK
<1>3. /\ Idle \in AckerState /\ Idle.pc = "idle" /\ Free \in Record /\ ~Free.acked
      /\ "processed" \in AckTypes /\ 0 \in Slots
  BY SMTT(60), TrackerAssumption DEF Idle, AckerState, AckTypes, Free, Record, Slots
<1>4. TypeOK'
  <2>1. /\ ring' \in [Slots -> Record] /\ acker' \in [Ackers -> AckerState]
        /\ flag' \in [Positions -> AckTypes] /\ waiting' \in [Positions -> SUBSET Threads]
    BY SMTT(60), <1>1, <1>3
  <2>2. /\ posted' \in 0..Length /\ saved' \in 0..Length /\ count' \in 0..Window
        /\ window' \in 0..Window /\ restarts' \in 0..MaxRestarts /\ accepted' \subseteq Positions
    BY SMTT(60), <1>1, TrackerAssumption DEF TypeOK
  <2> QED BY Zenon, <1>1, <1>3, <2>1, <2>2 DEF TypeOK
<1>5. WindowMatchesRecords' /\ PendingIsNext' /\ DownOnlyAborts'
  BY SMTT(60), <1>1, TrackerAssumption DEF WindowMatchesRecords, PendingIsNext, DownOnlyAborts
<1>6. RingInOrder'
  <2>1. \A s \in Slots : Offset(0, s) \in 0..(Window - 1)
    BY SMTT(60), <1>3, OffsetOfSlot
  <2> QED BY <1>1, <2>1 DEF RingInOrder
<1>7. OpenRecords' /\ MarkersOwnRecords'
  BY Zenon, <1>1, <1>3 DEF OpenRecords, MarkersOwnRecords
<1>8. SavedIsAccepted'
  BY SMTT(60), <1>1, <1>2 DEF SavedIsAccepted
<1>9. MarkedIsAccepted'
  BY <1>1, <1>2, <1>3 DEF MarkedIsAccepted, SavedIsAccepted
<1> QED BY SMTT(60), <1>4, <1>5, <1>6, <1>7, <1>8, <1>9

\* The invariant holds when the program starts.
LEMMA InitInv == Init => IInv
<1> SUFFICES ASSUME Init PROVE IInv
  OBVIOUS
<1>1. /\ posted = 0 /\ src = "poll" /\ pending = None /\ head = 0 /\ count = 0
      /\ ring = [s \in Slots |-> Free] /\ window = Window
      /\ waiting = [m \in Positions |-> {}] /\ flag = [m \in Positions |-> "processed"]
      /\ acker = [a \in Ackers |-> Idle] /\ down = FALSE /\ disabled = FALSE
      /\ saved = 0 /\ accepted = {} /\ restarts = 0
  BY DEF Init
<1>2. Base = 0
  BY <1>1 DEF Base
<1>3. /\ Idle \in AckerState /\ Idle.pc = "idle" /\ Free \in Record /\ ~Free.acked
      /\ "processed" \in AckTypes /\ 0 \in Slots
  BY TrackerAssumption DEF Idle, AckerState, AckTypes, Free, Record, Slots
<1>4. TypeOK
  <2>1. /\ ring \in [Slots -> Record] /\ acker \in [Ackers -> AckerState]
        /\ flag \in [Positions -> AckTypes] /\ waiting \in [Positions -> SUBSET Threads]
    BY <1>1, <1>3
  <2>2. /\ posted \in 0..Length /\ saved \in 0..Length /\ count \in 0..Window
        /\ window \in 0..Window /\ restarts \in 0..MaxRestarts /\ accepted \subseteq Positions
    BY <1>1, TrackerAssumption
  <2> QED BY Zenon, <1>1, <1>3, <2>1, <2>2 DEF TypeOK
<1>5. WindowMatchesRecords /\ PendingIsNext /\ DownOnlyAborts
  BY <1>1, TrackerAssumption DEF WindowMatchesRecords, PendingIsNext, DownOnlyAborts
<1>6. RingInOrder
  <2>1. \A s \in Slots : Offset(0, s) \in 0..(Window - 1)
    BY <1>3, OffsetOfSlot
  <2> QED BY <1>1, <2>1 DEF RingInOrder
<1>7. OpenRecords /\ MarkersOwnRecords
  BY <1>1, <1>3 DEF OpenRecords, MarkersOwnRecords
<1>8. SavedIsAccepted /\ MarkedIsAccepted
  BY SMTT(60), <1>1, <1>2, <1>3 DEF SavedIsAccepted, MarkedIsAccepted
<1> QED BY <1>4, <1>5, <1>6, <1>7, <1>8 DEF IInv

\* The steps that neither read nor acknowledge a message.
Elsewhere ==
    StartFetch \/ RequestBookmark \/ NothingFetched \/ DropDone \/ DisableBookmarkSaving \/ Shutdown

\* Those steps keep the invariant, and leave the stream as it is.
LEMMA ElsewhereStep ==
  ASSUME IInv, Elsewhere
  PROVE  IInv' /\ UNCHANGED <<posted, accepted, saved>>
<1>1. down => src = "poll"
  BY DEF IInv, DownOnlyAborts
<1>2. disabled \in BOOLEAN
  BY SMTT(60) DEF IInv, TypeOK
<1>3. UNCHANGED <<posted, ring, head, count, window, waiting, flag, acker, saved, accepted, restarts>>
  BY DEF Elsewhere, StartFetch, RequestBookmark, NothingFetched, DropDone, DisableBookmarkSaving,
         Shutdown, ringVars
<1>4. src' \in {"poll", "fetch", "more", "read"} /\ src # "count"
  BY DEF Elsewhere, StartFetch, RequestBookmark, NothingFetched, DropDone, DisableBookmarkSaving,
         Shutdown, ringVars
<1>5. pending' = pending \/ (count # Window /\ pending' = Tail)
  BY DEF Elsewhere, StartFetch, RequestBookmark, NothingFetched, DropDone, DisableBookmarkSaving,
         Shutdown, ringVars
<1>6. disabled' \in BOOLEAN
  BY <1>2 DEF Elsewhere, StartFetch, RequestBookmark, NothingFetched, DropDone,
              DisableBookmarkSaving, Shutdown
<1>7. \/ down' = down /\ (down => src' = "poll")
      \/ down' = TRUE /\ src' = "poll" /\ \A a \in Ackers : acker[a].pc = "idle"
  BY <1>1 DEF Elsewhere, StartFetch, RequestBookmark, NothingFetched, DropDone,
              DisableBookmarkSaving, Shutdown
<1> QED BY Zenon, <1>3, <1>4, <1>5, <1>6, <1>7, SourceStep

\* Every step is one of these.
LEMMA StepCases ==
  ASSUME [Next]_vars
  PROVE  \/ Elsewhere \/ CountMsg \/ Restart
         \/ \E route \in SUBSET Threads : TrackMsg(route)
         \/ \E d \in Threads, m \in Positions, type \in AckTypes : MsgAck(d, m, type)
         \/ \E a \in Ackers : MarkRecord(a)
         \/ \E a \in Ackers : Untrack(a)
         \/ UNCHANGED vars
  BY DEF Next, Read, Ack, Elsewhere

\* The invariant survives a step in which nothing changes.
LEMMA StutterStep ==
  ASSUME IInv, UNCHANGED vars
  PROVE  IInv'
<1> USE DEF IInv, vars
<1>1. TypeOK' /\ Base' = Base
  BY DEF TypeOK, Base
<1>2. WindowMatchesRecords' /\ RingInOrder' /\ PendingIsNext' /\ DownOnlyAborts'
  BY <1>1 DEF WindowMatchesRecords, RingInOrder, PendingIsNext, Tail, DownOnlyAborts
<1>3. OpenRecords'
  BY <1>1 DEF OpenRecords, Tracked, Unmarked, Marking
<1>4. MarkersOwnRecords'
  BY <1>1 DEF MarkersOwnRecords, Tracked
<1>5. MarkedIsAccepted' /\ SavedIsAccepted'
  BY <1>1 DEF MarkedIsAccepted, SavedIsAccepted
<1> QED BY <1>1, <1>2, <1>3, <1>4, <1>5

\* Every step keeps the invariant.
LEMMA NextInv == IInv /\ [Next]_vars => IInv'
<1> SUFFICES ASSUME IInv, [Next]_vars PROVE IInv'
  OBVIOUS
<1>1. CASE Elsewhere
  BY <1>1, ElsewhereStep
<1>2. CASE CountMsg
  BY <1>2, CountMsgStep
<1>3. CASE Restart
  BY <1>3, RestartStep
<1>4. CASE \E route \in SUBSET Threads : TrackMsg(route)
  BY <1>4, TrackMsgStep
<1>5. CASE \E d \in Threads, m \in Positions, type \in AckTypes : MsgAck(d, m, type)
  BY <1>5, MsgAckStep
<1>6. CASE \E a \in Ackers : MarkRecord(a)
  BY <1>6, MarkRecordStep
<1>7. CASE \E a \in Ackers : Untrack(a)
  BY <1>7, UntrackStep
<1>8. CASE UNCHANGED vars
  BY <1>8, StutterStep
<1> QED BY <1>1, <1>2, <1>3, <1>4, <1>5, <1>6, <1>7, <1>8, StepCases

\* The invariant holds in every behaviour.
LEMMA InvariantHolds == Spec => []IInv
  BY InitInv, NextInv, PTL DEF Spec

----------------------------------------------------------------------------
(* The theorems.                                                           *)

\* An acknowledgement marks the record of its own message, never the record
\* of the message that reuses the slot, and unused slots are unmarked.
THEOREM RecordsAreNotMixedUp == Spec => []RecordsNotMixedUp
<1>1. IInv => RecordsNotMixedUp
  <2> SUFFICES ASSUME IInv PROVE RecordsNotMixedUp
    OBVIOUS
  <2>1. ASSUME NEW s \in Slots, ring[s].pos = 0
        PROVE  ~ring[s].acked
    BY <2>1, UnusedIsFree DEF IInv, Free
  <2> QED BY <2>1 DEF IInv, RecordsNotMixedUp, MarkersOwnRecords
<1> QED BY <1>1, InvariantHolds, PTL

\* Records and free window slots add up to the window at any time, whatever is
\* acknowledged in whatever order.
THEOREM WindowIsConserved == Spec => []WindowMatchesRecords
<1>1. IInv => WindowMatchesRecords
  BY DEF IInv
<1> QED BY <1>1, InvariantHolds, PTL

\* The tracker implements AckedStream: the stored position only moves forward,
\* over messages that every destination has accepted, and a restarted source
\* reads on from it.
THEOREM BookmarkIsKept == Spec => BookmarkPromise
<1>1. Init => Stream!Init
  BY DEF Init, Stream!Init
<1>2. IInv /\ [Next]_vars => [Stream!Next]_(Stream!vars)
  <2> SUFFICES ASSUME IInv, [Next]_vars PROVE [Stream!Next]_(Stream!vars)
    OBVIOUS
  <2> USE DEF Stream!Next, Stream!vars
  <2>1. CASE Elsewhere
    BY <2>1, ElsewhereStep
  <2>2. CASE CountMsg
    <3>1. posted \in 1..posted
      BY <2>2, TrackerAssumption
         DEF IInv, OpenRecords, Tracked, CountMsg, Base, TypeOK, SavedIsAccepted
    <3> QED BY <2>2, <3>1 DEF CountMsg, Stream!Accept
  <2>3. CASE Restart
    BY <2>3 DEF Restart, Stream!Restart
  <2>4. ASSUME NEW route \in SUBSET Threads, TrackMsg(route)
        PROVE  Stream!Post
    BY <2>4 DEF TrackMsg, Stream!Post
  <2>5. ASSUME NEW d \in Threads, NEW m \in Positions, NEW type \in AckTypes, MsgAck(d, m, type)
        PROVE  Stream!Accept \/ UNCHANGED Stream!vars
    <3>1. m \in 1..posted
      BY <2>5 DEF MsgAck, Delivered, Positions, IInv, TypeOK
    <3> QED BY <2>5, <3>1 DEF MsgAck, Stream!Accept
  <2>6. CASE \E a \in Ackers : MarkRecord(a)
    BY <2>6 DEF MarkRecord
  <2>7. ASSUME NEW a \in Ackers, Untrack(a)
        PROVE  Stream!Save \/ UNCHANGED Stream!vars
    <3>1. UNCHANGED <<posted, accepted>>
      BY <2>7 DEF Untrack
    <3>2. saved' = saved \/ (saved' \in saved..posted /\ 1..saved' \subseteq accepted)
      BY <2>7, UntrackStep
    <3> QED BY <3>1, <3>2 DEF Stream!Save
  <2>8. CASE UNCHANGED vars
    BY <2>8 DEF vars
  <2> QED BY <2>1, <2>2, <2>3, <2>4, <2>5, <2>6, <2>7, <2>8, StepCases
<1> QED BY <1>1, <1>2, InvariantHolds, PTL DEF Spec, BookmarkPromise, Stream!Spec
=============================================================================
