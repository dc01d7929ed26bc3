------------------------ MODULE LogQueueFifoPlaces ------------------------
(***************************************************************************)
(* Proofs about what the memory queue does with the messages themselves:   *)
(* none is lost or doubled, and only rewind_backlog_all() changes the      *)
(* order of a thread's messages.                                           *)
(***************************************************************************)
EXTENDS LogQueueFifoProofs

----------------------------------------------------------------------------
(* Messages and where they are.                                            *)

In(s) == {s[i] : i \in DOMAIN s}
NoRepeat(s) == \A i, j \in DOMAIN s : s[i] = s[j] => i = j

\* The messages of thread t in the list come in the order of their numbers.
Rising(s, t) ==
    \A i, j \in DOMAIN s : i < j /\ s[i].from = t /\ s[j].from = t => s[i].seq < s[j].seq

SameKey(m, n) == m.from = n.from /\ m.seq = n.seq

\* The lists a message goes through once it has left the input list, and the
\* input lists, without their counters.
Path == acked \o backlog.items \o output.items \o wait.items
Pending == [t \in InputThreads |-> input[t].items]

PendingOf(inp, t) == IF t \in InputThreads THEN In(inp[t]) ELSE {}

\* Every message 1..snt[t] of a thread is in one place of the path x, on the
\* thread's input list inp[t] or among those gone; the input list holds the
\* youngest ones, in order.
Placed(x, inp, gone, snt) ==
    /\ x \in Seq(Message) /\ inp \in [InputThreads -> Seq(Message)]
    /\ gone \in SUBSET Message /\ snt \in [Threads -> Nat]
    /\ NoRepeat(x) /\ In(x) \cap gone = {}
    /\ \A m, n \in In(x) \cup gone : SameKey(m, n) => m = n
    /\ \A m \in In(x) \cup gone : m.seq \in 1..snt[m.from]
    /\ \A t \in InputThreads : \A m \in In(inp[t]) :
          /\ m.from = t /\ m.seq \in 1..snt[t]
          /\ \A n \in In(x) \cup gone : n.from = t => n.seq < m.seq
    /\ \A t \in InputThreads : Rising(inp[t], t)
    /\ \A t \in Threads : \A k \in 1..snt[t] :
          \E m \in (In(x) \cup gone) \cup PendingOf(inp, t) : m.from = t /\ m.seq = k
    /\ \A m \in gone : ~m.fc

\* A message added to the end of a list.
LEMMA AddedLast ==
  \A s \in Seq(Message), m \in Message : Append(s, m) = s \o <<m>> /\ <<m>> \in Seq(Message)
OBVIOUS

\* What a spliced list holds, and in which order.
LEMMA InConcat ==
  ASSUME NEW s \in Seq(Message), NEW r \in Seq(Message)
  PROVE  /\ In(s \o r) = In(s) \cup In(r)
         /\ NoRepeat(s \o r) <=> NoRepeat(s) /\ NoRepeat(r) /\ In(s) \cap In(r) = {}
         /\ \A t : Rising(s \o r, t) <=>
               /\ Rising(s, t) /\ Rising(r, t)
               /\ \A m \in In(s), n \in In(r) : m.from = t /\ n.from = t => m.seq < n.seq
<1> DEFINE c == s \o r
           l == Len(s)
<1>1. /\ DOMAIN s = 1..l /\ DOMAIN r = 1..Len(r) /\ l \in Nat /\ Len(r) \in Nat
      /\ DOMAIN c = 1..(l + Len(r))
  OBVIOUS
<1>2. \A i \in DOMAIN s : i \in DOMAIN c /\ c[i] = s[i] /\ i <= l
  OBVIOUS
<1>3. \A i \in DOMAIN r : i + l \in DOMAIN c /\ c[i + l] = r[i] /\ i + l > l
  OBVIOUS
<1> HIDE DEF c, l
<1>4. ASSUME NEW k \in DOMAIN c
      PROVE  \/ k \in DOMAIN s /\ c[k] = s[k]
             \/ \E i \in DOMAIN r : k = i + l /\ c[k] = r[i]
  <2>1. CASE k <= l
    <3>1. k \in DOMAIN s
      BY <1>1, <2>1
    <3> QED BY <1>2, <3>1
  <2>2. CASE k > l
    <3>1. k - l \in DOMAIN r /\ k = (k - l) + l
      BY <1>1, <2>2
    <3> QED BY <1>3, <3>1
  <2>3. k <= l \/ k > l
    BY <1>1
  <2> QED BY <2>1, <2>2, <2>3
<1>5. In(c) = In(s) \cup In(r)
  <2>1. \A m \in In(c) : m \in In(s) \cup In(r)
    BY <1>4 DEF In
  <2>2. \A m \in In(s) : m \in In(c)
    BY <1>2 DEF In
  <2>3. \A m \in In(r) : m \in In(c)
    BY <1>3 DEF In
  <2> QED BY <2>1, <2>2, <2>3
<1>6. ASSUME NoRepeat(c)
      PROVE  NoRepeat(s) /\ NoRepeat(r) /\ In(s) \cap In(r) = {}
  <2>1. NoRepeat(s)
    BY <1>2, <1>6 DEF NoRepeat
  <2>2. NoRepeat(r)
    <3> SUFFICES ASSUME NEW i \in DOMAIN r, NEW j \in DOMAIN r, r[i] = r[j] PROVE i = j
      BY DEF NoRepeat
    <3>1. i + l = j + l
      BY <1>3, <1>6 DEF NoRepeat
    <3> QED BY <1>1, <3>1
  <2>3. ASSUME NEW i \in DOMAIN s, NEW j \in DOMAIN r PROVE s[i] # r[j]
    <3>1. c[i] = s[i] /\ c[j + l] = r[j] /\ i \in DOMAIN c /\ j + l \in DOMAIN c
      BY <1>2, <1>3
    <3>2. i # j + l
      <4>1. i <= l /\ j + l > l
        BY <1>2, <1>3
      <4> QED BY <1>1, <4>1
    <3> QED BY <1>6, <3>1, <3>2 DEF NoRepeat
  <2>4. In(s) \cap In(r) = {}
    BY <2>3 DEF In
  <2> QED BY <2>1, <2>2, <2>4
<1>7. ASSUME NoRepeat(s), NoRepeat(r), In(s) \cap In(r) = {}
      PROVE  NoRepeat(c)
  <2> SUFFICES ASSUME NEW i \in DOMAIN c, NEW j \in DOMAIN c, c[i] = c[j] PROVE i = j
    BY DEF NoRepeat
  <2>1. \A a \in DOMAIN s, b \in DOMAIN r : s[a] # r[b]
    BY <1>7 DEF In
  <2>2. CASE i \in DOMAIN s /\ c[i] = s[i]
    <3>1. j \in DOMAIN s /\ c[j] = s[j]
      BY <1>4, <2>1, <2>2
    <3> QED BY <1>7, <2>2, <3>1 DEF NoRepeat
  <2>3. ASSUME NEW a \in DOMAIN r, i = a + l, c[i] = r[a] PROVE i = j
    <3>1. PICK b \in DOMAIN r : j = b + l /\ c[j] = r[b]
      BY <1>4, <2>1, <2>3
    <3>2. a = b
      BY <1>7, <2>3, <3>1 DEF NoRepeat
    <3> QED BY <2>3, <3>1, <3>2
  <2> QED BY <1>4, <2>2, <2>3
<1>8. ASSUME NEW t, Rising(c, t)
      PROVE  /\ Rising(s, t) /\ Rising(r, t)
             /\ \A m \in In(s), n \in In(r) : m.from = t /\ n.from = t => m.seq < n.seq
  <2>1. Rising(s, t)
    BY <1>2, <1>8 DEF Rising
  <2>2. Rising(r, t)
    <3> SUFFICES ASSUME NEW i \in DOMAIN r, NEW j \in DOMAIN r, i < j, r[i].from = t, r[j].from = t
                 PROVE  r[i].seq < r[j].seq
      BY DEF Rising
    <3>1. i + l < j + l
      BY <1>1
    <3>2. c[i + l] = r[i] /\ c[j + l] = r[j] /\ i + l \in DOMAIN c /\ j + l \in DOMAIN c
      BY <1>3
    <3> QED BY <1>8, <3>1, <3>2 DEF Rising
  <2>3. ASSUME NEW i \in DOMAIN s, NEW j \in DOMAIN r, s[i].from = t, r[j].from = t
        PROVE  s[i].seq < r[j].seq
    <3>1. c[i] = s[i] /\ c[j + l] = r[j] /\ i \in DOMAIN c /\ j + l \in DOMAIN c
      BY <1>2, <1>3
    <3>2. i < j + l
      <4>1. i <= l /\ j + l > l
        BY <1>2, <1>3
      <4> QED BY <1>1, <4>1
    <3> QED BY <1>8, <2>3, <3>1, <3>2 DEF Rising
  <2>4. \A m \in In(s), n \in In(r) : m.from = t /\ n.from = t => m.seq < n.seq
    BY <2>3 DEF In
  <2> QED BY <2>1, <2>2, <2>4
<1>9. ASSUME NEW t, Rising(s, t), Rising(r, t),
             \A m \in In(s), n \in In(r) : m.from = t /\ n.from = t => m.seq < n.seq
      PROVE  Rising(c, t)
  <2> SUFFICES ASSUME NEW i \in DOMAIN c, NEW j \in DOMAIN c, i < j, c[i].from = t, c[j].from = t
               PROVE  c[i].seq < c[j].seq
    BY DEF Rising
  <2>1. CASE i \in DOMAIN s /\ c[i] = s[i] /\ j \in DOMAIN s /\ c[j] = s[j]
    BY <1>9, <2>1 DEF Rising
  <2>2. ASSUME NEW b \in DOMAIN r, j = b + l, c[j] = r[b], i \in DOMAIN s, c[i] = s[i]
        PROVE  c[i].seq < c[j].seq
    <3>1. c[i] \in In(s) /\ c[j] \in In(r)
      BY <2>2 DEF In
    <3> QED BY <1>9, <3>1
  <2>3. ASSUME NEW a \in DOMAIN r, i = a + l, c[i] = r[a], j \in DOMAIN s
        PROVE  FALSE
    <3>1. j <= l /\ a + l > l
      BY <1>2, <1>3, <2>3
    <3> QED BY <1>1, <2>3, <3>1
  <2>4. ASSUME NEW a \in DOMAIN r, i = a + l, c[i] = r[a],
               NEW b \in DOMAIN r, j = b + l, c[j] = r[b]
        PROVE  c[i].seq < c[j].seq
    <3>1. a < b
      BY <1>1, <2>4
    <3>2. r[a].from = t /\ r[b].from = t
      BY <2>4
    <3>3. r[a].seq < r[b].seq
      BY <1>9, <3>1, <3>2 DEF Rising
    <3> QED BY <2>4, <3>3
  <2> QED BY <1>4, <2>1, <2>2, <2>3, <2>4
<1> QED BY <1>5, <1>6, <1>7, <1>8, <1>9 DEF c

\* A list of one message, and of none.
LEMMA InOne ==
  ASSUME NEW m \in Message
  PROVE  /\ <<m>> \in Seq(Message) /\ In(<<m>>) = {m} /\ NoRepeat(<<m>>)
         /\ \A t : Rising(<<m>>, t)
         /\ <<>> \in Seq(Message) /\ In(<<>>) = {} /\ NoRepeat(<<>>) /\ \A t : Rising(<<>>, t)
<1>1. <<m>> \in Seq(Message) /\ DOMAIN <<m>> = {1} /\ <<m>>[1] = m
  OBVIOUS
<1>2. <<>> \in Seq(Message) /\ DOMAIN <<>> = {}
  OBVIOUS
<1>3. ~(1 < 1)
  OBVIOUS
<1> DEFINE a == <<m>>
           e == <<>>
<1>4. DOMAIN a = {1} /\ a[1] = m /\ DOMAIN e = {}
  BY <1>1, <1>2
<1> HIDE DEF a, e
<1>5. In(a) = {m} /\ NoRepeat(a) /\ \A t : Rising(a, t)
  BY <1>3, <1>4, Zenon DEF In, NoRepeat, Rising
<1>6. In(e) = {} /\ NoRepeat(e) /\ \A t : Rising(e, t)
  BY <1>4 DEF In, NoRepeat, Rising
<1> QED BY <1>1, <1>2, <1>5, <1>6 DEF a, e

\* Splicing is associative.
Then(a, b) == a \o b
LEMMA Assoc ==
  ASSUME NEW a \in Seq(Message), NEW b \in Seq(Message), NEW c \in Seq(Message)
  PROVE  Then(a, b) \in Seq(Message) /\ Then(Then(a, b), c) = Then(a, Then(b, c))
  BY DEF Then

\* The next message of a thread is a new one.
IsNext(t, m, snt) == m \in Message /\ m.from = t /\ m.seq = snt[t] + 1
Advanced(t, snt, snt2) == snt2 = [snt EXCEPT ![t] = @ + 1]

IsNew(x, inp, gone, t, m, snt, snt2) ==
    /\ snt2 \in [Threads -> Nat] /\ m.seq \in 1..snt2[t] /\ m.seq \in Nat
    /\ \A u \in Threads, k \in Nat : k \in 1..snt[u] => k \in 1..snt2[u]
    /\ \A u \in Threads : \A k \in 1..snt2[u] : k \in 1..snt[u] \/ (u = t /\ k = m.seq)
    /\ \A n \in In(x) \cup gone : n.seq \in Nat /\ n.from \in Threads
    /\ \A n \in In(x) \cup gone : n.from = t => n.seq < m.seq
    /\ \A n \in PendingOf(inp, t) : n.seq \in Nat /\ n.seq < m.seq /\ n.from = t

\* A new message is none of those the queue has seen, and makes the count of
\* its thread complete.
LEMMA NextIsNew ==
  ASSUME NEW x, NEW inp, NEW gone, NEW snt, Placed(x, inp, gone, snt),
         NEW t \in Threads, NEW m, IsNext(t, m, snt), NEW snt2, Advanced(t, snt, snt2)
  PROVE  IsNew(x, inp, gone, t, m, snt, snt2)
<1>1. snt \in [Threads -> Nat] /\ m.seq = snt[t] + 1 /\ snt[t] \in Nat
  BY DEF Placed, IsNext
<1>2. /\ snt2 \in [Threads -> Nat] /\ snt2[t] = snt[t] + 1
      /\ \A u \in Threads : u # t => snt2[u] = snt[u]
  BY <1>1 DEF Advanced
<1>3. m.seq \in 1..snt2[t] /\ m.seq \in Nat
  BY <1>1, <1>2
<1>4. \A u \in Threads, k \in Nat : k \in 1..snt[u] => k \in 1..snt2[u]
  <2> SUFFICES ASSUME NEW u \in Threads, NEW k \in Nat, k \in 1..snt[u] PROVE k \in 1..snt2[u]
    OBVIOUS
  <2>1. CASE u = t
    BY <1>1, <1>2, <2>1
  <2>2. CASE u # t
    BY <1>2, <2>2
  <2> QED BY <2>1, <2>2
<1>5. \A u \in Threads : \A k \in 1..snt2[u] : k \in 1..snt[u] \/ (u = t /\ k = m.seq)
  <2> SUFFICES ASSUME NEW u \in Threads, NEW k \in 1..snt2[u]
               PROVE  k \in 1..snt[u] \/ (u = t /\ k = m.seq)
    OBVIOUS
  <2>1. CASE u = t
    BY <1>1, <1>2, <2>1
  <2>2. CASE u # t
    BY <1>2, <2>2
  <2> QED BY <2>1, <2>2
<1>6. \A n \in In(x) \cup gone : n \in Message
  <2>1. x \in Seq(Message) /\ gone \subseteq Message
    BY DEF Placed
  <2>2. In(x) \subseteq Message
    BY <2>1 DEF In
  <2> QED BY <2>1, <2>2
<1>7. \A n \in Message : n.seq \in Nat /\ n.from \in Threads
  BY DEF Message
<1>8. \A n \in In(x) \cup gone : n.from = t => n.seq < m.seq
  <2> SUFFICES ASSUME NEW n \in In(x) \cup gone, n.from = t PROVE n.seq < m.seq
    OBVIOUS
  <2>1. n.seq \in 1..snt[t]
    BY DEF Placed
  <2> QED BY <1>1, <2>1
<1>9. \A n \in PendingOf(inp, t) : n.seq \in Nat /\ n.seq < m.seq /\ n.from = t
  <2> SUFFICES ASSUME NEW n \in PendingOf(inp, t)
               PROVE  n.seq \in Nat /\ n.seq < m.seq /\ n.from = t
    OBVIOUS
  <2>1. t \in InputThreads /\ n \in In(inp[t])
    BY DEF PendingOf
  <2>2. n.from = t /\ n.seq \in 1..snt[t]
    BY <2>1 DEF Placed
  <2> QED BY <1>1, <2>2
<1>10. \A n \in In(x) \cup gone : n.seq \in Nat /\ n.from \in Threads
  BY <1>6, <1>7
<1> QED BY <1>2, <1>3, <1>4, <1>5, <1>8, <1>9, <1>10, Zenon DEF IsNew

\* A thread with an input list puts a message at its end.
LEMMA PlacePush ==
  ASSUME NEW x, NEW inp, NEW gone, NEW snt, Placed(x, inp, gone, snt),
         NEW t \in InputThreads, NEW m, IsNext(t, m, snt), NEW snt2, Advanced(t, snt, snt2),
         NEW inp2, inp2 = [inp EXCEPT ![t] = inp[t] \o <<m>>]
  PROVE  Placed(x, inp2, gone, snt2)
<1> DEFINE out == In(x) \cup gone
<1>0. t \in Threads /\ m \in Message /\ m.from = t
  BY DEF Threads, IsNext
<1>1. /\ snt2 \in [Threads -> Nat] /\ m.seq \in 1..snt2[t] /\ m.seq \in Nat
      /\ \A u \in Threads, k \in Nat : k \in 1..snt[u] => k \in 1..snt2[u]
      /\ \A u \in Threads : \A k \in 1..snt2[u] : k \in 1..snt[u] \/ (u = t /\ k = m.seq)
      /\ \A n \in out : n.seq \in Nat /\ n.from \in Threads
      /\ \A n \in out : n.from = t => n.seq < m.seq
      /\ \A n \in PendingOf(inp, t) : n.seq \in Nat /\ n.seq < m.seq /\ n.from = t
  <2>1. IsNew(x, inp, gone, t, m, snt, snt2)
    BY <1>0, NextIsNew, Zenon
  <2> QED BY <2>1, Zenon DEF IsNew
<1>2. /\ x \in Seq(Message) /\ inp \in [InputThreads -> Seq(Message)] /\ gone \in SUBSET Message
      /\ NoRepeat(x) /\ In(x) \cap gone = {} /\ \A n \in gone : ~n.fc
      /\ \A n, o \in out : SameKey(n, o) => n = o
      /\ \A n \in out : n.seq \in 1..snt[n.from]
  BY Zenon DEF Placed
<1>3. /\ \A u \in InputThreads : \A n \in In(inp[u]) :
            /\ n.from = u /\ n.seq \in 1..snt[u]
            /\ \A o \in out : o.from = u => o.seq < n.seq
      /\ \A u \in InputThreads : Rising(inp[u], u)
      /\ \A u \in Threads : \A k \in 1..snt[u] :
            \E n \in out \cup PendingOf(inp, u) : n.from = u /\ n.seq = k
  BY Zenon DEF Placed
<1>4. inp[t] \in Seq(Message) /\ <<m>> \in Seq(Message) /\ inp[t] \o <<m>> \in Seq(Message)
  BY <1>0, <1>2, InOne, Concat
<1>5. /\ inp2 \in [InputThreads -> Seq(Message)] /\ inp2[t] = inp[t] \o <<m>>
      /\ \A u \in InputThreads : u # t => inp2[u] = inp[u]
  BY <1>2, <1>4
<1>6. In(inp2[t]) = In(inp[t]) \cup {m}
  <2>1. In(inp[t] \o <<m>>) = In(inp[t]) \cup In(<<m>>) /\ In(<<m>>) = {m}
    BY <1>0, <1>4, InConcat, InOne, Zenon
  <2> QED BY <1>5, <2>1, Zenon
<1> HIDE DEF out
<1>7. \A n \in out : n.seq \in 1..snt2[n.from]
  BY <1>1, <1>2
<1>8. \A u \in InputThreads : \A n \in In(inp2[u]) :
         /\ n.from = u /\ n.seq \in 1..snt2[u]
         /\ \A o \in out : o.from = u => o.seq < n.seq
  <2> SUFFICES ASSUME NEW u \in InputThreads, NEW n \in In(inp2[u])
               PROVE  /\ n.from = u /\ n.seq \in 1..snt2[u]
                      /\ \A o \in out : o.from = u => o.seq < n.seq
    OBVIOUS
  <2>1. CASE n \in In(inp[u])
    <3>1. n.from = u /\ n.seq \in 1..snt[u] /\ \A o \in out : o.from = u => o.seq < n.seq
      BY <1>3, <2>1, Zenon
    <3>2. n.seq \in Nat /\ u \in Threads
      BY <1>2, <3>1 DEF Threads
    <3> QED BY <1>1, <3>1, <3>2, Zenon
  <2>2. CASE u = t /\ n = m
    BY <1>0, <1>1, <2>2, Zenon
  <2> QED BY <1>5, <1>6, <2>1, <2>2
<1>9. \A u \in InputThreads : Rising(inp2[u], u)
  <2> SUFFICES ASSUME NEW u \in InputThreads PROVE Rising(inp2[u], u)
    OBVIOUS
  <2>1. CASE u # t
    BY <1>3, <1>5, <2>1, Zenon
  <2>2. CASE u = t
    <3>1. \A n \in In(inp[t]) : n.seq < m.seq
      BY <1>1, Zenon DEF PendingOf
    <3>2. Rising(inp[t], t) /\ Rising(<<m>>, t) /\ In(<<m>>) = {m}
      BY <1>0, <1>3, InOne, Zenon
    <3>3. \A n \in In(inp[t]), o \in In(<<m>>) : n.from = t /\ o.from = t => n.seq < o.seq
      BY <3>1, <3>2
    <3>4. Rising(inp[t] \o <<m>>, t)
      BY <1>4, <3>2, <3>3, InConcat, Zenon
    <3> QED BY <1>5, <2>2, <3>4, Zenon
  <2> QED BY <2>1, <2>2
<1>10. \A u \in Threads : \A k \in 1..snt2[u] :
          \E n \in out \cup PendingOf(inp2, u) : n.from = u /\ n.seq = k
  <2> SUFFICES ASSUME NEW u \in Threads, NEW k \in 1..snt2[u]
               PROVE  \E n \in out \cup PendingOf(inp2, u) : n.from = u /\ n.seq = k
    OBVIOUS
  <2>1. PendingOf(inp, u) \subseteq PendingOf(inp2, u) /\ m \in PendingOf(inp2, t)
    <3>1. CASE u = t
      BY <1>6, <3>1 DEF PendingOf
    <3>2. CASE u # t
      BY <1>5, <1>6, <3>2 DEF PendingOf
    <3> QED BY <3>1, <3>2
  <2>2. CASE k \in 1..snt[u]
    <3>1. PICK n \in out \cup PendingOf(inp, u) : n.from = u /\ n.seq = k
      BY <1>3, <2>2, Zenon
    <3> QED BY <2>1, <3>1
  <2>3. CASE u = t /\ k = m.seq
    BY <1>0, <2>1, <2>3
  <2> QED BY <1>1, <2>2, <2>3
<1> QED BY <1>1, <1>2, <1>5, <1>7, <1>8, <1>9, <1>10, Zenon DEF Placed, out

\* A thread without one appends a message to the path, or drops it.
LEMMA PlaceSettle ==
  ASSUME NEW x, NEW inp, NEW gone, NEW snt, Placed(x, inp, gone, snt),
         NEW t \in SlowThreads, NEW m, IsNext(t, m, snt), NEW snt2, Advanced(t, snt, snt2),
         NEW x2, NEW gone2, \/ x2 = x \o <<m>> /\ gone2 = gone
                            \/ x2 = x /\ gone2 = gone \cup {m} /\ ~m.fc
  PROVE  Placed(x2, inp, gone2, snt2)
<1> DEFINE out == In(x) \cup gone
           out2 == In(x2) \cup gone2
<1>0. t \in Threads /\ m \in Message /\ m.from = t /\ t \notin InputThreads
  BY FifoAssumption DEF Threads, IsNext
<1>1. /\ snt2 \in [Threads -> Nat] /\ m.seq \in 1..snt2[t] /\ m.seq \in Nat
      /\ \A u \in Threads, k \in Nat : k \in 1..snt[u] => k \in 1..snt2[u]
      /\ \A u \in Threads : \A k \in 1..snt2[u] : k \in 1..snt[u] \/ (u = t /\ k = m.seq)
      /\ \A n \in out : n.seq \in Nat /\ n.from \in Threads
      /\ \A n \in out : n.from = t => n.seq < m.seq
  <2>1. IsNew(x, inp, gone, t, m, snt, snt2)
    BY <1>0, NextIsNew, Zenon
  <2> QED BY <2>1, Zenon DEF IsNew
<1>2. /\ x \in Seq(Message) /\ inp \in [InputThreads -> Seq(Message)] /\ gone \in SUBSET Message
      /\ NoRepeat(x) /\ In(x) \cap gone = {} /\ \A n \in gone : ~n.fc
      /\ \A n, o \in out : SameKey(n, o) => n = o
      /\ \A n \in out : n.seq \in 1..snt[n.from]
      /\ \A u \in InputThreads : Rising(inp[u], u)
  BY Zenon DEF Placed
<1>3. /\ \A u \in InputThreads : \A n \in In(inp[u]) :
            /\ n.from = u /\ n.seq \in 1..snt[u]
            /\ \A o \in out : o.from = u => o.seq < n.seq
      /\ \A u \in Threads : \A k \in 1..snt[u] :
            \E n \in out \cup PendingOf(inp, u) : n.from = u /\ n.seq = k
  BY Zenon DEF Placed
<1>4. \A n \in out : ~SameKey(n, m)
  BY <1>0, <1>1 DEF SameKey
<1>5. m \notin out
  BY <1>4 DEF SameKey
<1>6. /\ x2 \in Seq(Message) /\ gone2 \in SUBSET Message /\ NoRepeat(x2) /\ In(x2) \cap gone2 = {}
      /\ \A n \in gone2 : ~n.fc
      /\ out2 = out \cup {m}
  <2>1. CASE x2 = x \o <<m>> /\ gone2 = gone
    <3>1. /\ <<m>> \in Seq(Message) /\ In(<<m>>) = {m} /\ NoRepeat(<<m>>)
      BY <1>0, InOne, Zenon
    <3>2. In(x) \cap In(<<m>>) = {}
      BY <1>5, <3>1
    <3>3. In(x2) = In(x) \cup {m} /\ NoRepeat(x2) /\ x2 \in Seq(Message)
      BY <1>2, <2>1, <3>1, <3>2, InConcat, Concat, Zenon
    <3> QED BY <1>2, <1>5, <2>1, <3>3
  <2>2. CASE x2 = x /\ gone2 = gone \cup {m} /\ ~m.fc
    BY <1>0, <1>2, <1>5, <2>2
  <2> QED BY <2>1, <2>2
<1> HIDE DEF out, out2
<1>7. \A n, o \in out2 : SameKey(n, o) => n = o
  <2>1. \A n \in out : ~SameKey(m, n)
    BY <1>4 DEF SameKey
  <2> QED BY <1>2, <1>4, <1>6, <2>1
<1>8. \A n \in out2 : n.seq \in 1..snt2[n.from]
  <2>1. \A n \in out : n.seq \in 1..snt2[n.from]
    BY <1>1, <1>2
  <2> QED BY <1>0, <1>1, <1>6, <2>1
<1>9. \A u \in InputThreads : \A n \in In(inp[u]) :
         /\ n.from = u /\ n.seq \in 1..snt2[u]
         /\ \A o \in out2 : o.from = u => o.seq < n.seq
  <2> SUFFICES ASSUME NEW u \in InputThreads, NEW n \in In(inp[u])
               PROVE  /\ n.from = u /\ n.seq \in 1..snt2[u]
                      /\ \A o \in out2 : o.from = u => o.seq < n.seq
    OBVIOUS
  <2>1. n.from = u /\ n.seq \in 1..snt[u] /\ \A o \in out : o.from = u => o.seq < n.seq
    BY <1>3, Zenon
  <2>2. n.seq \in Nat /\ u \in Threads /\ u # t
    BY <1>0, <2>1 DEF Threads
  <2>3. n.seq \in 1..snt2[u]
    BY <1>1, <2>1, <2>2, Zenon
  <2>4. \A o \in out2 : o.from = u => o.seq < n.seq
    BY <1>0, <1>6, <2>1, <2>2
  <2> QED BY <2>1, <2>3, <2>4
<1>10. \A u \in Threads : \A k \in 1..snt2[u] :
          \E n \in out2 \cup PendingOf(inp, u) : n.from = u /\ n.seq = k
  <2> SUFFICES ASSUME NEW u \in Threads, NEW k \in 1..snt2[u]
               PROVE  \E n \in out2 \cup PendingOf(inp, u) : n.from = u /\ n.seq = k
    OBVIOUS
  <2>1. CASE k \in 1..snt[u]
    <3>1. PICK n \in out \cup PendingOf(inp, u) : n.from = u /\ n.seq = k
      BY <1>3, <2>1, Zenon
    <3>2. n \in out2 \cup PendingOf(inp, u)
      BY <1>6, Zenon
    <3> QED BY <3>1, <3>2, Zenon
  <2>2. CASE u = t /\ k = m.seq
    <3>1. m \in out2
      BY <1>6, Zenon
    <3> QED BY <1>0, <2>2, <3>1, Zenon
  <2> QED BY <1>1, <2>1, <2>2
<1> QED BY <1>1, <1>2, <1>6, <1>7, <1>8, <1>9, <1>10, Zenon DEF Placed, out2

\* A list is split into what is kept and what is dropped.
IsSplit(s, kept, D) ==
    /\ kept \in Seq(Message) /\ NoRepeat(kept)
    /\ In(kept) \cup D = In(s) /\ In(kept) \cap D = {}
    /\ \A m \in D : ~m.fc

\* A thread's input list is moved to the path, less what is dropped.
LEMMA PlaceMove ==
  ASSUME NEW x, NEW inp, NEW gone, NEW snt, Placed(x, inp, gone, snt),
         NEW t \in InputThreads, NEW kept, NEW D, IsSplit(inp[t], kept, D),
         NEW inp2, inp2 = [inp EXCEPT ![t] = <<>>]
  PROVE  Placed(x \o kept, inp2, gone \cup D, snt)
<1> DEFINE out == In(x) \cup gone
           P == In(inp[t])
<1>1. /\ x \in Seq(Message) /\ inp \in [InputThreads -> Seq(Message)] /\ gone \in SUBSET Message
      /\ snt \in [Threads -> Nat]
      /\ NoRepeat(x) /\ In(x) \cap gone = {} /\ \A n \in gone : ~n.fc
      /\ \A n, o \in out : SameKey(n, o) => n = o
      /\ \A n \in out : n.seq \in 1..snt[n.from]
      /\ \A u \in InputThreads : Rising(inp[u], u)
  BY Zenon DEF Placed
<1>2. /\ \A u \in InputThreads : \A n \in In(inp[u]) :
            /\ n.from = u /\ n.seq \in 1..snt[u]
            /\ \A o \in out : o.from = u => o.seq < n.seq
      /\ \A u \in Threads : \A k \in 1..snt[u] :
            \E n \in out \cup PendingOf(inp, u) : n.from = u /\ n.seq = k
  BY Zenon DEF Placed
<1>3. /\ kept \in Seq(Message) /\ NoRepeat(kept) /\ In(kept) \cup D = P /\ In(kept) \cap D = {}
      /\ \A m \in D : ~m.fc
  BY Zenon DEF IsSplit
<1>4. P \subseteq Message /\ \A n \in Message : n.seq \in Nat
  <2>1. inp[t] \in Seq(Message)
    BY <1>1
  <2>2. P \subseteq Message
    BY <2>1 DEF In
  <2>3. \A n \in Message : n.seq \in Nat
    BY DEF Message
  <2> QED BY <2>2, <2>3
<1>5. <<>> \in Seq(Message) /\ In(<<>>) = {} /\ \A u : Rising(<<>>, u)
  <2>1. DOMAIN <<>> = {} /\ <<>> \in Seq(Message)
    OBVIOUS
  <2> DEFINE e == <<>>
  <2>2. DOMAIN e = {}
    BY <2>1
  <2> HIDE DEF e
  <2>3. In(e) = {} /\ \A u : Rising(e, u)
    BY <2>2 DEF In, Rising
  <2> QED BY <2>1, <2>3 DEF e
<1>6. /\ inp2 \in [InputThreads -> Seq(Message)] /\ inp2[t] = <<>>
      /\ \A u \in InputThreads : u # t => inp2[u] = inp[u]
  BY <1>1, <1>5
<1>7. \A n \in P : n.from = t /\ n.seq \in 1..snt[t] /\ \A o \in out : o.from = t => o.seq < n.seq
  BY <1>2, Zenon
<1>8. \A n \in P, o \in out : ~SameKey(n, o) /\ ~SameKey(o, n) /\ n # o
  <2> SUFFICES ASSUME NEW n \in P, NEW o \in out, n.from = o.from /\ n.seq = o.seq
               PROVE  FALSE
    BY DEF SameKey
  <2>1. o.seq < n.seq /\ n.seq \in Nat
    BY <1>4, <1>7
  <2> QED BY <2>1
<1>9. \A n, o \in P : SameKey(n, o) => n = o
  <2> SUFFICES ASSUME NEW i \in DOMAIN inp[t], NEW j \in DOMAIN inp[t], i < j,
                      SameKey(inp[t][i], inp[t][j])
               PROVE  FALSE
    <3>1. \A i, j \in DOMAIN inp[t] : i < j \/ j < i \/ i = j
      <4>1. inp[t] \in Seq(Message)
        BY <1>1
      <4>2. \A i \in DOMAIN inp[t] : i \in Int
        BY <4>1
      <4> QED BY <4>2
    <3>2. \A n, o : SameKey(n, o) => SameKey(o, n)
      BY DEF SameKey
    <3> QED BY <3>1, <3>2 DEF In
  <2>1. inp[t][i] \in P /\ inp[t][j] \in P
    BY DEF In
  <2>2. inp[t][i].seq < inp[t][j].seq
    BY <1>1, <1>7, <2>1 DEF Rising
  <2>3. inp[t][i].seq = inp[t][j].seq /\ inp[t][i].seq \in Nat
    BY <1>4, <2>1 DEF SameKey
  <2> QED BY <2>2, <2>3
<1>10. /\ In(x \o kept) = In(x) \cup In(kept) /\ NoRepeat(x \o kept) /\ x \o kept \in Seq(Message)
  <2>1. In(x) \cap In(kept) = {}
    BY <1>3, <1>8
  <2> QED BY <1>1, <1>3, <2>1, InConcat, Concat, Zenon
<1> DEFINE out2 == In(x \o kept) \cup (gone \cup D)
<1>11. out2 = out \cup P
  BY <1>3, <1>10
<1>12. In(x \o kept) \cap (gone \cup D) = {}
  BY <1>1, <1>3, <1>8, <1>10
<1>13. gone \cup D \in SUBSET Message /\ \A n \in gone \cup D : ~n.fc
  BY <1>1, <1>3, <1>4
<1>14. PendingOf(inp2, t) = {} /\ PendingOf(inp, t) = P
       /\ \A u \in Threads : u # t => PendingOf(inp2, u) = PendingOf(inp, u)
  BY <1>5, <1>6 DEF PendingOf
<1> HIDE DEF out, P, out2
<1>15. \A n, o \in out2 : SameKey(n, o) => n = o
  BY <1>1, <1>8, <1>9, <1>11
<1>16. \A n \in out2 : n.seq \in 1..snt[n.from]
  BY <1>1, <1>7, <1>11
<1>17. \A u \in InputThreads : \A n \in In(inp2[u]) :
         /\ n.from = u /\ n.seq \in 1..snt[u]
         /\ \A o \in out2 : o.from = u => o.seq < n.seq
  <2> SUFFICES ASSUME NEW u \in InputThreads, NEW n \in In(inp2[u])
               PROVE  /\ n.from = u /\ n.seq \in 1..snt[u]
                      /\ \A o \in out2 : o.from = u => o.seq < n.seq
    OBVIOUS
  <2>1. u # t
    BY <1>5, <1>6
  <2>2. n \in In(inp[u])
    BY <1>6, <2>1
  <2>3. n.from = u /\ n.seq \in 1..snt[u] /\ \A o \in out : o.from = u => o.seq < n.seq
    BY <1>2, <2>2, Zenon
  <2>4. \A o \in out2 : o.from = u => o \in out
    BY <1>7, <1>11, <2>1
  <2> QED BY <2>3, <2>4
<1>18. \A u \in InputThreads : Rising(inp2[u], u)
  BY <1>1, <1>5, <1>6
<1>19. \A u \in Threads : \A k \in 1..snt[u] :
          \E n \in out2 \cup PendingOf(inp2, u) : n.from = u /\ n.seq = k
  <2> SUFFICES ASSUME NEW u \in Threads, NEW k \in 1..snt[u]
               PROVE  \E n \in out2 \cup PendingOf(inp2, u) : n.from = u /\ n.seq = k
    OBVIOUS
  <2>1. PICK n \in out \cup PendingOf(inp, u) : n.from = u /\ n.seq = k
    BY <1>2
  <2>2. n \in out2 \cup PendingOf(inp2, u)
    BY <1>11, <1>14
  <2> QED BY <2>1, <2>2
<1> QED BY <1>1, <1>6, <1>10, <1>12, <1>13, <1>15, <1>16, <1>17, <1>18, <1>19, Zenon
        DEF Placed, out2

\* Another order of the path changes nothing about who is where.
LEMMA PlaceReorder ==
  ASSUME NEW x, NEW inp, NEW gone, NEW snt, Placed(x, inp, gone, snt),
         NEW x2 \in Seq(Message), In(x2) = In(x), NoRepeat(x2)
  PROVE  Placed(x2, inp, gone, snt)
<1> DEFINE out == In(x) \cup gone
           out2 == In(x2) \cup gone
<1>1. /\ inp \in [InputThreads -> Seq(Message)] /\ gone \in SUBSET Message
      /\ snt \in [Threads -> Nat] /\ In(x2) \cap gone = {} /\ \A n \in gone : ~n.fc
      /\ \A u \in InputThreads : Rising(inp[u], u)
  BY Zenon DEF Placed
<1>2. /\ \A n, o \in out : SameKey(n, o) => n = o
      /\ \A n \in out : n.seq \in 1..snt[n.from]
      /\ \A u \in InputThreads : \A n \in In(inp[u]) :
            /\ n.from = u /\ n.seq \in 1..snt[u]
            /\ \A o \in out : o.from = u => o.seq < n.seq
      /\ \A u \in Threads : \A k \in 1..snt[u] :
            \E n \in out \cup PendingOf(inp, u) : n.from = u /\ n.seq = k
  BY Zenon DEF Placed
<1>3. out2 = out
  BY Zenon
<1> HIDE DEF out, out2
<1>4. /\ \A n, o \in out2 : SameKey(n, o) => n = o
      /\ \A n \in out2 : n.seq \in 1..snt[n.from]
      /\ \A u \in InputThreads : \A n \in In(inp[u]) :
            /\ n.from = u /\ n.seq \in 1..snt[u]
            /\ \A o \in out2 : o.from = u => o.seq < n.seq
      /\ \A u \in Threads : \A k \in 1..snt[u] :
            \E n \in out2 \cup PendingOf(inp, u) : n.from = u /\ n.seq = k
  BY <1>2, <1>3, Zenon
<1> QED BY <1>1, <1>4, Zenon DEF Placed, out2

\* What log_queue_fifo_move_input_unlocked() keeps and what it drops.
LEMMA DropSplits ==
  ASSUME NEW q, Tallied(q), NEW n \in 0..q.nfc, NEW t, Rising(q.items, t),
         \A i \in DOMAIN q.items : q.items[i].from = t
  PROVE  /\ IsSplit(q.items, DropFrom(q, n).items,
                    {q.items[k] : k \in OldestUncontrolled(q, n)})
         /\ Rising(DropFrom(q, n).items, t)
<1> DEFINE s == q.items
           d == DropFrom(q, n).items
           K == Kept(q, n)
           O == OldestUncontrolled(q, n)
           D == {s[k] : k \in O}
           f(i) == Spot(q, n, i)
<1>1. /\ d \in Seq(Message)
      /\ \A i \in DOMAIN d : f(i) \in K /\ d[i] = s[f(i)]
      /\ \A i, j \in DOMAIN d : i < j => f(i) < f(j)
      /\ \A k \in K : \E i \in DOMAIN d : f(i) = k
  BY DropKeeps, Zenon
<1>2. O \subseteq Uncontrolled(s) /\ K = DOMAIN s \ O
  BY DropCounts DEF Kept
<1>3. s \in Seq(Message)
  BY DEF Tallied, List
<1>4. O \subseteq DOMAIN s /\ \A k \in O : ~s[k].fc
  BY <1>2 DEF Uncontrolled
<1>5. /\ \A i \in DOMAIN s : i \in Int /\ s[i].seq \in Int
      /\ \A i \in DOMAIN d : i \in Int
  <2>1. \A i \in DOMAIN s : i \in Int /\ s[i] \in Message
    BY <1>3
  <2>2. \A m \in Message : m.seq \in Int
    BY DEF Message
  <2>3. \A i \in DOMAIN d : i \in Int
    <3> HIDE DEF d
    <3> QED BY <1>1
  <2> QED BY <2>1, <2>2, <2>3
<1>6. \A i, j \in DOMAIN s : i < j => s[i].seq < s[j].seq
  BY DEF Rising
<1> HIDE DEF s, d, K, O, f
<1>7. \A i, j \in DOMAIN s : s[i] = s[j] => i = j
  <2>1. \A i, j \in DOMAIN s : i < j \/ j < i \/ i = j
    BY <1>5
  <2>2. \A i, j \in DOMAIN s : i < j => s[i].seq # s[j].seq
    BY <1>5, <1>6
  <2> QED BY <2>1, <2>2
<1>8. NoRepeat(d)
  <2> SUFFICES ASSUME NEW i \in DOMAIN d, NEW j \in DOMAIN d, d[i] = d[j] PROVE i = j
    BY DEF NoRepeat
  <2>1. f(i) \in DOMAIN s /\ f(j) \in DOMAIN s /\ s[f(i)] = s[f(j)]
    BY <1>1, <1>2
  <2>2. f(i) = f(j) /\ f(i) \in Int
    BY <1>5, <1>7, <2>1
  <2>3. ~(i < j) /\ ~(j < i)
    BY <1>1, <2>2
  <2> QED BY <1>5, <2>3
<1>9. In(d) = {s[k] : k \in K}
  <2>1. \A i \in DOMAIN d : \E k \in K : d[i] = s[k]
    BY <1>1
  <2>2. \A k \in K : \E i \in DOMAIN d : d[i] = s[k]
    BY <1>1
  <2> QED BY <2>1, <2>2 DEF In
<1>10. In(d) \cup D = In(s)
  <2>1. \A k \in DOMAIN s : k \in K \/ k \in O
    BY <1>2
  <2>2. K \subseteq DOMAIN s /\ O \subseteq DOMAIN s
    BY <1>2, <1>4
  <2> QED BY <1>9, <2>1, <2>2 DEF In
<1>11. In(d) \cap D = {}
  <2> SUFFICES ASSUME NEW k \in K, NEW o \in O, s[k] = s[o] PROVE FALSE
    BY <1>9
  <2> QED BY <1>2, <1>4, <1>7
<1>12. \A m \in D : ~m.fc
  BY <1>4
<1>13. Rising(d, t)
  <2> SUFFICES ASSUME NEW i \in DOMAIN d, NEW j \in DOMAIN d, i < j PROVE d[i].seq < d[j].seq
    BY DEF Rising
  <2>1. f(i) \in DOMAIN s /\ f(j) \in DOMAIN s /\ f(i) < f(j) /\ d[i] = s[f(i)] /\ d[j] = s[f(j)]
    BY <1>1, <1>2
  <2> QED BY <1>6, <2>1
<1>14. IsSplit(s, d, D)
  BY <1>1, <1>8, <1>10, <1>11, <1>12, Zenon DEF IsSplit
<1> QED BY <1>13, <1>14 DEF s, d, O

----------------------------------------------------------------------------
(* What a step does to the places.                                         *)

PlaceInv == Placed(Path, Pending, dropped, sent) /\ acked \in Seq(Message) /\ aborted = {}

Stays == UNCHANGED <<Path, Pending, dropped, sent>>

Pushes ==
    \E t \in InputThreads, m \in Message :
        /\ IsNext(t, m, sent) /\ Advanced(t, sent, sent')
        /\ Pending' = [Pending EXCEPT ![t] = Pending[t] \o <<m>>]
        /\ UNCHANGED <<Path, dropped>>

Settles ==
    \E t \in SlowThreads, m \in Message :
        /\ IsNext(t, m, sent) /\ Advanced(t, sent, sent')
        /\ \/ Path' = Path \o <<m>> /\ dropped' = dropped
           \/ Path' = Path /\ dropped' = dropped \cup {m} /\ ~m.fc
        /\ UNCHANGED Pending

Moves ==
    \E t \in InputThreads, kept \in Seq(Message), D \in SUBSET Message :
        /\ IsSplit(Pending[t], kept, D) /\ Rising(kept, t)
        /\ Path' = Path \o kept /\ dropped' = dropped \cup D
        /\ Pending' = [Pending EXCEPT ![t] = <<>>]
        /\ UNCHANGED sent

Reorders ==
    /\ Path' \in Seq(Message) /\ In(Path') = In(Path)
    /\ NoRepeat(Path) => NoRepeat(Path')
    /\ UNCHANGED <<Pending, dropped, sent>>

PathStep == Stays \/ Pushes \/ Settles \/ Moves \/ (RewindBacklogAll /\ Reorders)

\* The lists are lists of messages.
LEMMA ListTypes ==
  ASSUME CountsInv
  PROVE  /\ backlog.items \in Seq(Message) /\ output.items \in Seq(Message)
         /\ wait.items \in Seq(Message) /\ backlog.len = Len(backlog.items)
         /\ output.len = Len(output.items) /\ wait.len = Len(wait.items)
         /\ \A t \in InputThreads : /\ input[t].items \in Seq(Message)
                                    /\ input[t].len = Len(input[t].items)
                                    /\ Pending[t] = input[t].items
  BY DEF CountsInv, Tallied, List, Pending

\* Regrouping spliced lists.
PopGroups(a, b, g, u, w, o, v) ==
  (g \o u) \o w = o \o v => ((a \o (b \o g)) \o u) \o w = ((a \o b) \o o) \o v
CutGroups(a, b, c, o, s) ==
  s = b \o c => (a \o b) \o c = a \o s /\ (a \o b) \o (c \o o) = (a \o s) \o o
LEMMA PopRegroup ==
  ASSUME NEW a \in Seq(Message), NEW b \in Seq(Message), NEW g \in Seq(Message),
         NEW u \in Seq(Message), NEW w \in Seq(Message), NEW o \in Seq(Message),
         NEW v \in Seq(Message)
  PROVE  PopGroups(a, b, g, u, w, o, v)
<1> DEFINE x == Then(a, b)
           y == Then(g, u)
<1>1. x \in Seq(Message) /\ Then(x, g) \in Seq(Message) /\ y \in Seq(Message)
  BY Assoc
<1>2. Then(x, g) = Then(a, Then(b, g))
  BY Assoc
<1> HIDE DEF x
<1>3. Then(Then(x, g), u) = Then(x, y)
  BY <1>1, Assoc
<1> HIDE DEF y
<1>4. Then(Then(x, y), w) = Then(x, Then(y, w))
  BY <1>1, Assoc
<1>5. Then(Then(x, o), v) = Then(x, Then(o, v))
  BY <1>1, Assoc
<1>6. Then(y, w) = Then(o, v) =>
        Then(Then(Then(a, Then(b, g)), u), w) = Then(Then(x, o), v)
  BY <1>2, <1>3, <1>4, <1>5, Zenon
<1> QED BY <1>6, Zenon DEF x, y, Then, PopGroups

LEMMA CutRegroup ==
  ASSUME NEW a \in Seq(Message), NEW b \in Seq(Message), NEW c \in Seq(Message),
         NEW o \in Seq(Message), NEW s
  PROVE  CutGroups(a, b, c, o, s)
<1> DEFINE x == Then(a, b)
<1>1. x \in Seq(Message) /\ Then(x, c) = Then(a, Then(b, c))
  BY Assoc
<1> HIDE DEF x
<1>2. Then(x, Then(c, o)) = Then(Then(x, c), o)
  BY <1>1, Assoc
<1>3. s = Then(b, c) => Then(x, c) = Then(a, s) /\ Then(x, Then(c, o)) = Then(Then(a, s), o)
  BY <1>1, <1>2, Zenon
<1> QED BY <1>3, Zenon DEF x, Then, CutGroups

\* log_queue_pop_head() moves the boundary between output and backlog.
LEMMA PopKeepsPath ==
  ASSUME CountsInv, acked \in Seq(Message), PopHead
  PROVE  Path' = Path
<1> DEFINE a == acked
           b == backlog.items
           r == Refilled.output.items
           w == Refilled.wait.items
           h == Head(r)
           u == Tail(r)
<1>1. /\ a \in Seq(Message) /\ b \in Seq(Message)
      /\ output.items \in Seq(Message) /\ wait.items \in Seq(Message)
  BY ListTypes
<1>2. Tallied(Refilled.output) /\ Tallied(Refilled.wait) /\ r \o w = output.items \o wait.items
  BY RefillTallies DEF CountsInv
<1>3. Refilled.output.len > 0
  BY DEF PopHead
<1>4. h \in Message /\ r = <<h>> \o u /\ u \in Seq(Message)
  BY <1>2, <1>3, TallyHead
<1>5. w \in Seq(Message)
  BY <1>2 DEF Tallied, List
<1>6. /\ acked' = a /\ backlog'.items = Append(b, h) /\ output'.items = u /\ wait'.items = w
  BY DEF PopHead, AddTail, RemoveHead, fates
<1> HIDE DEF a, b, r, w, h, u
<1>7. Append(b, h) = b \o <<h>> /\ <<h>> \in Seq(Message)
  BY <1>1, <1>4, AddedLast, Zenon
<1>8. Path' = ((a \o (b \o <<h>>)) \o u) \o w
  BY <1>6, <1>7 DEF Path
<1>9. Path = ((a \o b) \o output.items) \o wait.items
  BY DEF Path, a, b
<1>10. (<<h>> \o u) \o w = output.items \o wait.items
  BY <1>2, <1>4, Zenon
<1>11. PopGroups(a, b, <<h>>, u, w, output.items, wait.items)
  BY <1>1, <1>4, <1>5, <1>7, PopRegroup, Zenon
<1> QED BY <1>8, <1>9, <1>10, <1>11, Zenon DEF PopGroups

\* log_queue_fifo_ack_backlog() and log_queue_fifo_rewind_backlog() move the
\* boundaries of the backlog.
LEMMA AckKeepsPath ==
  ASSUME CountsInv, acked \in Seq(Message), NEW n \in 1..backlog.len, AckBacklog(n)
  PROVE  Path' = Path /\ acked' \in Seq(Message)
<1> DEFINE a == acked
           s == backlog.items
           b == SubSeq(s, 1, n)
           c == SubSeq(s, n + 1, Len(s))
<1>1. a \in Seq(Message) /\ s \in Seq(Message) /\ output.items \in Seq(Message)
  BY ListTypes
<1>2. n \in 0..Len(s)
  BY AckTallies DEF CountsInv
<1>3. acked' = a \o b /\ backlog'.items = c /\ output' = output /\ wait' = wait
  BY DEF AckBacklog
<1> HIDE DEF s
<1>4. b \in Seq(Message) /\ c \in Seq(Message) /\ s = b \o c
  BY <1>1, <1>2, Cut, Zenon
<1> HIDE DEF a, b, c
<1>5. (a \o b) \o c = a \o s
  <2>1. CutGroups(a, b, c, output.items, s)
    BY <1>1, <1>4, CutRegroup, Zenon
  <2> QED BY <2>1, <1>4, Zenon DEF CutGroups
<1>6. Path' = (((a \o b) \o c) \o output.items) \o wait.items
  BY <1>3 DEF Path
<1>7. Path = ((a \o s) \o output.items) \o wait.items
  BY DEF Path, a, s
<1>8. a \o b \in Seq(Message)
  BY <1>1, <1>4, Concat, Zenon
<1> QED BY <1>3, <1>5, <1>6, <1>7, <1>8

\* The rewound messages are put back where they came from.
LEMMA RewindKeepsPath ==
  ASSUME CountsInv, acked \in Seq(Message), NEW n \in 1..backlog.len, RewindBacklog(n)
  PROVE  Path' = Path
<1> DEFINE a == acked
           s == backlog.items
           o == output.items
           m == Len(s) - n
           b == SubSeq(s, 1, m)
           c == SubSeq(s, m + 1, Len(s))
<1>1. a \in Seq(Message) /\ s \in Seq(Message) /\ o \in Seq(Message) /\ backlog.len = Len(s)
  BY ListTypes
<1>2. m \in 0..Len(s) /\ (m + 1) - 1 = m
  BY <1>1
<1>3. /\ acked' = a /\ backlog'.items = SubSeq(s, 1, (m + 1) - 1)
      /\ output'.items = c \o o /\ wait' = wait
  BY DEF RewindBacklog, PutBack, fates
<1>4. backlog'.items = b
  BY <1>2, <1>3
<1> HIDE DEF s, m
<1>5. b \in Seq(Message) /\ c \in Seq(Message) /\ s = b \o c
  BY <1>1, <1>2, Cut, Zenon
<1> HIDE DEF a, b, c, o
<1>6. (a \o b) \o (c \o o) = (a \o s) \o o
  <2>1. CutGroups(a, b, c, o, s)
    BY <1>1, <1>5, CutRegroup, Zenon
  <2> QED BY <2>1, <1>5, Zenon DEF CutGroups
<1>7. Path' = ((a \o b) \o (c \o o)) \o wait.items
  BY <1>3, <1>4 DEF Path
<1>8. Path = ((a \o s) \o o) \o wait.items
  BY DEF Path, a, s, o
<1> QED BY <1>6, <1>7, <1>8

\* rewind_backlog_all() loses and repeats nothing.
Shuffled(a, b, o, w) ==
    LET x == ((a \o b) \o o) \o w
        y == ((a \o <<>>) \o (o \o b)) \o w
    IN  y \in Seq(Message) /\ In(y) = In(x) /\ (NoRepeat(x) => NoRepeat(y))
LEMMA InThen ==
  ASSUME NEW s \in Seq(Message), NEW r \in Seq(Message)
  PROVE  /\ Then(s, r) \in Seq(Message) /\ In(Then(s, r)) = In(s) \cup In(r)
         /\ NoRepeat(Then(s, r)) <=> NoRepeat(s) /\ NoRepeat(r) /\ In(s) \cap In(r) = {}
  BY InConcat, Concat, Zenon DEF Then

LEMMA Shuffle ==
  ASSUME NEW a \in Seq(Message), NEW b \in Seq(Message), NEW o \in Seq(Message),
         NEW w \in Seq(Message)
  PROVE  Shuffled(a, b, o, w)
<1>1. Then(a, <<>>) = a
  BY DEF Then
<1> DEFINE p == Then(a, b)
           q == Then(p, o)
           x == Then(q, w)
           u == Then(o, b)
           v == Then(a, u)
           y == Then(v, w)
<1>2. /\ p \in Seq(Message) /\ In(p) = In(a) \cup In(b)
      /\ NoRepeat(p) <=> NoRepeat(a) /\ NoRepeat(b) /\ In(a) \cap In(b) = {}
  BY InThen, Zenon
<1>3. /\ u \in Seq(Message) /\ In(u) = In(o) \cup In(b)
      /\ NoRepeat(u) <=> NoRepeat(o) /\ NoRepeat(b) /\ In(o) \cap In(b) = {}
  BY InThen, Zenon
<1> HIDE DEF p, u
<1>4. /\ q \in Seq(Message) /\ In(q) = In(p) \cup In(o)
      /\ NoRepeat(q) <=> NoRepeat(p) /\ NoRepeat(o) /\ In(p) \cap In(o) = {}
  BY <1>2, InThen, Zenon
<1>5. /\ v \in Seq(Message) /\ In(v) = In(a) \cup In(u)
      /\ NoRepeat(v) <=> NoRepeat(a) /\ NoRepeat(u) /\ In(a) \cap In(u) = {}
  BY <1>3, InThen, Zenon
<1> HIDE DEF q, v
<1>6. /\ x \in Seq(Message) /\ In(x) = In(q) \cup In(w)
      /\ NoRepeat(x) <=> NoRepeat(q) /\ NoRepeat(w) /\ In(q) \cap In(w) = {}
  BY <1>4, InThen, Zenon
<1>7. /\ y \in Seq(Message) /\ In(y) = In(v) \cup In(w)
      /\ NoRepeat(y) <=> NoRepeat(v) /\ NoRepeat(w) /\ In(v) \cap In(w) = {}
  BY <1>5, InThen, Zenon
<1> HIDE DEF x, y
<1>8. In(y) = In(x)
  BY <1>2, <1>3, <1>4, <1>5, <1>6, <1>7
<1>9. NoRepeat(x) => NoRepeat(y)
  BY <1>2, <1>3, <1>4, <1>5, <1>6, <1>7
<1>10. ((a \o b) \o o) \o w = x /\ ((a \o <<>>) \o (o \o b)) \o w = y
  BY <1>1, Zenon DEF x, y, q, v, p, u, Then
<1> QED BY <1>7, <1>8, <1>9, <1>10, Zenon DEF Shuffled

LEMMA AllReorders ==
  ASSUME CountsInv, acked \in Seq(Message), RewindBacklogAll
  PROVE  Reorders
<1> DEFINE a == acked
           b == backlog.items
           o == output.items
           w == wait.items
<1>1. a \in Seq(Message) /\ b \in Seq(Message) /\ o \in Seq(Message) /\ w \in Seq(Message)
  BY ListTypes
<1>2. /\ acked' = a /\ backlog'.items = <<>> /\ output'.items = o \o b /\ wait' = wait
      /\ input' = input /\ sent' = sent /\ dropped' = dropped
  BY DEF RewindBacklogAll, SpliceTail, Empty, fates
<1>3. Pending' = Pending
  BY <1>2, Zenon DEF Pending
<1>4. Path' = ((a \o <<>>) \o (o \o b)) \o w /\ Path = ((a \o b) \o o) \o w
  BY <1>2, Zenon DEF Path
<1> HIDE DEF a, b, o, w
<1>5. Shuffled(a, b, o, w)
  BY <1>1, Shuffle, Zenon
<1> QED BY <1>2, <1>3, <1>4, <1>5, Zenon DEF Shuffled, Reorders

\* A message goes to the end of its thread's input list.
LEMMA PushPushes ==
  ASSUME CountsInv, NEW t \in InputThreads, NEW fc \in BOOLEAN, NEW old \in BOOLEAN,
         PushFast(t, fc, old)
  PROVE  Pushes
<1> DEFINE m == NewMessage(t, fc)
           s == input[t].items
<1>1. t \in Threads /\ s \in Seq(Message) /\ input \in [InputThreads -> List]
      /\ sent \in [Threads -> Nat]
  BY ListTypes DEF Threads, CountsInv
<1>2. m \in Message /\ IsNext(t, m, sent)
  BY <1>1 DEF NewMessage, Message, IsNext
<1>3. /\ input' = [input EXCEPT ![t] = AddTail(input[t], m)]
      /\ Advanced(t, sent, sent')
      /\ UNCHANGED <<wait, output, backlog, acked, dropped>>
  BY DEF PushFast, fates, Advanced
<1>4. AddTail(input[t], m).items = Append(s, m)
  BY DEF AddTail
<1> HIDE DEF m
<1>5. Append(s, m) = s \o <<m>>
  BY <1>1, <1>2, AddedLast, Zenon
<1>6. \A u \in InputThreads : input'[u] = IF u = t THEN AddTail(input[t], m) ELSE input[u]
  BY <1>1, <1>3
<1>7. Pending' = [Pending EXCEPT ![t] = Pending[t] \o <<m>>]
  <2>1. Pending' = [u \in InputThreads |-> input'[u].items]
    BY DEF Pending
  <2>2. Pending[t] = s
    BY DEF Pending
  <2> DEFINE l == s \o <<m>>
  <2>3. Pending' = [u \in InputThreads |-> IF u = t THEN l ELSE input[u].items]
    BY <1>4, <1>5, <1>6, <2>1
  <2>4. [Pending EXCEPT ![t] = l] = [u \in InputThreads |-> IF u = t THEN l ELSE input[u].items]
    <3> HIDE DEF l
    <3> QED BY DEF Pending
  <2> QED BY <2>2, <2>3, <2>4, Zenon
<1>8. UNCHANGED <<Path, dropped>>
  BY <1>3, Zenon DEF Path
<1> QED BY <1>2, <1>3, <1>7, <1>8, Zenon DEF Pushes

\* The input list goes to the end of wait, less what is dropped.
LEMMA MoveMoves ==
  ASSUME CountsInv, PlaceInv, NEW t \in InputThreads, Move(t)
  PROVE  Moves
<1> DEFINE q == input[t]
           n == toDrop[t]
           kept == DropFrom(q, n).items
           D == {q.items[k] : k \in OldestUncontrolled(q, n)}
           z == (acked \o backlog.items) \o output.items
<1>1. Tallied(q) /\ n \in 0..q.nfc /\ q.items \in Seq(Message) /\ Pending[t] = q.items
  BY ListTypes DEF CountsInv, Move
<1>2. Rising(q.items, t) /\ \A m \in In(q.items) : m.from = t
  BY <1>1, Zenon DEF PlaceInv, Placed
<1>3. \A i \in DOMAIN q.items : q.items[i].from = t
  BY <1>2 DEF In
<1>4. /\ dropped' = dropped \cup D /\ wait'.items = wait.items \o kept
      /\ input' = [input EXCEPT ![t] = Empty]
      /\ UNCHANGED <<output, backlog, acked, sent>>
  BY DEF Move, MoveInput, SpliceTail
<1> HIDE DEF kept, D, q, n
<1>5. IsSplit(q.items, kept, D) /\ Rising(kept, t)
  BY <1>1, <1>2, <1>3, DropSplits DEF kept, D
<1>6. kept \in Seq(Message) /\ D \subseteq Message
  <2>1. In(q.items) \subseteq Message
    BY <1>1 DEF In
  <2> QED BY <1>5, <2>1 DEF IsSplit
<1>7. Path' = Path \o kept
  <2>1. acked \in Seq(Message) /\ backlog.items \in Seq(Message) /\ output.items \in Seq(Message)
        /\ wait.items \in Seq(Message)
    BY ListTypes DEF PlaceInv
  <2>2. z \in Seq(Message)
    <3>1. acked \o backlog.items \in Seq(Message)
      BY <2>1, Concat, Zenon
    <3> QED BY <2>1, <3>1, Concat, Zenon
  <2>3. Path = z \o wait.items /\ Path' = z \o (wait.items \o kept)
    BY <1>4, Zenon DEF Path
  <2> HIDE DEF z
  <2>4. Then(Then(z, wait.items), kept) = Then(z, Then(wait.items, kept))
    BY <1>6, <2>1, <2>2, Assoc
  <2> QED BY <2>3, <2>4, Zenon DEF Then
<1>8. Pending' = [Pending EXCEPT ![t] = <<>>]
  <2>1. Empty.items = <<>>
    BY DEF Empty
  <2>2. \A u \in InputThreads : input'[u].items = IF u = t THEN <<>> ELSE input[u].items
    BY <1>4, <2>1 DEF CountsInv
  <2>3. Pending' = [u \in InputThreads |-> IF u = t THEN <<>> ELSE input[u].items]
    BY <2>2 DEF Pending
  <2> QED BY <2>3 DEF Pending
<1> QED BY <1>1, <1>4, <1>5, <1>6, <1>7, <1>8, Zenon DEF Moves

\* A message that is not put on an input list is appended or dropped.
LEMMA SlowSettles ==
  ASSUME CountsInv, PlaceInv, NEW t \in SlowThreads, NEW fc \in BOOLEAN,
         PushSlow(t, fc) \/ (AppendSlow(t) /\ fc = FALSE)
  PROVE  Stays \/ Settles
<1> DEFINE m == NewMessage(t, fc)
           z == (acked \o backlog.items) \o output.items
<1>1. t \in Threads /\ sent \in [Threads -> Nat] /\ wait.items \in Seq(Message)
  BY ListTypes DEF Threads, CountsInv
<1>2. m \in Message /\ IsNext(t, m, sent) /\ m.fc = fc
  BY <1>1 DEF NewMessage, Message, IsNext
<1>3. UNCHANGED <<input, output, backlog, acked>>
  BY DEF PushSlow, AppendSlow
<1>4. Pending' = Pending
  BY <1>3, Zenon DEF Pending
<1>5. \/ sent' = sent /\ dropped' = dropped /\ wait' = wait
      \/ Advanced(t, sent, sent') /\ dropped' = dropped \cup {m} /\ wait' = wait /\ ~fc
      \/ Advanced(t, sent, sent') /\ dropped' = dropped /\ wait'.items = Append(wait.items, m)
  <2>1. AppendMessage(t, fc) =>
          Advanced(t, sent, sent') /\ dropped' = dropped /\ wait'.items = Append(wait.items, m)
    BY DEF AppendMessage, AddTail, Advanced
  <2>2. CASE AppendSlow(t) /\ fc = FALSE
    BY <2>1, <2>2, Zenon DEF AppendSlow
  <2>3. CASE PushSlow(t, fc)
    BY <2>1, <2>3, Zenon DEF PushSlow, MustDrop, Advanced
  <2> QED BY <2>2, <2>3, Zenon
<1> HIDE DEF m
<1>6. Append(wait.items, m) = wait.items \o <<m>> /\ <<m>> \in Seq(Message)
  BY <1>1, <1>2, AddedLast, Zenon
<1>7. wait' = wait => Path' = Path
  BY <1>3, Zenon DEF Path
<1>8. wait'.items = Append(wait.items, m) => Path' = Path \o <<m>>
  <2>1. acked \in Seq(Message) /\ backlog.items \in Seq(Message) /\ output.items \in Seq(Message)
    BY ListTypes DEF PlaceInv
  <2>2. z \in Seq(Message)
    <3>1. acked \o backlog.items \in Seq(Message)
      BY <2>1, Concat, Zenon
    <3> QED BY <2>1, <3>1, Concat, Zenon
  <2>3. Path = z \o wait.items
        /\ (wait'.items = Append(wait.items, m) => Path' = z \o (wait.items \o <<m>>))
    BY <1>3, <1>6, Zenon DEF Path
  <2> HIDE DEF z
  <2>4. Then(Then(z, wait.items), <<m>>) = Then(z, Then(wait.items, <<m>>))
    BY <1>1, <1>6, <2>2, Assoc
  <2> QED BY <2>3, <2>4, Zenon DEF Then
<1> QED BY <1>2, <1>4, <1>5, <1>7, <1>8, Zenon DEF Settles, Stays

\* A reload frees a queue only when there is no message in it.
LEMMA ReloadStays ==
  ASSUME CountsInv, PlaceInv, NoStrandedInput, Reload
  PROVE  Stays /\ aborted' = {} /\ acked' = acked
<1>1. UNCHANGED <<sent, acked, dropped>> /\ aborted = {}
  BY Zenon DEF Reload, PlaceInv
<1>2. CASE KeepOnReload
  <2>1. UNCHANGED <<input, wait, output, backlog, aborted>>
    BY <1>2, Zenon DEF Reload, lists
  <2> QED BY <1>1, <2>1, Zenon DEF Stays, Path, Pending
<1>3. CASE ~KeepOnReload
  <2>1. /\ aborted' = aborted \cup UNION {Elements(input[t]) : t \in InputThreads}
                        \cup Elements(wait) \cup Elements(output) \cup Elements(backlog)
        /\ input' = [t \in InputThreads |-> Empty]
        /\ wait' = Empty /\ output' = Empty /\ backlog' = Empty
    BY <1>3, Zenon DEF Reload
  <2>2. \A x \in Seq(Message) : Len(x) = 0 => x = <<>>
    OBVIOUS
  <2>3. wait.len \in Nat /\ output.len \in Nat /\ backlog.len \in Nat
    BY DEF CountsInv, Tallied, List
  <2>4. wait.len = 0 /\ output.len = 0 /\ backlog.len = 0
    BY <1>3, <2>3 DEF KeepOnReload, GetLength
  <2>5. wait.items = <<>> /\ output.items = <<>> /\ backlog.items = <<>>
    BY <2>2, <2>4, ListTypes, Zenon
  <2>6. ASSUME NEW t \in InputThreads PROVE input[t].items = <<>>
    <3>1. t \notin registered /\ pc[t] = "idle"
      BY DEF Reload, Threads
    <3>2. ~(input[t].len > 0)
      BY <3>1 DEF NoStrandedInput
    <3>3. input[t].len \in Nat
      BY DEF CountsInv, Tallied, List
    <3>4. input[t].len = 0
      BY <3>2, <3>3
    <3> QED BY <2>2, <3>4, ListTypes, Zenon
  <2>7. Empty.items = <<>>
    BY DEF Empty
  <2>8. Path' = Path
    BY <1>1, <2>1, <2>5, <2>7, Zenon DEF Path
  <2>9. Pending' = Pending
    <3>1. Pending = [t \in InputThreads |-> <<>>]
      BY <2>6, Zenon DEF Pending
    <3>2. \A t \in InputThreads : input'[t] = Empty
      BY <2>1
    <3>3. Pending' = [t \in InputThreads |-> <<>>]
      BY <2>7, <3>2, Zenon DEF Pending
    <3> QED BY <3>1, <3>3, Zenon
  <2>10. \A q : q.items = <<>> => Elements(q) = {}
    <3>1. DOMAIN <<>> = {}
      OBVIOUS
    <3> QED BY <3>1, Zenon DEF Elements
  <2>11. /\ Elements(wait) = {} /\ Elements(output) = {} /\ Elements(backlog) = {}
         /\ \A t \in InputThreads : Elements(input[t]) = {}
    BY <2>5, <2>6, <2>10, Zenon
  <2>12. UNION {Elements(input[t]) : t \in InputThreads} = {}
    BY <2>11, Zenon
  <2>13. aborted' = {}
    BY <1>1, <2>1, <2>11, <2>12, Zenon
  <2> QED BY <1>1, <2>8, <2>9, <2>13, Zenon DEF Stays
<1> QED BY <1>2, <1>3, Zenon

\* Every step is one of those.
LEMMA NextIsPathStep ==
  ASSUME CountsInv, PlaceInv, NoStrandedInput, [Next]_vars
  PROVE  PathStep /\ aborted' = {} /\ acked' \in Seq(Message)
<1> USE DEF lists, fates
<1>0. aborted = {} /\ acked \in Seq(Message)
  BY Zenon DEF PlaceInv
<1>a. ASSUME UNCHANGED <<input, wait, output, backlog, sent, acked, dropped, aborted>>
      PROVE  PathStep /\ aborted' = {} /\ acked' \in Seq(Message)
  BY <1>0, <1>a, Zenon DEF PathStep, Stays, Path, Pending
<1>b. ASSUME Path' = Path, UNCHANGED <<input, sent, dropped, aborted>>, acked' \in Seq(Message)
      PROVE  PathStep /\ aborted' = {} /\ acked' \in Seq(Message)
  BY <1>0, <1>b, Zenon DEF PathStep, Stays, Pending
<1>1. ASSUME NEW t \in InputThreads, NEW fc \in BOOLEAN, NEW old \in BOOLEAN, PushFast(t, fc, old)
      PROVE  PathStep /\ aborted' = {} /\ acked' \in Seq(Message)
  <2>1. Pushes
    BY <1>1, PushPushes, Zenon
  <2>2. UNCHANGED <<aborted, acked>>
    BY <1>1, Zenon DEF PushFast
  <2> QED BY <1>0, <2>1, <2>2, Zenon DEF PathStep
<1>2. ASSUME NEW t \in SlowThreads, NEW fc \in BOOLEAN, PushSlow(t, fc)
      PROVE  PathStep /\ aborted' = {} /\ acked' \in Seq(Message)
  <2>1. Stays \/ Settles
    BY <1>2, SlowSettles, Zenon
  <2>2. UNCHANGED <<aborted, acked>>
    BY <1>2, Zenon DEF PushSlow
  <2> QED BY <1>0, <2>1, <2>2, Zenon DEF PathStep
<1>3. ASSUME NEW t \in SlowThreads, AppendSlow(t)
      PROVE  PathStep /\ aborted' = {} /\ acked' \in Seq(Message)
  <2>1. Stays \/ Settles
    BY <1>3, SlowSettles, Zenon
  <2>2. UNCHANGED <<aborted, acked>>
    BY <1>3, Zenon DEF AppendSlow
  <2> QED BY <1>0, <2>1, <2>2, Zenon DEF PathStep
<1>4. ASSUME NEW t \in InputThreads, BatchCallback(t)
      PROVE  UNCHANGED <<input, wait, output, backlog, sent, acked, dropped, aborted>>
  BY <1>4, Zenon DEF BatchCallback
<1>5. ASSUME NEW t \in InputThreads, Move(t)
      PROVE  PathStep /\ aborted' = {} /\ acked' \in Seq(Message)
  <2>1. Moves
    BY <1>5, MoveMoves, Zenon
  <2>2. UNCHANGED <<aborted, acked>>
    BY <1>5, Zenon DEF Move
  <2> QED BY <1>0, <2>1, <2>2, Zenon DEF PathStep
<1>6. ASSUME NEW t \in Threads, CallNotify(t) \/ CountPushed(t)
      PROVE  UNCHANGED <<input, wait, output, backlog, sent, acked, dropped, aborted>>
  BY <1>6, Zenon DEF CallNotify, CountPushed
<1>7. ASSUME NEW added, CheckItems(added)
      PROVE  UNCHANGED <<input, wait, output, backlog, sent, acked, dropped, aborted>>
  BY <1>7, Zenon DEF CheckItems
<1>8. ASSUME WakeupEvent \/ ThrottleTimer \/ PopNothing \/ FinishReading \/ IoWakeup
      PROVE  UNCHANGED <<input, wait, output, backlog, sent, acked, dropped, aborted>>
  BY <1>8, Zenon DEF WakeupEvent, ThrottleTimer, PopNothing, FinishReading, IoWakeup
<1>9. ASSUME PopHead
      PROVE  PathStep /\ aborted' = {} /\ acked' \in Seq(Message)
  <2>1. Path' = Path
    BY <1>0, <1>9, PopKeepsPath, Zenon
  <2>2. UNCHANGED <<input, sent, dropped, aborted, acked>>
    BY <1>9, Zenon DEF PopHead
  <2> QED BY <1>0, <1>b, <2>1, <2>2, Zenon
<1>10. ASSUME NEW n \in 1..backlog.len, AckBacklog(n)
       PROVE  PathStep /\ aborted' = {} /\ acked' \in Seq(Message)
  <2>1. Path' = Path /\ acked' \in Seq(Message)
    BY <1>0, <1>10, AckKeepsPath, Zenon
  <2>2. UNCHANGED <<input, sent, dropped, aborted>>
    BY <1>10, Zenon DEF AckBacklog
  <2> QED BY <1>b, <2>1, <2>2, Zenon
<1>11. ASSUME NEW n \in 1..backlog.len, RewindBacklog(n)
       PROVE  PathStep /\ aborted' = {} /\ acked' \in Seq(Message)
  <2>1. Path' = Path
    BY <1>0, <1>11, RewindKeepsPath, Zenon
  <2>2. UNCHANGED <<input, sent, dropped, aborted, acked>>
    BY <1>11, Zenon DEF RewindBacklog
  <2> QED BY <1>0, <1>b, <2>1, <2>2, Zenon
<1>12. ASSUME RewindBacklogAll
       PROVE  PathStep /\ aborted' = {} /\ acked' \in Seq(Message)
  <2>1. Reorders
    BY <1>0, <1>12, AllReorders, Zenon
  <2>2. UNCHANGED <<aborted, acked>>
    BY <1>12, Zenon DEF RewindBacklogAll
  <2> QED BY <1>0, <1>12, <2>1, <2>2, Zenon DEF PathStep
<1>13. ASSUME Reload
       PROVE  PathStep /\ aborted' = {} /\ acked' \in Seq(Message)
  BY <1>0, <1>13, ReloadStays, Zenon DEF PathStep
<1>14. ASSUME UNCHANGED vars
       PROVE  UNCHANGED <<input, wait, output, backlog, sent, acked, dropped, aborted>>
  BY <1>14, Zenon DEF vars
<1> QED
  BY <1>a, <1>1, <1>2, <1>3, <1>4, <1>5, <1>6, <1>7, <1>8, <1>9, <1>10, <1>11, <1>12, <1>13,
     <1>14, Zenon DEF Next, Produce, Callback, Consume

\* The places stay consistent.
LEMMA PlaceStep ==
  ASSUME CountsInv, PlaceInv, NoStrandedInput, [Next]_vars
  PROVE  PlaceInv'
<1>1. PathStep /\ aborted' = {} /\ acked' \in Seq(Message)
  BY NextIsPathStep, Zenon
<1>2. Placed(Path, Pending, dropped, sent)
  BY Zenon DEF PlaceInv
<1> SUFFICES Placed(Path', Pending', dropped', sent')
  BY <1>1, Zenon DEF PlaceInv
<1>3. CASE Stays
  BY <1>2, <1>3, Zenon DEF Stays
<1>4. CASE Pushes
  <2>1. PICK t \in InputThreads, m \in Message :
            /\ IsNext(t, m, sent) /\ Advanced(t, sent, sent')
            /\ Pending' = [Pending EXCEPT ![t] = Pending[t] \o <<m>>]
            /\ UNCHANGED <<Path, dropped>>
    BY <1>4, Zenon DEF Pushes
  <2>2. Placed(Path, Pending', dropped, sent')
    BY <1>2, <2>1, PlacePush, Zenon
  <2> QED BY <2>1, <2>2, Zenon
<1>5. CASE Settles
  <2>1. PICK t \in SlowThreads, m \in Message :
            /\ IsNext(t, m, sent) /\ Advanced(t, sent, sent')
            /\ \/ Path' = Path \o <<m>> /\ dropped' = dropped
               \/ Path' = Path /\ dropped' = dropped \cup {m} /\ ~m.fc
            /\ UNCHANGED Pending
    BY <1>5, Zenon DEF Settles
  <2>2. Placed(Path', Pending, dropped', sent')
    BY <1>2, <2>1, PlaceSettle, Zenon
  <2> QED BY <2>1, <2>2, Zenon
<1>6. CASE Moves
  <2>1. PICK t \in InputThreads, kept \in Seq(Message), D \in SUBSET Message :
            /\ IsSplit(Pending[t], kept, D) /\ Rising(kept, t)
            /\ Path' = Path \o kept /\ dropped' = dropped \cup D
            /\ Pending' = [Pending EXCEPT ![t] = <<>>]
            /\ UNCHANGED sent
    BY <1>6, Zenon DEF Moves
  <2>2. Placed(Path \o kept, Pending', dropped \cup D, sent)
    BY <1>2, <2>1, PlaceMove, Zenon
  <2> QED BY <2>1, <2>2, Zenon
<1>7. CASE Reorders
  <2>1. /\ Path' \in Seq(Message) /\ In(Path') = In(Path) /\ NoRepeat(Path')
        /\ UNCHANGED <<Pending, dropped, sent>>
    BY <1>2, <1>7, Zenon DEF Reorders, Placed
  <2>2. Placed(Path', Pending, dropped, sent)
    BY <1>2, <2>1, PlaceReorder, Zenon
  <2> QED BY <2>1, <2>2, Zenon
<1> QED BY <1>1, <1>3, <1>4, <1>5, <1>6, <1>7, Zenon DEF PathStep

\* What follows of the messages of a thread, those of its input list included.
FlowIs(t) ==
    /\ Flow(t) \in Seq(Message) /\ In(Flow(t)) = In(Path) \cup PendingOf(Pending, t)
    /\ NoRepeat(Flow(t)) /\ In(Flow(t)) \cap dropped = {}
    /\ \A m, n \in In(Flow(t)) \cup dropped : m.from = t /\ n.from = t /\ m.seq = n.seq => m = n
    /\ Rising(Flow(t), t) <=> Rising(Path, t)
LEMMA FlowFacts ==
  ASSUME CountsInv, PlaceInv, NEW t \in Threads
  PROVE  FlowIs(t)
<1> DEFINE P == IF t \in InputThreads THEN input[t].items ELSE <<>>
           x == Path
           out == In(x) \cup dropped
<1>1. Flow(t) = x \o P
  BY Zenon DEF Flow, Path
<1>2. /\ x \in Seq(Message) /\ dropped \subseteq Message /\ NoRepeat(x) /\ In(x) \cap dropped = {}
      /\ \A m, n \in out : SameKey(m, n) => m = n
      /\ \A u \in InputThreads : \A m \in In(Pending[u]) :
            /\ m.from = u /\ m.seq \in 1..sent[u]
            /\ \A n \in out : n.from = u => n.seq < m.seq
      /\ \A u \in InputThreads : Rising(Pending[u], u)
  BY Zenon DEF PlaceInv, Placed
<1>3. /\ P \in Seq(Message) /\ In(P) = PendingOf(Pending, t) /\ Rising(P, t)
      /\ \A m \in In(P) : m.from = t /\ \A n \in out : n.from = t => n.seq < m.seq
  <2>1. CASE t \in InputThreads
    <3>1. P = input[t].items /\ Pending[t] = input[t].items /\ input[t].items \in Seq(Message)
      BY <2>1, ListTypes, Zenon
    <3> HIDE DEF P, out, x
    <3> QED BY <1>2, <2>1, <3>1, Zenon DEF PendingOf
  <2>2. CASE t \notin InputThreads
    <3>1. P = <<>>
      BY <2>2
    <3>2. <<>> \in Seq(Message) /\ DOMAIN <<>> = {}
      OBVIOUS
    <3> HIDE DEF P, out, x
    <3>3. P \in Seq(Message) /\ DOMAIN P = {}
      BY <3>1, <3>2, Zenon
    <3>4. In(P) = {} /\ Rising(P, t)
      BY <3>3 DEF In, Rising
    <3>5. PendingOf(Pending, t) = {}
      BY <2>2, Zenon DEF PendingOf
    <3> QED BY <3>3, <3>4, <3>5, Zenon
  <2> QED BY <2>1, <2>2, Zenon
<1> HIDE DEF P, x
<1>4. /\ In(x) \subseteq Message /\ In(P) \subseteq Message
      /\ \A m \in Message : m.seq \in Nat
      /\ \A i, j \in DOMAIN P : i \in Int /\ j \in Int /\ P[i] \in Message
  <2>1. In(x) \subseteq Message
    BY <1>2 DEF In
  <2>2. In(P) \subseteq Message
    BY <1>3 DEF In
  <2>3. \A m \in Message : m.seq \in Nat
    BY DEF Message
  <2>4. \A i, j \in DOMAIN P : i \in Int /\ j \in Int /\ P[i] \in Message
    BY <1>3
  <2> QED BY <2>1, <2>2, <2>3, <2>4, Zenon
<1>5. \A m \in In(P), n \in out : n.from = t => n.seq # m.seq
  <2> SUFFICES ASSUME NEW m \in In(P), NEW n \in out, n.from = t PROVE n.seq # m.seq
    BY Zenon
  <2>1. n.seq < m.seq
    BY <1>3, Zenon
  <2>2. n.seq \in Nat /\ m.seq \in Nat
    BY <1>2, <1>4
  <2> QED BY <2>1, <2>2
<1>6. \A m, n \in In(P) : m.seq = n.seq => m = n
  <2> SUFFICES ASSUME NEW i \in DOMAIN P, NEW j \in DOMAIN P, P[i].seq = P[j].seq
               PROVE  P[i] = P[j]
    BY Zenon DEF In
  <2>1. P[i].from = t /\ P[j].from = t
    BY <1>3, Zenon DEF In
  <2>2. P[i].seq \in Nat /\ P[j].seq \in Nat /\ i \in Int /\ j \in Int
    BY <1>4, Zenon
  <2>3. ~(i < j) /\ ~(j < i)
    <3>1. i < j => P[i].seq < P[j].seq
      BY <1>3, <2>1, Zenon DEF Rising
    <3>2. j < i => P[j].seq < P[i].seq
      BY <1>3, <2>1, Zenon DEF Rising
    <3> QED BY <2>2, <3>1, <3>2
  <2>4. i = j
    BY <2>2, <2>3
  <2> QED BY <2>4, Zenon
<1>7. NoRepeat(P)
  <2> SUFFICES ASSUME NEW i \in DOMAIN P, NEW j \in DOMAIN P, P[i] = P[j]
               PROVE  i = j
    BY Zenon DEF NoRepeat
  <2>1. P[i].from = t /\ P[j].from = t
    BY <1>3, Zenon DEF In
  <2>2. P[i].seq \in Nat /\ P[j].seq \in Nat /\ i \in Int /\ j \in Int
    BY <1>4, Zenon
  <2>3. ~(i < j) /\ ~(j < i)
    <3>1. i < j => P[i].seq < P[j].seq
      BY <1>3, <2>1, Zenon DEF Rising
    <3>2. j < i => P[j].seq < P[i].seq
      BY <1>3, <2>1, Zenon DEF Rising
    <3> QED BY <2>2, <3>1, <3>2
  <2> QED BY <2>2, <2>3
<1>8. In(P) \cap out = {}
  BY <1>3, <1>5, Zenon
<1>9. /\ In(x \o P) = In(x) \cup In(P)
      /\ NoRepeat(x \o P) <=> NoRepeat(x) /\ NoRepeat(P) /\ In(x) \cap In(P) = {}
      /\ Rising(x \o P, t) <=>
            /\ Rising(x, t) /\ Rising(P, t)
            /\ \A m \in In(x), n \in In(P) : m.from = t /\ n.from = t => m.seq < n.seq
  BY <1>2, <1>3, InConcat, Zenon
<1>10. x \o P \in Seq(Message)
  BY <1>2, <1>3, Concat, Zenon
<1> DEFINE f == x \o P
<1> HIDE DEF f
<1>11. f \in Seq(Message) /\ In(f) = In(x) \cup In(P) /\ NoRepeat(f) /\ (Rising(f, t) <=> Rising(x, t))
  <2>1. In(x) \cap In(P) = {}
    BY <1>8
  <2>2. \A m \in In(x), n \in In(P) : m.from = t => m.seq < n.seq
    BY <1>3, Zenon
  <2> QED BY <1>2, <1>3, <1>7, <1>9, <1>10, <2>1, <2>2, Zenon DEF f
<1>12. In(f) \cap dropped = {}
  BY <1>2, <1>8, <1>11
<1>13. \A m, n \in In(f) \cup dropped : m.from = t /\ n.from = t /\ m.seq = n.seq => m = n
  <2> SUFFICES ASSUME NEW m \in out \cup In(P), NEW n \in out \cup In(P),
                      m.from = t, n.from = t, m.seq = n.seq
               PROVE  m = n
    BY <1>11
  <2>1. CASE m \in out /\ n \in out
    BY <1>2, <2>1, Zenon DEF SameKey
  <2>2. CASE m \in In(P) /\ n \in In(P)
    BY <1>6, <2>2, Zenon
  <2>3. CASE m \in In(P) /\ n \in out
    BY <1>5, <2>3, Zenon
  <2>4. CASE m \in out /\ n \in In(P)
    BY <1>5, <2>4, Zenon
  <2> QED BY <2>1, <2>2, <2>3, <2>4, Zenon
<1> QED BY <1>1, <1>3, <1>11, <1>12, <1>13, Zenon DEF FlowIs, f, x

\* The places are consistent at the start.
LEMMA PlaceInit == Init => PlaceInv
<1> SUFFICES ASSUME Init PROVE PlaceInv
  OBVIOUS
<1>1. /\ acked = <<>> /\ backlog.items = <<>> /\ output.items = <<>> /\ wait.items = <<>>
      /\ dropped = {} /\ aborted = {} /\ sent = [t \in Threads |-> 0]
      /\ input = [t \in InputThreads |-> Empty] /\ Empty.items = <<>>
  BY DEF Init, Empty
<1> DEFINE e == <<>>
<1>2. e \in Seq(Message) /\ DOMAIN e = {} /\ Path = e
  BY <1>1 DEF Path
<1>3. Pending = [t \in InputThreads |-> e]
  BY <1>1 DEF Pending
<1> HIDE DEF e
<1>4. In(e) = {} /\ NoRepeat(e) /\ \A t : Rising(e, t)
  BY <1>2 DEF In, NoRepeat, Rising
<1>5. \A t \in InputThreads : Pending[t] = e
  BY <1>3
<1>6. Pending \in [InputThreads -> Seq(Message)]
  BY <1>2, <1>3
<1>7. sent \in [Threads -> Nat] /\ \A t \in Threads : 1..sent[t] = {}
  BY <1>1
<1>8. acked \in Seq(Message)
  BY <1>1
<1>9. Placed(e, Pending, {}, sent)
  BY <1>2, <1>4, <1>5, <1>6, <1>7, Zenon DEF Placed
<1> QED BY <1>1, <1>2, <1>8, <1>9, Zenon DEF PlaceInv

\* Consistent places are what the property says.
LEMMA OnePlace == CountsInv /\ PlaceInv => EveryMessageInOnePlace
<1> SUFFICES ASSUME CountsInv, PlaceInv PROVE EveryMessageInOnePlace
  OBVIOUS
<1>1. aborted = {} /\ \A m \in dropped : ~m.fc
  BY Zenon DEF PlaceInv, Placed
<1>2. ASSUME NEW t \in Threads
      PROVE  /\ {Flow(t)[i].seq : i \in OnTheWay(t)} \cup {m.seq : m \in Gone(t)} = 1..sent[t]
             /\ \A i, j \in OnTheWay(t) : Flow(t)[i].seq = Flow(t)[j].seq => i = j
             /\ \A m, n \in Gone(t) : m.seq = n.seq => m = n
             /\ \A i \in OnTheWay(t), m \in Gone(t) : Flow(t)[i].seq # m.seq
  <2> DEFINE f == Flow(t)
             W == {i \in DOMAIN f : f[i].from = t}
             G == {m \in dropped : m.from = t}
  <2>1. OnTheWay(t) = W /\ Gone(t) = G
    BY <1>1 DEF OnTheWay, Gone
  <2>2. /\ In(f) = In(Path) \cup PendingOf(Pending, t) /\ NoRepeat(f) /\ In(f) \cap dropped = {}
        /\ \A m, n \in In(f) \cup dropped : m.from = t /\ n.from = t /\ m.seq = n.seq => m = n
    <3>1. FlowIs(t)
      BY FlowFacts, Zenon
    <3> QED BY <3>1, Zenon DEF FlowIs
  <2>3. /\ \A m \in In(Path) \cup dropped : m.from = t => m.seq \in 1..sent[t]
        /\ \A m \in PendingOf(Pending, t) : m.seq \in 1..sent[t]
        /\ \A k \in 1..sent[t] :
              \E m \in (In(Path) \cup dropped) \cup PendingOf(Pending, t) : m.from = t /\ m.seq = k
    BY Zenon DEF PlaceInv, Placed, PendingOf
  <2> HIDE DEF f
  <2>4. \A m \in In(f) : \E i \in DOMAIN f : m = f[i]
    BY Zenon DEF In
  <2>5. \A i \in DOMAIN f : f[i] \in In(f)
    BY Zenon DEF In
  <2>6. {f[i].seq : i \in W} \cup {m.seq : m \in G} = 1..sent[t]
    <3>1. ASSUME NEW i \in W PROVE f[i].seq \in 1..sent[t]
      BY <2>2, <2>3, <2>5
    <3>2. ASSUME NEW m \in G PROVE m.seq \in 1..sent[t]
      BY <2>3
    <3>3. ASSUME NEW k \in 1..sent[t]
          PROVE  (\E i \in W : k = f[i].seq) \/ \E m \in G : k = m.seq
      <4>1. PICK m \in (In(Path) \cup dropped) \cup PendingOf(Pending, t) : m.from = t /\ m.seq = k
        BY <2>3, Zenon
      <4>2. m \in In(f) \/ m \in dropped
        BY <2>2, Zenon
      <4> QED BY <2>4, <4>1, <4>2
    <3> HIDE DEF W, G
    <3> QED BY <3>1, <3>2, <3>3
  <2>7. \A i, j \in W : f[i].seq = f[j].seq => i = j
    BY <2>2, <2>5 DEF NoRepeat
  <2>8. \A m, n \in G : m.seq = n.seq => m = n
    BY <2>2
  <2>9. \A i \in W, m \in G : f[i].seq # m.seq
    BY <2>2, <2>5
  <2> HIDE DEF W, G
  <2> QED BY <2>1, <2>6, <2>7, <2>8, <2>9, Zenon DEF f
<1> QED BY <1>1, <1>2, Zenon DEF EveryMessageInOnePlace

\* Every message pushed to the queue is in exactly one place, on a list,
\* acknowledged or dropped, for any number of threads and messages, whatever
\* the output thread pops, acknowledges or rewinds meanwhile; only messages that
\* are not flow controlled are dropped, and a reload frees none.
THEOREM MessagesAreNeitherLostNorDuplicated == Spec => []EveryMessageInOnePlace
<1>1. CountsInv /\ PlaceInv /\ NoStrandedInput /\ [Next]_vars => PlaceInv'
  BY PlaceStep
<1> QED
  BY <1>1, PlaceInit, OnePlace, CountsInit, CountsStep, InputIsNeverStranded, PTL DEF Spec

\* The order of a thread's messages is that of the path: the input list, when
\* there is one, holds the youngest of them, in order.
PathInOrder == \A t \in Threads : Rising(Path, t)
LEMMA OrderOfThePath == CountsInv /\ PlaceInv => (InOrder <=> PathInOrder)
<1> SUFFICES ASSUME CountsInv, PlaceInv PROVE InOrder <=> PathInOrder
  OBVIOUS
<1>1. \A t \in Threads : Rising(Flow(t), t) <=> Rising(Path, t)
  BY FlowFacts, Zenon DEF FlowIs
<1>2. InOrder <=> \A t \in Threads : Rising(Flow(t), t)
  BY Zenon DEF InOrder, Rising, OnTheWay
<1> QED BY <1>1, <1>2, Zenon DEF PathInOrder

\* No step but rewind_backlog_all() changes the order on the path.
LEMMA OrderStep ==
  ASSUME CountsInv, PlaceInv, NoStrandedInput, [Next]_vars, ~RewindBacklogAll,
         NEW t \in Threads, Rising(Path, t)
  PROVE  Rising(Path', t)
<1>1. PathStep
  BY NextIsPathStep, Zenon
<1>2. Placed(Path, Pending, dropped, sent) /\ Path \in Seq(Message)
  BY Zenon DEF PlaceInv, Placed
<1>3. CASE UNCHANGED Path
  BY <1>3, Zenon
<1>4. CASE Settles
  <2>1. PICK u \in SlowThreads, m \in Message :
            /\ IsNext(u, m, sent) /\ Advanced(u, sent, sent')
            /\ Path' = Path \o <<m>> \/ Path' = Path
    BY <1>4, Zenon DEF Settles
  <2>2. u \in Threads
    BY DEF Threads
  <2>3. IsNew(Path, Pending, dropped, u, m, sent, sent')
    BY <1>2, <2>1, <2>2, NextIsNew, Zenon
  <2>4. \A n \in In(Path) : n.from = u => n.seq < m.seq
    BY <2>3, Zenon DEF IsNew
  <2>5. m.from = u
    BY <2>1, Zenon DEF IsNext
  <2>6. <<m>> \in Seq(Message) /\ In(<<m>>) = {m} /\ Rising(<<m>>, t)
    BY InOne, Zenon
  <2>7. Rising(Path \o <<m>>, t) <=>
            /\ Rising(Path, t) /\ Rising(<<m>>, t)
            /\ \A n \in In(Path), o \in In(<<m>>) : n.from = t /\ o.from = t => n.seq < o.seq
    BY <1>2, <2>6, InConcat, Zenon
  <2>8. Rising(Path \o <<m>>, t)
    BY <2>4, <2>5, <2>6, <2>7, Zenon
  <2> QED BY <2>1, <2>8, Zenon
<1>5. CASE Moves
  <2>1. PICK u \in InputThreads, kept \in Seq(Message), D \in SUBSET Message :
            /\ IsSplit(Pending[u], kept, D) /\ Rising(kept, u) /\ Path' = Path \o kept
    BY <1>5, Zenon DEF Moves
  <2>2. In(kept) \subseteq In(Pending[u])
    BY <2>1, Zenon DEF IsSplit
  <2>3. \A m \in In(kept) : m.from = u /\ \A n \in In(Path) : n.from = u => n.seq < m.seq
    BY <1>2, <2>2, Zenon DEF Placed
  <2>4. Rising(kept, t)
    <3>1. CASE t = u
      BY <2>1, <3>1, Zenon
    <3>2. CASE t # u
      BY <2>3, <3>2, Zenon DEF Rising, In
    <3> QED BY <3>1, <3>2, Zenon
  <2>5. Rising(Path \o kept, t) <=>
            /\ Rising(Path, t) /\ Rising(kept, t)
            /\ \A n \in In(Path), m \in In(kept) : n.from = t /\ m.from = t => n.seq < m.seq
    BY <1>2, <2>1, InConcat, Zenon
  <2> QED BY <2>1, <2>3, <2>4, <2>5, Zenon
<1> QED BY <1>1, <1>3, <1>4, <1>5, Zenon DEF PathStep, Stays, Pushes

\* The messages of a thread keep their order through every push, move of an
\* input list, drop, refill, acknowledgement, partial rewind and reload; only
\* rewind_backlog_all() may change it.
THEOREM OrderIsKept == Spec => OrderLostOnlyByRewindAll
<1>1. /\ CountsInv /\ PlaceInv /\ NoStrandedInput /\ CountsInv' /\ PlaceInv' /\ [Next]_vars
      => [InOrder => InOrder' \/ RewindBacklogAll]_vars
  <2> SUFFICES ASSUME CountsInv, PlaceInv, NoStrandedInput, CountsInv', PlaceInv', [Next]_vars,
                      InOrder, ~RewindBacklogAll
               PROVE  InOrder'
    BY Zenon
  <2>1. \A t \in Threads : Rising(Path, t)
    BY OrderOfThePath, Zenon DEF PathInOrder
  <2>2. \A t \in Threads : Rising(Path', t)
    BY <2>1, OrderStep, Zenon
  <2>3. CountsInv' /\ PlaceInv' => (InOrder' <=> PathInOrder')
    BY OrderOfThePath, PTL
  <2> QED BY <2>2, <2>3, Zenon DEF PathInOrder
<1>2. CountsInv /\ PlaceInv /\ NoStrandedInput /\ [Next]_vars => PlaceInv'
  BY PlaceStep
<1> QED
  BY <1>1, <1>2, PlaceInit, CountsInit, CountsStep, InputIsNeverStranded, PTL
     DEF Spec, OrderLostOnlyByRewindAll

===========================================================================
