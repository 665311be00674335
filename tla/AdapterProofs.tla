--------------------------- MODULE AdapterProofs ---------------------------
(***************************************************************************)
(* Proofs about module Adapter, for every adapter, capacity, batch size,   *)
(* number of messages and of starts, and every assignment of devices.      *)
(***************************************************************************)
EXTENDS Adapter, SequenceTheorems, TLAPS

LEMMA Bounds == /\ Cap \in Nat /\ Cap >= 1 /\ AlarmBatch \in Nat /\ AlarmBatch >= 1
                /\ MaxMsg \in Nat /\ MaxStarts \in Nat
BY QueueAssumption, AdapterBounds

-----------------------------------------------------------------------------
(* Queues of messages in increasing order.                                  *)

Ups(q) == \A i, j \in 1 .. Len(q) : i < j => q[i] < q[j]
\* Every message of p is older than every one of q.
Before(p, q) == \A x \in ToSet(p), y \in ToSet(q) : x < y
Queue == {q \in Seq(Msg) : Ups(q)}

LEMMA InQueue ==
    ASSUME NEW q \in Seq(Msg)
    PROVE  /\ Len(q) \in Nat /\ DOMAIN q = 1 .. Len(q) /\ \A i \in 1 .. Len(q) : q[i] \in Msg
           /\ ToSet(q) = {q[i] : i \in 1 .. Len(q)} /\ ToSet(q) \subseteq Msg
BY DEF ToSet

LEMMA NoneInQueue == <<>> \in Queue /\ ToSet(<<>>) = {} /\ Len(<<>>) = 0
BY DEF Queue, Ups, ToSet

\* A queue cut in two.
LEMMA Cut ==
    ASSUME NEW q \in Queue, NEW n \in 0 .. Len(q)
    PROVE  LET u == SubSeq(q, 1, n)  v == SubSeq(q, n + 1, Len(q))
           IN  /\ u \in Queue /\ Len(u) = n /\ v \in Queue /\ Len(v) = Len(q) - n
               /\ \A i \in 1 .. n : u[i] = q[i]
               /\ \A i \in 1 .. Len(q) - n : v[i] = q[n + i]
<1>0. q \in Seq(Msg) /\ Len(q) \in Nat /\ n \in Nat /\ \A i \in 1 .. Len(q) : q[i] \in Msg
  BY InQueue DEF Queue
<1> DEFINE u == SubSeq(q, 1, n)  v == SubSeq(q, n + 1, Len(q))
<1>1. u \in Seq(Msg) /\ Len(u) = n /\ \A i \in 1 .. n : u[i] = q[i]
  <2>1. \A i \in 1 .. n : q[i] \in Msg
    BY <1>0
  <2>2. /\ u \in Seq(Msg) /\ Len(u) = IF 1 <= n THEN n - 1 + 1 ELSE 0
        /\ \A i \in 1 .. n - 1 + 1 : u[i] = q[1 + i - 1]
    BY <1>0, <2>1, SubSeqProperties
  <2> HIDE DEF u
  <2> QED BY <1>0, <2>2
<1>2. v \in Seq(Msg) /\ Len(v) = Len(q) - n /\ \A i \in 1 .. Len(q) - n : v[i] = q[n + i]
  <2>1. (\A i \in n + 1 .. Len(q) : q[i] \in Msg) /\ n + 1 \in Int /\ Len(q) \in Int
    BY <1>0
  <2>2. /\ v \in Seq(Msg) /\ Len(v) = IF n + 1 <= Len(q) THEN Len(q) - (n + 1) + 1 ELSE 0
        /\ \A i \in 1 .. Len(q) - (n + 1) + 1 : v[i] = q[n + 1 + i - 1]
    BY <2>1, SubSeqProperties
  <2> HIDE DEF v
  <2> QED BY <1>0, <2>2
<1> HIDE DEF u, v
<1>3. Ups(u)
  BY <1>0, <1>1 DEF Queue, Ups
<1>4. Ups(v)
  <2> SUFFICES ASSUME NEW i \in 1 .. Len(v), NEW j \in 1 .. Len(v), i < j PROVE v[i] < v[j]
    BY DEF Ups
  <2>1. n + i \in 1 .. Len(q) /\ n + j \in 1 .. Len(q) /\ n + i < n + j
    BY <1>0, <1>2
  <2>2. q[n + i] < q[n + j]
    BY <2>1 DEF Queue, Ups
  <2> QED BY <1>2, <2>2
<1>5. u \in Queue /\ v \in Queue
  BY <1>1, <1>2, <1>3, <1>4 DEF Queue
<1> QED BY <1>1, <1>2, <1>5 DEF u, v

\* One queue after another, older one.
LEMMA Joined ==
    ASSUME NEW p \in Queue, NEW q \in Queue, Before(p, q)
    PROVE  /\ p \o q \in Queue /\ Len(p \o q) = Len(p) + Len(q)
           /\ \A i \in 1 .. Len(p) : (p \o q)[i] = p[i]
           /\ ToSet(p \o q) = ToSet(p) \cup ToSet(q)
<1> DEFINE r == p \o q
<1>0. /\ p \in Seq(Msg) /\ q \in Seq(Msg) /\ Len(p) \in Nat /\ Len(q) \in Nat
      /\ ToSet(p) = {p[i] : i \in 1 .. Len(p)} /\ ToSet(q) = {q[i] : i \in 1 .. Len(q)}
  BY InQueue DEF Queue
<1>1. /\ r \in Seq(Msg) /\ Len(r) = Len(p) + Len(q)
      /\ \A i \in 1 .. Len(p) + Len(q) : r[i] = IF i <= Len(p) THEN p[i] ELSE q[i - Len(p)]
  BY <1>0, ConcatProperties
<1> HIDE DEF r
<1>2. \A i \in 1 .. Len(p) : r[i] = p[i]
  BY <1>0, <1>1
<1>3. ASSUME NEW i \in 1 .. Len(q) PROVE Len(p) + i \in 1 .. Len(r) /\ r[Len(p) + i] = q[i]
  <2>1. Len(p) + i \in 1 .. Len(p) + Len(q) /\ ~(Len(p) + i <= Len(p)) /\ Len(p) + i - Len(p) = i
    BY <1>0
  <2> QED BY <1>1, <2>1
<1>4. \A i \in 1 .. Len(r) : i \in 1 .. Len(p) \/ (i - Len(p) \in 1 .. Len(q) /\ r[i] = q[i - Len(p)])
  BY <1>0, <1>1
<1>5. Ups(r)
  <2> SUFFICES ASSUME NEW i \in 1 .. Len(r), NEW j \in 1 .. Len(r), i < j PROVE r[i] < r[j]
    BY DEF Ups
  <2>1. CASE j \in 1 .. Len(p)
    <3>1. i \in 1 .. Len(p)
      BY <1>0, <2>1
    <3> QED BY <1>2, <2>1, <3>1 DEF Queue, Ups
  <2>2. CASE i \in 1 .. Len(p) /\ j - Len(p) \in 1 .. Len(q) /\ r[j] = q[j - Len(p)]
    <3>1. p[i] \in ToSet(p) /\ q[j - Len(p)] \in ToSet(q)
      BY <1>0, <2>2
    <3> QED BY <1>2, <2>2, <3>1 DEF Before
  <2>3. CASE /\ i - Len(p) \in 1 .. Len(q) /\ r[i] = q[i - Len(p)]
             /\ j - Len(p) \in 1 .. Len(q) /\ r[j] = q[j - Len(p)]
    <3>1. i - Len(p) < j - Len(p)
      BY <1>0
    <3> QED BY <2>3, <3>1 DEF Queue, Ups
  <2> QED BY <1>4, <2>1, <2>2, <2>3
<1>6. ToSet(r) = {r[i] : i \in 1 .. Len(r)}
  BY <1>1, InQueue
<1>7. \A i \in 1 .. Len(p) : i \in 1 .. Len(r)
  BY <1>0, <1>1
<1>8. ToSet(r) \subseteq ToSet(p) \cup ToSet(q)
  BY <1>0, <1>2, <1>4, <1>6
<1>9. ToSet(p) \cup ToSet(q) \subseteq ToSet(r)
  BY <1>0, <1>2, <1>3, <1>6, <1>7
<1>10. r \in Queue
  BY <1>1, <1>5 DEF Queue
<1> QED BY <1>1, <1>2, <1>8, <1>9, <1>10 DEF r

\* The two parts of a queue hold what it held, the older messages first.
LEMMA CutSets ==
    ASSUME NEW q \in Queue, NEW n \in 0 .. Len(q)
    PROVE  LET u == SubSeq(q, 1, n)  v == SubSeq(q, n + 1, Len(q))
           IN  /\ ToSet(q) = ToSet(u) \cup ToSet(v) /\ Before(u, v)
               /\ ToSet(u) = {q[i] : i \in 1 .. n} /\ ToSet(v) = {q[i] : i \in n + 1 .. Len(q)}
<1> DEFINE u == SubSeq(q, 1, n)  v == SubSeq(q, n + 1, Len(q))
<1>0. q \in Seq(Msg) /\ Len(q) \in Nat /\ n \in Nat /\ ToSet(q) = {q[i] : i \in 1 .. Len(q)}
  BY InQueue DEF Queue
<1>1. /\ u \in Queue /\ Len(u) = n /\ v \in Queue /\ Len(v) = Len(q) - n
      /\ \A i \in 1 .. n : u[i] = q[i]
      /\ \A i \in 1 .. Len(q) - n : v[i] = q[n + i]
  BY Cut
<1> HIDE DEF u, v
<1>2. ToSet(u) = {u[i] : i \in 1 .. n} /\ ToSet(v) = {v[i] : i \in 1 .. Len(q) - n}
  BY <1>1, InQueue DEF Queue
<1>3. ToSet(u) = {q[i] : i \in 1 .. n}
  <2>1. \A x : x \in ToSet(u) <=> \E i \in 1 .. n : x = u[i]
    BY <1>2
  <2>2. \A x : x \in ToSet(u) <=> x \in {q[i] : i \in 1 .. n}
    BY <1>1, <2>1
  <2> QED BY <2>2
<1>4. ToSet(v) = {q[i] : i \in n + 1 .. Len(q)}
  <2>1. \A i \in 1 .. Len(q) - n : n + i \in n + 1 .. Len(q)
    BY <1>0
  <2>2. \A i \in n + 1 .. Len(q) : i - n \in 1 .. Len(q) - n /\ v[i - n] = q[i]
    <3>1. \A i \in n + 1 .. Len(q) : i - n \in 1 .. Len(q) - n /\ n + (i - n) = i
      BY <1>0
    <3> QED BY <1>1, <3>1
  <2>3. \A x : x \in ToSet(v) <=> \E i \in 1 .. Len(q) - n : x = v[i]
    BY <1>2
  <2>4. ASSUME NEW x \in ToSet(v) PROVE x \in {q[i] : i \in n + 1 .. Len(q)}
    BY <1>1, <2>1, <2>3
  <2>5. ASSUME NEW i \in n + 1 .. Len(q) PROVE q[i] \in ToSet(v)
    BY <2>2, <2>3
  <2> QED BY <2>4, <2>5
<1>5. \A i \in 1 .. Len(q) : i \in 1 .. n \/ i \in n + 1 .. Len(q)
  BY <1>0
<1>6. \A i \in 1 .. n : i \in 1 .. Len(q)
  BY <1>0
<1>7. \A i \in n + 1 .. Len(q) : i \in 1 .. Len(q)
  BY <1>0
<1>8. ToSet(q) = ToSet(u) \cup ToSet(v)
  BY <1>0, <1>3, <1>4, <1>5, <1>6, <1>7
<1>9. Before(u, v)
  <2> SUFFICES ASSUME NEW i \in 1 .. n, NEW j \in n + 1 .. Len(q) PROVE q[i] < q[j]
    BY <1>3, <1>4 DEF Before
  <2>1. i < j
    BY <1>0
  <2> QED BY <1>6, <1>7, <2>1 DEF Queue, Ups
<1> QED BY <1>3, <1>4, <1>8, <1>9 DEF u, v

\* appendQueueItemWithCap: what goes is older than all that stays.
LEMMA Appending ==
    ASSUME NEW q \in Queue, Len(q) <= Cap, NEW m \in Msg, \A x \in ToSet(q) : x < m
    PROVE  LET r == Appended(q, m)
           IN  /\ r \in Queue /\ Len(r) <= Cap /\ m \in ToSet(r)
               /\ ToSet(r) \subseteq ToSet(q) \cup {m}
               /\ \A x \in ToSet(q) \ ToSet(r), y \in ToSet(r) : x < y
<1> DEFINE q0 == IF Len(q) >= Cap THEN Tail(q) ELSE q
           r == Appended(q, m)
<1>0. q \in Seq(Msg) /\ Len(q) \in Nat /\ Cap \in Nat /\ Cap >= 1
  BY InQueue, Bounds DEF Queue
<1>1. /\ q0 \in Queue /\ Len(q0) + 1 <= Cap /\ ToSet(q0) \subseteq ToSet(q)
      /\ \A x \in ToSet(q) \ ToSet(q0), y \in ToSet(q0) : x < y
  <2>1. CASE Len(q) >= Cap
    <3>1. q # <<>> /\ 1 \in 0 .. Len(q) /\ q0 = SubSeq(q, 1 + 1, Len(q))
      BY <1>0, <2>1, TailIsSubSeq
    <3> DEFINE v == SubSeq(q, 1 + 1, Len(q))  u == SubSeq(q, 1, 1)
    <3>2. v \in Queue /\ Len(v) = Len(q) - 1
      BY <3>1, Cut
    <3>3. ToSet(q) = ToSet(u) \cup ToSet(v) /\ Before(u, v)
      BY <3>1, CutSets
    <3> HIDE DEF v, u, q0
    <3>4. q0 = v
      BY <3>1 DEF v
    <3> QED BY <1>0, <3>2, <3>3, <3>4 DEF Before
  <2>2. CASE ~(Len(q) >= Cap)
    BY <1>0, <2>2
  <2> QED BY <2>1, <2>2
<1>2. r = Append(q0, m)
  BY DEF Appended
<1> HIDE DEF q0, r
<1>3. r = q0 \o <<m>>
  BY <1>1, <1>2, AppendIsConcat DEF Queue
<1>4. <<m>> \in Queue /\ Len(<<m>>) = 1 /\ ToSet(<<m>>) = {m}
  BY DEF Queue, Ups, ToSet
<1>5. Before(q0, <<m>>)
  BY <1>1, <1>4 DEF Before
<1>6. r \in Queue /\ Len(r) = Len(q0) + 1 /\ ToSet(r) = ToSet(q0) \cup {m}
  BY <1>1, <1>3, <1>4, <1>5, Joined
<1>7. ASSUME NEW x \in ToSet(q) \ ToSet(r), NEW y \in ToSet(r) PROVE x < y
  BY <1>1, <1>6
<1> QED BY <1>1, <1>6, <1>7 DEF r

\* prependQueueWithCap: of what is put back nothing is cut.
LEMMA Prepending ==
    ASSUME NEW p \in Queue, NEW q \in Queue, Before(p, q), Len(p) <= Cap
    PROVE  LET r == Prepended(q, p)
           IN  /\ r \in Queue /\ Len(r) <= Cap
               /\ ToSet(p) \subseteq ToSet(r) /\ ToSet(r) \subseteq ToSet(p) \cup ToSet(q)
<1> DEFINE n == IF Len(q) + Len(p) > Cap THEN Cap ELSE Len(q) + Len(p)
           s == p \o q
           r == SubSeq(s, 1, n)
<1>0. Cap \in Nat /\ Len(p) \in Nat /\ Len(q) \in Nat /\ r = Prepended(q, p)
  BY InQueue, Bounds DEF Queue, Prepended
<1>1. /\ s \in Queue /\ Len(s) = Len(p) + Len(q) /\ \A i \in 1 .. Len(p) : s[i] = p[i]
      /\ ToSet(s) = ToSet(p) \cup ToSet(q)
  BY Joined
<1>2. n \in 0 .. Len(s) /\ n <= Cap /\ Len(p) <= n
  BY <1>0, <1>1
<1> HIDE DEF n, s
<1>3. r \in Queue /\ Len(r) = n
  BY <1>1, <1>2, Cut
<1>4. ToSet(r) \subseteq ToSet(s) /\ ToSet(r) = {s[i] : i \in 1 .. n}
  BY <1>1, <1>2, CutSets
<1>5. ToSet(p) = {p[i] : i \in 1 .. Len(p)}
  BY InQueue DEF Queue
<1>6. \A i \in 1 .. Len(p) : i \in 1 .. n
  BY <1>0, <1>2
<1>7. ToSet(p) \subseteq ToSet(r)
  BY <1>1, <1>4, <1>5, <1>6
<1> HIDE DEF r
<1> QED BY <1>0, <1>1, <1>2, <1>3, <1>4, <1>7

-----------------------------------------------------------------------------
(* One kind of messages: q waits, b is being flushed and published up to i, *)
(* a has arrived, l is lost, n is the next number; o: a batch is one        *)
(* message.                                                                 *)

Sup(s) == {x \in ToSet(s) : \E y \in ToSet(s) : y > x /\ DevOf[y] = DevOf[x]}

\* What has not arrived is newer than all that has, or a newer message of its
\* device waits with it.
Settled(o, s, a) ==
    \A x \in ToSet(s) : x \in a \/ (\A y \in a : y < x) \/ (o /\ x \in Sup(s))

Fine(o, q, b, i, a, l, n) ==
    /\ q \in Queue /\ Len(q) <= Cap /\ b \in Queue /\ Len(b) <= Cap /\ i \in Nat
    /\ n \in 1 .. MaxMsg + 1 /\ ToSet(q) \cup ToSet(b) \cup a \cup l \subseteq 1 .. n - 1
    /\ Before(b, q) /\ Settled(o, q, a) /\ Settled(o, b, a)
    /\ \A j \in 1 .. Len(b) : j <= i => b[j] \in a \cup l /\ (o \/ b[j] \in a)
    /\ o /\ b # <<>> => \A x \in a, y \in ToSet(q) : x < y

\* All that was accepted is accounted for.
Whole(q, b, a, l, n) == 1 .. n - 1 = ToSet(q) \cup ToSet(b) \cup a \cup l

\* What waits has not arrived.
Once(q, b, i, a) == /\ ToSet(q) \cap a = {}
                    /\ \A j \in 1 .. Len(b) : j > i => b[j] \notin a

\* A message is accepted.
LEMMA FineSend ==
    ASSUME NEW o \in BOOLEAN, NEW q, NEW b, NEW i, NEW a, NEW l, NEW n,
           Fine(o, q, b, i, a, l, n), n <= MaxMsg
    PROVE  LET r == Appended(q, n)  d == l \cup (ToSet(q) \ ToSet(r))
           IN  /\ Fine(o, r, b, i, a, d, n + 1)
               /\ Whole(q, b, a, l, n) => Whole(r, b, a, d, n + 1)
               /\ Once(q, b, i, a) => Once(r, b, i, a)
<1> DEFINE r == Appended(q, n)  d == l \cup (ToSet(q) \ ToSet(r))
<1>0. /\ q \in Queue /\ Len(q) <= Cap /\ b \in Queue /\ Len(b) <= Cap /\ i \in Nat
      /\ n \in Msg /\ n + 1 \in 1 .. MaxMsg + 1 /\ n \in Nat /\ 1 .. n + 1 - 1 = 1 .. n - 1 \cup {n}
  BY Bounds DEF Fine, Msg
<1>1. /\ \A x \in ToSet(q) \cup ToSet(b) \cup a \cup l : x < n /\ x \in Nat /\ x \in 1 .. n - 1
  BY DEF Fine
<1>2. /\ r \in Queue /\ Len(r) <= Cap /\ n \in ToSet(r) /\ ToSet(r) \subseteq ToSet(q) \cup {n}
      /\ \A x \in ToSet(q) \ ToSet(r), y \in ToSet(r) : x < y
  BY <1>0, <1>1, Appending
<1> HIDE DEF r
<1>3. ToSet(r) \cup ToSet(b) \cup a \cup d \subseteq 1 .. n + 1 - 1
  BY <1>0, <1>1, <1>2
<1>4. Before(b, r)
  BY <1>1, <1>2 DEF Fine, Before
<1>5. Settled(o, r, a)
  <2> SUFFICES ASSUME NEW x \in ToSet(r) PROVE x \in a \/ (\A y \in a : y < x) \/ (o /\ x \in Sup(r))
    BY DEF Settled
  <2>1. CASE x = n
    BY <1>1, <2>1
  <2>2. CASE x \in ToSet(q) /\ x \in Sup(q)
    <3>1. PICK y \in ToSet(q) : y > x /\ DevOf[y] = DevOf[x]
      BY <2>2 DEF Sup
    <3>2. y \in ToSet(r)
      BY <1>1, <1>2, <2>2, <3>1
    <3>3. x \in Sup(r)
      BY <3>1, <3>2 DEF Sup
    <3>4. x \in a \/ (\A z \in a : z < x) \/ o
      BY <2>2 DEF Fine, Settled
    <3> QED BY <3>3, <3>4
  <2>3. CASE x \in ToSet(q) /\ x \notin Sup(q)
    BY <2>3 DEF Fine, Settled
  <2> QED BY <1>2, <2>1, <2>2, <2>3
<1>6. o /\ b # <<>> => \A x \in a, y \in ToSet(r) : x < y
  BY <1>1, <1>2 DEF Fine
<1>7. \A j \in 1 .. Len(b) : j <= i => b[j] \in a \cup d /\ (o \/ b[j] \in a)
  BY DEF Fine
<1>8. Settled(o, b, a)
  BY DEF Fine
<1>9. Fine(o, r, b, i, a, d, n + 1)
  <2> HIDE DEF d
  <2> QED BY <1>0, <1>2, <1>3, <1>4, <1>5, <1>6, <1>7, <1>8 DEF Fine
<1>10. Whole(q, b, a, l, n) => Whole(r, b, a, d, n + 1)
  BY <1>0, <1>2 DEF Whole
<1>11. Once(q, b, i, a) => Once(r, b, i, a)
  BY <1>1, <1>2 DEF Once
<1> QED BY <1>9, <1>10, <1>11 DEF r

\* A batch is taken, the whole queue when the batch is to be one message.
LEMMA FineTake ==
    ASSUME NEW o \in BOOLEAN, NEW q, NEW i, NEW a, NEW l, NEW n, NEW m \in 0 .. Len(q),
           Fine(o, q, <<>>, i, a, l, n), o => m = Len(q)
    PROVE  LET u == SubSeq(q, 1, m)  v == SubSeq(q, m + 1, Len(q))
           IN  /\ Fine(o, v, u, 0, a, l, n) /\ Len(u) = m
               /\ Whole(q, <<>>, a, l, n) => Whole(v, u, a, l, n)
               /\ Once(q, <<>>, i, a) => Once(v, u, 0, a)
<1> DEFINE u == SubSeq(q, 1, m)  v == SubSeq(q, m + 1, Len(q))
<1>0. q \in Queue /\ Len(q) <= Cap /\ Len(q) \in Nat /\ m \in Nat /\ m <= Len(q) /\ Cap \in Nat
  BY InQueue, Bounds DEF Fine, Queue
<1>1. u \in Queue /\ Len(u) = m /\ v \in Queue /\ Len(v) = Len(q) - m
  BY <1>0, Cut
<1>2. ToSet(q) = ToSet(u) \cup ToSet(v) /\ Before(u, v)
  BY <1>0, CutSets
<1> HIDE DEF u, v
<1>3. o => ToSet(v) = {}
  <2>1. Len(v) = 0 => ToSet(v) = {}
    <3>1. v \in Seq(Msg)
      BY <1>1 DEF Queue
    <3>2. ToSet(v) = {v[k] : k \in 1 .. Len(v)}
      BY <3>1, InQueue
    <3> QED BY <3>2
  <2> QED BY <1>0, <1>1, <2>1
<1>4. Settled(o, v, a)
  BY <1>2, <1>3 DEF Fine, Settled
<1>5. Settled(o, u, a)
  <2>1. CASE o
    <3>1. ToSet(u) = ToSet(q)
      BY <1>2, <1>3, <2>1
    <3> QED BY <3>1 DEF Fine, Settled, Sup
  <2>2. CASE ~o
    BY <1>2, <2>2 DEF Fine, Settled
  <2> QED BY <2>1, <2>2
<1>6. ToSet(v) \cup ToSet(u) \cup a \cup l \subseteq 1 .. n - 1 /\ n \in 1 .. MaxMsg + 1
  BY <1>2 DEF Fine
<1>7. \A j \in 1 .. Len(u) : ~(j <= 0)
  BY <1>0, <1>1
<1>8. o /\ u # <<>> => \A x \in a, y \in ToSet(v) : x < y
  BY <1>3
<1>9. Fine(o, v, u, 0, a, l, n)
  BY <1>0, <1>1, <1>2, <1>4, <1>5, <1>6, <1>7, <1>8 DEF Fine
<1>10. Whole(q, <<>>, a, l, n) => Whole(v, u, a, l, n)
  BY <1>2, NoneInQueue DEF Whole
<1>11. \A j \in 1 .. Len(u) : u[j] \in ToSet(u)
  BY <1>1, InQueue DEF Queue
<1>12. Once(q, <<>>, i, a) => Once(v, u, 0, a)
  BY <1>2, <1>11 DEF Once
<1> QED BY <1>1, <1>9, <1>10, <1>12 DEF u, v

\* What a publish carries: Carried, of a batch b published up to i.
Sent(o, b, i) == IF o THEN ToSet(b) \ Sup(b) ELSE {b[i + 1]}

LEMMA FineSent ==
    ASSUME NEW o \in BOOLEAN, NEW q, NEW b, NEW i, NEW a, NEW l, NEW n,
           Fine(o, q, b, i, a, l, n), i < Len(b), o => i = 0
    PROVE  /\ i + 1 \in 1 .. Len(b) /\ Len(b) \in Nat /\ b # <<>>
           /\ Sent(o, b, i) \subseteq ToSet(b) /\ Sup(b) \subseteq ToSet(b)
           /\ \A j \in 1 .. Len(b) : b[j] \in ToSet(b)
           /\ \A x \in Sent(o, b, i) \ a, y \in a : ~(x < y)
           /\ Fine(o, q, b, i, a \cup Sent(o, b, i), l, n)
<1> DEFINE c == Sent(o, b, i)
<1>0. /\ q \in Queue /\ b \in Queue /\ b \in Seq(Msg) /\ Len(b) \in Nat /\ i \in Nat
      /\ ToSet(b) = {b[j] : j \in 1 .. Len(b)}
  BY InQueue DEF Fine, Queue
<1>1. i + 1 \in 1 .. Len(b) /\ b # <<>>
  BY <1>0
<1>2. c \subseteq ToSet(b) /\ Sup(b) \subseteq ToSet(b)
  BY <1>0, <1>1 DEF Sup, Sent
<1>3. \A x \in c : ~o \/ x \notin Sup(b)
  BY DEF Sent
<1>4. \A x \in ToSet(q) \cup ToSet(b) \cup a : x \in Nat
  BY DEF Fine
<1>5. ASSUME NEW x \in c \ a, NEW y \in a PROVE y < x
  BY <1>2, <1>3, <1>5 DEF Fine, Settled
<1>6. ASSUME NEW x \in c \ a, NEW y \in a PROVE ~(x < y)
  BY <1>2, <1>4, <1>5
<1>7. Settled(o, q, a \cup c)
  BY <1>2 DEF Fine, Settled, Before
<1>8. Settled(o, b, a \cup c)
  <2>1. CASE o
    BY <2>1 DEF Settled, Sent
  <2>2. CASE ~o
    <3> SUFFICES ASSUME NEW j \in 1 .. Len(b)
                 PROVE b[j] \in a \cup c \/ \A y \in a \cup c : y < b[j]
      BY <1>0 DEF Settled
    <3>1. CASE j <= i
      BY <2>2, <3>1 DEF Fine
    <3>2. CASE j = i + 1
      BY <2>2, <3>2 DEF Sent
    <3>3. CASE j > i + 1
      <4>1. c = {b[i + 1]} /\ b[i + 1] < b[j]
        BY <1>0, <1>1, <2>2, <3>3 DEF Queue, Ups, Sent
      <4>2. b[j] \in a \/ \A y \in a : y < b[j]
        BY <1>0, <2>2 DEF Fine, Settled
      <4> QED BY <4>1, <4>2
    <3> QED BY <1>0, <3>1, <3>2, <3>3
  <2> QED BY <2>1, <2>2
<1>9. o /\ b # <<>> => \A x \in a \cup c, y \in ToSet(q) : x < y
  BY <1>2 DEF Fine, Before
<1>10. ToSet(q) \cup ToSet(b) \cup (a \cup c) \cup l \subseteq 1 .. n - 1
  BY <1>2 DEF Fine
<1>11. \A j \in 1 .. Len(b) : j <= i => b[j] \in (a \cup c) \cup l /\ (o \/ b[j] \in (a \cup c))
  BY DEF Fine
<1> HIDE DEF c
<1>12. Fine(o, q, b, i, a \cup c, l, n)
  BY <1>7, <1>8, <1>9, <1>10, <1>11 DEF Fine
<1> QED BY <1>0, <1>1, <1>2, <1>6, <1>12 DEF c

\* A publish succeeds.
LEMMA FinePublished ==
    ASSUME NEW o \in BOOLEAN, NEW q, NEW b, NEW i, NEW a, NEW l, NEW n,
           Fine(o, q, b, i, a, l, n), i < Len(b), o => i = 0
    PROVE  LET c == Sent(o, b, i)
               j == IF o THEN Len(b) ELSE i + 1
               d == l \cup (IF o THEN Sup(b) ELSE {})
           IN  /\ Fine(o, q, b, j, a \cup c, d, n) /\ j <= Len(b)
               /\ Whole(q, b, a, l, n) => Whole(q, b, a \cup c, d, n)
               /\ Once(q, b, i, a) => Once(q, b, j, a \cup c)
<1> DEFINE c == Sent(o, b, i)
           j == IF o THEN Len(b) ELSE i + 1
           d == l \cup (IF o THEN Sup(b) ELSE {})
<1>0. /\ Fine(o, q, b, i, a \cup c, l, n) /\ i + 1 \in 1 .. Len(b) /\ Len(b) \in Nat /\ i \in Nat
      /\ c \subseteq ToSet(b) /\ Sup(b) \subseteq ToSet(b)
      /\ \A k \in 1 .. Len(b) : b[k] \in ToSet(b)
  <2>1. i \in Nat
    BY DEF Fine
  <2> HIDE DEF c
  <2>2. /\ i + 1 \in 1 .. Len(b) /\ Len(b) \in Nat
        /\ c \subseteq ToSet(b) /\ Sup(b) \subseteq ToSet(b)
        /\ \A k \in 1 .. Len(b) : b[k] \in ToSet(b)
    BY FineSent DEF c
  <2>3. Fine(o, q, b, i, a \cup c, l, n)
    BY FineSent DEF c
  <2> QED BY <2>1, <2>2, <2>3
<1>1. j \in Nat /\ j <= Len(b)
  BY <1>0
<1>2. \A k \in 1 .. Len(b) : k <= j => b[k] \in (a \cup c) \cup d /\ (o \/ b[k] \in (a \cup c))
  <2>1. CASE o
    BY <1>0, <2>1 DEF Sent
  <2>2. CASE ~o
    <3> SUFFICES ASSUME NEW k \in 1 .. Len(b), k <= i + 1 PROVE b[k] \in a \cup c
      BY <2>2
    <3>1. CASE k <= i
      BY <2>2, <3>1 DEF Fine
    <3>2. CASE k = i + 1
      BY <2>2, <3>2 DEF Sent
    <3> QED BY <1>0, <3>1, <3>2
  <2> QED BY <2>1, <2>2
<1>3. ToSet(q) \cup ToSet(b) \cup (a \cup c) \cup d \subseteq 1 .. n - 1
  BY <1>0 DEF Fine
<1>4. Whole(q, b, a, l, n) => Whole(q, b, a \cup c, d, n)
  BY <1>0 DEF Whole
<1>5. ASSUME Once(q, b, i, a) PROVE Once(q, b, j, a \cup c)
  <2>1. \A x \in ToSet(b) : x \notin ToSet(q)
    <3>1. \A x \in ToSet(b), y \in ToSet(q) : x < y /\ x \in Nat /\ y \in Nat
      BY DEF Fine, Before
    <3> QED BY <3>1
  <2>2. ToSet(q) \cap (a \cup c) = {}
    BY <1>0, <1>5, <2>1 DEF Once
  <2>3. CASE o
    <3>1. \A k \in 1 .. Len(b) : k > i
      BY <1>0, <2>3
    <3>2. \A x \in ToSet(b) : x \notin a
      <4>1. ToSet(b) = {b[k] : k \in 1 .. Len(b)}
        BY InQueue DEF Fine, Queue
      <4> QED BY <1>5, <3>1, <4>1 DEF Once
    <3>3. \A k \in 1 .. Len(b) : ~(k > j)
      BY <1>0, <2>3
    <3> QED BY <1>0, <2>2, <3>2, <3>3 DEF Once
  <2>4. CASE ~o
    <3>1. c = {b[i + 1]} /\ b[i + 1] \notin a
      BY <1>0, <1>5, <2>4 DEF Sent, Once
    <3>2. ASSUME NEW k \in 1 .. Len(b), k > i + 1 PROVE b[k] \notin a \cup c
      <4>1. b[i + 1] < b[k] /\ b[i + 1] \in Nat
        BY <1>0, <3>2 DEF Fine, Queue, Ups
      <4> QED BY <1>0, <1>5, <3>1, <3>2, <4>1 DEF Once
    <3> QED BY <2>2, <2>4, <3>1, <3>2 DEF Once
  <2> QED BY <2>3, <2>4
<1> HIDE DEF c, j, d
<1>6. Fine(o, q, b, j, a \cup c, d, n)
  BY <1>0, <1>1, <1>2, <1>3 DEF Fine
<1> QED BY <1>1, <1>4, <1>5, <1>6 DEF c, j, d

\* While the adapter can tell, what is published has not arrived before.
LEMMA FineNew ==
    ASSUME NEW o \in BOOLEAN, NEW q, NEW b, NEW i, NEW a, NEW l, NEW n,
           Fine(o, q, b, i, a, l, n), i < Len(b), o => i = 0, Once(q, b, i, a)
    PROVE  Sent(o, b, i) \ a = Sent(o, b, i)
<1>0. /\ i + 1 \in 1 .. Len(b) /\ Len(b) \in Nat /\ i \in Nat /\ i + 1 > i
      /\ ToSet(b) = {b[j] : j \in 1 .. Len(b)}
  BY InQueue DEF Fine, Queue
<1>1. CASE o
  <2>1. \A k \in 1 .. Len(b) : k > i
    BY <1>0, <1>1
  <2>2. \A x \in ToSet(b) : x \notin a
    BY <1>0, <2>1 DEF Once
  <2> QED BY <1>1, <2>2 DEF Sent
<1>2. CASE ~o
  <2>1. b[i + 1] \notin a
    BY <1>0 DEF Once
  <2> QED BY <1>2, <2>1 DEF Sent
<1> QED BY <1>1, <1>2

\* A flush ends with its batch published.
LEMMA FineDone ==
    ASSUME NEW o \in BOOLEAN, NEW q, NEW b, NEW a, NEW l, NEW n,
           Fine(o, q, b, Len(b), a, l, n), NEW i \in Nat
    PROVE  /\ Fine(o, q, <<>>, i, a, l, n)
           /\ Whole(q, b, a, l, n) => Whole(q, <<>>, a, l, n)
           /\ Once(q, b, Len(b), a) => Once(q, <<>>, i, a)
<1>1. /\ b \in Seq(Msg) /\ Len(b) \in Nat /\ ToSet(b) = {b[j] : j \in 1 .. Len(b)}
  BY InQueue DEF Fine, Queue
<1>2. \A j \in 1 .. Len(b) : b[j] \in a \cup l
  BY <1>1 DEF Fine
<1>3. ToSet(b) \subseteq a \cup l
  BY <1>1, <1>2
<1>4. <<>> \in Queue /\ ToSet(<<>>) = {} /\ Len(<<>>) = 0 /\ 0 <= Cap
  BY NoneInQueue, Bounds
<1>5. Before(<<>>, q) /\ Settled(o, <<>>, a)
  BY <1>4 DEF Before, Settled
<1>6. Fine(o, q, <<>>, i, a, l, n)
  BY <1>4, <1>5 DEF Fine
<1>7. Whole(q, b, a, l, n) => Whole(q, <<>>, a, l, n)
  BY <1>3, <1>4 DEF Whole
<1>8. Once(q, b, Len(b), a) => Once(q, <<>>, i, a)
  BY <1>4 DEF Once
<1> QED BY <1>6, <1>7, <1>8

\* With no batch the index means nothing.
LEMMA FineIdle ==
    ASSUME NEW o \in BOOLEAN, NEW q, NEW i, NEW a, NEW l, NEW n,
           Fine(o, q, <<>>, i, a, l, n), NEW j \in Nat
    PROVE  Fine(o, q, <<>>, j, a, l, n) /\ (Once(q, <<>>, i, a) => Once(q, <<>>, j, a))
<1>1. Len(<<>>) = 0
  OBVIOUS
<1>2. \A x \in 1 .. Len(<<>>) : FALSE
  BY <1>1
<1> QED BY <1>2 DEF Fine, Once

\* Close drops what waits.
LEMMA FineEmpty ==
    ASSUME NEW o \in BOOLEAN, NEW q, NEW i, NEW a, NEW l, NEW n, Fine(o, q, <<>>, i, a, l, n)
    PROVE  Fine(o, <<>>, <<>>, i, a, l, n) /\ (Once(q, <<>>, i, a) => Once(<<>>, <<>>, i, a))
<1>1. <<>> \in Queue /\ ToSet(<<>>) = {} /\ Len(<<>>) = 0 /\ 0 <= Cap
  BY NoneInQueue, Bounds
<1>2. Before(<<>>, <<>>) /\ Settled(o, <<>>, a)
  BY <1>1 DEF Before, Settled
<1> QED BY <1>1, <1>2 DEF Fine, Once

\* A flush fails: what of its batch is put back goes before what waits.  All of
\* it is put back, or what was not published yet.
LEMMA FineRequeue ==
    ASSUME NEW o \in BOOLEAN, NEW q, NEW b, NEW i, NEW a, NEW l, NEW n,
           Fine(o, q, b, i, a, l, n), i < Len(b), o => i = 0,
           NEW p, p = b \/ p = SubSeq(b, i + 1, Len(b))
    PROVE  LET r == Prepended(q, p)  d == l \cup ((ToSet(q) \cup ToSet(p)) \ ToSet(r))
           IN  /\ Fine(o, r, <<>>, i, a, d, n)
               /\ Whole(q, b, a, l, n) => Whole(r, <<>>, a, d, n)
               /\ Once(q, b, i, a) /\ p = SubSeq(b, i + 1, Len(b)) => Once(r, <<>>, i, a)
<1> DEFINE r == Prepended(q, p)  d == l \cup ((ToSet(q) \cup ToSet(p)) \ ToSet(r))
<1>0. /\ q \in Queue /\ b \in Queue /\ b \in Seq(Msg) /\ Len(b) \in Nat /\ i \in Nat
      /\ Len(b) <= Cap /\ Cap \in Nat /\ i \in 0 .. Len(b) /\ 0 \in 0 .. Len(b)
      /\ ToSet(b) = {b[j] : j \in 1 .. Len(b)}
  BY InQueue, Bounds DEF Fine, Queue
<1>1. /\ p \in Queue /\ Len(p) <= Cap /\ ToSet(p) \subseteq ToSet(b)
      /\ o => ToSet(p) = ToSet(b)
      /\ \A j \in i + 1 .. Len(b) : b[j] \in ToSet(p)
      /\ p = SubSeq(b, i + 1, Len(b)) => ToSet(p) = {b[j] : j \in i + 1 .. Len(b)}
  <2> DEFINE v == SubSeq(b, i + 1, Len(b))
  <2>1. v \in Queue /\ Len(v) = Len(b) - i
    BY <1>0, Cut
  <2>2. ToSet(v) \subseteq ToSet(b) /\ ToSet(v) = {b[j] : j \in i + 1 .. Len(b)}
    BY <1>0, CutSets
  <2>3. o => ToSet(v) = ToSet(b)
    <3>1. i = 0 => {b[j] : j \in i + 1 .. Len(b)} = {b[j] : j \in 1 .. Len(b)}
      OBVIOUS
    <3> HIDE DEF v
    <3> QED BY <1>0, <2>2, <3>1
  <2>4. \A j \in i + 1 .. Len(b) : b[j] \in ToSet(b)
    <3>1. \A j \in i + 1 .. Len(b) : j \in 1 .. Len(b)
      BY <1>0
    <3> QED BY <1>0, <3>1
  <2> HIDE DEF v
  <2>5. CASE p = b
    <3>1. p = v => ToSet(p) = {b[j] : j \in i + 1 .. Len(b)}
      BY <2>2
    <3> QED BY <1>0, <2>4, <2>5, <3>1 DEF v
  <2>6. CASE p = v
    <3>1. \A j \in i + 1 .. Len(b) : b[j] \in ToSet(p)
      BY <2>2, <2>6
    <3>2. Len(p) <= Cap
      BY <1>0, <2>1, <2>6
    <3> QED BY <2>1, <2>2, <2>3, <2>6, <3>1, <3>2
  <2> QED BY <2>5, <2>6 DEF v
<1>2. Before(p, q)
  BY <1>1 DEF Fine, Before
<1>3. r \in Queue /\ Len(r) <= Cap /\ ToSet(p) \subseteq ToSet(r) /\ ToSet(r) \subseteq ToSet(p) \cup ToSet(q)
  BY <1>0, <1>1, <1>2, Prepending
<1> HIDE DEF r
<1>4. Settled(o, r, a)
  <2> SUFFICES ASSUME NEW x \in ToSet(r) PROVE x \in a \/ (\A y \in a : y < x) \/ (o /\ x \in Sup(r))
    BY DEF Settled
  <2>1. CASE o
    <3>1. CASE x \in ToSet(b)
      <4>1. x \in Sup(b) => x \in Sup(r)
        BY <1>1, <1>3, <2>1 DEF Sup
      <4>2. x \in a \/ (\A y \in a : y < x) \/ x \in Sup(b)
        BY <2>1, <3>1 DEF Fine, Settled
      <4> QED BY <2>1, <4>1, <4>2
    <3>2. CASE x \in ToSet(q)
      <4>1. b # <<>>
        BY <1>0
      <4> QED BY <2>1, <3>2, <4>1 DEF Fine
    <3> QED BY <1>1, <1>3, <3>1, <3>2
  <2>2. CASE ~o
    BY <1>1, <1>3, <2>2 DEF Fine, Settled
  <2> QED BY <2>1, <2>2
<1>5. ToSet(r) \cup a \cup d \subseteq 1 .. n - 1
  <2>1. ToSet(q) \cup ToSet(b) \cup a \cup l \subseteq 1 .. n - 1
    BY DEF Fine
  <2> QED BY <1>1, <1>3, <2>1
<1>6. Fine(o, r, <<>>, i, a, d, n)
  <2>1. <<>> \in Queue /\ ToSet(<<>>) = {} /\ Len(<<>>) = 0 /\ 0 <= Cap
    BY NoneInQueue, Bounds
  <2>2. Before(<<>>, r) /\ Settled(o, <<>>, a)
    BY <2>1 DEF Before, Settled
  <2>3. n \in 1 .. MaxMsg + 1
    BY DEF Fine
  <2> HIDE DEF d
  <2> QED BY <1>0, <1>3, <1>4, <1>5, <2>1, <2>2, <2>3 DEF Fine
<1>7. \A j \in 1 .. Len(b) : b[j] \in a \cup l \cup ToSet(p)
  <2>1. \A j \in 1 .. Len(b) : j <= i \/ j \in i + 1 .. Len(b)
    BY <1>0
  <2> QED BY <1>1, <2>1 DEF Fine
<1>8. Whole(q, b, a, l, n) => Whole(r, <<>>, a, d, n)
  <2>1. ToSet(b) \subseteq a \cup l \cup ToSet(p)
    BY <1>0, <1>7
  <2> QED BY <1>1, <1>3, <2>1, NoneInQueue DEF Whole
<1>9. ASSUME Once(q, b, i, a), p = SubSeq(b, i + 1, Len(b)) PROVE Once(r, <<>>, i, a)
  <2>1. \A j \in i + 1 .. Len(b) : j \in 1 .. Len(b) /\ j > i
    BY <1>0
  <2>2. ToSet(p) \cap a = {}
    <3>1. ToSet(p) = {b[j] : j \in i + 1 .. Len(b)}
      BY <1>1, <1>9
    <3>2. \A j \in i + 1 .. Len(b) : b[j] \notin a
      BY <1>9, <2>1 DEF Once
    <3> QED BY <3>1, <3>2
  <2>3. \A j \in 1 .. Len(<<>>) : FALSE
    <3>1. Len(<<>>) = 0
      OBVIOUS
    <3> QED BY <3>1
  <2> QED BY <1>3, <1>9, <2>2, <2>3 DEF Once
<1> QED BY <1>6, <1>8, <1>9 DEF r

-----------------------------------------------------------------------------
(* The adapter.                                                             *)

Todos == {<<>>, <<"data">>, <<"alarm">>, <<"data", "alarm">>}
Batch(k) == IF todo # <<>> /\ Head(todo) = k THEN taken ELSE <<>>
\* The adapter can tell whether a publish arrived.
CanTell == Guarded /\ ~setting.timeouts

SwitchOK ==
    /\ initialized \in BOOLEAN /\ enabled \in BOOLEAN /\ connected \in BOOLEAN
    /\ work \in BOOLEAN /\ reconnectNow \in BOOLEAN /\ timer \in BOOLEAN /\ acked \in BOOLEAN

PlaceOK ==
    /\ setting \in Setting
    /\ loopState \in {"stopped", "running", "stopping"} /\ stopChan \in {"nil", "open", "closed"}
    /\ op \in {"none", "stop", "close"} /\ starts \in 0 .. MaxStarts /\ loop \in {"off", "on"}
    /\ mode \in {"turn", "drain", "last", "close"} /\ client \in {"up", "down", "none"}

QueuesOK ==
    /\ pending \in [Kind -> Queue] /\ next \in [Kind -> 1 .. MaxMsg + 1] /\ DOMAIN lost = Kind
    /\ DOMAIN arrived = Kind /\ late \in [Kind -> BOOLEAN] /\ dup \in [Kind -> BOOLEAN]

\* A flush works on a batch, of which nothing or all is published when it is one
\* message; it belongs to the loop's goroutine, or to Close once that is gone.
FlushOK ==
    /\ todo \in Todos /\ taken \in Queue /\ Len(taken) <= Cap /\ idx \in 0 .. Cap
    /\ taken # <<>> => todo # <<>> /\ idx <= Len(taken)
    /\ taken # <<>> /\ ~acked => idx < Len(taken) /\ (OneShot(Head(todo)) => idx = 0)
    /\ acked => taken # <<>> /\ (OneShot(Head(todo)) => idx = Len(taken))
    /\ todo # <<>> => loop = "on" \/ mode = "close"
    /\ mode = "close" => op = "close" /\ loop = "off"
    /\ op # "none" /\ mode # "close" => initialized

Account(o, c, h, q, b, i, a, l, n) ==
    /\ Fine(o, q, b, i, a, l, n)
    /\ h => Whole(q, b, a, l, n)
    /\ c => Once(q, b, i, a)

KindOK(k) ==
    /\ Account(OneShot(k), CanTell, initialized, pending[k], Batch(k), idx, arrived[k], lost[k], next[k])
    /\ ~late[k] /\ (CanTell => ~dup[k])

\* The inductive invariant.
Inv == SwitchOK /\ PlaceOK /\ QueuesOK /\ FlushOK /\ \A k \in Kind : KindOK(k)

LEMMA TodoParts ==
    ASSUME todo \in Todos, todo # <<>>
    PROVE  Head(todo) \in Kind /\ Tail(todo) \in Todos
<1>1. todo = <<"data">> \/ todo = <<"alarm">> \/ todo = <<"data", "alarm">>
  BY DEF Todos
<1>2. /\ Head(<<"data">>) = "data" /\ Tail(<<"data">>) = <<>>
      /\ Head(<<"alarm">>) = "alarm" /\ Tail(<<"alarm">>) = <<>>
      /\ Head(<<"data", "alarm">>) = "data" /\ Tail(<<"data", "alarm">>) = <<"alarm">>
  OBVIOUS
<1>3. {"data", "alarm"} = Kind /\ {<<>>, <<"alarm">>} \subseteq Todos
  BY DEF Kind, Todos
<1> QED BY <1>1, <1>2, <1>3

LEMMA OneShotBool == ASSUME NEW k PROVE OneShot(k) \in BOOLEAN
BY DEF OneShot

LEMMA AdapterInit == Init => Inv
<1> SUFFICES ASSUME Init PROVE Inv
  OBVIOUS
<1>0. <<>> \in Queue /\ ToSet(<<>>) = {} /\ Len(<<>>) = 0 /\ <<>> \in Todos
  BY NoneInQueue DEF Todos
<1>1. SwitchOK /\ PlaceOK
  <2>1. SwitchOK
    BY DEF Init, SwitchOK
  <2>2. PlaceOK
    BY Bounds DEF Init, PlaceOK
  <2> QED BY <2>1, <2>2
<1>2. QueuesOK
  BY <1>0, Bounds DEF Init, QueuesOK
<1>3. FlushOK
  BY <1>0, Bounds DEF Init, FlushOK
<1>4. ASSUME NEW k \in Kind PROVE KindOK(k)
  <2>1. /\ pending[k] = <<>> /\ Batch(k) = <<>> /\ idx = 0 /\ arrived[k] = {} /\ lost[k] = {}
        /\ next[k] = 1 /\ late[k] = FALSE /\ dup[k] = FALSE
    BY DEF Init, Batch
  <2>2. Before(<<>>, <<>>) /\ Settled(OneShot(k), <<>>, {})
    BY <1>0 DEF Before, Settled
  <2>3. Fine(OneShot(k), <<>>, <<>>, 0, {}, {}, 1)
    BY <1>0, <2>2, Bounds DEF Fine
  <2>4. Whole(<<>>, <<>>, {}, {}, 1) /\ Once(<<>>, <<>>, 0, {})
    BY <1>0 DEF Whole, Once
  <2> QED BY <2>1, <2>3, <2>4 DEF KindOK, Account
<1> QED BY <1>1, <1>2, <1>3, <1>4 DEF Inv

LEMMA InvOK == Inv => QueuesSound
<1> SUFFICES ASSUME Inv PROVE QueuesSound
  OBVIOUS
<1>1. TypeOK
  <2>1. todo \in Seq(Kind)
    <3>1. todo = <<>> \/ todo = <<"data">> \/ todo = <<"alarm">> \/ todo = <<"data", "alarm">>
      BY DEF Inv, FlushOK, Todos
    <3>2. <<>> \in Seq(Kind) /\ "data" \in Kind /\ "alarm" \in Kind
      BY DEF Kind
    <3>3. <<"data">> \in Seq(Kind) /\ <<"alarm">> \in Seq(Kind) /\ <<"data", "alarm">> \in Seq(Kind)
      BY <3>2
    <3> QED BY <3>1, <3>2, <3>3
  <2>2. ASSUME NEW k \in Kind
        PROVE  /\ pending[k] \in Seq(Msg) /\ Len(pending[k]) <= Cap
               /\ next[k] \in 1 .. MaxMsg + 1 /\ lost[k] \subseteq Msg
               /\ arrived[k] \subseteq Msg /\ {late[k], dup[k]} \subseteq BOOLEAN
    <3>1. Fine(OneShot(k), pending[k], Batch(k), idx, arrived[k], lost[k], next[k])
      BY DEF Inv, KindOK, Account
    <3>2. next[k] \in 1 .. MaxMsg + 1 /\ {late[k], dup[k]} \subseteq BOOLEAN
      BY DEF Inv, QueuesOK
    <3>3. 1 .. next[k] - 1 \subseteq Msg
      BY <3>2, Bounds DEF Msg
    <3> QED BY <3>1, <3>2, <3>3 DEF Fine, Queue
  <2>3. /\ {initialized, enabled, connected, acked, work, reconnectNow, timer} \subseteq BOOLEAN
        /\ taken \in Seq(Msg) /\ idx \in 0 .. Cap
    BY DEF Inv, SwitchOK, FlushOK, Queue
  <2> QED BY <2>1, <2>2, <2>3 DEF Inv, PlaceOK, TypeOK
<1>2. InOrder
  BY DEF Inv, KindOK, InOrder
<1>3. NothingForgotten
  <2>1. ASSUME initialized, NEW k \in Kind
        PROVE  1 .. next[k] - 1 = ToSet(pending[k]) \cup InFlight(k) \cup arrived[k] \cup lost[k]
    <3>1. InFlight(k) = ToSet(Batch(k))
      BY NoneInQueue DEF InFlight, Batch
    <3>2. Whole(pending[k], Batch(k), arrived[k], lost[k], next[k])
      BY <2>1 DEF Inv, KindOK, Account
    <3> QED BY <3>1, <3>2 DEF Whole
  <2> QED BY <2>1 DEF NothingForgotten
<1>4. NoDuplicate
  BY DEF Inv, KindOK, CanTell, NoDuplicate
<1> QED BY <1>1, <1>2, <1>3, <1>4 DEF QueuesSound

-----------------------------------------------------------------------------
(* Steps that leave the queues alone.                                       *)

\* All but Send, the flush and the end of Close.
Outside == \/ LoopStep \/ Start \/ StopBegin \/ StopReturn \/ CloseFlush
           \/ ConnectionLost \/ AutoReconnect \/ ConnectInPublish

LEMMA SettingKept ==
    ASSUME [Next]_vars
    PROVE  setting' = setting /\ CanTell' = CanTell /\ \A k : OneShot(k)' = OneShot(k)
<1>1. CASE \E k \in Kind : Send(k)
  BY <1>1 DEF Send, life, CanTell, Guarded, OneShot
<1>2. setting' = setting
  <2>1. CASE FlushStep
    BY <2>1 DEF FlushStep, TakeBatch, PublishOk, Acked, PublishRefused, ConnectInPublish,
                PublishError, PublishTimeout, life
  <2>2. CASE LoopStep
    BY <2>2 DEF LoopStep, OnStop, OnWork, OnReconnectNow, DrainAgain, LoopExit, OnTimer, ReconnectOk,
                ReconnectFails, OnTicker, life
  <2>3. CASE Lifecycle
    BY <2>3 DEF Lifecycle, Start, StopBegin, StopReturn, CloseFlush, CloseReturn
  <2>4. CASE ConnectionLost \/ AutoReconnect \/ UNCHANGED vars
    BY <2>4 DEF ConnectionLost, AutoReconnect, vars, life
  <2> QED BY <1>1, <2>1, <2>2, <2>3, <2>4 DEF Next, Send, life
<1> QED BY <1>2 DEF CanTell, Guarded, OneShot

LEMMA SwitchStep == ASSUME Inv, [Next]_vars PROVE SwitchOK'
<1>0. SwitchOK
  BY DEF Inv
<1>1. CASE \E k \in Kind : Send(k)
  <2>1. PICK b : work' = (work \/ b)
    BY <1>1 DEF Send
  <2>2. work' \in BOOLEAN
    BY <2>1
  <2> QED BY <1>0, <1>1, <2>2 DEF Send, SwitchOK, life, flush, link
<1>2. CASE TakeBatch \/ PublishOk \/ Acked \/ ConnectInPublish
  BY <1>0, <1>2 DEF TakeBatch, PublishOk, Acked, ConnectInPublish, SwitchOK, life, flush, link
<1>3. CASE PublishRefused \/ PublishError \/ PublishTimeout
  <2>1. \E marks : Requeue(marks)
    BY <1>3 DEF PublishRefused, PublishError, PublishTimeout
  <2>2. connected' \in BOOLEAN /\ reconnectNow' \in BOOLEAN
    BY <2>1 DEF Requeue
  <2>3. UNCHANGED <<life, acked, work, timer, client>>
    BY <1>3 DEF PublishRefused, PublishError, PublishTimeout
  <2> QED BY <1>0, <2>2, <2>3 DEF SwitchOK, life
<1>4. CASE LoopStep
  BY <1>0, <1>4 DEF LoopStep, OnStop, OnWork, OnReconnectNow, DrainAgain, LoopExit, OnTimer, ReconnectOk,
        ReconnectFails, OnTicker, Flush, SwitchOK, life, flush, link
<1>5. CASE Lifecycle
  BY <1>0, <1>5 DEF Lifecycle, Start, StopBegin, StopReturn, CloseFlush, CloseReturn, SwitchOK, flush, link
<1>6. CASE ConnectionLost \/ AutoReconnect \/ UNCHANGED vars
  BY <1>0, <1>6 DEF ConnectionLost, AutoReconnect, vars, SwitchOK, life, flush, link
<1> QED BY <1>1, <1>2, <1>3, <1>4, <1>5, <1>6 DEF Next, FlushStep

LEMMA PlaceStep == ASSUME Inv, [Next]_vars PROVE PlaceOK'
<1>0. PlaceOK /\ setting' = setting
  BY SettingKept DEF Inv
<1>1. CASE \E k \in Kind : Send(k)
  BY <1>0, <1>1 DEF Send, PlaceOK, life, flush, link
<1>2. CASE TakeBatch \/ PublishOk \/ Acked \/ ConnectInPublish
  BY <1>0, <1>2 DEF TakeBatch, PublishOk, Acked, ConnectInPublish, PlaceOK, life, flush, link
<1>3. CASE PublishRefused \/ PublishError \/ PublishTimeout
  <2>1. \E marks : Requeue(marks)
    BY <1>3 DEF PublishRefused, PublishError, PublishTimeout
  <2>2. mode' \in {"turn", "drain", "last", "close"}
    BY <1>0, <2>1 DEF Requeue, PlaceOK, AfterFailure
  <2>3. UNCHANGED <<life, client>>
    BY <1>3 DEF PublishRefused, PublishError, PublishTimeout
  <2> QED BY <1>0, <2>2, <2>3 DEF PlaceOK, life
<1>4. CASE LoopStep
  BY <1>0, <1>4 DEF LoopStep, OnStop, OnWork, OnReconnectNow, DrainAgain, LoopExit, OnTimer, ReconnectOk,
        ReconnectFails, OnTicker, Flush, PlaceOK, life, flush, link
<1>5. CASE Lifecycle
  BY <1>0, <1>5, Bounds DEF Lifecycle, Start, StopBegin, Closed, StopReturn, CloseFlush, CloseReturn,
        PlaceOK, flush, link
<1>6. CASE ConnectionLost \/ AutoReconnect \/ UNCHANGED vars
  BY <1>0, <1>6 DEF ConnectionLost, AutoReconnect, vars, PlaceOK, life, flush, link
<1> QED BY <1>1, <1>2, <1>3, <1>4, <1>5, <1>6 DEF Next, FlushStep

LEMMA TodosAre ==
    /\ <<>> \in Todos /\ <<"alarm">> \in Todos /\ <<"data", "alarm">> \in Todos
    /\ \A k \in Kind : <<k>> \in Todos
BY DEF Todos, Kind

\* What goes on outside a flush begins none before the last is over.
LEMMA OutsideFrame ==
    ASSUME Inv, Outside
    PROVE  /\ UNCHANGED <<queue, out, idx, taken, acked>> /\ setting' = setting
           /\ todo' = todo \/ (todo = <<>> /\ taken = <<>> /\ todo' \in Todos)
           /\ initialized' => initialized
<1>0. FlushOK
  BY DEF Inv
<1>1. CASE LoopStep
  BY <1>0, <1>1, TodosAre DEF LoopStep, OnStop, OnWork, OnReconnectNow, DrainAgain, LoopExit, OnTimer,
        ReconnectOk, ReconnectFails, OnTicker, Selecting, Flush, FlushOK, life, flush, link, queue, out
<1>2. CASE Start \/ StopBegin \/ StopReturn
  BY <1>2 DEF Start, StopBegin, StopReturn, flush, queue, out
<1>3. CASE CloseFlush
  <2>1. todo = <<>> /\ taken = <<>> /\ initialized
    BY <1>0, <1>3 DEF CloseFlush, FlushOK
  <2>2. todo' \in Todos /\ UNCHANGED <<queue, out, idx, taken, acked>> /\ setting' = setting
    BY <1>3, TodosAre DEF CloseFlush
  <2> QED BY <2>1, <2>2
<1>4. CASE ConnectionLost \/ AutoReconnect \/ ConnectInPublish
  BY <1>4 DEF ConnectionLost, AutoReconnect, ConnectInPublish, life, flush, queue, out
<1> QED BY <1>1, <1>2, <1>3, <1>4 DEF Outside

LEMMA OutsideFlush == ASSUME Inv, Outside PROVE FlushOK'
<1>0. FlushOK /\ PlaceOK
  BY DEF Inv
<1>1. /\ taken' = taken /\ idx' = idx /\ acked' = acked /\ setting' = setting
      /\ todo' = todo \/ (todo = <<>> /\ taken = <<>> /\ todo' \in Todos)
  BY OutsideFrame
<1>2. /\ todo' \in Todos /\ taken' \in Queue /\ Len(taken') <= Cap /\ idx' \in 0 .. Cap
      /\ taken' # <<>> => todo' # <<>> /\ idx' <= Len(taken')
      /\ acked' => taken' # <<>>
  BY <1>0, <1>1 DEF FlushOK
<1>3. /\ taken' # <<>> /\ ~acked' => idx' < Len(taken')
      /\ taken' # <<>> /\ ~acked' =>
             (Head(todo') = "data" /\ setting'.family \in {"xunji", "pandax"} => idx' = 0)
      /\ acked' =>
             (Head(todo') = "data" /\ setting'.family \in {"xunji", "pandax"} => idx' = Len(taken'))
  <2>1. taken' # <<>> => todo' = todo
    BY <1>1
  <2> QED BY <1>0, <1>1, <1>2, <2>1 DEF FlushOK, OneShot
<1>4. /\ todo' # <<>> => loop' = "on" \/ mode' = "close"
      /\ mode' = "close" => op' = "close" /\ loop' = "off"
      /\ op' # "none" /\ mode' # "close" => initialized'
  <2>1. CASE LoopStep
    BY <1>0, <2>1 DEF LoopStep, OnStop, OnWork, OnReconnectNow, DrainAgain, LoopExit, OnTimer,
        ReconnectOk, ReconnectFails, OnTicker, Selecting, Flush, FlushOK, life, flush, link
  <2>2. CASE Start \/ StopBegin \/ StopReturn
    BY <1>0, <2>2 DEF Start, StopBegin, StopReturn, FlushOK, flush
  <2>3. CASE CloseFlush
    BY <1>0, <2>3 DEF CloseFlush, FlushOK
  <2>4. CASE ConnectionLost \/ AutoReconnect \/ ConnectInPublish
    BY <1>0, <2>4 DEF ConnectionLost, AutoReconnect, ConnectInPublish, FlushOK, life, flush
  <2> QED BY <2>1, <2>2, <2>3, <2>4 DEF Outside
<1> QED BY <1>2, <1>3, <1>4 DEF FlushOK, OneShot

\* A kind none of whose values change.
LEMMA KindKept ==
    ASSUME NEW k \in Kind, KindOK(k), setting' = setting, initialized' => initialized,
           pending'[k] = pending[k], Batch(k)' = Batch(k), arrived'[k] = arrived[k],
           lost'[k] = lost[k], next'[k] = next[k], late'[k] = late[k], dup'[k] = dup[k],
           idx' = idx \/ (Batch(k) = <<>> /\ idx' \in Nat)
    PROVE  KindOK(k)'
<1>1. OneShot(k)' = OneShot(k) /\ CanTell' = CanTell /\ OneShot(k) \in BOOLEAN
  BY OneShotBool DEF OneShot, CanTell, Guarded
<1>2. Account(OneShot(k), CanTell, initialized, pending[k], Batch(k), idx', arrived[k], lost[k], next[k])
  <2>1. CASE idx' = idx
    BY <2>1 DEF KindOK
  <2>2. CASE Batch(k) = <<>> /\ idx' \in Nat
    BY <1>1, <2>2, FineIdle DEF KindOK, Account
  <2> QED BY <2>1, <2>2
<1>3. Account(OneShot(k), CanTell, initialized', pending[k], Batch(k), idx', arrived[k], lost[k], next[k])
  BY <1>2 DEF Account
<1>4. KindOK(k)' = (/\ Account(OneShot(k)', CanTell', initialized', pending'[k], Batch(k)', idx',
                               arrived'[k], lost'[k], next'[k])
                    /\ ~late'[k] /\ (CanTell' => ~dup'[k]))
  BY DEF KindOK
<1>5. ~late[k] /\ (CanTell => ~dup[k])
  BY DEF KindOK
<1> QED BY <1>1, <1>3, <1>4, <1>5

LEMMA OutsideStep == ASSUME Inv, Outside PROVE QueuesOK' /\ \A k \in Kind : KindOK(k)'
<1>0. QueuesOK /\ \A k \in Kind : KindOK(k)
  BY DEF Inv
<1>1. /\ UNCHANGED <<queue, out, idx, taken>> /\ setting' = setting
      /\ todo' = todo \/ (todo = <<>> /\ taken = <<>>)
      /\ initialized' => initialized
  BY OutsideFrame
<1>2. QueuesOK'
  BY <1>0, <1>1 DEF QueuesOK, queue, out
<1>3. ASSUME NEW k \in Kind PROVE Batch(k)' = Batch(k)
  BY <1>1 DEF Batch
<1> QED BY <1>0, <1>1, <1>2, <1>3, KindKept DEF queue, out

-----------------------------------------------------------------------------
(* Steps of a flush.                                                        *)

\* The kind being flushed has the batch, the other has none.
LEMMA Flushing ==
    ASSUME Inv, todo # <<>>
    PROVE  /\ Head(todo) \in Kind /\ Tail(todo) \in Todos /\ Batch(Head(todo)) = taken
           /\ \A k \in Kind : k # Head(todo) => Batch(k) = <<>>
BY TodoParts DEF Inv, FlushOK, Batch

LEMMA KindNow ==
    ASSUME NEW k \in Kind, setting' = setting,
           NEW q, NEW b, NEW i, NEW a, NEW l, NEW n,
           pending'[k] = q, Batch(k)' = b, idx' = i, arrived'[k] = a, lost'[k] = l, next'[k] = n,
           Account(OneShot(k), CanTell, initialized', q, b, i, a, l, n),
           ~late'[k], CanTell => ~dup'[k]
    PROVE  KindOK(k)'
<1>1. OneShot(k)' = OneShot(k) /\ CanTell' = CanTell
  BY DEF OneShot, CanTell, Guarded
<1>2. Account(OneShot(k)', CanTell', initialized', pending'[k], Batch(k)', idx', arrived'[k],
              lost'[k], next'[k])
  BY <1>1
<1>3. ~late'[k] /\ (CanTell' => ~dup'[k])
  BY <1>1
<1> QED BY <1>2, <1>3 DEF KindOK

LEMMA SendStep ==
    ASSUME Inv, NEW k0 \in Kind, Send(k0)
    PROVE  QueuesOK' /\ FlushOK' /\ \A k \in Kind : KindOK(k)'
<1> DEFINE r == Appended(pending[k0], next[k0])
           d == lost[k0] \cup (ToSet(pending[k0]) \ ToSet(r))
<1>0. /\ QueuesOK /\ FlushOK /\ \A k \in Kind : KindOK(k)
      /\ next[k0] <= MaxMsg /\ setting' = setting /\ initialized' = initialized
      /\ UNCHANGED <<life, flush, out>>
      /\ pending' = [pending EXCEPT ![k0] = r] /\ next' = [next EXCEPT ![k0] = @ + 1]
      /\ lost' = [lost EXCEPT ![k0] = d]
  BY DEF Inv, Send, life
<1>1. /\ Fine(OneShot(k0), r, Batch(k0), idx, arrived[k0], d, next[k0] + 1)
      /\ Whole(pending[k0], Batch(k0), arrived[k0], lost[k0], next[k0])
             => Whole(r, Batch(k0), arrived[k0], d, next[k0] + 1)
      /\ Once(pending[k0], Batch(k0), idx, arrived[k0]) => Once(r, Batch(k0), idx, arrived[k0])
  BY <1>0, OneShotBool, FineSend DEF KindOK, Account
<1>2. r \in Queue /\ next[k0] + 1 \in 1 .. MaxMsg + 1
  BY <1>1 DEF Fine
<1> HIDE DEF r, d
<1>3. QueuesOK'
  BY <1>0, <1>2 DEF QueuesOK, out
<1>4. FlushOK'
  BY <1>0 DEF FlushOK, flush, life, OneShot
<1>5. ASSUME NEW k \in Kind PROVE KindOK(k)'
  <2>0. Batch(k)' = Batch(k) /\ idx' = idx /\ arrived' = arrived /\ late' = late /\ dup' = dup
    BY <1>0 DEF Batch, flush, out
  <2>1. CASE k = k0
    <3>1. pending'[k] = r /\ lost'[k] = d /\ next'[k] = next[k0] + 1
      BY <1>0, <2>1 DEF QueuesOK
    <3>2. Account(OneShot(k), CanTell, initialized', r, Batch(k), idx, arrived[k], d, next[k0] + 1)
      BY <1>0, <1>1, <2>1 DEF KindOK, Account
    <3>3. ~late'[k] /\ (CanTell => ~dup'[k])
      BY <1>0, <2>0 DEF KindOK
    <3> QED BY <1>0, <2>0, <3>1, <3>2, <3>3, KindNow
  <2>2. CASE k # k0
    <3>1. pending'[k] = pending[k] /\ lost'[k] = lost[k] /\ next'[k] = next[k]
      BY <1>0, <2>2 DEF QueuesOK
    <3> QED BY <1>0, <2>0, <3>1, KindKept
  <2> QED BY <2>1, <2>2
<1> QED BY <1>3, <1>4, <1>5

LEMMA TakeStep ==
    ASSUME Inv, TakeBatch
    PROVE  QueuesOK' /\ FlushOK' /\ \A k \in Kind : KindOK(k)'
<1> DEFINE k0 == Head(todo)
           m == BatchLen(k0)
           u == SubSeq(pending[k0], 1, m)
           v == SubSeq(pending[k0], m + 1, Len(pending[k0]))
<1>0. /\ QueuesOK /\ FlushOK /\ todo # <<>> /\ taken = <<>> /\ \A k \in Kind : KindOK(k)
      /\ setting' = setting /\ initialized' = initialized /\ idx' = 0
      /\ UNCHANGED <<life, mode, acked, next, lost, out>>
      /\ taken' = u /\ pending' = [pending EXCEPT ![k0] = v]
      /\ todo' = IF m = 0 THEN Tail(todo) ELSE todo
  BY DEF Inv, TakeBatch, life
<1>1. /\ k0 \in Kind /\ Tail(todo) \in Todos /\ Batch(k0) = <<>>
      /\ \A k \in Kind : k # k0 => Batch(k) = <<>>
  BY <1>0, Flushing
<1>2. pending[k0] \in Queue /\ Len(pending[k0]) \in Nat /\ Len(pending[k0]) <= Cap
  BY <1>0, <1>1, InQueue DEF KindOK, Account, Fine, Queue
<1>3. m \in 0 .. Len(pending[k0]) /\ (OneShot(k0) => m = Len(pending[k0]))
  BY <1>2, Bounds DEF BatchLen, OneShot
<1>4. /\ Fine(OneShot(k0), v, u, 0, arrived[k0], lost[k0], next[k0]) /\ Len(u) = m
      /\ Whole(pending[k0], <<>>, arrived[k0], lost[k0], next[k0])
             => Whole(v, u, arrived[k0], lost[k0], next[k0])
      /\ Once(pending[k0], <<>>, idx, arrived[k0]) => Once(v, u, 0, arrived[k0])
  <2>1. Fine(OneShot(k0), pending[k0], <<>>, idx, arrived[k0], lost[k0], next[k0])
    BY <1>0, <1>1 DEF KindOK, Account
  <2> HIDE DEF m, k0
  <2> QED BY <1>3, <2>1, OneShotBool, FineTake
<1>5. u \in Queue /\ v \in Queue
  BY <1>4 DEF Fine
<1> HIDE DEF k0, m, u, v
<1>6. QueuesOK'
  BY <1>0, <1>5 DEF QueuesOK, out
<1>7. FlushOK'
  <2>1. m = 0 => u = <<>>
    BY <1>4, <1>5, EmptySeq DEF Queue
  <2>2. m \in Nat /\ m <= Cap /\ 0 \in 0 .. Cap
    BY <1>2, <1>3, Bounds
  <2>3. u # <<>> => m > 0 /\ todo' = todo
    BY <1>0, <2>1, <2>2
  <2>4. todo' \in Todos /\ taken' \in Queue /\ Len(taken') <= Cap /\ idx' \in 0 .. Cap
    BY <1>0, <1>1, <1>4, <1>5, <2>2 DEF FlushOK
  <2>5. acked = FALSE /\ acked' = FALSE
    BY <1>0 DEF Inv, SwitchOK, FlushOK
  <2>6. taken' # <<>> => todo' # <<>> /\ idx' < Len(taken') /\ idx' = 0 /\ idx' <= Len(taken')
    BY <1>0, <1>4, <2>2, <2>3
  <2>7. todo' # <<>> => loop' = "on" \/ mode' = "close"
    BY <1>0 DEF FlushOK, life
  <2>8. /\ mode' = "close" => op' = "close" /\ loop' = "off"
        /\ op' # "none" /\ mode' # "close" => initialized'
    BY <1>0 DEF FlushOK, life
  <2> QED BY <2>4, <2>5, <2>6, <2>7, <2>8 DEF FlushOK
<1>8. ASSUME NEW k \in Kind PROVE KindOK(k)'
  <2>0. idx' = 0 /\ arrived' = arrived /\ late' = late /\ dup' = dup /\ lost' = lost /\ next' = next
    BY <1>0 DEF out
  <2>1. CASE k = k0
    <3>1. pending'[k] = v
      BY <1>0, <2>1 DEF QueuesOK
    <3>2. Batch(k)' = u
      <4>1. CASE m = 0
        <5>1. u = <<>>
          BY <1>4, <1>5, <4>1, EmptySeq DEF Queue
        <5> QED BY <1>0, <5>1 DEF Batch
      <4>2. CASE m # 0
        BY <1>0, <2>1, <4>2 DEF Batch, k0
      <4> QED BY <4>1, <4>2
    <3>3. Account(OneShot(k), CanTell, initialized', v, u, 0, arrived[k], lost[k], next[k])
      BY <1>0, <1>1, <1>4, <2>1 DEF KindOK, Account
    <3>4. ~late'[k] /\ (CanTell => ~dup'[k])
      BY <1>0, <2>0 DEF KindOK
    <3> QED BY <1>0, <2>0, <3>1, <3>2, <3>3, <3>4, KindNow
  <2>2. CASE k # k0
    <3>1. pending'[k] = pending[k]
      BY <1>0, <2>2 DEF QueuesOK
    <3>2. Batch(k) = <<>> /\ 0 \in Nat
      BY <1>1, <2>2
    <3>3. Batch(k)' = <<>>
      <4>1. CASE m = 0
        <5>1. u = <<>>
          BY <1>4, <1>5, <4>1, EmptySeq DEF Queue
        <5> QED BY <1>0, <5>1 DEF Batch
      <4>2. CASE m # 0
        BY <1>0, <2>2, <4>2 DEF Batch, k0
      <4> QED BY <4>1, <4>2
    <3> QED BY <1>0, <2>0, <3>1, <3>2, <3>3, KindKept
  <2> QED BY <2>1, <2>2
<1> QED BY <1>6, <1>7, <1>8

LEMMA CarriedIs ==
    ASSUME todo # <<>>
    PROVE  /\ Carried = Sent(OneShot(Head(todo)), taken, idx)
           /\ Superseded = IF OneShot(Head(todo)) THEN Sup(taken) ELSE {}
BY DEF Carried, Superseded, Sent, Sup

\* A publish that arrives: what arrives is newer than all that has.
LEMMA ArriveStep ==
    ASSUME Inv, Publishing, Arrive
    PROVE  LET k0 == Head(todo)
           IN  /\ arrived' = [arrived EXCEPT ![k0] = @ \cup Sent(OneShot(k0), taken, idx)]
               /\ late' = late /\ DOMAIN arrived' = Kind /\ dup' \in [Kind -> BOOLEAN]
               /\ \A k \in Kind : k # k0 => arrived'[k] = arrived[k] /\ dup'[k] = dup[k]
               /\ CanTell => dup' = dup
<1> DEFINE k0 == Head(todo)
           c == Sent(OneShot(k0), taken, idx)
           new == c \ arrived[k0]
<1>0. /\ QueuesOK /\ FlushOK /\ k0 \in Kind /\ Batch(k0) = taken /\ KindOK(k0)
      /\ taken # <<>> /\ ~acked /\ todo # <<>>
  BY Flushing DEF Inv, Publishing
<1>1. Carried = c
  BY <1>0, CarriedIs
<1>2. Fine(OneShot(k0), pending[k0], taken, idx, arrived[k0], lost[k0], next[k0])
  BY <1>0 DEF KindOK, Account
<1>3. idx < Len(taken) /\ (OneShot(k0) => idx = 0)
  BY <1>0 DEF FlushOK
<1>4. \A x \in new, y \in arrived[k0] : ~(x < y)
  BY <1>2, <1>3, OneShotBool, FineSent
<1>5. CanTell => c \ arrived[k0] = c
  <2>1. CanTell => Once(pending[k0], taken, idx, arrived[k0])
    BY <1>0 DEF KindOK, Account
  <2>2. Once(pending[k0], taken, idx, arrived[k0]) => c \ arrived[k0] = c
    BY <1>2, <1>3, OneShotBool, FineNew
  <2> QED BY <2>1, <2>2
<1> HIDE DEF c
<1>6. /\ arrived' = [arrived EXCEPT ![k0] = @ \cup new]
      /\ late' = [late EXCEPT ![k0] = @ \/ \E x \in new, y \in arrived[k0] : x < y]
      /\ dup' = [dup EXCEPT ![k0] = @ \/ new # c]
  BY <1>1 DEF Arrive
<1> HIDE DEF k0
<1>7. late' = late
  <2>1. PICK z \in BOOLEAN : z = (\E x \in new, y \in arrived[k0] : x < y)
    OBVIOUS
  <2>2. z = FALSE
    BY <1>4, <2>1
  <2>3. late' = [late EXCEPT ![k0] = late[k0] \/ z]
    BY <1>6, <2>1
  <2>4. (late[k0] \/ z) = late[k0]
    BY <1>0, <2>2 DEF QueuesOK
  <2> QED BY <1>0, <2>3, <2>4 DEF QueuesOK
<1>8. dup' \in [Kind -> BOOLEAN] /\ (CanTell => dup' = dup) /\ \A k \in Kind : k # k0 => dup'[k] = dup[k]
  <2>1. PICK z \in BOOLEAN : z = (new # c)
    OBVIOUS
  <2>2. dup' = [dup EXCEPT ![k0] = dup[k0] \/ z]
    BY <1>6, <2>1
  <2>3. (dup[k0] \/ z) \in BOOLEAN
    OBVIOUS
  <2>4. CanTell => (dup[k0] \/ z) = dup[k0]
    <3>1. CanTell => z = FALSE
      BY <1>5, <2>1
    <3>2. dup[k0] \in BOOLEAN
      BY <1>0 DEF QueuesOK
    <3> QED BY <3>1, <3>2
  <2> QED BY <1>0, <2>2, <2>3, <2>4 DEF QueuesOK
<1>9. arrived' = [arrived EXCEPT ![k0] = @ \cup c]
  <2>1. arrived[k0] \cup new = arrived[k0] \cup c
    OBVIOUS
  <2> QED BY <1>6, <2>1
<1>10. DOMAIN arrived' = Kind /\ \A k \in Kind : k # k0 => arrived'[k] = arrived[k]
  BY <1>0, <1>9 DEF QueuesOK
<1> QED BY <1>7, <1>8, <1>9, <1>10 DEF c, k0

LEMMA PublishStep ==
    ASSUME Inv, PublishOk
    PROVE  QueuesOK' /\ FlushOK' /\ \A k \in Kind : KindOK(k)'
<1> DEFINE k0 == Head(todo)
           o == OneShot(k0)
           c == Sent(o, taken, idx)
           j == IF o THEN Len(taken) ELSE idx + 1
           d == lost[k0] \cup (IF o THEN Sup(taken) ELSE {})
<1>0. /\ QueuesOK /\ FlushOK /\ \A k \in Kind : KindOK(k)
      /\ todo # <<>> /\ taken # <<>> /\ ~acked /\ Publishing /\ Arrive
      /\ setting' = setting /\ initialized' = initialized /\ idx' = j /\ acked' = TRUE
      /\ UNCHANGED <<life, todo, mode, taken, pending, next>>
      /\ lost' = [lost EXCEPT ![k0] = d]
  BY CarriedIs DEF Inv, PublishOk, Publishing, AfterPublish, life
<1>1. /\ k0 \in Kind /\ Batch(k0) = taken /\ \A k \in Kind : k # k0 => Batch(k) = <<>>
  BY <1>0, Flushing
<1>2. /\ arrived' = [arrived EXCEPT ![k0] = @ \cup c] /\ late' = late
      /\ DOMAIN arrived' = Kind /\ dup' \in [Kind -> BOOLEAN]
      /\ \A k \in Kind : k # k0 => arrived'[k] = arrived[k] /\ dup'[k] = dup[k]
      /\ CanTell => dup' = dup
  BY <1>0, ArriveStep
<1>3. idx < Len(taken) /\ (o => idx = 0) /\ idx \in Nat /\ Len(taken) \in Nat
  BY <1>0, InQueue, Bounds DEF FlushOK, Queue
<1>4. /\ Fine(o, pending[k0], taken, j, arrived[k0] \cup c, d, next[k0]) /\ j <= Len(taken)
      /\ Whole(pending[k0], taken, arrived[k0], lost[k0], next[k0])
             => Whole(pending[k0], taken, arrived[k0] \cup c, d, next[k0])
      /\ Once(pending[k0], taken, idx, arrived[k0]) => Once(pending[k0], taken, j, arrived[k0] \cup c)
  <2>1. Fine(o, pending[k0], taken, idx, arrived[k0], lost[k0], next[k0])
    BY <1>0, <1>1 DEF KindOK, Account
  <2>2. o \in BOOLEAN
    BY OneShotBool
  <2> HIDE DEF k0, o
  <2> QED BY <1>3, <2>1, <2>2, FinePublished
<1>5. j \in Nat /\ j \in 0 .. Cap /\ (o => j = Len(taken))
  BY <1>0, <1>3, <1>4, Bounds DEF FlushOK
<1> HIDE DEF k0, o, c, j, d
<1>6. QueuesOK'
  BY <1>0, <1>2 DEF QueuesOK
<1>7. FlushOK'
  <2>1. /\ todo' \in Todos /\ taken' \in Queue /\ Len(taken') <= Cap /\ idx' \in 0 .. Cap
        /\ todo' # <<>> /\ idx' <= Len(taken') /\ taken' # <<>>
    BY <1>0, <1>4, <1>5 DEF FlushOK
  <2>2. Head(todo') = "data" /\ setting'.family \in {"xunji", "pandax"} => idx' = Len(taken')
    BY <1>0, <1>5 DEF k0, o, OneShot
  <2>3. /\ todo' # <<>> => loop' = "on" \/ mode' = "close"
        /\ mode' = "close" => op' = "close" /\ loop' = "off"
        /\ op' # "none" /\ mode' # "close" => initialized'
    BY <1>0 DEF FlushOK, life
  <2> QED BY <1>0, <2>1, <2>2, <2>3 DEF FlushOK, OneShot
<1>8. ASSUME NEW k \in Kind PROVE KindOK(k)'
  <2>0. Batch(k)' = Batch(k) /\ pending' = pending /\ next' = next
    BY <1>0 DEF Batch
  <2>1. CASE k = k0
    <3>1. lost'[k] = d /\ arrived'[k] = arrived[k] \cup c
      BY <1>0, <1>2, <2>1 DEF QueuesOK
    <3>2. Account(OneShot(k), CanTell, initialized', pending[k], taken, j, arrived[k] \cup c, d, next[k])
      <4>1. /\ o = OneShot(k)
            /\ initialized => Whole(pending[k], taken, arrived[k], lost[k], next[k])
            /\ CanTell => Once(pending[k], taken, idx, arrived[k])
        BY <1>0, <1>1, <2>1 DEF KindOK, Account, o
      <4> QED BY <1>0, <1>4, <2>1, <4>1 DEF Account
    <3>3. ~late'[k] /\ (CanTell => ~dup'[k])
      BY <1>0, <1>2 DEF KindOK
    <3>4. Batch(k)' = taken
      BY <1>1, <2>0, <2>1
    <3> QED BY <1>0, <2>0, <3>1, <3>2, <3>3, <3>4, KindNow
  <2>2. CASE k # k0
    <3>1. /\ lost'[k] = lost[k] /\ arrived'[k] = arrived[k] /\ late'[k] = late[k] /\ dup'[k] = dup[k]
      BY <1>0, <1>2, <2>2 DEF QueuesOK
    <3>2. Batch(k) = <<>> /\ idx' \in Nat
      BY <1>0, <1>1, <1>5, <2>2
    <3> QED BY <1>0, <2>0, <3>1, <3>2, KindKept
  <2> QED BY <2>1, <2>2
<1> QED BY <1>6, <1>7, <1>8

LEMMA AckStep ==
    ASSUME Inv, Acked
    PROVE  QueuesOK' /\ FlushOK' /\ \A k \in Kind : KindOK(k)'
<1> DEFINE k0 == Head(todo)
<1>0. /\ QueuesOK /\ FlushOK /\ \A k \in Kind : KindOK(k)
      /\ todo # <<>> /\ taken # <<>> /\ acked
      /\ setting' = setting /\ initialized' = initialized /\ acked' = FALSE
      /\ UNCHANGED <<life, mode, idx, queue, out>>
      /\ IF idx = Len(taken) THEN todo' = Tail(todo) /\ taken' = <<>> ELSE UNCHANGED <<todo, taken>>
  BY DEF Inv, Acked, FlushOK, life
<1>1. /\ k0 \in Kind /\ Tail(todo) \in Todos /\ Batch(k0) = taken
      /\ \A k \in Kind : k # k0 => Batch(k) = <<>>
  BY <1>0, Flushing
<1>2. idx \in Nat /\ idx <= Len(taken) /\ Len(taken) \in Nat /\ (OneShot(k0) => idx = Len(taken))
  BY <1>0, InQueue, Bounds DEF FlushOK, Queue
<1>3. QueuesOK'
  BY <1>0 DEF QueuesOK, queue, out
<1>4. /\ todo' # <<>> => loop' = "on" \/ mode' = "close"
      /\ mode' = "close" => op' = "close" /\ loop' = "off"
      /\ op' # "none" /\ mode' # "close" => initialized'
  BY <1>0 DEF FlushOK, life
<1>5. CASE idx # Len(taken)
  <2>1. UNCHANGED <<todo, taken>> /\ idx < Len(taken) /\ ~OneShot(k0)
    BY <1>0, <1>2, <1>5
  <2>2. FlushOK'
    <3>1. todo' \in Todos /\ taken' \in Queue /\ Len(taken') <= Cap /\ idx' \in 0 .. Cap /\ todo' # <<>>
      BY <1>0, <2>1 DEF FlushOK
    <3>2. ~(Head(todo') = "data" /\ setting'.family \in {"xunji", "pandax"})
      BY <1>0, <2>1 DEF OneShot
    <3> QED BY <1>0, <1>2, <1>4, <2>1, <3>1, <3>2 DEF FlushOK, OneShot
  <2>3. ASSUME NEW k \in Kind PROVE KindOK(k)'
    <3>1. Batch(k)' = Batch(k)
      BY <2>1 DEF Batch
    <3> QED BY <1>0, <3>1, KindKept DEF queue, out
  <2> QED BY <1>3, <2>2, <2>3
<1>6. CASE idx = Len(taken)
  <2>1. todo' = Tail(todo) /\ taken' = <<>>
    BY <1>0, <1>6
  <2>2. FlushOK'
    <3>1. /\ todo' \in Todos /\ taken' \in Queue /\ Len(taken') <= Cap /\ idx' \in 0 .. Cap
      BY <1>0, <1>1, <2>1, NoneInQueue, Bounds DEF FlushOK
    <3> QED BY <1>0, <1>4, <2>1, <3>1 DEF FlushOK
  <2>3. ASSUME NEW k \in Kind PROVE KindOK(k)'
    <3>0. Batch(k)' = <<>> /\ idx' = idx
      BY <1>0, <2>1 DEF Batch
    <3>1. CASE k = k0
      <4>1. /\ Fine(OneShot(k), pending[k], taken, Len(taken), arrived[k], lost[k], next[k])
            /\ initialized => Whole(pending[k], taken, arrived[k], lost[k], next[k])
            /\ CanTell => Once(pending[k], taken, Len(taken), arrived[k])
        BY <1>0, <1>1, <1>6, <3>1 DEF KindOK, Account
      <4>2. /\ Fine(OneShot(k), pending[k], <<>>, idx, arrived[k], lost[k], next[k])
            /\ Whole(pending[k], taken, arrived[k], lost[k], next[k])
                 => Whole(pending[k], <<>>, arrived[k], lost[k], next[k])
            /\ Once(pending[k], taken, Len(taken), arrived[k]) => Once(pending[k], <<>>, idx, arrived[k])
        BY <1>2, <4>1, OneShotBool, FineDone
      <4>3. Account(OneShot(k), CanTell, initialized', pending[k], <<>>, idx, arrived[k], lost[k], next[k])
        BY <1>0, <4>1, <4>2 DEF Account
      <4>4. /\ pending'[k] = pending[k] /\ arrived'[k] = arrived[k] /\ lost'[k] = lost[k]
            /\ next'[k] = next[k] /\ ~late'[k] /\ (CanTell => ~dup'[k])
        BY <1>0 DEF KindOK, queue, out
      <4> QED BY <1>0, <3>0, <4>3, <4>4, KindNow
    <3>2. CASE k # k0
      <4>1. Batch(k)' = Batch(k)
        BY <1>1, <3>0, <3>2
      <4> QED BY <1>0, <4>1, KindKept DEF queue, out
    <3> QED BY <3>1, <3>2
  <2> QED BY <1>3, <2>2, <2>3
<1> QED BY <1>5, <1>6

\* A failed flush, whether its message arrived or not.
LEMMA RequeueStep ==
    ASSUME Inv, Publishing, NEW marks, Requeue(marks), UNCHANGED <<life, idx, acked, next>>,
           DOMAIN arrived' = Kind, late' = late, dup' \in [Kind -> BOOLEAN],
           \A k \in Kind : k # Head(todo) => arrived'[k] = arrived[k] /\ dup'[k] = dup[k],
           CanTell => dup' = dup,
           Account(OneShot(Head(todo)), CanTell, initialized, pending[Head(todo)], taken, idx,
                   arrived'[Head(todo)], lost[Head(todo)], next[Head(todo)])
    PROVE  QueuesOK' /\ FlushOK' /\ \A k \in Kind : KindOK(k)'
<1> DEFINE k0 == Head(todo)
           r == Prepended(pending[k0], PutBack)
           d == lost[k0] \cup ((ToSet(pending[k0]) \cup ToSet(PutBack)) \ ToSet(r))
<1>0. /\ QueuesOK /\ FlushOK /\ PlaceOK /\ \A k \in Kind : KindOK(k)
      /\ todo # <<>> /\ taken # <<>> /\ ~acked
      /\ setting' = setting /\ initialized' = initialized /\ acked' = acked /\ idx' = idx
      /\ next' = next /\ UNCHANGED life
      /\ pending' = [pending EXCEPT ![k0] = r] /\ lost' = [lost EXCEPT ![k0] = d]
      /\ todo' = Tail(todo) /\ taken' = <<>> /\ mode' = AfterFailure
  BY DEF Inv, Publishing, Requeue, life
<1>1. /\ k0 \in Kind /\ Tail(todo) \in Todos /\ \A k \in Kind : k # k0 => Batch(k) = <<>>
  BY <1>0, Flushing
<1>2. idx < Len(taken) /\ (OneShot(k0) => idx = 0) /\ idx \in Nat
  BY <1>0, Bounds DEF FlushOK
<1>3. /\ PutBack = taken \/ PutBack = SubSeq(taken, idx + 1, Len(taken))
      /\ CanTell => PutBack = SubSeq(taken, idx + 1, Len(taken))
  BY DEF PutBack, CanTell
<1>4. /\ Fine(OneShot(k0), r, <<>>, idx, arrived'[k0], d, next[k0])
      /\ initialized => Whole(r, <<>>, arrived'[k0], d, next[k0])
      /\ CanTell => Once(r, <<>>, idx, arrived'[k0])
  <2>1. /\ Fine(OneShot(k0), pending[k0], taken, idx, arrived'[k0], lost[k0], next[k0])
        /\ initialized => Whole(pending[k0], taken, arrived'[k0], lost[k0], next[k0])
        /\ CanTell => Once(pending[k0], taken, idx, arrived'[k0])
    BY DEF Account
  <2> HIDE DEF k0
  <2>2. OneShot(k0) \in BOOLEAN
    BY OneShotBool
  <2>3. Fine(OneShot(k0), r, <<>>, idx, arrived'[k0], d, next[k0])
    BY <1>2, <1>3, <2>1, <2>2, FineRequeue
  <2>4. Whole(pending[k0], taken, arrived'[k0], lost[k0], next[k0])
            => Whole(r, <<>>, arrived'[k0], d, next[k0])
    BY <1>2, <1>3, <2>1, <2>2, FineRequeue
  <2>5. Once(pending[k0], taken, idx, arrived'[k0]) /\ PutBack = SubSeq(taken, idx + 1, Len(taken))
            => Once(r, <<>>, idx, arrived'[k0])
    BY <1>2, <1>3, <2>1, <2>2, FineRequeue
  <2> HIDE DEF r, d
  <2> QED BY <1>3, <2>1, <2>3, <2>4, <2>5
<1>5. r \in Queue
  BY <1>4 DEF Fine
<1> HIDE DEF k0, r, d
<1>6. QueuesOK'
  BY <1>0, <1>5 DEF QueuesOK
<1>7. FlushOK'
  <2>1. todo' \in Todos /\ taken' \in Queue /\ Len(taken') <= Cap /\ idx' \in 0 .. Cap /\ taken' = <<>>
    BY <1>0, <1>1, NoneInQueue, Bounds DEF FlushOK
  <2>2. (mode' = "close" <=> mode = "close") /\ loop' = loop /\ op' = op
    BY <1>0 DEF AfterFailure, PlaceOK, life
  <2>3. /\ todo' # <<>> => loop' = "on" \/ mode' = "close"
        /\ mode' = "close" => op' = "close" /\ loop' = "off"
        /\ op' # "none" /\ mode' # "close" => initialized'
    BY <1>0, <2>2 DEF FlushOK
  <2> QED BY <1>0, <2>1, <2>3 DEF FlushOK
<1>8. ASSUME NEW k \in Kind PROVE KindOK(k)'
  <2>0. Batch(k)' = <<>> /\ ~late'[k] /\ (CanTell => ~dup'[k])
    BY <1>0 DEF Batch, KindOK
  <2>1. CASE k = k0
    <3>1. pending'[k] = r /\ lost'[k] = d
      BY <1>0, <2>1 DEF QueuesOK
    <3>2. Account(OneShot(k), CanTell, initialized', r, <<>>, idx, arrived'[k], d, next[k])
      BY <1>0, <1>4, <2>1 DEF Account
    <3> QED BY <1>0, <2>0, <3>1, <3>2, KindNow
  <2>2. CASE k # k0
    <3>1. pending'[k] = pending[k] /\ lost'[k] = lost[k] /\ arrived'[k] = arrived[k] /\ dup'[k] = dup[k]
      BY <1>0, <2>2 DEF QueuesOK, k0
    <3>2. Batch(k)' = Batch(k)
      BY <1>1, <2>0, <2>2
    <3> QED BY <1>0, <3>1, <3>2, KindKept
  <2> QED BY <2>1, <2>2
<1> QED BY <1>6, <1>7, <1>8

LEMMA FailStep ==
    ASSUME Inv, PublishRefused \/ PublishError \/ PublishTimeout
    PROVE  QueuesOK' /\ FlushOK' /\ \A k \in Kind : KindOK(k)'
<1> DEFINE k0 == Head(todo)
<1>0. Publishing /\ UNCHANGED <<life, idx, acked, next>>
  BY DEF PublishRefused, PublishError, PublishTimeout
<1>1. PICK marks : Requeue(marks)
  BY DEF PublishRefused, PublishError, PublishTimeout
<1>2. /\ QueuesOK /\ FlushOK /\ k0 \in Kind /\ KindOK(k0) /\ Batch(k0) = taken
      /\ taken # <<>> /\ ~acked
  BY <1>0, Flushing DEF Inv, Publishing
<1>3. CASE UNCHANGED out
  <2>1. arrived' = arrived /\ late' = late /\ dup' = dup
    BY <1>3 DEF out
  <2>2. DOMAIN arrived' = Kind /\ dup' \in [Kind -> BOOLEAN]
    BY <1>2, <2>1 DEF QueuesOK
  <2>3. Account(OneShot(k0), CanTell, initialized, pending[k0], taken, idx, arrived'[k0], lost[k0], next[k0])
    BY <1>2, <2>1 DEF KindOK
  <2> QED BY <1>0, <1>1, <2>1, <2>2, <2>3, RequeueStep
<1>4. CASE Arrive /\ setting.timeouts
  <2> DEFINE c == Sent(OneShot(k0), taken, idx)
  <2>1. /\ arrived' = [arrived EXCEPT ![k0] = @ \cup c]
        /\ late' = late /\ DOMAIN arrived' = Kind /\ dup' \in [Kind -> BOOLEAN]
        /\ \A k \in Kind : k # k0 => arrived'[k] = arrived[k] /\ dup'[k] = dup[k]
        /\ CanTell => dup' = dup
    BY <1>0, <1>4, ArriveStep
  <2>2. /\ Fine(OneShot(k0), pending[k0], taken, idx, arrived[k0], lost[k0], next[k0])
        /\ initialized => Whole(pending[k0], taken, arrived[k0], lost[k0], next[k0])
    BY <1>2 DEF KindOK, Account
  <2>3. idx < Len(taken) /\ (OneShot(k0) => idx = 0)
    BY <1>2, <1>0 DEF FlushOK, Publishing
  <2>4. /\ Fine(OneShot(k0), pending[k0], taken, idx, arrived[k0] \cup c, lost[k0], next[k0])
        /\ c \subseteq ToSet(taken)
    <3> DEFINE o == OneShot(k0)  a == arrived[k0]
    <3>1. Fine(o, pending[k0], taken, idx, a, lost[k0], next[k0]) /\ o \in BOOLEAN /\ (o => idx = 0)
      BY <2>2, <2>3, OneShotBool
    <3> HIDE DEF k0, o, a
    <3>2. /\ Sent(o, taken, idx) \subseteq ToSet(taken)
          /\ Fine(o, pending[k0], taken, idx, a \cup Sent(o, taken, idx), lost[k0], next[k0])
      BY <2>3, <3>1, FineSent
    <3> QED BY <3>2 DEF o, a
  <2> HIDE DEF c
  <2>5. initialized => Whole(pending[k0], taken, arrived[k0] \cup c, lost[k0], next[k0])
    BY <2>2, <2>4 DEF Whole
  <2>6. ~CanTell
    BY <1>4 DEF CanTell
  <2>7. arrived'[k0] = arrived[k0] \cup c
    BY <1>2, <2>1 DEF QueuesOK
  <2>8. Account(OneShot(k0), CanTell, initialized, pending[k0], taken, idx, arrived'[k0], lost[k0], next[k0])
    BY <2>4, <2>5, <2>6, <2>7 DEF Account
  <2> QED BY <1>0, <1>1, <2>1, <2>8, RequeueStep
<1> QED BY <1>3, <1>4 DEF PublishRefused, PublishError, PublishTimeout

LEMMA CloseStep ==
    ASSUME Inv, CloseReturn
    PROVE  QueuesOK' /\ FlushOK' /\ \A k \in Kind : KindOK(k)'
<1>0. /\ QueuesOK /\ FlushOK /\ \A k \in Kind : KindOK(k)
      /\ todo = <<>> /\ taken = <<>> /\ todo' = todo /\ taken' = taken /\ acked' = acked
      /\ UNCHANGED <<idx, next, lost, out>> /\ setting' = setting /\ initialized' = FALSE
      /\ op' = "none" /\ mode' = "turn"
      /\ pending' = IF Guarded THEN pending ELSE [k \in Kind |-> <<>>]
  BY DEF Inv, CloseReturn, FlushOK
<1>1. QueuesOK'
  BY <1>0, NoneInQueue DEF QueuesOK, out
<1>2. FlushOK'
  BY <1>0 DEF FlushOK
<1>3. ASSUME NEW k \in Kind PROVE KindOK(k)'
  <2>0. Batch(k) = <<>> /\ Batch(k)' = <<>> /\ arrived' = arrived /\ late' = late /\ dup' = dup
    BY <1>0 DEF Batch, out
  <2>1. CASE pending'[k] = pending[k]
    BY <1>0, <2>0, <2>1, KindKept
  <2>2. CASE pending'[k] = <<>>
    <3>1. /\ Fine(OneShot(k), pending[k], <<>>, idx, arrived[k], lost[k], next[k])
          /\ CanTell => Once(pending[k], <<>>, idx, arrived[k])
      BY <1>0, <2>0 DEF KindOK, Account
    <3>2. /\ Fine(OneShot(k), <<>>, <<>>, idx, arrived[k], lost[k], next[k])
          /\ Once(pending[k], <<>>, idx, arrived[k]) => Once(<<>>, <<>>, idx, arrived[k])
      BY <3>1, OneShotBool, FineEmpty
    <3>3. Account(OneShot(k), CanTell, initialized', <<>>, <<>>, idx, arrived[k], lost[k], next[k])
      BY <1>0, <3>1, <3>2 DEF Account
    <3>4. ~late'[k] /\ (CanTell => ~dup'[k])
      BY <1>0, <2>0 DEF KindOK
    <3> QED BY <1>0, <2>0, <2>2, <3>3, <3>4, KindNow
  <2>3. pending'[k] = pending[k] \/ pending'[k] = <<>>
    BY <1>0
  <2> QED BY <2>1, <2>2, <2>3
<1> QED BY <1>1, <1>2, <1>3

LEMMA StillStep ==
    ASSUME Inv, UNCHANGED vars
    PROVE  QueuesOK' /\ FlushOK' /\ \A k \in Kind : KindOK(k)'
<1>0. QueuesOK /\ FlushOK /\ (\A k \in Kind : KindOK(k)) /\ UNCHANGED <<life, flush, queue, out>>
  BY DEF Inv, vars
<1>1. QueuesOK'
  BY <1>0 DEF QueuesOK, queue, out
<1>2. FlushOK'
  BY <1>0 DEF FlushOK, flush, life, OneShot
<1>3. ASSUME NEW k \in Kind PROVE KindOK(k)'
  <2>1. Batch(k)' = Batch(k)
    BY <1>0 DEF Batch, flush
  <2> QED BY <1>0, <2>1, KindKept DEF life, flush, queue, out
<1> QED BY <1>1, <1>2, <1>3

LEMMA InvStep == Inv /\ [Next]_vars => Inv'
<1> SUFFICES ASSUME Inv, [Next]_vars PROVE Inv'
  OBVIOUS
<1>1. SwitchOK' /\ PlaceOK'
  BY SwitchStep, PlaceStep
<1>2. QueuesOK' /\ FlushOK' /\ \A k \in Kind : KindOK(k)'
  <2>1. CASE \E k \in Kind : Send(k)
    BY <2>1, SendStep
  <2>2. CASE FlushStep
    <3>1. CASE ConnectInPublish
      BY <3>1, OutsideStep, OutsideFlush DEF Outside
    <3> QED BY <2>2, <3>1, TakeStep, PublishStep, AckStep, FailStep DEF FlushStep
  <2>3. CASE LoopStep \/ ConnectionLost \/ AutoReconnect
    BY <2>3, OutsideStep, OutsideFlush DEF Outside
  <2>4. CASE Lifecycle
    <3>1. CASE Start \/ StopBegin \/ StopReturn \/ CloseFlush
      BY <3>1, OutsideStep, OutsideFlush DEF Outside
    <3> QED BY <2>4, <3>1, CloseStep DEF Lifecycle
  <2>5. CASE UNCHANGED vars
    BY <2>5, StillStep
  <2> QED BY <2>1, <2>2, <2>3, <2>4, <2>5 DEF Next
<1> QED BY <1>1, <1>2 DEF Inv

-----------------------------------------------------------------------------
(* Theorems.                                                                *)

\* Whatever fails and however often the adapter is stopped and started: no
\* queue exceeds its capacity, the broker sees the messages of a kind in the
\* order Send and SendAlarm accepted them, none of them is forgotten between
\* queue, batch and broker, and mqtt and xunji, unless a publish times out,
\* publish none twice.
THEOREM QueuesKept == Spec => []QueuesSound
<1>1. Init => Inv
  BY AdapterInit
<1>2. Inv /\ [Next]_vars => Inv'
  BY InvStep
<1>3. Inv => QueuesSound
  BY InvOK
<1> QED BY <1>1, <1>2, <1>3, PTL DEF Spec

-----------------------------------------------------------------------------
(* The loop's goroutine.                                                    *)

\* OneLoop, and why no loop survives its stop: a Stop or Close disables the
\* adapter first, and a loop that has seen its stop keeps draining only then.
LoopInv ==
    /\ OneLoop
    /\ op # "none" => ~enabled
    /\ mode \in {"drain", "last"} => loop = "on" /\ stopChan = "closed" /\ ~enabled

LEMMA LoopInvStep == Inv /\ LoopInv /\ [Next]_vars => LoopInv'
<1> SUFFICES ASSUME Inv, LoopInv, [Next]_vars PROVE LoopInv'
  OBVIOUS
<1>0. SwitchOK /\ PlaceOK /\ FlushOK /\ SwitchOK'
  BY SwitchStep DEF Inv
<1>1. CASE (\E k \in Kind : Send(k)) \/ ConnectionLost \/ AutoReconnect \/ UNCHANGED vars
  <2>1. UNCHANGED <<life, mode>>
    BY <1>1 DEF Send, ConnectionLost, AutoReconnect, vars, flush
  <2> QED BY <2>1 DEF LoopInv, OneLoop, life
<1>2. CASE FlushStep
  <2>1. UNCHANGED life /\ (mode' = mode \/ mode = "drain")
    <3>1. CASE PublishRefused \/ PublishError \/ PublishTimeout
      <4>1. PICK marks : Requeue(marks)
        BY <3>1 DEF PublishRefused, PublishError, PublishTimeout
      <4>2. mode' = mode \/ mode = "drain"
        BY <4>1 DEF Requeue, AfterFailure
      <4> QED BY <3>1, <4>2 DEF PublishRefused, PublishError, PublishTimeout
    <3> QED BY <1>2, <3>1 DEF FlushStep, TakeBatch, PublishOk, Acked, ConnectInPublish, flush
  <2> QED BY <2>1 DEF LoopInv, OneLoop, life
<1>3. CASE LoopStep
  BY <1>0, <1>3 DEF LoopStep, OnStop, OnWork, OnReconnectNow, DrainAgain, LoopExit, OnTimer, ReconnectOk,
        ReconnectFails, OnTicker, Selecting, Flush, LoopInv, OneLoop, life, flush
<1>4. CASE Lifecycle
  <2>1. CASE Start
    BY <1>0, <2>1 DEF Start, LoopInv, OneLoop, flush
  <2>2. CASE StopBegin
    BY <1>0, <2>2 DEF StopBegin, Closed, LoopInv, OneLoop, flush
  <2>3. CASE StopReturn
    BY <1>0, <2>3 DEF StopReturn, LoopInv, OneLoop, flush
  <2>4. CASE CloseFlush
    BY <1>0, <2>4 DEF CloseFlush, LoopInv, OneLoop
  <2>5. CASE CloseReturn
    BY <1>0, <2>5 DEF CloseReturn, FlushOK, LoopInv, OneLoop
  <2> QED BY <1>4, <2>1, <2>2, <2>3, <2>4, <2>5 DEF Lifecycle
<1> QED BY <1>1, <1>2, <1>3, <1>4 DEF Next

\* Start never adds a second loop: one runs exactly while the adapter is
\* enabled or a Stop or Close waits for it to end.
THEOREM LoopIsOne == Spec => []OneLoop
<1>1. Init => Inv /\ LoopInv
  <2>1. Init => LoopInv
    BY DEF Init, LoopInv, OneLoop
  <2> QED BY <2>1, AdapterInit
<1>2. Inv /\ LoopInv /\ [Next]_vars => (Inv /\ LoopInv)'
  BY InvStep, LoopInvStep
<1>3. LoopInv => OneLoop
  BY DEF LoopInv
<1> QED BY <1>1, <1>2, <1>3, PTL DEF Spec
-----------------------------------------------------------------------------
(* The drain.                                                               *)

\* Nothing can fail, in an adapter that drains its alarms.
NeverFails == ~Guarded /\ ~setting.faults /\ ~setting.timeouts

\* A flush is then refused only without a client, which only a Close takes
\* away: for good, and after the loop.  So no flush fails and ends the drain.
DrainInv ==
    NeverFails =>
        /\ mode # "last" /\ client # "down"
        /\ client = "none" => ~initialized /\ op = "none" /\ loop = "off" /\ todo = <<>>

LEMMA DrainInvStep == Inv /\ DrainInv /\ [Next]_vars => DrainInv'
<1> SUFFICES ASSUME Inv, DrainInv, [Next]_vars, NeverFails' PROVE DrainInv'
  BY DEF DrainInv
<1>1. setting' = setting
  BY SettingKept
<1>2. ~Guarded /\ ~setting.faults /\ ~setting.timeouts
  BY <1>1 DEF NeverFails, Guarded
<1>3. /\ mode # "last" /\ client # "down"
      /\ client = "none" => ~initialized /\ op = "none" /\ loop = "off" /\ todo = <<>>
  BY <1>2 DEF DrainInv, NeverFails
<1>4. client \in {"up", "down", "none"} /\ (mode = "close" => op = "close" /\ loop = "off")
  BY DEF Inv, PlaceOK, FlushOK
<1>5. CASE (\E k \in Kind : Send(k)) \/ UNCHANGED vars
  <2>1. UNCHANGED <<life, flush, client>>
    BY <1>5 DEF Send, vars, link
  <2> QED BY <1>3, <2>1 DEF DrainInv, life, flush
<1>6. CASE ConnectionLost \/ AutoReconnect
  BY <1>2, <1>3, <1>6 DEF ConnectionLost, AutoReconnect
<1>7. CASE PublishRefused \/ PublishError \/ PublishTimeout
  BY <1>2, <1>3, <1>4, <1>7 DEF PublishRefused, PublishError, PublishTimeout, Publishing, MayPublish
<1>8. CASE TakeBatch \/ PublishOk \/ Acked \/ ConnectInPublish
  <2>1. todo # <<>> \/ acked
    BY <1>8 DEF TakeBatch, PublishOk, Acked, ConnectInPublish, Publishing
  <2>2. acked => todo # <<>>
    BY DEF Inv, FlushOK
  <2>3. client = "up"
    BY <1>3, <1>4, <2>1, <2>2
  <2>4. client' = "up" /\ mode' = mode
    BY <1>8, <2>3 DEF TakeBatch, PublishOk, Acked, ConnectInPublish, link
  <2> QED BY <1>3, <2>4 DEF DrainInv
<1>9. CASE LoopStep
  <2>1. loop = "on"
    BY <1>9 DEF LoopStep, OnStop, OnWork, OnReconnectNow, DrainAgain, LoopExit, OnTimer, ReconnectOk,
                ReconnectFails, OnTicker, Selecting
  <2>2. client' = "up"
    BY <1>3, <1>4, <1>9, <2>1 DEF LoopStep, OnStop, OnWork, OnReconnectNow, DrainAgain, LoopExit,
          OnTimer, ReconnectOk, ReconnectFails, OnTicker, link
  <2>3. mode' # "last"
    BY <1>2, <1>3, <1>9 DEF LoopStep, OnStop, OnWork, OnReconnectNow, DrainAgain, LoopExit,
          OnTimer, ReconnectOk, ReconnectFails, OnTicker, Flush, flush
  <2> QED BY <2>2, <2>3 DEF DrainInv
<1>10. CASE Start \/ StopBegin \/ CloseFlush
  <2>1. client = "up"
    BY <1>3, <1>4, <1>10 DEF Start, StopBegin, CloseFlush
  <2>2. client' = client /\ mode' # "last"
    BY <1>3, <1>10 DEF Start, StopBegin, CloseFlush, link, flush
  <2> QED BY <2>1, <2>2 DEF DrainInv
<1>11. CASE StopReturn
  BY <1>3, <1>11 DEF StopReturn, DrainInv, flush, link
<1>12. CASE CloseReturn
  BY <1>4, <1>12 DEF CloseReturn, DrainInv
<1> QED BY <1>5, <1>6, <1>7, <1>8, <1>9, <1>10, <1>11, <1>12 DEF Next, FlushStep, Lifecycle

\* Where nothing fails, iThings, Sagoo and PandaX leave no alarm in the queue
\* when their loop ends.
THEOREM AlarmsDrained == Spec => DrainedAtStop
<1> DEFINE Drained == ~Guarded /\ ~setting.faults /\ ~setting.timeouts /\ loop = "on" /\ loop' = "off"
                        => pending'["alarm"] = <<>>
<1>1. Init => Inv /\ DrainInv
  <2>1. Init => DrainInv
    BY DEF Init, DrainInv
  <2> QED BY <2>1, AdapterInit
<1>2. Inv /\ DrainInv /\ [Next]_vars => (Inv /\ DrainInv)'
  BY InvStep, DrainInvStep
<1>3. ASSUME Inv, DrainInv, [Next]_vars PROVE [Drained]_vars
  <2> SUFFICES ASSUME NeverFails, loop = "on", loop' = "off" PROVE pending'["alarm"] = <<>>
    BY DEF NeverFails
  <2>1. mode # "last" /\ mode # "close"
    BY <1>3 DEF DrainInv, Inv, FlushOK
  <2>2. CASE LoopExit
    BY <2>1, <2>2 DEF LoopExit, DrainGoesOn, queue
  <2>3. CASE LoopStep /\ ~LoopExit
    BY <2>3 DEF LoopStep, OnStop, OnWork, OnReconnectNow, DrainAgain, OnTimer, ReconnectOk,
                ReconnectFails, OnTicker, life
  <2>4. CASE FlushStep
    BY <2>4 DEF FlushStep, TakeBatch, PublishOk, Acked, PublishRefused, ConnectInPublish,
                PublishError, PublishTimeout, life
  <2>5. CASE Lifecycle
    BY <2>5 DEF Lifecycle, Start, StopBegin, StopReturn, CloseFlush, CloseReturn
  <2>6. CASE (\E k \in Kind : Send(k)) \/ ConnectionLost \/ AutoReconnect \/ UNCHANGED vars
    BY <2>6 DEF Send, ConnectionLost, AutoReconnect, vars, life
  <2> QED BY <1>3, <2>2, <2>3, <2>4, <2>5, <2>6 DEF Next
<1> HIDE DEF Drained
<1>4. Spec => [][Drained]_vars
  BY <1>1, <1>2, <1>3, PTL DEF Spec
<1> QED BY <1>4 DEF DrainedAtStop, Drained
=============================================================================
