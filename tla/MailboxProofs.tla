---------------------------- MODULE MailboxProofs ----------------------------
(***************************************************************************)
(* Proofs about Mailbox: who owns the buffers.                             *)
(***************************************************************************)
EXTENDS Mailbox, SequenceTheorems, TLAPS

USE BufferAssumption, SizeAssumption DEF None

\* Allocations succeed while there is a free buffer, of which there are two
\* at least, and a queue has room for two.
HeapSuffices ==
  /\ HeapLow = "never"
  /\ QueueSize >= 3
  /\ \E a, b \in Buffers : a # b

(***************************************************************************)
(* Queues.                                                                 *)
(***************************************************************************)
Distinct(q) ==
  \A i, j \in DOMAIN q : q[i] = q[j] /\ q[i] # None => i = j

LEMMA AppendElements ==
  ASSUME NEW q \in Seq(Buffers), NEW b \in Buffers
  PROVE  /\ Append(q, b) \in Seq(Buffers)
         /\ Len(Append(q, b)) = Len(q) + 1
         /\ Elements(Append(q, b)) = Elements(q) \cup {b}
         /\ Distinct(q) /\ b \notin Elements(q) => Distinct(Append(q, b))
<1>1. /\ Append(q, b) \in Seq(Buffers) /\ Len(Append(q, b)) = Len(q) + 1
      /\ DOMAIN q = 1 .. Len(q) /\ DOMAIN Append(q, b) = 1 .. Len(q) + 1
      /\ Len(q) \in Nat
      /\ \A i \in 1 .. Len(q) : Append(q, b)[i] = q[i]
      /\ Append(q, b)[Len(q) + 1] = b
  BY AppendProperties, LenProperties
<1> DEFINE n == Len(q)
           r == Append(q, b)
<1> HIDE DEF n, r
<1>2. /\ DOMAIN q = 1 .. n /\ DOMAIN r = 1 .. n + 1 /\ n \in Nat
      /\ \A i \in 1 .. n : r[i] = q[i]
      /\ r[n + 1] = b
  BY <1>1 DEF n, r
<1>3. 1 .. n + 1 = (1 .. n) \cup {n + 1}
  BY <1>2
<1>4. Elements(r) = Elements(q) \cup {b}
  BY <1>2, <1>3 DEF Elements
<1>5. Distinct(q) /\ b \notin Elements(q) => Distinct(r)
  BY <1>2, <1>3 DEF Elements, Distinct
<1> QED
  BY <1>1, <1>4, <1>5 DEF n, r

LEMMA TailElements ==
  ASSUME NEW q \in Seq(Buffers), q # <<>>
  PROVE  /\ Head(q) \in Buffers /\ Tail(q) \in Seq(Buffers)
         /\ Len(Tail(q)) = Len(q) - 1
         /\ Elements(q) = Elements(Tail(q)) \cup {Head(q)}
         /\ Distinct(q) => /\ Distinct(Tail(q))
                           /\ Head(q) \notin Elements(Tail(q))
<1> DEFINE n == Len(q)
           r == Tail(q)
           h == Head(q)
<1>1. /\ h \in Buffers /\ r \in Seq(Buffers) /\ Len(r) = n - 1
      /\ DOMAIN q = 1 .. n /\ DOMAIN r = 1 .. n - 1
      /\ n \in Nat \ {0}
      /\ \A i \in 1 .. n - 1 : r[i] = q[i + 1]
      /\ q[1] = h
  BY HeadTailProperties, LenProperties, EmptySeq
<1> HIDE DEF n, r, h
<1>2. \A i \in 1 .. n : i = 1 \/ (i - 1 \in 1 .. n - 1 /\ q[i] = r[i - 1])
  BY <1>1
<1>3. Elements(q) = Elements(r) \cup {h}
  <2>1. \A i \in DOMAIN q : q[i] \in Elements(r) \cup {h}
    BY <1>1, <1>2 DEF Elements
  <2>2. h \in Elements(q)
    BY <1>1 DEF Elements
  <2>3. \A i \in DOMAIN r : r[i] \in Elements(q)
    <3> TAKE i \in DOMAIN r
    <3>1. i + 1 \in 1 .. n /\ r[i] = q[i + 1]
      BY <1>1
    <3> QED
      BY <1>1, <3>1 DEF Elements
  <2> QED
    BY <2>1, <2>2, <2>3 DEF Elements
<1>4. ASSUME Distinct(q)
      PROVE  Distinct(r) /\ h \notin Elements(r)
  <2>1. \A i \in 1 .. n : q[i] # None
    BY <1>1
  <2>2. \A i, j \in 1 .. n : q[i] = q[j] => i = j
    BY <1>1, <1>4, <2>1 DEF Distinct
  <2>3. \A i \in 1 .. n - 1 : i + 1 \in 1 .. n /\ i + 1 # 1 /\ r[i] = q[i + 1]
    BY <1>1
  <2>4. Distinct(r)
    BY <1>1, <2>2, <2>3 DEF Distinct
  <2>5. \A i \in DOMAIN r : r[i] # h
    BY <1>1, <2>2, <2>3
  <2> QED
    BY <2>4, <2>5 DEF Elements
<1> QED
  BY <1>1, <1>3, <1>4 DEF n, r, h

LEMMA ConcatElements ==
  ASSUME NEW s \in Seq(Optional), NEW t \in Seq(Optional)
  PROVE  /\ s \o t \in Seq(Optional)
         /\ Elements(s \o t) = Elements(s) \cup Elements(t)
         /\ /\ Distinct(s) /\ Distinct(t)
            /\ Elements(s) \cap Elements(t) \subseteq {None}
            => Distinct(s \o t)
<1> DEFINE m == Len(s)
           n == Len(t)
           r == s \o t
<1>1. /\ r \in Seq(Optional) /\ m \in Nat /\ n \in Nat
      /\ DOMAIN r = 1 .. m + n /\ DOMAIN s = 1 .. m /\ DOMAIN t = 1 .. n
      /\ \A i \in 1 .. m + n : r[i] = IF i <= m THEN s[i] ELSE t[i - m]
  BY ConcatProperties, LenProperties
<1> HIDE DEF m, n, r
<1>2. /\ \A i \in 1 .. m : i \in 1 .. m + n /\ r[i] = s[i]
      /\ \A i \in 1 .. n : i + m \in 1 .. m + n /\ r[i + m] = t[i]
      /\ \A i \in 1 .. m + n : i \in 1 .. m \/ i - m \in 1 .. n
      /\ \A i \in 1 .. m + n : i \notin 1 .. m => r[i] = t[i - m]
  BY <1>1
<1>3. /\ \A i \in 1 .. m : s[i] \in Elements(s)
      /\ \A i \in 1 .. n : t[i] \in Elements(t)
      /\ \A i \in 1 .. m + n : r[i] \in Elements(r)
  BY <1>1 DEF Elements
<1>4. Elements(r) = Elements(s) \cup Elements(t)
  <2>1. \A i \in 1 .. m + n : r[i] \in Elements(s) \cup Elements(t)
    BY <1>2, <1>3
  <2>2. \A i \in 1 .. m : s[i] \in Elements(r)
    <3> TAKE i \in 1 .. m
    <3>1. i \in 1 .. m + n /\ r[i] = s[i]
      BY <1>2
    <3> QED
      BY <1>3, <3>1
  <2>3. \A i \in 1 .. n : t[i] \in Elements(r)
    <3> TAKE i \in 1 .. n
    <3>1. i + m \in 1 .. m + n /\ r[i + m] = t[i]
      BY <1>2
    <3> QED
      BY <1>3, <3>1
  <2>4. /\ Elements(r) = {r[i] : i \in 1 .. m + n}
        /\ Elements(s) = {s[i] : i \in 1 .. m}
        /\ Elements(t) = {t[i] : i \in 1 .. n}
    BY <1>1 DEF Elements
  <2>5. Elements(r) \subseteq Elements(s) \cup Elements(t)
    BY <2>1, <2>4
  <2>6. Elements(s) \subseteq Elements(r)
    BY <2>2, <2>4
  <2>7. Elements(t) \subseteq Elements(r)
    BY <2>3, <2>4
  <2> QED
    BY <2>5, <2>6, <2>7
<1>5. ASSUME Distinct(s), Distinct(t),
             Elements(s) \cap Elements(t) \subseteq {None}
      PROVE  Distinct(r)
  <2> SUFFICES ASSUME NEW i \in 1 .. m + n, NEW j \in 1 .. m + n,
                      r[i] = r[j], r[i] # None
               PROVE  i = j
    BY <1>1 DEF Distinct
  <2>3. CASE i \in 1 .. m /\ j \in 1 .. m
    BY <1>1, <1>2, <1>5, <2>3 DEF Distinct
  <2>4. CASE i \notin 1 .. m /\ j \notin 1 .. m
    <3>1. i - m \in 1 .. n /\ j - m \in 1 .. n /\ t[i - m] = r[i]
          /\ t[j - m] = r[j]
      BY <1>2, <2>4
    <3>2. i - m = j - m
      BY <1>1, <1>5, <3>1 DEF Distinct
    <3> QED
      BY <1>1, <3>2
  <2>5. CASE i \in 1 .. m /\ j \notin 1 .. m
    BY <1>2, <1>3, <1>5, <2>5
  <2>6. CASE i \notin 1 .. m /\ j \in 1 .. m
    BY <1>2, <1>3, <1>5, <2>6
  <2> QED
    BY <2>3, <2>4, <2>5, <2>6
<1> QED
  BY <1>1, <1>4, <1>5 DEF m, n, r

(***************************************************************************)
(* The invariant: what the pointers say of each other, and that the heap   *)
(* is the disjoint union of the places, of the answer c that CoE keeps     *)
(* back and of the buffers X in the hands of a service.                    *)
(***************************************************************************)
Fit(m) ==
  /\ m \in Boxes
  /\ m.full => m.read # None /\ m.read # m.repeat
  /\ ~m.full => m.read = m.repeat /\ m.store = None /\ m.sq = <<>>
  /\ m.store # None => m.repeat = None /\ m.store # m.read
  /\ ~m.running => /\ m.read = None /\ ~m.full /\ m.rq = <<>>
                   /\ m.sm0 = Nothing
  /\ m.event \/ m.locked => m.sm0 # Nothing
  /\ ~(m.event /\ m.locked)
  /\ ~m.noMemory /\ m.foe = None
  /\ \A b \in Elements(m.rq) : m.buf[b].kind # "long"

Sent(m) == {m.read, m.repeat, m.store} \ {None}

Own(m, c, X) ==
  /\ m.heap = Sent(m) \cup ({c} \ {None}) \cup Elements(m.rq)
                \cup Elements(m.sq) \cup X
  /\ Distinct(m.rq) /\ Distinct(m.sq)
  /\ c \notin Sent(m) \cup Elements(m.rq) \cup Elements(m.sq) \cup X
  /\ Sent(m) \cap (Elements(m.rq) \cup Elements(m.sq) \cup X) = {}
  /\ Elements(m.rq) \cap (Elements(m.sq) \cup X) = {}
  /\ Elements(m.sq) \cap X = {}

LEMMA BlankType == Blank \in Contents
  BY DEF Blank, Request, Contents, AllKinds, Nat0

\* n differs from m in these fields only.
Alike(m, n, fields) ==
  /\ n \in Boxes /\ DOMAIN n = DOMAIN m
  /\ \A f \in DOMAIN m \ fields : n[f] = m[f]

LEMMA AlikeFields ==
  ASSUME NEW m \in Boxes, NEW n, NEW fs, Alike(m, n, fs)
  PROVE  /\ n \in Boxes
         /\ "running" \notin fs => n.running = m.running
         /\ "boot" \notin fs => n.boot = m.boot
         /\ "noMemory" \notin fs => n.noMemory = m.noMemory
         /\ "heap" \notin fs => n.heap = m.heap
         /\ "buf" \notin fs => n.buf = m.buf
         /\ "read" \notin fs => n.read = m.read
         /\ "repeat" \notin fs => n.repeat = m.repeat
         /\ "store" \notin fs => n.store = m.store
         /\ "coe" \notin fs => n.coe = m.coe
         /\ "foe" \notin fs => n.foe = m.foe
         /\ "rq" \notin fs => n.rq = m.rq
         /\ "sq" \notin fs => n.sq = m.sq
         /\ "full" \notin fs => n.full = m.full
         /\ "locked" \notin fs => n.locked = m.locked
         /\ "toggle" \notin fs => n.toggle = m.toggle
         /\ "stored" \notin fs => n.stored = m.stored
         /\ "wcount" \notin fs => n.wcount = m.wcount
         /\ "rcount" \notin fs => n.rcount = m.rcount
         /\ "left" \notin fs => n.left = m.left
         /\ "part" \notin fs => n.part = m.part
         /\ "sent" \notin fs => n.sent = m.sent
         /\ "served" \notin fs => n.served = m.served
         /\ "dropped" \notin fs => n.dropped = m.dropped
         /\ "sm0" \notin fs => n.sm0 = m.sm0
         /\ "event" \notin fs => n.event = m.event
         /\ "sm1" \notin fs => n.sm1 = m.sm1
         /\ "ack" \notin fs => n.ack = m.ack
  BY ZenonT(60) DEF Alike, Boxes

LEMMA AlikeTrans ==
  ASSUME NEW m \in Boxes, NEW n, NEW k, NEW fs, NEW gs, NEW hs,
         Alike(m, n, fs), Alike(n, k, gs), fs \cup gs \subseteq hs
  PROVE  Alike(m, k, hs)
  BY DEF Alike

LEMMA AlikeSelf == ASSUME NEW m \in Boxes, NEW fs PROVE Alike(m, m, fs)
  BY DEF Alike

LEMMA FilledFacts ==
  ASSUME NEW m \in Boxes, NEW b \in Buffers, NEW x \in Contents
  PROVE  /\ Alike(m, Filled(m, b, x), {"heap", "buf"})
         /\ Filled(m, b, x).heap = m.heap \cup {b}
         /\ Filled(m, b, x).buf[b] = x
         /\ \A a \in Buffers \ {b} : Filled(m, b, x).buf[a] = m.buf[a]
  BY ZenonT(60) DEF Filled, Boxes, Alike

LEMMA CountedFacts ==
  ASSUME NEW m \in Boxes, NEW b \in Buffers
  PROVE  /\ Alike(m, Counted(m, b), {"buf", "rcount", "sent"})
         /\ Counted(m, b).buf[b].kind = m.buf[b].kind
         /\ \A a \in Buffers \ {b} : Counted(m, b).buf[a] = m.buf[a]
<1> DEFINE c == (m.rcount % Counters) + 1
           n == m.sent + 1
           x == [m.buf[b] EXCEPT !.counter = m.rcount, !.serial = n]
<1>1. c \in Nat0(Counters) /\ m.rcount \in Nat0(Counters) /\ n \in Nat
  <2> DEFINE k == m.rcount
             l == m.sent
  <2>1. k \in Nat0(Counters) /\ l \in Nat
    BY DEF Boxes
  <2> HIDE DEF k, l
  <2>2. k \in Nat /\ Counters \in Nat \ {0, 1}
    BY ONLY <2>1, SizeAssumption DEF Nat0
  <2>3. (k % Counters) + 1 \in Nat0(Counters)
    BY ONLY <2>2 DEF Nat0
  <2> QED
    BY <2>1, <2>3 DEF k, l
<1>2. x \in Contents /\ x.kind = m.buf[b].kind
  <2>1. m.buf[b] \in Contents
    BY DEF Boxes
  <2> DEFINE y == m.buf[b]
  <2> HIDE DEF n, y
  <2>2. y \in Contents
    BY <2>1 DEF y
  <2>3. [y EXCEPT !.counter = m.rcount, !.serial = n] \in Contents
    BY <1>1, <2>2 DEF Contents
  <2>4. [y EXCEPT !.counter = m.rcount, !.serial = n].kind = y.kind
    BY <2>2 DEF Contents
  <2> QED
    BY <2>3, <2>4 DEF y
<1>3. Counted(m, b) = [m EXCEPT !.buf = [m.buf EXCEPT ![b] = x],
                                !.rcount = c, !.sent = n]
  BY DEF Counted, Boxes
<1> HIDE DEF c, n, x
<1>4. Alike(m, [m EXCEPT !.buf = [m.buf EXCEPT ![b] = x],
                         !.rcount = c, !.sent = n], {"buf", "rcount", "sent"})
  BY <1>1, <1>2 DEF Boxes, Alike
<1>5. Counted(m, b).buf = [m.buf EXCEPT ![b] = x]
  BY <1>3 DEF Boxes
<1> QED
  BY <1>2, <1>3, <1>4, <1>5 DEF Boxes

LEMMA CopyFacts ==
  ASSUME NEW m \in Boxes, NEW b \in Buffers
  PROVE  /\ Alike(m, CopyToSend(m, b), {"sm1", "read", "full"})
         /\ CopyToSend(m, b).read = b /\ CopyToSend(m, b).full
  BY ZenonT(60) DEF CopyToSend, Boxes, Optional, Alike

\* No buffer is freed that a queue or a service still has.
LEMMA FreedFacts ==
  ASSUME NEW m \in Boxes, NEW X
  PROVE  /\ Alike(m, Freed(m, X), {"heap", "buf"})
         /\ Freed(m, X).heap = m.heap \ X
         /\ \A a \in Buffers \ X : Freed(m, X).buf[a] = m.buf[a]
  BY BlankType DEF Freed, Boxes, Alike

(***************************************************************************)
(* Sending: a buffer in hand goes to SM1 or to the queue; if that is full, *)
(* it stays in hand.                                                       *)
(***************************************************************************)
Refused(m) == m.full /\ QueueFull(m.sq)

PutFields == {"buf", "rcount", "sent", "sm1", "read", "full", "sq"}
SendFields == PutFields \cup {"stored"}

\* A service is noted as waiting only while an answer waits in SM1.
Driven(m) == m.stored \subseteq {"coe"} /\ (m.stored # {} => m.full)

Drives(m, n) ==
  /\ n.stored \subseteq m.stored \cup {"coe"}
  /\ n.full \/ (n.stored = m.stored /\ n.full = m.full)

LEMMA DrivesOn ==
  ASSUME NEW m, NEW n, Driven(m), Drives(m, n)
  PROVE  Driven(n)
  BY DEF Driven, Drives

\* What sending b leaves: of m the box n.
SentFrom(m, n) ==
  /\ Fit(n) /\ Alike(m, n, SendFields) /\ n.full
  /\ n.stored \subseteq m.stored \cup {"coe"}
  /\ Len(n.sq) <= Len(m.sq) + (IF m.full THEN 1 ELSE 0)

LEMMA StoredFacts ==
  ASSUME NEW m, Fit(m), NEW services \in SUBSET {"coe", "foe"}, NEW c, NEW X,
         Own(m, c, X)
  PROVE  LET n == [m EXCEPT !.stored = services]
         IN  Fit(n) /\ Alike(m, n, {"stored"}) /\ Own(n, c, X)
<1> DEFINE n == [m EXCEPT !.stored = services]
<1>1. Alike(m, n, {"stored"})
  BY DEF Alike, Boxes, Fit
<1> HIDE DEF n
<1>2. Fit(n)
  BY <1>1, AlikeFields DEF Fit
<1>3. Own(n, c, X)
  BY <1>1, AlikeFields DEF Own, Sent, Fit
<1> QED
  BY <1>1, <1>2, <1>3 DEF n

LEMMA CountedFit ==
  ASSUME NEW m, Fit(m), NEW b \in Buffers, NEW c, Own(m, c, {b})
  PROVE  Fit(Counted(m, b)) /\ Own(Counted(m, b), c, {b})
<1> DEFINE n == Counted(m, b)
<1>1. /\ Alike(m, n, {"buf", "rcount", "sent"})
      /\ n.buf[b].kind = m.buf[b].kind
      /\ \A a \in Buffers \ {b} : n.buf[a] = m.buf[a]
  BY CountedFacts DEF Fit
<1> HIDE DEF n
<1>2. \A a \in Buffers : n.buf[a].kind = m.buf[a].kind
  BY <1>1
<1>3. Elements(m.rq) \subseteq Buffers
  BY LenProperties DEF Elements, Fit, Boxes
<1>4. Fit(n)
  BY <1>1, <1>2, <1>3, AlikeFields DEF Fit
<1>5. Own(n, c, {b})
  BY <1>1, AlikeFields DEF Own, Sent, Fit
<1> QED
  BY <1>4, <1>5 DEF n

LEMMA CopyFit ==
  ASSUME NEW m, Fit(m), NEW b \in Buffers, NEW c, Own(m, c, {b}), ~m.full,
         m.running
  PROVE  Fit(CopyToSend(m, b)) /\ Own(CopyToSend(m, b), c, {})
<1> DEFINE n == CopyToSend(m, b)
<1>1. Alike(m, n, {"sm1", "read", "full"}) /\ n.read = b /\ n.full
  BY CopyFacts DEF Fit
<1> HIDE DEF n
<1>2. b \notin Sent(m)
  BY DEF Own
<1>3. Fit(n)
  BY <1>1, <1>2, AlikeFields DEF Fit, Sent
<1>4. Sent(n) = Sent(m) \cup {b}
  BY <1>1, AlikeFields DEF Sent, Fit
<1>5. Own(n, c, {})
  BY <1>1, <1>4, AlikeFields DEF Own, Fit
<1> QED
  BY <1>3, <1>5 DEF n

LEMMA QueuedFit ==
  ASSUME NEW m, Fit(m), NEW b \in Buffers, NEW c, Own(m, c, {b}), m.full
  PROVE  LET n == [m EXCEPT !.sq = Append(@, b)]
         IN  /\ Fit(n) /\ Own(n, c, {}) /\ Alike(m, n, {"sq"})
             /\ Len(n.sq) = Len(m.sq) + 1
<1> DEFINE n == [m EXCEPT !.sq = Append(m.sq, b)]
<1>1. m.sq \in Seq(Buffers)
  BY DEF Fit, Boxes
<1>2. /\ Append(m.sq, b) \in Seq(Buffers)
      /\ Len(Append(m.sq, b)) = Len(m.sq) + 1
      /\ Elements(Append(m.sq, b)) = Elements(m.sq) \cup {b}
      /\ Distinct(Append(m.sq, b))
  BY <1>1, AppendElements DEF Own
<1>3. Alike(m, n, {"sq"}) /\ n.sq = Append(m.sq, b)
  BY <1>2 DEF Alike, Boxes, Fit
<1> HIDE DEF n
<1>4. Fit(n)
  BY <1>3, AlikeFields DEF Fit
<1>5. /\ n.heap = m.heap /\ n.rq = m.rq /\ n.coe = m.coe
      /\ n.read = m.read /\ n.repeat = m.repeat /\ n.store = m.store
  <2>1. m \in Boxes
    BY DEF Fit
  <2> QED
    BY ONLY <2>1, <1>3, AlikeFields
<1>6. Sent(n) = Sent(m)
  BY ONLY <1>5 DEF Sent
<1>7. Elements(n.sq) = Elements(m.sq) \cup {b} /\ Distinct(n.sq)
  BY <1>2, <1>3
<1>8. Own(n, c, {})
  BY ONLY Own(m, c, {b}), <1>5, <1>6, <1>7 DEF Own
<1> QED
  BY <1>2, <1>3, <1>4, <1>8 DEF n

LEMMA SendReqFacts ==
  ASSUME NEW m, Fit(m), m.running, NEW b \in Buffers, NEW c,
         Own(m, c, {b}), NEW services \in SUBSET {"coe", "foe"},
         NEW follow \in BOOLEAN,
         services \subseteq {"coe"} \/ (~follow /\ ~Refused(m))
  PROVE  LET s == SendReq(m, b, services, follow)
         IN  /\ s.ok = ~Refused(m)
             /\ SentFrom(m, s.box)
             /\ Own(s.box, c, IF s.ok THEN {} ELSE {b})
<1> DEFINE s == SendReq(m, b, services, follow)
           counted == Counted(m, b)
           put == IF Refused(m) THEN m
                  ELSE IF m.full THEN [counted EXCEPT !.sq = Append(@, b)]
                  ELSE CopyToSend(counted, b)
           flags == IF follow \/ Refused(m) THEN put.stored \cup services
                    ELSE put.stored
<1>1. s.box = [put EXCEPT !.stored = flags] /\ s.ok = ~Refused(m)
  BY DEF SendReq, Sending, Refused
<1>2. /\ Fit(counted) /\ Own(counted, c, {b})
      /\ Alike(m, counted, {"buf", "rcount", "sent"})
  <2>1. m \in Boxes
    BY DEF Fit
  <2> QED
    BY <2>1, CountedFit, CountedFacts
<1>3. /\ counted.full = m.full /\ counted.running /\ counted.sq = m.sq
  BY <1>2, AlikeFields DEF Fit
<1> HIDE DEF counted
<1>4. /\ Fit(put) /\ Own(put, c, IF Refused(m) THEN {b} ELSE {})
      /\ Alike(m, put, PutFields) /\ put.full
      /\ Len(put.sq) <= Len(m.sq) + (IF m.full THEN 1 ELSE 0)
  <2>1. Len(m.sq) \in Nat
    BY LenProperties DEF Fit, Boxes
  <2>2. CASE Refused(m)
    BY <2>1, <2>2 DEF Refused, Alike, Fit
  <2>3. CASE ~Refused(m) /\ m.full
    <3> DEFINE n == [counted EXCEPT !.sq = Append(@, b)]
    <3>1. Fit(n) /\ Own(n, c, {}) /\ Alike(counted, n, {"sq"})
          /\ Len(n.sq) = Len(counted.sq) + 1
      BY <1>2, <1>3, <2>3, QueuedFit
    <3> HIDE DEF n
    <3>2. Alike(m, n, PutFields) /\ n.full
      <4>1. {"buf", "rcount", "sent"} \cup {"sq"} \subseteq PutFields
        BY DEF PutFields
      <4>2. m \in Boxes /\ counted \in Boxes
        BY <1>2 DEF Fit
      <4> QED
        BY <1>2, <1>3, <2>3, <3>1, <4>1, <4>2, AlikeTrans, AlikeFields
    <3>3. put = n
      BY <2>3 DEF n
    <3> HIDE DEF put
    <3> QED
      BY <1>3, <2>1, <2>3, <3>1, <3>2, <3>3
  <2>4. CASE ~m.full
    <3> DEFINE n == CopyToSend(counted, b)
    <3>1. Fit(n) /\ Own(n, c, {}) /\ Alike(counted, n, {"sm1", "read", "full"})
          /\ n.full
      <4>1. counted \in Boxes
        BY <1>2 DEF Fit
      <4> QED
        BY <1>2, <1>3, <2>4, <4>1, CopyFit, CopyFacts
    <3> HIDE DEF n
    <3>2. Alike(m, n, PutFields) /\ n.sq = m.sq
      <4>1. {"buf", "rcount", "sent"} \cup {"sm1", "read", "full"}
              \subseteq PutFields
        BY DEF PutFields
      <4>2. m \in Boxes /\ counted \in Boxes
        BY <1>2 DEF Fit
      <4> QED
        BY <1>2, <1>3, <3>1, <4>1, <4>2, AlikeTrans, AlikeFields
    <3>3. put = n /\ ~Refused(m)
      BY <2>4 DEF n, Refused
    <3> HIDE DEF put
    <3> QED
      BY <2>1, <2>4, <3>1, <3>2, <3>3
  <2> QED
    BY <2>2, <2>3, <2>4
<1> HIDE DEF put
<1>5. /\ flags \in SUBSET {"coe", "foe"}
      /\ flags \subseteq m.stored \cup {"coe"}
  <2>1. m \in Boxes /\ put \in Boxes
    BY <1>4 DEF Fit
  <2>2. put.stored = m.stored
    BY <1>4, <2>1, AlikeFields DEF PutFields
  <2> QED
    BY <2>1, <2>2 DEF Boxes
<1> HIDE DEF flags, s
<1>6. /\ Fit(s.box) /\ Alike(put, s.box, {"stored"})
      /\ Own(s.box, c, IF Refused(m) THEN {b} ELSE {})
  <2> DEFINE n == [put EXCEPT !.stored = flags]
             X == IF Refused(m) THEN {b} ELSE {}
  <2> HIDE DEF X
  <2>1. Own(put, c, X)
    BY <1>4 DEF X
  <2>2. Fit(n) /\ Alike(put, n, {"stored"}) /\ Own(n, c, X)
    BY <1>4, <1>5, <2>1, StoredFacts
  <2> HIDE DEF n
  <2>3. s.box = n
    BY <1>1 DEF n
  <2> QED
    BY <2>2, <2>3 DEF X
<1>7. SentFrom(m, s.box)
  <2>1. PutFields \cup {"stored"} \subseteq SendFields
    BY DEF SendFields, PutFields
  <2>2. m \in Boxes /\ put \in Boxes
    BY <1>4 DEF Fit
  <2>3. Alike(m, s.box, SendFields)
    BY <1>4, <1>6, <2>1, <2>2, AlikeTrans
  <2>4. s.box.full /\ s.box.sq = put.sq
    BY <1>4, <1>6, <2>2, AlikeFields
  <2>5. s.box.stored = flags
    BY <1>1, <2>2 DEF Boxes
  <2> QED
    BY <1>4, <1>5, <1>6, <2>3, <2>4, <2>5 DEF SentFrom
<1> QED
  BY <1>1, <1>6, <1>7 DEF s

(***************************************************************************)
(* The services: a buffer in hand is sent, kept back or freed.             *)
(***************************************************************************)
HandFields == SendFields \cup {"coe", "dropped", "left", "part", "heap"}

\* What is left of m when nothing is in hand any more.
Handled(m, n) ==
  /\ Fit(n) /\ Own(n, n.coe, {}) /\ Alike(m, n, HandFields)
  /\ Len(n.sq) <= Len(m.sq) + (IF m.full THEN 1 ELSE 0)
  /\ Drives(m, n)

LEMMA LessFields ==
  ASSUME NEW m \in Boxes, NEW n, NEW fs, NEW gs, Alike(m, n, fs),
         fs \subseteq gs
  PROVE  Alike(m, n, gs)
  BY DEF Alike

LEMMA SentIsHandled ==
  ASSUME NEW m, Fit(m), NEW n, SentFrom(m, n), Own(n, m.coe, {})
  PROVE  Handled(m, n) /\ n.dropped = m.dropped
<1>1. m \in Boxes /\ Alike(m, n, SendFields)
  BY DEF Fit, SentFrom
<1>2. n.coe = m.coe /\ n.dropped = m.dropped
  BY <1>1, AlikeFields DEF SendFields, PutFields
<1>3. Alike(m, n, HandFields)
  BY <1>1, LessFields DEF HandFields
<1> QED
  BY <1>2, <1>3 DEF Handled, SentFrom, Drives

LEMMA SendCoeFacts ==
  ASSUME NEW m, Fit(m), m.running, NEW b \in Buffers, Own(m, m.coe, {b}),
         Refused(m) => m.coe = None, NEW follow \in BOOLEAN
  PROVE  Handled(m, SendCoe(m, b, follow))
         /\ SendCoe(m, b, follow).dropped = m.dropped
<1> DEFINE s == SendReq(m, b, {"coe"}, follow)
<1>1. /\ s.ok = ~Refused(m) /\ SentFrom(m, s.box)
      /\ Own(s.box, m.coe, IF s.ok THEN {} ELSE {b})
  BY SendReqFacts
<1>2. SendCoe(m, b, follow) = IF s.ok THEN s.box
                              ELSE [s.box EXCEPT !.coe = b]
  BY DEF SendCoe
<1> HIDE DEF s
<1>3. CASE s.ok
  BY <1>1, <1>2, <1>3, SentIsHandled
<1>4. CASE ~s.ok
  <2> DEFINE k == s.box
             n == [k EXCEPT !.coe = b]
  <2>1. Fit(k) /\ Alike(m, k, SendFields) /\ Own(k, None, {b})
    BY <1>1, <1>4 DEF SentFrom
  <2> HIDE DEF k
  <2>2. Alike(k, n, {"coe"}) /\ n.coe = b
    <3>1. b \in Optional /\ k \in Boxes
      BY <2>1 DEF Optional, Fit
    <3> QED
      BY ONLY <3>1 DEF Alike, Boxes
  <2> HIDE DEF n
  <2>3. m \in Boxes /\ k \in Boxes
    BY <2>1 DEF Fit
  <2>4. Fit(n)
    BY <2>1, <2>2, <2>3, AlikeFields DEF Fit
  <2>5. Own(n, b, {})
    BY <2>1, <2>2, <2>3, AlikeFields DEF Own, Sent
  <2>6. Alike(m, n, HandFields)
    BY <2>1, <2>2, <2>3, AlikeTrans DEF HandFields
  <2>7. n.sq = k.sq /\ n.dropped = m.dropped
    BY <2>1, <2>2, <2>3, AlikeFields DEF SendFields, PutFields
  <2>8. /\ Len(k.sq) <= Len(m.sq) + (IF m.full THEN 1 ELSE 0)
        /\ k.full /\ k.stored \subseteq m.stored \cup {"coe"}
    BY <1>1 DEF SentFrom, k
  <2>10. Drives(m, n)
    BY <2>2, <2>3, <2>8, AlikeFields DEF Drives
  <2>9. Handled(m, n) /\ n.dropped = m.dropped
    BY <2>2, <2>4, <2>5, <2>6, <2>7, <2>8, <2>10 DEF Handled
  <2> QED
    BY <1>2, <1>4, <2>9 DEF n, k
<1> QED
  BY <1>3, <1>4

LEMMA SendErrorFacts ==
  ASSUME NEW m, Fit(m), m.running, NEW b \in Buffers, Own(m, m.coe, {b}),
         ~Refused(m)
  PROVE  Handled(m, SendError(m, b)) /\ SendError(m, b).dropped = m.dropped
<1> DEFINE s == SendReq(m, b, {}, FALSE)
<1>1. s.ok /\ SentFrom(m, s.box) /\ Own(s.box, m.coe, {})
  BY SendReqFacts
<1>2. SendError(m, b) = [s.box EXCEPT !.dropped = @ \/ ~s.ok]
  BY DEF SendError
<1> HIDE DEF s
<1> DEFINE k == s.box
           n == [k EXCEPT !.dropped = k.dropped]
<1>3. Fit(k) /\ k \in Boxes
  BY <1>1 DEF SentFrom, Fit
<1> HIDE DEF k
<1>4. n = k
  BY <1>3 DEF Boxes
<1>5. Handled(m, k) /\ k.dropped = m.dropped
  BY <1>1, SentIsHandled DEF k
<1>6. k.dropped \/ ~s.ok <=> k.dropped
  BY <1>1
<1>7. SendError(m, b) = n
  BY <1>2, <1>3, <1>6 DEF k, Boxes
<1> QED
  BY <1>4, <1>5, <1>7

LEMMA SendFoeFacts ==
  ASSUME NEW m, Fit(m), m.running, NEW b \in Buffers, Own(m, m.coe, {b}),
         ~Refused(m)
  PROVE  /\ ~SendFoe(m, b).dropped => Handled(m, SendFoe(m, b))
         /\ ~m.boot => SendFoe(m, b).dropped = m.dropped
<1> DEFINE s == SendReq(m, b, {"foe"}, FALSE)
<1>1. CASE ~m.boot
  <2>1. s.ok /\ SentFrom(m, s.box) /\ Own(s.box, m.coe, {})
    BY SendReqFacts
  <2>2. SendFoe(m, b) = s.box
    BY <1>1, <2>1 DEF SendFoe
  <2> QED
    BY <2>1, <2>2, SentIsHandled
<1>2. CASE m.boot
  <2> SUFFICES ASSUME ~SendFoe(m, b).dropped
               PROVE  Handled(m, SendFoe(m, b))
    BY <1>2
  <2>1. CanSend(m)
    <3>1. CASE ~CanSend(m)
      <4>1. SendFoe(m, b) = [m EXCEPT !.rcount = (@ % Counters) + 1,
                                      !.dropped = TRUE]
        BY <1>2, <3>1 DEF SendFoe
      <4>2. SendFoe(m, b).dropped
        BY <4>1 DEF Fit, Boxes
      <4> QED
        BY <4>2
    <3> QED
      BY <3>1
  <2> DEFINE k == Counted(m, b)
             n == CopyToSend(k, b)
  <2>2. m \in Boxes
    BY DEF Fit
  <2>3. Fit(k) /\ Own(k, m.coe, {b}) /\ Alike(m, k, {"buf", "rcount", "sent"})
    BY <2>2, CountedFit, CountedFacts
  <2>4. SendFoe(m, b) = n
    BY <1>2, <2>1 DEF SendFoe
  <2> HIDE DEF k
  <2>5. k \in Boxes /\ ~k.full /\ k.running /\ k.sq = m.sq /\ ~m.full
    BY <2>1, <2>2, <2>3, AlikeFields DEF CanSend
  <2>6. Fit(n) /\ Own(n, m.coe, {}) /\ Alike(k, n, {"sm1", "read", "full"})
        /\ n.full
    BY <2>3, <2>5, CopyFit, CopyFacts
  <2> HIDE DEF n
  <2>7. Alike(m, n, SendFields)
    BY <2>2, <2>3, <2>5, <2>6, AlikeTrans DEF SendFields, PutFields
  <2>8. n.sq = m.sq /\ Len(m.sq) \in Nat
    <3>1. Len(m.sq) \in Nat
      BY <2>2, LenProperties DEF Boxes
    <3> QED
      BY <2>5, <2>6, <3>1, AlikeFields
  <2>10. n.stored = m.stored
    <3>1. k.stored = m.stored
      BY <2>2, <2>3, AlikeFields
    <3> QED
      BY <2>5, <2>6, <3>1, AlikeFields
  <2>9. SentFrom(m, n)
    BY <2>5, <2>6, <2>7, <2>8, <2>10 DEF SentFrom
  <2> QED
    BY <2>4, <2>6, <2>9, SentIsHandled
<1> QED
  BY <1>1, <1>2

LEMMA SdoInfoFacts ==
  ASSUME NEW m, Fit(m), m.running, NEW b \in Buffers, Own(m, m.coe, {b}),
         Refused(m) => m.coe = None
  PROVE  Handled(m, SdoInfo(m, b)) /\ SdoInfo(m, b).dropped = m.dropped
<1> DEFINE left == IF m.left = 0 THEN Fragments ELSE m.left - 1
           part == IF m.left = 0 THEN 0 ELSE m.part + 1
           x == [m.buf[b] EXCEPT !.part = part]
           n == [m EXCEPT !.left = left, !.part = part,
                          !.buf = [m.buf EXCEPT ![b] = x]]
<1>1. m \in Boxes /\ left \in Nat0(Fragments) /\ part \in Nat
  <2> DEFINE k == m.left
             l == m.part
  <2>1. m \in Boxes
    BY DEF Fit
  <2>2. k \in Nat0(Fragments) /\ l \in Nat
    BY ONLY <2>1 DEF Boxes
  <2> HIDE DEF k, l
  <2>3. Fragments \in Nat
    BY SizeAssumption
  <2>4. /\ (IF k = 0 THEN Fragments ELSE k - 1) \in Nat0(Fragments)
        /\ (IF k = 0 THEN 0 ELSE l + 1) \in Nat
    BY ONLY <2>2, <2>3 DEF Nat0
  <2> QED
    BY <2>1, <2>4 DEF k, l
<1>2. x \in Contents /\ x.kind = m.buf[b].kind
  <2>1. m.buf[b] \in Contents
    BY <1>1 DEF Boxes
  <2> DEFINE y == m.buf[b]
  <2> HIDE DEF part, y
  <2>2. y \in Contents
    BY <2>1 DEF y
  <2>3. [y EXCEPT !.part = part] \in Contents
        /\ [y EXCEPT !.part = part].kind = y.kind
    BY <1>1, <2>2 DEF Contents
  <2> QED
    BY <2>3 DEF y
<1>3. SdoInfo(m, b) = SendCoe(n, b, left > 0)
  BY DEF SdoInfo
<1> HIDE DEF left, part, x
<1>4. Alike(m, n, {"left", "part", "buf"})
  BY <1>1, <1>2 DEF Alike, Boxes
<1>5. \A a \in Buffers : n.buf[a].kind = m.buf[a].kind
  BY <1>1, <1>2 DEF Boxes
<1> HIDE DEF n
<1>6. Elements(m.rq) \subseteq Buffers
  BY <1>1, LenProperties DEF Elements, Boxes
<1>7. Fit(n)
  BY <1>1, <1>4, <1>5, <1>6, AlikeFields DEF Fit
<1>8. Own(n, n.coe, {b}) /\ (Refused(n) => n.coe = None)
  BY <1>1, <1>4, AlikeFields DEF Own, Sent, Refused
<1>9. /\ n.full = m.full /\ n.sq = m.sq /\ n.running
      /\ n.dropped = m.dropped /\ n.coe = m.coe /\ n.stored = m.stored
  BY <1>1, <1>4, AlikeFields
<1> DEFINE follow == left > 0
           k == SendCoe(n, b, follow)
<1>12. follow \in BOOLEAN
  OBVIOUS
<1> HIDE DEF follow
<1>10. Handled(n, k) /\ k.dropped = n.dropped
  BY <1>7, <1>8, <1>9, <1>12, SendCoeFacts
<1> HIDE DEF k
<1>11. Alike(m, k, HandFields)
  <2>1. n \in Boxes /\ Alike(n, k, HandFields)
    BY <1>7, <1>10 DEF Fit, Handled
  <2>2. {"left", "part", "buf"} \cup HandFields \subseteq HandFields
    BY DEF HandFields, SendFields, PutFields
  <2> QED
    BY <1>1, <1>4, <2>1, <2>2, AlikeTrans
<1> QED
  BY <1>3, <1>9, <1>10, <1>11 DEF Handled, Drives, k, follow

\* A buffer in hand is freed.
LEMMA FreedHandled ==
  ASSUME NEW m, Fit(m), NEW b \in Buffers, Own(m, m.coe, {b})
  PROVE  Handled(m, Freed(m, {b})) /\ Freed(m, {b}).dropped = m.dropped
<1> DEFINE n == Freed(m, {b})
<1>1. /\ m \in Boxes
      /\ Alike(m, n, {"heap", "buf"}) /\ n.heap = m.heap \ {b}
      /\ \A a \in Buffers \ {b} : n.buf[a] = m.buf[a]
  BY FreedFacts DEF Fit
<1> HIDE DEF n
<1>2. Elements(m.rq) \subseteq Buffers \ {b}
  BY <1>1, LenProperties DEF Elements, Boxes, Own
<1>3. Fit(n)
  BY <1>1, <1>2, AlikeFields DEF Fit
<1>4. n.coe = m.coe /\ n.sq = m.sq /\ n.rq = m.rq /\ n.read = m.read
      /\ n.repeat = m.repeat /\ n.store = m.store /\ n.dropped = m.dropped
      /\ n.full = m.full /\ n.stored = m.stored
  BY <1>1, AlikeFields
<1>5. Own(n, n.coe, {})
  BY <1>1, <1>4 DEF Own, Sent
<1>6. Alike(m, n, HandFields)
  BY <1>1, LessFields DEF HandFields, SendFields, PutFields
<1>7. Len(n.sq) <= Len(m.sq) + (IF m.full THEN 1 ELSE 0)
  <2>1. Len(m.sq) \in Nat
    BY <1>1, LenProperties DEF Boxes
  <2>2. n.sq = m.sq
    BY <1>4
  <2>3. Len(n.sq) = Len(m.sq)
    BY <2>2
  <2> DEFINE k == Len(m.sq)
             l == Len(n.sq)
             full == m.full
  <2>4. k \in Nat /\ l = k
    BY <2>1, <2>3
  <2> HIDE DEF k, l, full
  <2>7. l <= k + (IF full THEN 1 ELSE 0)
    <3>1. l <= k + 1 /\ l <= k + 0
      BY ONLY <2>4
    <3>2. CASE full
      BY ONLY <3>1, <3>2
    <3>3. CASE ~full
      BY ONLY <3>1, <3>3
    <3> QED
      BY ONLY <3>2, <3>3
  <2> QED
    BY <2>7 DEF k, l, full
<1>8. Handled(m, n) /\ n.dropped = m.dropped
  BY <1>3, <1>4, <1>5, <1>6, <1>7 DEF Handled, Drives
<1> QED
  BY <1>8 DEF n

LEMMA ServiceFacts ==
  ASSUME NEW m, Fit(m), m.running, NEW b \in Buffers, Own(m, m.coe, {b}),
         ~Refused(m), m.buf[b].kind # "long"
  PROVE  /\ ~ServiceInd(m, b).dropped => Handled(m, ServiceInd(m, b))
         /\ ~m.boot => ServiceInd(m, b).dropped = m.dropped
<1>1. m.buf[b].kind \in AllKinds
  BY DEF Fit, Boxes, Contents
<1> DEFINE Good(n) == /\ ~n.dropped => Handled(m, n)
                      /\ ~m.boot => n.dropped = m.dropped
<1>2. Good(SendError(m, b))
  BY SendErrorFacts
<1>3. Good(SendCoe(m, b, FALSE))
  BY SendCoeFacts
<1>4. Good(SdoInfo(m, b))
  BY SdoInfoFacts
<1>5. Good(Freed(m, {b}))
  BY FreedHandled
<1>6. Good(SendFoe(m, b))
  BY SendFoeFacts
<1>7. Good(SendCoe([m EXCEPT !.left = 0], b, FALSE))
  <2> DEFINE n == [m EXCEPT !.left = 0]
             k == SendCoe(n, b, FALSE)
  <2>1. m \in Boxes /\ Alike(m, n, {"left"})
    <3>1. m \in Boxes /\ 0 \in Nat0(Fragments)
      BY DEF Fit, Nat0
    <3> QED
      BY ONLY <3>1 DEF Alike, Boxes
  <2> HIDE DEF n
  <2>2. Fit(n)
    BY <2>1, AlikeFields DEF Fit
  <2>3. Own(n, n.coe, {b}) /\ ~Refused(n)
    BY <2>1, AlikeFields DEF Own, Sent, Refused
  <2>4. /\ n.full = m.full /\ n.sq = m.sq /\ n.running
        /\ n.dropped = m.dropped /\ n.stored = m.stored
    BY <2>1, AlikeFields
  <2>5. Handled(n, k) /\ k.dropped = n.dropped
    BY <2>2, <2>3, <2>4, SendCoeFacts
  <2> HIDE DEF k
  <2>6. Alike(m, k, HandFields)
    <3>1. n \in Boxes /\ Alike(n, k, HandFields)
      BY <2>2, <2>5 DEF Fit, Handled
    <3>2. {"left"} \cup HandFields \subseteq HandFields
      BY DEF HandFields
    <3> QED
      BY <2>1, <3>1, <3>2, AlikeTrans
  <2> QED
    BY <2>4, <2>5, <2>6 DEF Handled, Drives, k, n
<1>8. Good(ServiceInd(m, b))
  <2> HIDE DEF Good
  <2> QED
    BY <1>1, <1>2, <1>3, <1>4, <1>5, <1>6, <1>7 DEF ServiceInd, AllKinds
<1> QED
  BY <1>8

(***************************************************************************)
(* What MBX_MailboxReadInd calls: an answer kept back, or the next         *)
(* fragment of a list.                                                     *)
(***************************************************************************)
Kept(m) == Fit(m) /\ m.running /\ Own(m, m.coe, {})

LEMMA ContinueCoeFacts ==
  ASSUME NEW m, Kept(m), NEW room, room => Room(m),
         room \/ m.full \/ m.coe # None
  PROVE  LET n == ContinueCoe(m, room)
         IN  /\ Kept(n) /\ Alike(m, n, HandFields) /\ n.dropped = m.dropped
             /\ Drives(m, n)
<1> DEFINE n == ContinueCoe(m, room)
<1>0. Fit(m) /\ m \in Boxes /\ m.running /\ Own(m, m.coe, {})
  BY DEF Kept, Fit
<1>2. CASE m.coe # None
  <2> DEFINE b == m.coe
             s == SendReq(m, b, {"coe"}, FALSE)
             k == s.box
  <2>1. b \in Buffers
    BY <1>0, <1>2 DEF Boxes, Optional
  <2>2. Own(m, None, {b})
    <3>1. None \notin Sent(m) \cup Elements(m.rq) \cup Elements(m.sq)
      <4>1. Elements(m.rq) \subseteq Buffers /\ Elements(m.sq) \subseteq Buffers
        BY <1>0, LenProperties DEF Elements, Boxes
      <4> QED
        BY <4>1 DEF Sent
    <3> QED
      BY <1>0, <1>2, <3>1 DEF Own
  <2>3. /\ s.ok = ~Refused(m) /\ SentFrom(m, k)
        /\ Own(k, None, IF s.ok THEN {} ELSE {b})
    BY <1>0, <2>1, <2>2, SendReqFacts
  <2>4. n = IF s.ok THEN [k EXCEPT !.coe = None] ELSE k
    BY <1>2 DEF ContinueCoe
  <2> HIDE DEF s, n
  <2>5. Fit(k) /\ k \in Boxes /\ Alike(m, k, SendFields)
    BY <2>3 DEF SentFrom, Fit
  <2>6. k.running /\ k.coe = b /\ k.dropped = m.dropped
    BY <1>0, <2>5, AlikeFields DEF SendFields, PutFields
  <2>9. k.full /\ k.stored \subseteq m.stored \cup {"coe"}
    BY <2>3 DEF SentFrom
  <2>7. CASE ~s.ok
    <3>1. Own(k, k.coe, {})
      BY <1>2, <2>3, <2>6, <2>7 DEF Own
    <3>2. Alike(m, k, HandFields)
      BY <1>0, <2>5, LessFields DEF HandFields
    <3> QED
      BY <2>4, <2>5, <2>6, <2>7, <2>9, <3>1, <3>2 DEF Kept, Drives, n
  <2>8. CASE s.ok
    <3> DEFINE i == [k EXCEPT !.coe = None]
    <3>1. Own(k, None, {})
      BY <2>3, <2>8
    <3> HIDE DEF k
    <3>2. Alike(k, i, {"coe"}) /\ i.coe = None
      BY ONLY <2>5, ZenonT(60) DEF Alike, Boxes, Optional, None
    <3>3. n = i
      BY <2>4, <2>8
    <3> HIDE DEF i
    <3>4. Fit(i)
      BY <2>5, <3>2, AlikeFields DEF Fit
    <3>7. i.full /\ i.stored = k.stored
      BY <2>5, <2>9, <3>2, AlikeFields
    <3>8. Drives(m, i)
      BY <2>9, <3>7 DEF Drives
    <3>5. Own(i, i.coe, {}) /\ i.running /\ i.dropped = m.dropped
      BY <2>5, <2>6, <3>1, <3>2, AlikeFields DEF Own, Sent
    <3>6. Alike(m, i, HandFields)
      BY <1>0, <2>5, <3>2, AlikeTrans DEF HandFields
    <3> QED
      BY <3>3, <3>4, <3>5, <3>6, <3>8 DEF Kept, n
  <2> QED
    BY <2>7, <2>8
<1>3. CASE m.coe = None /\ ~room
  <2> DEFINE t == m.stored \cup {"coe"}
  <2>1. t \in SUBSET {"coe", "foe"}
    BY <1>0 DEF Boxes
  <2>2. n = [m EXCEPT !.stored = t]
    BY <1>3 DEF ContinueCoe
  <2>6. [m EXCEPT !.stored = t].stored = m.stored \cup {"coe"}
    BY <1>0 DEF Boxes
  <2> HIDE DEF t, n
  <2>3. Fit(n) /\ Alike(m, n, {"stored"}) /\ Own(n, m.coe, {})
    BY <1>0, <2>1, <2>2, StoredFacts
  <2>4. n.coe = m.coe /\ n.running /\ n.dropped = m.dropped /\ n.full
    BY <1>0, <1>3, <2>3, AlikeFields
  <2>7. Drives(m, n)
    BY <2>2, <2>4, <2>6 DEF Drives
  <2>5. Alike(m, n, HandFields)
    BY <1>0, <2>3, LessFields DEF HandFields, SendFields, PutFields
  <2> QED
    BY <2>3, <2>4, <2>5, <2>7 DEF Kept, n
<1>4. CASE m.coe = None /\ room
  <2> DEFINE b == NextBuffer(m)
             x == Request("list", 0, 0)
             k == Filled(m, b, x)
  <2>1. b \in Buffers /\ b \notin m.heap
    BY <1>4 DEF Room, NextBuffer
  <2>2. x \in Contents
    BY DEF Request, Contents, AllKinds, Nat0
  <2>3. n = SdoInfo(k, b)
    BY <1>4 DEF ContinueCoe
  <2> HIDE DEF b, x, n
  <2>4. /\ Alike(m, k, {"heap", "buf"}) /\ k.heap = m.heap \cup {b}
        /\ \A a \in Buffers \ {b} : k.buf[a] = m.buf[a]
    BY <1>0, <2>1, <2>2, FilledFacts
  <2> HIDE DEF k
  <2>5. Elements(m.rq) \subseteq Buffers \ {b}
    BY <1>0, <2>1, LenProperties DEF Elements, Boxes, Own
  <2>6. Fit(k)
    BY <1>0, <2>4, <2>5, AlikeFields DEF Fit
  <2>7. Own(k, k.coe, {b}) /\ k.running /\ k.coe = None
        /\ k.dropped = m.dropped
    BY <1>0, <1>4, <2>1, <2>4, AlikeFields DEF Own, Sent
  <2>8. Handled(k, n) /\ n.dropped = m.dropped
    BY <2>1, <2>3, <2>6, <2>7, SdoInfoFacts
  <2>9. Alike(m, n, HandFields)
    <3>1. k \in Boxes /\ Alike(k, n, HandFields)
      BY <2>6, <2>8 DEF Fit, Handled
    <3>2. {"heap", "buf"} \cup HandFields \subseteq HandFields
      BY DEF HandFields, SendFields, PutFields
    <3> QED
      BY <1>0, <2>4, <3>1, <3>2, AlikeTrans
  <2>11. Drives(m, n)
    <3>1. k.full = m.full /\ k.stored = m.stored
      BY <1>0, <2>4, AlikeFields
    <3> QED
      BY <2>8, <3>1 DEF Handled, Drives
  <2>10. n.running
    BY <1>0, <2>9, AlikeFields DEF HandFields, SendFields, PutFields
  <2> QED
    BY <2>8, <2>9, <2>10, <2>11 DEF Handled, Kept, n
<1> QED
  BY <1>2, <1>3, <1>4

\* The master has read the answer in SM1: the one before it is freed, the
\* next one is written to SM1.
\* The box after the answer that was read is kept for a repeat and the next
\* is sent; the fields that changes.
KeptForRepeat(m) ==
  [Freed(m, Outdated(m)) EXCEPT !.full = FALSE, !.repeat = m.read]

NextSent(m) ==
  LET kept == KeptForRepeat(m)
  IN  IF m.store # None
      THEN [CopyToSend(kept, m.store) EXCEPT !.store = None]
      ELSE IF m.sq # <<>>
      THEN [CopyToSend(kept, Head(m.sq)) EXCEPT !.sq = Tail(@)]
      ELSE kept

ReadFields ==
  {"heap", "buf", "full", "repeat", "sm1", "read", "store", "sq"}

LEMMA NextSentFacts ==
  ASSUME NEW m, Kept(m), m.full
  PROVE  LET n == NextSent(m)
         IN  /\ Kept(n) /\ Alike(m, n, ReadFields)
             /\ n.heap = m.heap \ Outdated(m)
             /\ n.full \/ (m.store = None /\ m.sq = <<>>)
             /\ n.dropped = m.dropped /\ n.boot = m.boot /\ n.rq = m.rq
             /\ n \in Boxes /\ n.stored = m.stored /\ n.coe = m.coe
<1> DEFINE out == Outdated(m)
           f == Freed(m, out)
           kept == KeptForRepeat(m)
           h == Head(m.sq)
           next == IF m.store # None
                   THEN [CopyToSend(kept, m.store) EXCEPT !.store = None]
                   ELSE IF m.sq # <<>>
                   THEN [CopyToSend(kept, h) EXCEPT !.sq = Tail(@)]
                   ELSE kept
           fields == ReadFields
<1>15. NextSent(m) = next
  BY DEF NextSent
<1>0. /\ Fit(m) /\ m \in Boxes /\ m.running /\ Own(m, m.coe, {})
      /\ m.sq \in Seq(Buffers) /\ m.rq \in Seq(Buffers)
      /\ m.read \in Optional /\ m.store \in Optional
  BY DEF Kept, Fit, Boxes
<1>1. out = IF m.store = None THEN {m.repeat} \ {None} ELSE {}
  BY <1>0 DEF Outdated, Fit
<1>2. /\ f \in Boxes /\ Alike(m, f, {"heap", "buf"}) /\ f.heap = m.heap \ out
      /\ \A a \in Buffers \ out : f.buf[a] = m.buf[a]
  BY <1>0, FreedFacts DEF Alike
<1> HIDE DEF out, f
<1>3. /\ kept \in Boxes /\ kept.heap = m.heap \ out /\ ~kept.full
      /\ kept.repeat = m.read /\ kept.buf = f.buf
      /\ Alike(m, kept, {"heap", "buf", "full", "repeat"})
  <2> DEFINE r == m.read
             k == [f EXCEPT !.full = FALSE, !.repeat = r]
  <2> HIDE DEF r
  <2>1. r \in Optional
    BY <1>0 DEF r
  <2>2. /\ Alike(f, k, {"full", "repeat"}) /\ ~k.full /\ k.repeat = r
        /\ k.heap = f.heap /\ k.buf = f.buf
    BY ONLY <1>2, <2>1 DEF Alike, Boxes
  <2> HIDE DEF k
  <2>3. Alike(m, k, {"heap", "buf", "full", "repeat"})
    BY <1>0, <1>2, <2>2, AlikeTrans
  <2>4. k \in Boxes
    BY <2>2 DEF Alike
  <2> QED
    BY <1>2, <2>2, <2>3, <2>4 DEF k, r, KeptForRepeat, f, out
<1> HIDE DEF kept
<1>4. \A b \in Elements(m.rq) : f.buf[b].kind # "long"
  <2>1. Elements(m.rq) \subseteq Buffers
    BY <1>0, LenProperties DEF Elements
  <2>2. out \subseteq Sent(m) /\ Sent(m) \cap Elements(m.rq) = {}
    BY <1>0, <1>1 DEF Own, Sent
  <2>3. \A b \in Elements(m.rq) : f.buf[b] = m.buf[b]
    BY <1>2, <2>1, <2>2
  <2> QED
    BY <1>0, <2>3 DEF Fit
<1> DEFINE Rest(n) == /\ n \in Boxes /\ n.running = m.running
                      /\ n.boot = m.boot /\ n.noMemory = m.noMemory
                      /\ n.coe = m.coe /\ n.foe = m.foe /\ n.rq = m.rq
                      /\ n.locked = m.locked /\ n.sm0 = m.sm0
                      /\ n.event = m.event /\ n.dropped = m.dropped
                      /\ n.stored = m.stored
<1>12. ASSUME NEW n, Alike(m, n, fields)
       PROVE  Rest(n)
  <2>1. {"running", "boot", "noMemory", "coe", "foe", "rq", "locked", "sm0",
         "event", "dropped", "stored"} \cap fields = {}
    BY DEF ReadFields
  <2> HIDE DEF fields
  <2>2. m \in Boxes /\ Alike(m, n, fields)
    BY <1>0, <1>12
  <2> QED
    BY ONLY <2>1, <2>2, AlikeFields
<1>5. /\ Kept(next) /\ Alike(m, next, fields) /\ next.heap = f.heap
      /\ next.full \/ (m.store = None /\ m.sq = <<>>)
  <2>1. CASE m.store # None
    <3> DEFINE k == CopyToSend(kept, m.store)
               n == [k EXCEPT !.store = None]
    <3>1. m.store \in Buffers
      BY <1>0, <2>1 DEF Optional
    <3>2. Alike(kept, k, {"sm1", "read", "full"}) /\ k.read = m.store /\ k.full
      BY <1>3, <3>1, CopyFacts
    <3> HIDE DEF k
    <3>3. k \in Boxes
      BY <3>2 DEF Alike
    <3>4. Alike(k, n, {"store"}) /\ n.store = None
      BY ONLY <3>3, ZenonT(60) DEF Alike, Boxes, Optional, None
    <3>5. next = n
      BY <2>1 DEF k
    <3> HIDE DEF n
    <3>6. n \in Boxes
      BY <3>4 DEF Alike
    <3>7. Alike(m, n, fields)
      <4>1. Alike(m, k, fields)
        BY <1>0, <1>3, <3>2, AlikeTrans DEF ReadFields
      <4> QED
        BY <1>0, <3>3, <3>4, <4>1, AlikeTrans DEF ReadFields
    <3>8. /\ n.read = m.store /\ n.full /\ n.store = None
          /\ n.repeat = m.read /\ n.sq = m.sq /\ n.heap = m.heap \ out
          /\ n.buf = f.buf
      <4>1. /\ k.repeat = m.read /\ k.sq = m.sq /\ k.heap = m.heap \ out
            /\ k.buf = f.buf
        BY <1>0, <1>3, <3>2, AlikeFields
      <4> QED
        BY <3>2, <3>3, <3>4, <4>1, AlikeFields
    <3> HIDE DEF fields
    <3>12. Rest(n)
      BY <1>12, <3>7
    <3>9. Fit(n)
      BY <1>0, <1>4, <2>1, <3>8, <3>12 DEF Fit
    <3>10. Sent(n) = Sent(m) /\ n.heap = m.heap
      BY <1>0, <1>1, <2>1, <3>8 DEF Sent, Fit
    <3>11. Own(n, n.coe, {}) /\ n.running
      BY <1>0, <3>8, <3>10, <3>12 DEF Own
    <3> HIDE DEF next
    <3> QED
      BY <1>2, <3>5, <3>7, <3>8, <3>9, <3>11 DEF Kept
  <2>2. CASE m.store = None /\ m.sq # <<>>
    <3> DEFINE k == CopyToSend(kept, h)
               t == Tail(m.sq)
               n == [k EXCEPT !.sq = t]
    <3>1. /\ h \in Buffers /\ t \in Seq(Buffers)
          /\ Elements(m.sq) = Elements(t) \cup {h}
          /\ Distinct(t) /\ h \notin Elements(t)
      BY <1>0, <2>2, TailElements DEF Own
    <3>2. Alike(kept, k, {"sm1", "read", "full"}) /\ k.read = h /\ k.full
      BY <1>3, <3>1, CopyFacts
    <3>3. k.sq = m.sq
      BY <1>0, <1>3, <3>2, AlikeFields
    <3>4. next = n
      BY <2>2, <3>3
    <3> HIDE DEF k, t, h
    <3>5. k \in Boxes
      BY <3>2 DEF Alike
    <3>6. Alike(k, n, {"sq"}) /\ n.sq = t
      BY ONLY <3>1, <3>5 DEF Alike, Boxes
    <3> HIDE DEF n
    <3>7. Alike(m, n, fields) /\ n \in Boxes
      <4>1. Alike(m, k, fields)
        BY <1>0, <1>3, <3>2, AlikeTrans DEF ReadFields
      <4> QED
        BY <1>0, <3>5, <3>6, <4>1, AlikeTrans DEF Alike, ReadFields
    <3>8. /\ n.read = h /\ n.full /\ n.store = None
          /\ n.repeat = m.read /\ n.heap = m.heap \ out /\ n.buf = f.buf
      <4>2. kept.store = m.store
        BY <1>0, <1>3, AlikeFields
      <4>3. /\ k.repeat = kept.repeat /\ k.store = kept.store
            /\ k.heap = kept.heap /\ k.buf = kept.buf
        BY <1>3, <3>2, AlikeFields
      <4>1. /\ k.repeat = m.read /\ k.store = m.store
            /\ k.heap = m.heap \ out /\ k.buf = f.buf
        BY <1>3, <4>2, <4>3
      <4> QED
        BY <2>2, <3>2, <3>5, <3>6, <4>1, AlikeFields
    <3>9. h \notin Sent(m) /\ h # m.read
      BY <1>0, <3>1 DEF Own, Sent
    <3> HIDE DEF fields
    <3>13. Rest(n)
      BY <1>12, <3>7
    <3>14. h # None /\ m.read # None
      BY <1>0, <3>1 DEF Fit
    <3>10. Fit(n)
      BY <1>0, <1>4, <3>8, <3>9, <3>13, <3>14 DEF Fit
    <3>11. /\ Sent(n) = (Sent(m) \ out) \cup {h} /\ out \subseteq Sent(m)
           /\ n.heap = m.heap \ out
      BY <1>0, <1>1, <2>2, <3>1, <3>8 DEF Sent, Fit
    <3>12. Own(n, n.coe, {}) /\ n.running
      <4>1. /\ n.coe = m.coe /\ n.rq = m.rq /\ n.running = m.running
        BY <3>13
      <4>2. n.heap = Sent(n) \cup ({n.coe} \ {None}) \cup Elements(n.rq)
                       \cup Elements(n.sq) \cup {}
        BY <1>0, <3>1, <3>6, <3>11, <4>1 DEF Own
      <4> QED
        BY <1>0, <3>1, <3>6, <3>11, <4>1, <4>2 DEF Own
    <3> HIDE DEF next
    <3> QED
      BY <1>2, <3>4, <3>7, <3>8, <3>10, <3>12 DEF Kept
  <2>3. CASE m.store = None /\ m.sq = <<>>
    <3>1. next = kept
      BY <2>3
    <3>2. Alike(m, kept, fields)
      BY <1>0, <1>3, LessFields DEF ReadFields
    <3>3. kept.read = m.read /\ kept.store = None /\ kept.sq = <<>>
      BY <1>0, <1>3, <2>3, AlikeFields
    <3> HIDE DEF fields
    <3>7. Rest(kept)
      BY <1>12, <3>2
    <3>4. Fit(kept)
      BY <1>0, <1>3, <1>4, <3>3, <3>7 DEF Fit
    <3>5. /\ Sent(kept) = Sent(m) \ out /\ out \subseteq Sent(m)
      BY <1>0, <1>1, <1>3, <2>3, <3>3 DEF Sent, Fit
    <3>6. Own(kept, kept.coe, {}) /\ kept.running
      BY <1>0, <1>3, <2>3, <3>3, <3>5, <3>7 DEF Own
    <3> HIDE DEF next
    <3> QED
      BY <1>2, <1>3, <2>3, <3>1, <3>2, <3>4, <3>6 DEF Kept
  <2> QED
    BY <2>1, <2>2, <2>3
<1>7. /\ next.dropped = m.dropped /\ next.boot = m.boot /\ next.rq = m.rq
      /\ next \in Boxes /\ next.stored = m.stored /\ next.coe = m.coe
  <2>1. Rest(next) /\ next \in Boxes
    <3>1. Alike(m, next, fields)
      BY <1>5
    <3> HIDE DEF next, fields
    <3> QED
      BY <1>12, <3>1 DEF Alike
  <2> HIDE DEF next
  <2> QED
    BY <2>1
<1> HIDE DEF next
<1> QED
  BY <1>2, <1>5, <1>7, <1>15 DEF out

LEMMA ReadIndFacts ==
  ASSUME HeapSuffices, NEW m, Kept(m), Driven(m), m.full, m.rq = <<>>,
         NEW room \in Rooms(Freed(m, Outdated(m)))
  PROVE  LET n == ReadInd(m, room)
         IN  /\ Kept(n) /\ n.dropped = m.dropped /\ n.boot = m.boot
             /\ n.rq = m.rq /\ Driven(n)
<1> DEFINE out == Outdated(m)
           f == Freed(m, out)
           next == NextSent(m)
<1>0. /\ Fit(m) /\ m \in Boxes /\ m.running /\ Own(m, m.coe, {})
      /\ m.rq \in Seq(Buffers) /\ m.read \in Optional
  BY DEF Kept, Fit, Boxes
<1>1. out = IF m.store = None THEN {m.repeat} \ {None} ELSE {}
  BY <1>0 DEF Outdated, Fit
<1>2. f.heap = m.heap \ out
  BY <1>0, FreedFacts
<1>5. /\ Kept(next) /\ next.heap = f.heap
      /\ next.full \/ (m.store = None /\ m.sq = <<>>)
  BY <1>2, NextSentFacts
<1>7. /\ next.dropped = m.dropped /\ next.boot = m.boot /\ next.rq = m.rq
      /\ next \in Boxes /\ next.stored = m.stored /\ next.coe = m.coe
  BY NextSentFacts
<1>6. ReadInd(m, room) =
        IF "coe" \in m.stored
        THEN ContinueCoe([next EXCEPT !.stored = @ \ {"coe"}], room)
        ELSE IF "foe" \in m.stored
        THEN ContinueFoe([next EXCEPT !.stored = @ \ {"foe"}])
        ELSE next
  BY DEF ReadInd, NextSent, KeptForRepeat
<1> HIDE DEF next
<1>13. room \/ next.full \/ m.coe # None
  <2> SUFFICES ASSUME m.store = None, m.sq = <<>>, m.coe = None
               PROVE  room
    BY <1>5
  <2>1. Elements(<<>>) = {}
    BY DEF Elements
  <2>2. f.heap = Sent(m) \ out
    BY <1>0, <1>2, <2>1 DEF Own
  <2>3. f.heap \subseteq {m.read}
    BY <1>1, <2>2 DEF Sent
  <2>4. Room(f)
    BY <2>3 DEF Room, HeapSuffices
  <2>5. room \in Rooms(f)
    BY DEF f, out
  <2> QED
    BY <2>4, <2>5 DEF Rooms, HeapSuffices
<1>14. room => Room(f)
  <2>1. room \in Rooms(f)
    BY DEF f, out
  <2> QED
    BY <2>1 DEF Rooms
<1>8. ASSUME NEW S \in SUBSET {"coe", "foe"}
      PROVE  LET n == [next EXCEPT !.stored = S]
             IN  /\ Kept(n) /\ n.dropped = m.dropped /\ n.boot = m.boot
                 /\ n.rq = m.rq /\ (room => Room(n)) /\ n.stored = S
                 /\ n.full = next.full /\ n.coe = m.coe
  <2> DEFINE n == [next EXCEPT !.stored = S]
  <2>1. Fit(n) /\ Alike(next, n, {"stored"}) /\ Own(n, next.coe, {})
    BY <1>5, StoredFacts DEF Kept
  <2> HIDE DEF n
  <2>2. /\ n.coe = next.coe /\ n.running = next.running /\ n.boot = next.boot
        /\ n.dropped = next.dropped /\ n.rq = next.rq /\ n.heap = next.heap
        /\ n.full = next.full
    BY <1>7, <2>1, AlikeFields
  <2>3. room => Room(n)
    BY <1>5, <1>14, <2>2 DEF Room
  <2>5. n.stored = S
    BY <1>7 DEF Boxes, n
  <2>4. Kept(n)
    BY <1>5, <2>1, <2>2 DEF Kept
  <2> QED
    BY <1>7, <2>2, <2>3, <2>4, <2>5 DEF n
<1>9. CASE "coe" \in m.stored
  <2> DEFINE S == next.stored \ {"coe"}
             n == [next EXCEPT !.stored = S]
             k == ContinueCoe(n, room)
  <2>1. S \in SUBSET {"coe", "foe"}
    BY <1>7 DEF Boxes
  <2>2. ReadInd(m, room) = k
    BY <1>6, <1>9
  <2> HIDE DEF S
  <2>3. /\ Kept(n) /\ n.dropped = m.dropped /\ n.boot = m.boot
        /\ n.rq = m.rq /\ (room => Room(n)) /\ n.stored = S
        /\ n.full = next.full /\ n.coe = m.coe
    BY <1>8, <2>1
  <2>7. Driven(n)
    BY <1>7, <2>3 DEF Driven, S
  <2> HIDE DEF n
  <2>4. /\ Kept(k) /\ Alike(n, k, HandFields) /\ k.dropped = n.dropped
        /\ Drives(n, k)
    BY <1>13, <2>3, ContinueCoeFacts
  <2> HIDE DEF k
  <2>5. n \in Boxes
    BY <2>3 DEF Kept, Fit
  <2>6. k.boot = n.boot /\ k.rq = n.rq
    BY <2>4, <2>5, AlikeFields DEF HandFields, SendFields, PutFields
  <2> QED
    BY <2>2, <2>3, <2>4, <2>6, <2>7, DrivesOn DEF k
<1>10. CASE "coe" \notin m.stored /\ "foe" \in m.stored
  BY <1>10 DEF Driven
<1>11. CASE "coe" \notin m.stored /\ "foe" \notin m.stored
  <2>1. next.stored = {}
    BY <1>7, <1>11 DEF Driven
  <2>2. Driven(next)
    BY <2>1 DEF Driven
  <2> QED
    BY <1>5, <1>6, <1>7, <1>11, <2>2
<1> QED
  BY <1>9, <1>10, <1>11

(***************************************************************************)
(* A request is taken out of SM0.                                          *)
(***************************************************************************)

\* b is in hand: it is queued, answered with an error or freed.
Taken(m, n) ==
  /\ Kept(n) /\ n.dropped = m.dropped /\ n.boot = m.boot /\ n.sq = m.sq
  /\ Drives(m, n)
  /\ \/ n.rq = m.rq
     \/ Len(n.rq) = Len(m.rq) + 1 /\ ~n.full

LEMMA HandledTaken ==
  ASSUME NEW m, Fit(m), m.running, ~m.full, NEW n, Handled(m, n),
         n.dropped = m.dropped
  PROVE  Taken(m, n)
<1>1. m \in Boxes /\ m.sq = <<>> /\ n \in Boxes
  BY DEF Fit, Handled
<1>2. Alike(m, n, HandFields)
  BY DEF Handled
<1>3. n.running /\ n.boot = m.boot /\ n.rq = m.rq
  BY <1>1, <1>2, AlikeFields DEF HandFields, SendFields, PutFields
<1>4. n.sq = <<>>
  <2>1. Len(n.sq) <= Len(m.sq)
    BY DEF Handled
  <2>2. Len(m.sq) = 0 /\ Len(n.sq) \in Nat /\ n.sq \in Seq(Buffers)
    <3>1. n.sq \in Seq(Buffers)
      BY <1>1 DEF Boxes
    <3> QED
      BY <1>1, <3>1, LenProperties, EmptySeq
  <2>3. Len(n.sq) = 0
    BY <2>1, <2>2
  <2> QED
    BY <2>2, <2>3, EmptySeq
<1> QED
  BY <1>1, <1>3, <1>4 DEF Taken, Kept, Handled

LEMMA WriteIndFacts ==
  ASSUME NEW m, Fit(m), m.running, NEW b \in Buffers, Own(m, m.coe, {b}),
         ~m.full, Len(m.rq) <= 1, QueueSize >= 3
  PROVE  Taken(m, WriteInd(m, b))
<1> DEFINE x == m.buf[b]
           c == x.counter
           e == x.serial
           taken == [m EXCEPT !.served = e]
           new == [taken EXCEPT !.wcount = c]
           q == Append(m.rq, b)
           n == WriteInd(m, b)
<1>0. /\ m \in Boxes /\ m.sq = <<>> /\ m.rq \in Seq(Buffers)
      /\ Len(m.rq) \in Nat /\ ~QueueFull(m.rq)
  <2>1. m \in Boxes /\ m.sq = <<>>
    BY DEF Fit
  <2>2. m.rq \in Seq(Buffers)
    BY <2>1 DEF Boxes
  <2>3. Len(m.rq) \in Nat
    BY <2>2, LenProperties
  <2> QED
    BY <2>1, <2>2, <2>3 DEF QueueFull
<1>1. c \in Nat0(Counters) /\ e \in Nat
  BY <1>0 DEF Boxes, Contents
<1>2. n = IF x.kind = "long" THEN SendError(taken, b)
          ELSE IF c # 0 /\ c = m.wcount THEN Freed(m, {b})
          ELSE [new EXCEPT !.rq = Append(@, b)]
  BY <1>0 DEF WriteInd
<1> HIDE DEF c, e
<1>3. Alike(m, taken, {"served"})
  BY ONLY <1>0, <1>1 DEF Alike, Boxes
<1>4. CASE x.kind = "long"
  <2> HIDE DEF taken
  <2>1. /\ taken.running = m.running /\ taken.full = m.full
        /\ taken.sq = m.sq /\ taken.rq = m.rq /\ taken.boot = m.boot
        /\ taken.dropped = m.dropped /\ taken.stored = m.stored
    <3>1. m \in Boxes /\ Alike(m, taken, {"served"})
      BY <1>0, <1>3
    <3> QED
      BY ONLY <3>1, AlikeFields
  <2>2. Fit(taken)
    BY <1>0, <1>3, AlikeFields DEF Fit
  <2>3. Own(taken, taken.coe, {b}) /\ ~Refused(taken)
    BY <1>0, <1>3, AlikeFields DEF Own, Sent, Refused
  <2>4. Handled(taken, SendError(taken, b))
        /\ SendError(taken, b).dropped = taken.dropped
    BY <2>1, <2>2, <2>3, SendErrorFacts
  <2>5. Taken(taken, SendError(taken, b))
    BY <2>1, <2>2, <2>4, HandledTaken
  <2>6. n = SendError(taken, b)
    BY <1>2, <1>4
  <2> HIDE DEF n
  <2>7. Taken(m, n)
    BY <2>1, <2>5, <2>6 DEF Taken, Drives
  <2> QED
    BY <2>7 DEF n
<1>5. CASE x.kind # "long" /\ c # 0 /\ c = m.wcount
  <2>1. n = Freed(m, {b})
    BY <1>2, <1>5
  <2>2. Handled(m, Freed(m, {b})) /\ Freed(m, {b}).dropped = m.dropped
    BY FreedHandled
  <2> QED
    BY <2>1, <2>2, HandledTaken
<1>6. CASE x.kind # "long" /\ ~(c # 0 /\ c = m.wcount)
  <2>1. /\ q \in Seq(Buffers) /\ Len(q) = Len(m.rq) + 1
        /\ Elements(q) = Elements(m.rq) \cup {b}
        /\ Distinct(m.rq) /\ b \notin Elements(m.rq) => Distinct(q)
    BY <1>0, AppendElements
  <2>2. new.rq = m.rq
    BY <1>0 DEF Boxes
  <2> HIDE DEF q
  <2> DEFINE k == [new EXCEPT !.rq = q]
  <2>3. n = k
    BY <1>2, <1>6, <2>2 DEF q
  <2>4. Alike(m, k, {"served", "wcount", "rq"}) /\ k.rq = q
    BY ONLY <1>0, <1>1, <2>1 DEF Alike, Boxes
  <2> HIDE DEF k, n
  <2>9. /\ k.read = m.read /\ k.repeat = m.repeat /\ k.store = m.store
        /\ k.full = m.full /\ k.sq = m.sq /\ k.running = m.running
        /\ k.sm0 = m.sm0 /\ k.event = m.event /\ k.locked = m.locked
        /\ k.noMemory = m.noMemory /\ k.foe = m.foe /\ k.coe = m.coe
        /\ k.buf = m.buf /\ k.heap = m.heap /\ k \in Boxes
    BY ONLY <1>0, <2>4, AlikeFields
  <2>5. Fit(k)
    BY <1>6, <2>1, <2>4, <2>9 DEF Fit
  <2>6. Own(k, k.coe, {})
    <3>1. Sent(k) = Sent(m)
      BY <2>9 DEF Sent
    <3> QED
      BY <2>1, <2>4, <2>9, <3>1 DEF Own
  <2>7. k.running /\ k.dropped = m.dropped /\ k.boot = m.boot
        /\ k.sq = m.sq /\ k.full = m.full /\ k.stored = m.stored
    BY <1>0, <2>4, AlikeFields
  <2>8. Taken(m, n)
    BY <2>1, <2>3, <2>4, <2>5, <2>6, <2>7 DEF Taken, Kept, Drives
  <2> QED
    BY <2>8 DEF n
<1> QED
  BY <1>4, <1>5, <1>6

LEMMA CheckAndCopyFacts ==
  ASSUME NEW m, Kept(m), m.sm0 # Nothing, ~m.event, Len(m.rq) <= 1,
         QueueSize >= 3, NEW room, room => Room(m)
  PROVE  Taken(m, CheckAndCopy(m, room))
<1> DEFINE n == CheckAndCopy(m, room)
<1>0. /\ Fit(m) /\ m \in Boxes /\ m.running /\ Own(m, m.coe, {})
      /\ ~m.noMemory
  BY DEF Kept, Fit
<1>1. n = IF Held(m) \/ ~room THEN Locked(m)
          ELSE LET b == NextBuffer(m)
               IN  WriteInd([Filled(m, b, m.sm0) EXCEPT !.locked = FALSE,
                                                        !.sm0 = Nothing], b)
  BY <1>0 DEF CheckAndCopy
<1>2. CASE Held(m) \/ ~room
  <2> DEFINE k == [m EXCEPT !.locked = TRUE]
  <2>1. Alike(m, k, {"locked"})
    BY ONLY <1>0 DEF Alike, Boxes
  <2>2. n = k
    BY <1>1, <1>2 DEF Locked
  <2> HIDE DEF k, n
  <2>3. Fit(k)
    BY <1>0, <2>1, AlikeFields DEF Fit
  <2>4. Own(k, k.coe, {})
    BY <1>0, <2>1, AlikeFields DEF Own, Sent
  <2>5. k.running /\ k.dropped = m.dropped /\ k.boot = m.boot
        /\ k.sq = m.sq /\ k.rq = m.rq /\ k.full = m.full
        /\ k.stored = m.stored
    BY <1>0, <2>1, AlikeFields
  <2>6. Taken(m, n)
    BY <2>2, <2>3, <2>4, <2>5 DEF Taken, Kept, Drives
  <2> QED
    BY <2>6 DEF n
<1>3. CASE ~Held(m) /\ room
  <2> DEFINE b == NextBuffer(m)
             x == m.sm0
             f == Filled(m, b, x)
             k == [f EXCEPT !.locked = FALSE, !.sm0 = Nothing]
  <2>1. b \in Buffers /\ b \notin m.heap
    BY <1>3 DEF Room, NextBuffer
  <2>2. x \in Contents /\ ~m.full
    BY <1>0, <1>3 DEF Boxes, Held
  <2>3. n = WriteInd(k, b)
    BY <1>1, <1>3
  <2> HIDE DEF b, x, n
  <2>4. /\ Alike(m, f, {"heap", "buf"}) /\ f.heap = m.heap \cup {b}
        /\ \A a \in Buffers \ {b} : f.buf[a] = m.buf[a]
    BY <1>0, <2>1, <2>2, FilledFacts
  <2> HIDE DEF f
  <2>5. f \in Boxes
    BY <2>4 DEF Alike
  <2>6. /\ Alike(f, k, {"locked", "sm0"}) /\ k.locked = FALSE
        /\ k.sm0 = Nothing
    BY ONLY <2>5 DEF Alike, Boxes
  <2> HIDE DEF k
  <2>7. Alike(m, k, {"heap", "buf", "locked", "sm0"})
        /\ k.heap = m.heap \cup {b} /\ k.buf = f.buf
    BY <1>0, <2>4, <2>5, <2>6, AlikeTrans, AlikeFields
  <2>8. \A a \in Elements(m.rq) : k.buf[a].kind # "long"
    <3>1. Elements(m.rq) \subseteq Buffers \ {b}
      BY <1>0, <2>1, LenProperties DEF Elements, Boxes, Own
    <3>2. \A a \in Elements(m.rq) : k.buf[a] = m.buf[a]
      BY <2>4, <2>7, <3>1
    <3> QED
      BY <1>0, <3>2 DEF Fit
  <2>9. Fit(k)
    BY <1>0, <2>6, <2>7, <2>8, AlikeFields DEF Fit
  <2>10. Own(k, k.coe, {b})
    BY <1>0, <2>1, <2>7, AlikeFields DEF Own, Sent
  <2>11. /\ k.running /\ k.dropped = m.dropped /\ k.boot = m.boot
         /\ k.sq = m.sq /\ k.rq = m.rq /\ k.full = m.full
         /\ k.stored = m.stored
    BY <1>0, <2>7, AlikeFields
  <2>12. Taken(k, n)
    BY <2>1, <2>2, <2>3, <2>9, <2>10, <2>11, WriteIndFacts
  <2>13. Taken(m, n)
    BY <2>2, <2>11, <2>12 DEF Taken, Drives
  <2> QED
    BY <2>13 DEF n
<1> QED
  BY <1>2, <1>3

(***************************************************************************)
(* The master wants an answer again.                                       *)
(***************************************************************************)
LEMMA RepeatReqFacts ==
  ASSUME NEW m, Kept(m), NEW ack \in BOOLEAN
  PROVE  LET n == [RepeatReq(m) EXCEPT !.ack = ack]
         IN  /\ Kept(n) /\ n.dropped = m.dropped /\ n.boot = m.boot
             /\ n.rq = m.rq /\ n.sq = m.sq /\ Drives(m, n)
<1> DEFINE r == IF m.repeat = None THEN m ELSE Resent(TakenOff(m))
           fields == {"read", "store", "full", "sm1", "repeat"}
<1>0. /\ Fit(m) /\ m \in Boxes /\ m.running /\ Own(m, m.coe, {})
      /\ m.read \in Optional
  BY DEF Kept, Fit, Boxes
<1>1. /\ Fit(r) /\ Alike(m, r, fields) /\ Sent(r) = Sent(m)
      /\ r.full \/ r.full = m.full
  <2>1. CASE m.repeat = None
    BY <1>0, <2>1, AlikeSelf
  <2>2. CASE m.repeat # None
    <3> DEFINE a == m.repeat
               t == TakenOff(m)
               k == CopyToSend(t, a)
               n == [k EXCEPT !.repeat = None]
    <3>1. a \in Buffers /\ m.store = None
      BY <1>0, <2>2 DEF Fit, Boxes, Optional
    <3>2. /\ Alike(m, t, {"store", "full"}) /\ ~t.full
          /\ t.store = IF m.full THEN m.read ELSE None
      <4>1. CASE m.full
        <5>1. t = [m EXCEPT !.store = m.read, !.full = FALSE]
          BY <3>1, <4>1 DEF TakenOff
        <5> DEFINE d == m.read
                   u == [m EXCEPT !.store = d, !.full = FALSE]
        <5>2. d \in Optional /\ t = u
          BY <1>0, <5>1
        <5> HIDE DEF d, t
        <5>3. Alike(m, u, {"store", "full"}) /\ ~u.full /\ u.store = d
          BY ONLY <1>0, <5>2 DEF Alike, Boxes
        <5> QED
          BY <4>1, <5>2, <5>3 DEF d
      <4>2. CASE ~m.full
        BY <1>0, <3>1, <4>2, AlikeSelf DEF TakenOff
      <4> QED
        BY <4>1, <4>2
    <3> HIDE DEF t
    <3>3. t \in Boxes /\ t.running
      BY <1>0, <3>2, AlikeFields
    <3>4. t.repeat = a
      BY <1>0, <3>2, AlikeFields
    <3>5. r = n
      BY <2>2, <3>2, <3>3, <3>4 DEF Resent, CanSend, t
    <3>6. Alike(t, k, {"sm1", "read", "full"}) /\ k.read = a /\ k.full
      BY <3>1, <3>3, CopyFacts
    <3> HIDE DEF k, a
    <3>7. k \in Boxes
      BY <3>6 DEF Alike
    <3>8. Alike(k, n, {"repeat"}) /\ n.repeat = None
      BY ONLY <3>7, ZenonT(60) DEF Alike, Boxes, Optional, None
    <3> HIDE DEF n, r
    <3>9. Alike(m, n, fields)
      <4>1. Alike(m, k, fields)
        BY <1>0, <3>2, <3>3, <3>6, AlikeTrans
      <4> QED
        BY <1>0, <3>7, <3>8, <4>1, AlikeTrans
    <3>10. /\ n.read = a /\ n.full /\ n.repeat = None
           /\ n.store = IF m.full THEN m.read ELSE None
      <4>1. k.store = t.store
        BY <3>3, <3>6, AlikeFields
      <4>2. n.store = k.store /\ n.read = k.read /\ n.full = k.full
        BY <3>7, <3>8, AlikeFields
      <4> QED
        BY <3>2, <3>6, <3>8, <4>1, <4>2
    <3>11. m.full => m.read # None /\ m.read # a
      BY <1>0 DEF Fit, a
    <3>12. ~m.full => m.read = a
      BY <1>0 DEF Fit, a
    <3>13. Fit(n)
      BY <1>0, <3>1, <3>9, <3>10, <3>11, AlikeFields DEF Fit
    <3>14. Sent(n) = Sent(m)
      BY <1>0, <3>1, <3>10, <3>11, <3>12 DEF Sent, a
    <3> QED
      BY <3>5, <3>9, <3>10, <3>13, <3>14
  <2> QED
    BY <2>1, <2>2
<1> DEFINE toggle == ~r.toggle
           n == [r EXCEPT !.toggle = toggle, !.ack = ack]
<1>2. [RepeatReq(m) EXCEPT !.ack = ack] = n
  BY DEF RepeatReq
<1> HIDE DEF r
<1>3. r \in Boxes /\ toggle \in BOOLEAN
  BY <1>1 DEF Fit, Boxes
<1> HIDE DEF toggle
<1>4. Alike(r, n, {"toggle", "ack"})
  BY ONLY <1>3, ZenonT(60) DEF Alike, Boxes
<1> HIDE DEF n
<1>5. Fit(n)
  BY <1>1, <1>3, <1>4, AlikeFields DEF Fit
<1>6. /\ r.rq = m.rq /\ r.sq = m.sq /\ r.dropped = m.dropped
      /\ r.boot = m.boot /\ r.running = m.running /\ r.coe = m.coe
      /\ r.heap = m.heap /\ r.stored = m.stored
  <2>1. {"rq", "sq", "dropped", "boot", "running", "coe", "heap", "stored"}
          \cap fields = {}
    OBVIOUS
  <2> HIDE DEF fields
  <2>2. m \in Boxes /\ Alike(m, r, fields)
    BY <1>0, <1>1
  <2> QED
    BY ONLY <2>1, <2>2, AlikeFields
<1>7. /\ n.rq = m.rq /\ n.sq = m.sq /\ n.dropped = m.dropped
      /\ n.boot = m.boot /\ n.running = m.running /\ n.coe = m.coe
      /\ n.heap = m.heap /\ Sent(n) = Sent(m) /\ n.stored = m.stored
      /\ n.full = r.full
  BY <1>1, <1>3, <1>4, <1>6, AlikeFields DEF Sent
<1>8. Own(n, n.coe, {})
  BY <1>0, <1>7 DEF Own
<1> QED
  BY <1>0, <1>1, <1>2, <1>5, <1>7, <1>8 DEF Kept, Drives

(***************************************************************************)
(* Stopping and starting.                                                  *)
(***************************************************************************)
LEMMA StoppedFacts ==
  ASSUME NEW m, Fit(m), Own(m, m.coe, {})
  PROVE  LET n == Stopped(m)
         IN  /\ Fit(n) /\ Own(n, n.coe, {}) /\ ~n.running /\ ~n.boot
             /\ n.dropped = m.dropped /\ n.rq = <<>> /\ Driven(n)
<1> DEFINE X == ({m.repeat, m.store, m.read} \ {None})
                  \cup Elements(m.rq) \cup Elements(m.sq)
           f == Freed(m, X)
           n == Stopped(m)
<1>0. m \in Boxes
  BY DEF Fit
<1>1. f \in Boxes /\ Alike(m, f, {"heap", "buf"}) /\ f.heap = m.heap \ X
  BY <1>0, FreedFacts DEF Alike
<1>3. m.heap \ X = {m.coe} \ {None}
  BY DEF Own, Sent
<1> DEFINE g == [f EXCEPT !.running = FALSE, !.boot = FALSE, !.read = None,
                          !.repeat = None, !.store = None, !.foe = None,
                          !.rq = <<>>, !.sq = <<>>, !.sm0 = Nothing,
                          !.event = FALSE, !.sm1 = Nothing]
           h == ResetFlags(g)
<1>2. n = ResetCounters(h)
  BY DEF Stopped
<1> HIDE DEF f, X, n
<1>4. 0 \in Nat0(Counters) /\ 1 \in Nat0(Counters)
  BY DEF Nat0
<1>8. Elements(<<>>) = {} /\ Distinct(<<>>) /\ <<>> \in Seq(Buffers)
  BY EmptySeq DEF Elements, Distinct
<1>11. /\ Alike(f, g, {"running", "boot", "read", "repeat", "store", "foe",
                       "rq", "sq", "sm0", "event", "sm1"})
       /\ ~g.running /\ ~g.boot /\ g.read = None /\ g.repeat = None
       /\ g.store = None /\ g.rq = <<>> /\ g.sq = <<>> /\ g.sm0 = Nothing
       /\ ~g.event /\ g.foe = None
  BY ONLY <1>1, <1>8, ZenonT(60) DEF Alike, Boxes, Optional, None
<1> HIDE DEF g
<1>12. g \in Boxes
  BY <1>11 DEF Alike
<1>13. /\ Alike(g, h, {"full", "locked", "toggle", "ack", "stored"})
       /\ ~h.full /\ ~h.locked /\ h.stored = {}
  BY ONLY <1>12, ZenonT(60) DEF Alike, Boxes, ResetFlags
<1> HIDE DEF h
<1>14. h \in Boxes
  BY <1>13 DEF Alike
<1>15. Alike(h, n, {"wcount", "rcount", "sent"})
  BY ONLY <1>2, <1>4, <1>14 DEF Alike, Boxes, ResetCounters
<1>5. /\ n \in Boxes /\ n.heap = f.heap /\ n.coe = f.coe /\ n.foe = None
      /\ n.dropped = f.dropped /\ n.noMemory = f.noMemory
  <2>1. /\ g.heap = f.heap /\ g.coe = f.coe /\ g.dropped = f.dropped
        /\ g.noMemory = f.noMemory
    BY <1>1, <1>11, AlikeFields
  <2>2. /\ h.heap = g.heap /\ h.coe = g.coe /\ h.foe = g.foe
        /\ h.dropped = g.dropped /\ h.noMemory = g.noMemory
    BY <1>12, <1>13, AlikeFields
  <2> QED
    BY <1>11, <1>14, <1>15, <2>1, <2>2, AlikeFields
<1>6. /\ ~n.running /\ ~n.boot /\ n.read = None /\ n.repeat = None
      /\ n.store = None /\ n.rq = <<>> /\ n.sq = <<>> /\ n.sm0 = Nothing
      /\ ~n.event /\ ~n.locked /\ ~n.full /\ n.stored = {}
  <2>1. /\ h.running = g.running /\ h.boot = g.boot /\ h.read = g.read
        /\ h.repeat = g.repeat /\ h.store = g.store /\ h.rq = g.rq
        /\ h.sq = g.sq /\ h.sm0 = g.sm0 /\ h.event = g.event
    BY <1>12, <1>13, AlikeFields
  <2> QED
    BY <1>11, <1>13, <1>14, <1>15, <2>1, AlikeFields
<1>7. f.coe = m.coe /\ f.dropped = m.dropped /\ f.noMemory = m.noMemory
  BY <1>0, <1>1, AlikeFields
<1>9. Fit(n)
  BY <1>5, <1>6, <1>7, <1>8 DEF Fit
<1>10. Own(n, n.coe, {})
  BY <1>1, <1>3, <1>5, <1>6, <1>7, <1>8 DEF Own, Sent
<1> QED
  BY <1>5, <1>6, <1>7, <1>9, <1>10 DEF n, Driven

LEMMA StartedFacts ==
  ASSUME HeapSuffices, NEW m, Fit(m), Own(m, m.coe, {}), ~m.running,
         Driven(m),
         NEW boot \in BOOLEAN, NEW room \in Rooms(m)
  PROVE  LET n == Started(m, boot, room)
         IN  /\ Kept(n) /\ n.dropped = m.dropped /\ n.boot = boot
             /\ n.rq = <<>> /\ Driven(n)
<1> DEFINE n == [m EXCEPT !.running = TRUE, !.boot = boot, !.noMemory = FALSE]
<1>0. /\ m \in Boxes /\ m.read = None /\ m.rq = <<>> /\ m.sq = <<>>
      /\ m.repeat = None /\ m.store = None
  BY DEF Fit
<1>1. Room(m)
  <2>1. Elements(<<>>) = {}
    BY DEF Elements
  <2>2. m.heap = {m.coe} \ {None}
    BY <1>0, <2>1 DEF Own, Sent
  <2> QED
    BY <2>2 DEF Room, HeapSuffices
<1>2. room = TRUE
  BY <1>1 DEF Rooms, HeapSuffices
<1>3. Started(m, boot, room) = n
  BY <1>2 DEF Started
<1>4. /\ Alike(m, n, {"running", "boot", "noMemory"}) /\ n.running
      /\ n.boot = boot /\ ~n.noMemory
  BY <1>0 DEF Alike, Boxes
<1> HIDE DEF n
<1>5. Fit(n)
  BY <1>0, <1>4, AlikeFields DEF Fit
<1>6. Own(n, n.coe, {})
  BY <1>0, <1>4, AlikeFields DEF Own, Sent
<1>7. /\ n.dropped = m.dropped /\ n.rq = m.rq /\ n.full = m.full
      /\ n.stored = m.stored
  BY <1>0, <1>4, AlikeFields
<1> QED
  BY <1>0, <1>3, <1>4, <1>5, <1>6, <1>7 DEF Kept, Driven

(***************************************************************************)
(* The inductive invariant.  The requests that wait for MBX_Main find room *)
(* for their answers: a request is taken only when nothing waits in the    *)
(* send queue, and MBX_Main serves all of them before the next poll.       *)
(***************************************************************************)
Turns(m, at) ==
  /\ at \in {"main", "status", "control", "read", "repeat", "write"}
  /\ at \in {"read", "repeat", "write"} => m.running
  /\ at = "main" => m.rq = <<>> \/ Len(m.rq) + Len(m.sq) <= 2
  /\ at \in {"status", "control", "read", "repeat"}
       => m.rq = <<>> \/ (Len(m.rq) = 1 /\ ~m.full)
  /\ at = "write" => m.rq = <<>> \/ (Len(m.rq) = 1 /\ m.sq = <<>>)

Good(m, at, status, ma) ==
  /\ Fit(m) /\ Own(m, m.coe, {}) /\ Turns(m, at) /\ Driven(m)
  /\ status \in [full : BOOLEAN, repeat : BOOLEAN]
  /\ ma \in Masters

IInv == Good(box, pc, seen, master)

LEMMA LengthFacts ==
  ASSUME NEW m \in Boxes
  PROVE  /\ Len(m.rq) \in Nat /\ Len(m.sq) \in Nat
         /\ Len(m.rq) = 0 <=> m.rq = <<>>
         /\ Len(m.sq) = 0 <=> m.sq = <<>>
  BY LenProperties, EmptySeq DEF Boxes

LEMMA MainTurn ==
  ASSUME NEW m, m.rq = <<>> \/ Len(m.rq) + Len(m.sq) <= 2
  PROVE  Turns(m, "main")
  BY DEF Turns

\* What every step leaves.
Safe(m, n, at, status, ma) ==
  /\ ~n.dropped => Good(n, at, status, ma)
  /\ Starts \subseteq {"preop"} /\ ~m.boot /\ ~m.dropped
       => ~n.dropped /\ ~n.boot

LEMMA ServeStep ==
  ASSUME HeapSuffices, IInv, Serve
  PROVE  Safe(box, box', pc', seen', master')
<1> DEFINE q == box.rq
           b == Head(q)
           t == Tail(q)
           m == [box EXCEPT !.rq = t]
           n == ServiceInd(m, b)
<1>0. /\ Fit(box) /\ box \in Boxes /\ Own(box, box.coe, {}) /\ Driven(box)
      /\ Turns(box, pc) /\ q \in Seq(Buffers) /\ q # <<>>
      /\ pc = "main" /\ pc' = "main" /\ box' = n
      /\ seen' = seen /\ master' = master
      /\ seen \in [full : BOOLEAN, repeat : BOOLEAN] /\ master \in Masters
  BY DEF IInv, Good, Serve, Goto, Fit, Boxes
<1>1. /\ b \in Buffers /\ t \in Seq(Buffers) /\ Len(t) = Len(q) - 1
      /\ Elements(q) = Elements(t) \cup {b}
      /\ Distinct(q) => Distinct(t) /\ b \notin Elements(t)
  BY <1>0, TailElements
<1> HIDE DEF q, b, t
<1>2. Alike(box, m, {"rq"}) /\ m.rq = t
  BY ONLY <1>0, <1>1 DEF Alike, Boxes
<1> HIDE DEF m, n
<1>3. /\ m.running = box.running /\ m.full = box.full /\ m.sq = box.sq
      /\ m.coe = box.coe /\ m.buf = box.buf /\ m.boot = box.boot
      /\ m.dropped = box.dropped /\ m.heap = box.heap
      /\ m.read = box.read /\ m.repeat = box.repeat /\ m.store = box.store
      /\ m.stored = box.stored
      /\ m \in Boxes
  BY ONLY <1>0, <1>2, AlikeFields
<1>4. box.running /\ box.buf[b].kind # "long"
  BY <1>0, <1>1 DEF Fit, q
<1>5. Fit(m)
  BY <1>0, <1>1, <1>2, <1>4, AlikeFields DEF Fit, q
<1>6. Own(m, m.coe, {b})
  <2>1. Distinct(t) /\ b \notin Elements(t)
    BY <1>0, <1>1 DEF Own, q
  <2>2. Sent(m) = Sent(box)
    BY <1>3 DEF Sent
  <2>3. Elements(box.rq) = Elements(t) \cup {b}
    BY <1>1 DEF q
  <2> QED
    BY <1>0, <1>2, <1>3, <2>1, <2>2, <2>3 DEF Own
<1>7. /\ Len(q) \in Nat \ {0} /\ Len(box.sq) \in Nat
      /\ Len(q) + Len(box.sq) <= 2
  BY <1>0, LengthFacts DEF Turns, q
<1>8. ~Refused(m)
  BY <1>3, <1>7 DEF Refused, QueueFull, HeapSuffices
<1>9. /\ ~n.dropped => Handled(m, n)
      /\ ~m.boot => n.dropped = m.dropped
  BY <1>1, <1>3, <1>4, <1>5, <1>6, <1>8, ServiceFacts DEF n
<1>10. ASSUME ~n.dropped
       PROVE  Fit(n) /\ Own(n, n.coe, {}) /\ Turns(n, "main") /\ Driven(n)
  <2>1. /\ Fit(n) /\ Own(n, n.coe, {}) /\ Alike(m, n, HandFields)
        /\ Len(n.sq) <= Len(m.sq) + (IF m.full THEN 1 ELSE 0)
    BY <1>9, <1>10 DEF Handled
  <2>2. n.rq = t
    BY <1>2, <1>3, <2>1, AlikeFields DEF HandFields, SendFields, PutFields
  <2>3. Len(n.sq) \in Nat /\ Len(n.rq) \in Nat
    BY <2>1, LengthFacts DEF Fit
  <2>4. Len(n.sq) <= Len(box.sq) + 1
    <3> DEFINE k == Len(box.sq)
               l == Len(n.sq)
               full == m.full
    <3>1. k \in Nat /\ l \in Nat /\ l <= k + (IF full THEN 1 ELSE 0)
      BY <1>3, <1>7, <2>1, <2>3
    <3> HIDE DEF k, l, full
    <3>2. l <= k + 1
      <4>1. CASE full
        BY ONLY <3>1, <4>1
      <4>2. CASE ~full
        BY ONLY <3>1, <4>2
      <4> QED
        BY ONLY <4>1, <4>2
    <3> QED
      BY <3>2 DEF k, l
  <2>5. Len(n.rq) + Len(n.sq) <= 2
    <3> DEFINE i == Len(q)
               j == Len(box.sq)
               k == Len(n.rq)
               l == Len(n.sq)
    <3>1. /\ i \in Nat /\ j \in Nat /\ k \in Nat /\ l \in Nat
          /\ i + j <= 2 /\ k = i - 1 /\ l <= j + 1
      BY <1>1, <1>7, <2>2, <2>3, <2>4
    <3> HIDE DEF i, j, k, l
    <3>2. k + l <= 2
      BY ONLY <3>1
    <3> QED
      BY <3>2 DEF k, l
  <2>6. Driven(m) /\ Drives(m, n)
    BY <1>0, <1>3, <1>9, <1>10 DEF Driven, Handled
  <2> QED
    BY <2>1, <2>5, <2>6, MainTurn, DrivesOn
<1>11. ASSUME ~m.boot, ~m.dropped
       PROVE  ~n.dropped /\ ~n.boot
  <2>1. ~n.dropped /\ Alike(m, n, HandFields)
    BY <1>9, <1>11 DEF Handled
  <2> QED
    BY <1>3, <1>11, <2>1, AlikeFields DEF HandFields, SendFields, PutFields
<1> QED
  BY <1>0, <1>3, <1>10, <1>11 DEF Safe, Good

\* A step that leaves a mailbox that runs as it was, or makes it one.
LEMMA KeptIsSafe ==
  ASSUME IInv, NEW n, Fit(n), Own(n, n.coe, {}), NEW at, Turns(n, at),
         Driven(n),
         NEW status \in [full : BOOLEAN, repeat : BOOLEAN],
         NEW ma \in Masters, n.dropped = box.dropped,
         Starts \subseteq {"preop"} /\ ~box.boot => ~n.boot
  PROVE  Safe(box, n, at, status, ma)
  BY DEF Safe, Good

LEMMA UnlockStep ==
  ASSUME HeapSuffices, IInv, Unlock
  PROVE  Safe(box, box', pc', seen', master')
<1>0. /\ Fit(box) /\ box \in Boxes /\ Own(box, box.coe, {}) /\ Driven(box)
      /\ box.rq = <<>> /\ pc' = "status" /\ seen' = seen
      /\ master' = master
      /\ seen \in [full : BOOLEAN, repeat : BOOLEAN] /\ master \in Masters
  BY DEF IInv, Good, Unlock, Goto, Fit
<1>1. PICK room \in Rooms(box) :
        box' = IF box.locked THEN CheckAndCopy(box, room) ELSE box
  BY DEF Unlock
<1>2. CASE ~box.locked
  <2>1. box' = box /\ Turns(box, "status")
    BY <1>0, <1>1, <1>2 DEF Turns
  <2> QED
    BY <1>0, <2>1, KeptIsSafe
<1>3. CASE box.locked
  <2> DEFINE n == CheckAndCopy(box, room)
  <2>1. box.running /\ box.sm0 # Nothing /\ ~box.event
    BY <1>0, <1>3 DEF Fit
  <2>2. Len(box.rq) = 0 /\ (room => Room(box)) /\ QueueSize >= 3
    BY <1>0, LengthFacts DEF HeapSuffices, Rooms
  <2>3. Taken(box, n)
    BY <1>0, <2>1, <2>2, CheckAndCopyFacts DEF Kept
  <2>4. box' = n
    BY <1>1, <1>3
  <2> HIDE DEF n
  <2>5. /\ Fit(n) /\ Own(n, n.coe, {}) /\ n.running
        /\ n.dropped = box.dropped /\ n.boot = box.boot
    BY <2>3 DEF Taken, Kept
  <2>6. Turns(n, "status") /\ Driven(n)
    BY <1>0, <2>2, <2>3, DrivesOn DEF Turns, Taken
  <2> QED
    BY <1>0, <2>4, <2>5, <2>6, KeptIsSafe
<1> QED
  BY <1>2, <1>3

LEMMA HandleReadStep ==
  ASSUME HeapSuffices, IInv, HandleRead
  PROVE  Safe(box, box', pc', seen', master')
<1>0. /\ Fit(box) /\ box \in Boxes /\ Own(box, box.coe, {}) /\ Driven(box)
      /\ box.running /\ Turns(box, "read") /\ pc' = "repeat"
      /\ seen' = seen /\ master' = master
      /\ seen \in [full : BOOLEAN, repeat : BOOLEAN] /\ master \in Masters
  BY DEF IInv, Good, HandleRead, Goto, Fit, Turns
<1>1. PICK room \in Rooms(Freed(box, Outdated(box))) :
        box' = IF ~seen.full /\ box.full THEN ReadInd(box, room) ELSE box
  BY DEF HandleRead
<1>2. CASE ~(~seen.full /\ box.full)
  <2>1. box' = box /\ Turns(box, "repeat")
    BY <1>0, <1>1, <1>2 DEF Turns
  <2> QED
    BY <1>0, <2>1, KeptIsSafe
<1>3. CASE ~seen.full /\ box.full
  <2> DEFINE n == ReadInd(box, room)
  <2>1. box.rq = <<>>
    BY <1>0, <1>3 DEF Turns
  <2>2. Kept(n) /\ n.dropped = box.dropped /\ n.boot = box.boot
        /\ n.rq = box.rq /\ Driven(n)
    BY <1>0, <1>3, <2>1, ReadIndFacts DEF Kept
  <2>3. box' = n
    BY <1>1, <1>3
  <2> HIDE DEF n
  <2>4. Fit(n) /\ Own(n, n.coe, {}) /\ Turns(n, "repeat")
    BY <1>0, <1>3, <2>2 DEF Kept, Turns
  <2> QED
    BY <1>0, <2>2, <2>3, <2>4, KeptIsSafe
<1> QED
  BY <1>2, <1>3

LEMMA HandleRepeatStep ==
  ASSUME IInv, HandleRepeat
  PROVE  Safe(box, box', pc', seen', master')
<1>0. /\ Fit(box) /\ box \in Boxes /\ Own(box, box.coe, {}) /\ Driven(box)
      /\ box.running /\ Turns(box, "repeat") /\ pc' = "write"
      /\ seen' = seen /\ master' = master
      /\ seen \in [full : BOOLEAN, repeat : BOOLEAN] /\ master \in Masters
      /\ box' = IF seen.repeat # box.toggle
                THEN [RepeatReq(box) EXCEPT !.ack = ~box.toggle] ELSE box
  BY DEF IInv, Good, HandleRepeat, Goto, Fit, Turns
<1>1. \A m : m.running /\ m.rq = box.rq /\ m.sq = box.sq => Turns(m, "write")
  BY <1>0 DEF Turns, Fit
<1>2. CASE seen.repeat = box.toggle
  <2>1. box' = box
    BY <1>0, <1>2
  <2> QED
    BY <1>0, <1>1, <2>1, KeptIsSafe
<1>3. CASE seen.repeat # box.toggle
  <2> DEFINE ack == ~box.toggle
             n == [RepeatReq(box) EXCEPT !.ack = ack]
  <2>1. box' = n
    BY <1>0, <1>3
  <2>2. ack \in BOOLEAN
    BY <1>0 DEF Boxes
  <2> HIDE DEF ack
  <2>3. /\ Kept(n) /\ n.dropped = box.dropped /\ n.boot = box.boot
        /\ n.rq = box.rq /\ n.sq = box.sq /\ Driven(n)
    BY <1>0, <2>2, RepeatReqFacts, DrivesOn DEF Kept
  <2> HIDE DEF n
  <2>4. Fit(n) /\ Own(n, n.coe, {}) /\ Turns(n, "write")
    BY <1>1, <2>3 DEF Kept
  <2> QED
    BY <1>0, <2>1, <2>3, <2>4, KeptIsSafe
<1> QED
  BY <1>2, <1>3

LEMMA HandleWriteStep ==
  ASSUME HeapSuffices, IInv, HandleWrite
  PROVE  Safe(box, box', pc', seen', master')
<1>0. /\ Fit(box) /\ box \in Boxes /\ Own(box, box.coe, {}) /\ Driven(box)
      /\ box.running /\ Turns(box, "write") /\ pc' = "main"
      /\ seen' = seen /\ master' = master
      /\ seen \in [full : BOOLEAN, repeat : BOOLEAN] /\ master \in Masters
  BY DEF IInv, Good, HandleWrite, Goto, Fit, Turns
<1>1. PICK room \in Rooms(box) :
        box' = IF box.event
               THEN CheckAndCopy([box EXCEPT !.event = FALSE], room) ELSE box
  BY DEF HandleWrite
<1>2. /\ Len(box.rq) \in Nat /\ Len(box.sq) \in Nat
      /\ box.rq = <<>> \/ Len(box.rq) + Len(box.sq) = 1
      /\ box.rq = <<>> \/ Len(box.rq) + Len(box.sq) <= 2
      /\ Len(box.rq) <= 1
  <2>1. /\ Len(box.rq) \in Nat /\ Len(box.sq) \in Nat
        /\ box.rq = <<>> => Len(box.rq) = 0
        /\ box.sq = <<>> => Len(box.sq) = 0
    BY <1>0, LengthFacts
  <2>2. box.rq = <<>> \/ (Len(box.rq) = 1 /\ box.sq = <<>>)
    BY <1>0 DEF Turns
  <2> DEFINE k == Len(box.rq)
             l == Len(box.sq)
  <2>3. /\ k \in Nat /\ l \in Nat
        /\ (box.rq = <<>> /\ k = 0) \/ (k = 1 /\ l = 0)
    BY <2>1, <2>2
  <2> HIDE DEF k, l
  <2>4. /\ k \in Nat /\ l \in Nat
        /\ box.rq = <<>> \/ k + l = 1
        /\ box.rq = <<>> \/ k + l <= 2
        /\ k <= 1
    BY ONLY <2>3
  <2> QED
    BY <2>4 DEF k, l
<1>3. CASE ~box.event
  <2>1. box' = box
    BY <1>1, <1>3
  <2>2. box.rq = <<>> \/ Len(box.rq) + Len(box.sq) <= 2
    BY <1>2
  <2>3. Turns(box, "main")
    BY <2>2, MainTurn
  <2> QED
    BY <1>0, <2>1, <2>3, KeptIsSafe
<1>4. CASE box.event
  <2> DEFINE m == [box EXCEPT !.event = FALSE]
             n == CheckAndCopy(m, room)
  <2>1. Alike(box, m, {"event"}) /\ ~m.event
    BY ONLY <1>0, ZenonT(60) DEF Alike, Boxes
  <2>2. box' = n
    BY <1>1, <1>4
  <2> HIDE DEF m, n
  <2>3. /\ m.running /\ m.sm0 = box.sm0 /\ m.rq = box.rq /\ m.sq = box.sq
        /\ m.boot = box.boot /\ m.dropped = box.dropped
        /\ m.heap = box.heap /\ m \in Boxes
        /\ m.full = box.full /\ m.stored = box.stored
    BY <1>0, <2>1, AlikeFields
  <2>4. Fit(m)
    BY <1>0, <2>1, AlikeFields DEF Fit
  <2>5. Own(m, m.coe, {})
    BY <1>0, <2>1, AlikeFields DEF Own, Sent
  <2>6. /\ box.sm0 # Nothing /\ (room => Room(m)) /\ QueueSize >= 3
    BY <1>0, <1>4, <2>3 DEF Fit, Rooms, Room, HeapSuffices
  <2>7. Taken(m, n)
    BY <1>2, <2>1, <2>3, <2>4, <2>5, <2>6, CheckAndCopyFacts DEF Kept, n
  <2>8. /\ Fit(n) /\ Own(n, n.coe, {}) /\ n.running
        /\ n.dropped = box.dropped /\ n.boot = box.boot
        /\ n.sq = box.sq
        /\ n.rq = box.rq \/ (Len(n.rq) = Len(box.rq) + 1 /\ ~n.full)
    BY <2>3, <2>7 DEF Taken, Kept
  <2>10. Driven(n)
    <3>1. Driven(m) /\ Drives(m, n)
      BY <1>0, <2>3, <2>7 DEF Driven, Taken
    <3> QED
      BY <3>1, DrivesOn
  <2>9. Turns(n, "main")
    <3>1. CASE n.rq = box.rq
      BY <1>2, <2>8, <3>1, MainTurn
    <3>2. CASE Len(n.rq) = Len(box.rq) + 1 /\ ~n.full
      <4>1. Len(n.sq) = 0
        BY <2>8, <3>2, LengthFacts DEF Fit
      <4>2. Len(n.rq) + Len(n.sq) <= 2
        BY <1>2, <3>2, <4>1
      <4> QED
        BY <4>2, MainTurn
    <3> QED
      BY <2>8, <3>1, <3>2
  <2> QED
    BY <1>0, <2>2, <2>8, <2>9, <2>10, KeptIsSafe
<1> QED
  BY <1>3, <1>4

LEMMA StopStep ==
  ASSUME IInv, StopMailbox
  PROVE  Safe(box, box', pc', seen', master')
<1>0. /\ Fit(box) /\ Driven(box) /\ Own(box, box.coe, {}) /\ pc' = "main"
      /\ seen' = seen /\ seen \in [full : BOOLEAN, repeat : BOOLEAN]
      /\ master \in Masters /\ master.stops < MaxStops
      /\ box' = Stopped(box)
      /\ master' = [Restarted(master) EXCEPT !.stops = @ + 1]
  BY DEF IInv, Good, StopMailbox, Goto
<1>1. master' \in Masters
  <2> DEFINE stops == master.stops + 1
             k == Restarted(master)
  <2>1. 0 \in Nat0(Counters) /\ stops \in Nat0(MaxStops)
    BY <1>0 DEF Masters, Nat0
  <2>2. k \in Masters /\ k.stops = master.stops
    BY ONLY <1>0, <2>1 DEF Masters, Restarted
  <2>3. master' = [k EXCEPT !.stops = stops]
    BY <1>0, <2>2
  <2> HIDE DEF k, stops
  <2>4. [k EXCEPT !.stops = stops] \in Masters
    BY ONLY <2>1, <2>2 DEF Masters
  <2> QED
    BY <2>3, <2>4
<1> DEFINE n == Stopped(box)
<1>2. /\ Fit(n) /\ Own(n, n.coe, {}) /\ ~n.running /\ ~n.boot
      /\ n.dropped = box.dropped /\ n.rq = <<>> /\ Driven(n)
  BY <1>0, StoppedFacts
<1> HIDE DEF n
<1>3. Turns(n, "main")
  BY <1>2 DEF Turns
<1>4. Safe(box, n, "main", seen', master')
  BY <1>0, <1>1, <1>2, <1>3, KeptIsSafe
<1> QED
  BY <1>0, <1>4 DEF n

LEMMA StartStep ==
  ASSUME HeapSuffices, IInv, StartMailbox
  PROVE  Safe(box, box', pc', seen', master')
<1>0. /\ Fit(box) /\ Driven(box) /\ Own(box, box.coe, {}) /\ ~box.running /\ pc' = "read"
      /\ seen' = seen /\ seen \in [full : BOOLEAN, repeat : BOOLEAN]
      /\ master' = master /\ master \in Masters
  BY DEF IInv, Good, StartMailbox, Goto
<1>1. PICK start \in Starts, room \in Rooms(box) :
        box' = Started(box, start = "boot", room)
  BY DEF StartMailbox
<1> DEFINE boot == start = "boot"
           n == Started(box, boot, room)
<1>2. boot \in BOOLEAN /\ (Starts \subseteq {"preop"} => ~boot)
  OBVIOUS
<1> HIDE DEF boot
<1>3. /\ Kept(n) /\ n.dropped = box.dropped /\ n.boot = boot /\ n.rq = <<>>
      /\ Driven(n)
  BY <1>0, <1>2, StartedFacts
<1>4. box' = n
  BY <1>1 DEF boot
<1> HIDE DEF n
<1>5. Fit(n) /\ Own(n, n.coe, {}) /\ Turns(n, "read")
  BY <1>3 DEF Kept, Turns
<1> QED
  BY <1>0, <1>2, <1>3, <1>4, <1>5, KeptIsSafe

\* The steps that leave the mailbox as it is.
LEMMA StillStep ==
  ASSUME IInv, ReadStatus \/ KeepMailbox \/ UNCHANGED vars
  PROVE  Safe(box, box', pc', seen', master')
<1>0. /\ Fit(box) /\ Driven(box) /\ Own(box, box.coe, {}) /\ Turns(box, pc)
      /\ box \in Boxes
      /\ seen \in [full : BOOLEAN, repeat : BOOLEAN] /\ master \in Masters
  BY DEF IInv, Good, Fit
<1>1. CASE ReadStatus
  <2>1. /\ box' = box /\ pc' = "control" /\ master' = master
        /\ seen' \in [full : BOOLEAN, repeat : BOOLEAN]
        /\ Turns(box, "control")
    BY <1>0, <1>1 DEF ReadStatus, Goto, Turns, Boxes, Masters
  <2> QED
    BY <1>0, <2>1, KeptIsSafe
<1>2. CASE KeepMailbox
  <2>1. /\ box' = box /\ seen' = seen /\ master' = master
        /\ pc' = IF box.running THEN "read" ELSE "main"
    BY <1>2 DEF KeepMailbox
  <2>2. Turns(box, pc')
    <3>1. pc = "control" /\ (~box.running => box.rq = <<>>)
      BY <1>0, <1>2 DEF KeepMailbox, Fit
    <3> QED
      BY <1>0, <2>1, <3>1 DEF Turns
  <2> QED
    BY <1>0, <2>1, <2>2, KeptIsSafe
<1>3. CASE UNCHANGED vars
  <2>1. box' = box /\ pc' = pc /\ seen' = seen /\ master' = master
    BY <1>3 DEF vars
  <2> QED
    BY <1>0, <2>1, KeptIsSafe
<1> QED
  BY <1>1, <1>2, <1>3

(***************************************************************************)
(* The master.                                                             *)
(***************************************************************************)

\* What the master can do to the mailbox.
LEMMA MasterTouches ==
  ASSUME IInv, NEW m, Alike(box, m, {"sm0", "sm1", "event"}),
         \/ m.sm0 = box.sm0 /\ m.event = box.event
         \/ box.running /\ box.sm0 = Nothing /\ m.sm0 # Nothing,
         NEW ma \in Masters
  PROVE  Safe(box, m, pc, seen, ma)
<1>0. /\ Fit(box) /\ box \in Boxes /\ Own(box, box.coe, {}) /\ Driven(box)
      /\ Turns(box, pc) /\ seen \in [full : BOOLEAN, repeat : BOOLEAN]
  BY DEF IInv, Good, Fit
<1>1. /\ m.running = box.running /\ m.rq = box.rq /\ m.sq = box.sq
      /\ m.full = box.full /\ m.dropped = box.dropped /\ m.boot = box.boot
      /\ m.stored = box.stored
  BY <1>0, AlikeFields
<1>2. Fit(m)
  BY <1>0, AlikeFields DEF Fit
<1>3. Own(m, m.coe, {})
  BY <1>0, AlikeFields DEF Own, Sent
<1>4. Turns(m, pc) /\ Driven(m)
  BY <1>0, <1>1 DEF Turns, Driven
<1> QED
  BY <1>0, <1>1, <1>2, <1>3, <1>4, KeptIsSafe

LEMMA PostedFacts ==
  ASSUME IInv, NEW c \in Contents
  PROVE  Alike(box, Posted(c), {"sm0", "sm1", "event"})
         /\ Posted(c).sm0 # Nothing
<1>1. box \in Boxes
  BY DEF IInv, Good, Fit
<1>2. c # Nothing
  BY DEF Contents, Nothing
<1> QED
  BY ONLY <1>1, <1>2 DEF Alike, Boxes, Posted

LEMMA RequestType ==
  ASSUME NEW kind \in AllKinds, NEW counter \in Nat0(Counters),
         NEW serial \in Nat
  PROVE  Request(kind, counter, serial) \in Contents
  BY DEF Request, Contents

LEMMA MasterStep ==
  ASSUME IInv, Master
  PROVE  Safe(box, box', pc', seen', master')
<1>0. /\ Fit(box) /\ box \in Boxes /\ Own(box, box.coe, {}) /\ Driven(box)
      /\ master \in Masters
  BY DEF IInv, Good, Fit
<1>1. ASSUME NEW arrives \in BOOLEAN, MasterSends(arrives)
      PROVE  Safe(box, box', pc', seen', master')
  <2> DEFINE counter == (master.counter % Counters) + 1
             count == master.requests + 1
  <2>1. counter \in Nat0(Counters) /\ count \in Nat
        /\ count \in Nat0(MaxRequests)
    BY <1>0, <1>1 DEF MasterSends, Masters, Nat0
  <2>2. PICK kind \in Kinds :
           /\ box' = IF arrives THEN Posted(Request(kind, counter, count))
                     ELSE box
           /\ master' = [master EXCEPT
                !.counter = counter, !.kind = kind, !.requests = @ + 1,
                !.losses = IF arrives THEN @ ELSE @ + 1]
    BY <1>1 DEF MasterSends
  <2>3. kind \in AllKinds
    BY KindAssumption
  <2>4. /\ box.running /\ box.sm0 = Nothing /\ pc' = pc /\ seen' = seen
        /\ arrives \/ master.losses < MaxLosses
    BY <1>1 DEF MasterSends
  <2> DEFINE losses == IF arrives THEN master.losses ELSE master.losses + 1
             ma == [master EXCEPT !.counter = counter, !.kind = kind,
                                  !.requests = count, !.losses = losses]
  <2>5. losses \in Nat0(MaxLosses)
    BY <1>0, <2>4 DEF Masters, Nat0
  <2>6. master' = ma
    BY <2>2
  <2> HIDE DEF counter, count, losses
  <2>7. ma \in Masters
    BY <1>0, <2>1, <2>3, <2>5 DEF Masters
  <2> HIDE DEF ma
  <2>8. CASE ~arrives
    <3>1. box' = box /\ Alike(box, box, {"sm0", "sm1", "event"})
      BY <1>0, <2>2, <2>8, AlikeSelf
    <3> QED
      BY <2>4, <2>6, <2>7, <3>1, MasterTouches
  <2>9. CASE arrives
    <3> DEFINE c == Request(kind, counter, count)
    <3>1. c \in Contents
      BY <2>1, <2>3, RequestType
    <3>2. box' = Posted(c)
      BY <2>2, <2>9
    <3> HIDE DEF c
    <3>3. /\ Alike(box, Posted(c), {"sm0", "sm1", "event"})
          /\ Posted(c).sm0 # Nothing
      BY <3>1, PostedFacts
    <3>4. Safe(box, Posted(c), pc, seen, ma)
      BY <2>4, <2>7, <3>3, MasterTouches
    <3> QED
      BY <2>4, <2>6, <3>2, <3>4
  <2> QED
    BY <2>8, <2>9
<1>2. CASE MasterRewrites
  <2> DEFINE c == Request(master.kind, master.counter, master.requests)
             losses == master.losses + 1
             ma == [master EXCEPT !.kind = "none", !.losses = losses]
  <2>1. /\ box.running /\ box.sm0 = Nothing /\ pc' = pc /\ seen' = seen
        /\ box' = Posted(c) /\ master' = ma /\ master.kind # "none"
        /\ master.losses < MaxLosses
    BY <1>2 DEF MasterRewrites
  <2>2. c \in Contents /\ losses \in Nat0(MaxLosses)
    <3>1. /\ master.kind \in AllKinds /\ master.counter \in Nat0(Counters)
          /\ master.requests \in Nat /\ losses \in Nat0(MaxLosses)
      BY <1>0, <2>1 DEF Masters, Nat0
    <3> QED
      BY <3>1, RequestType
  <2> HIDE DEF c, losses
  <2>3. ma \in Masters
    BY <1>0, <2>2 DEF Masters
  <2> HIDE DEF ma
  <2>4. /\ Alike(box, Posted(c), {"sm0", "sm1", "event"})
        /\ Posted(c).sm0 # Nothing
    BY <2>2, PostedFacts
  <2>5. Safe(box, Posted(c), pc, seen, ma)
    BY <2>1, <2>3, <2>4, MasterTouches
  <2> QED
    BY <2>1, <2>5
<1>3. CASE MasterReads \/ MasterLosesRead
  <2> DEFINE m == [box EXCEPT !.sm1 = Nothing]
  <2>1. box' = m /\ pc' = pc /\ seen' = seen /\ box.sm1 # Nothing
    BY <1>3 DEF MasterReads, MasterLosesRead, MayRead
  <2>2. Alike(box, m, {"sm0", "sm1", "event"}) /\ m.sm0 = box.sm0
        /\ m.event = box.event
    BY ONLY <1>0 DEF Alike, Boxes
  <2> HIDE DEF m
  <2>3. master' \in Masters
    <3>1. box.sm1.counter \in Nat0(Counters) /\ box.sm1.serial \in Nat
      <4>1. box.sm1 \in Contents
        BY <1>0, <2>1 DEF Boxes
      <4> QED
        BY <4>1 DEF Contents
    <3>2. CASE MasterReads
      <4> DEFINE c == box.sm1.counter
                 e == box.sm1.serial
      <4>1. /\ master' = IF c = master.last
                         THEN [master EXCEPT !.repeat = "no"]
                         ELSE [master EXCEPT !.repeat = "no", !.got = e,
                                             !.last = c]
            /\ c \in Nat0(Counters) /\ e \in Nat
        BY <3>1, <3>2 DEF MasterReads
      <4> HIDE DEF c, e
      <4> QED
        BY <1>0, <4>1 DEF Masters
    <3>3. CASE MasterLosesRead
      <4> DEFINE losses == master.losses + 1
      <4>1. losses \in Nat0(MaxLosses)
        BY <1>0, <3>3 DEF MasterLosesRead, Masters, Nat0
      <4>2. master' = [master EXCEPT !.repeat = "wanted", !.losses = losses]
        BY <3>3 DEF MasterLosesRead
      <4> HIDE DEF losses
      <4> QED
        BY <1>0, <4>1, <4>2 DEF Masters
    <3> QED
      BY <1>3, <3>2, <3>3
  <2>4. Safe(box, m, pc, seen, master')
    BY <2>2, <2>3, MasterTouches
  <2> QED
    BY <2>1, <2>4
<1>4. CASE MasterAsksAgain
  <2>1. /\ box' = box /\ pc' = pc /\ seen' = seen
        /\ Alike(box, box, {"sm0", "sm1", "event"})
    BY <1>0, <1>4, AlikeSelf DEF MasterAsksAgain
  <2>2. master' \in Masters
    BY <1>0, <1>4 DEF MasterAsksAgain, Masters
  <2> QED
    BY <2>1, <2>2, MasterTouches
<1> QED
  BY <1>1, <1>2, <1>3, <1>4 DEF Master, MasterWrites, MasterLosesWrite

(***************************************************************************)
(* The theorems.                                                           *)
(***************************************************************************)
LEMMA Initially == Init => IInv /\ ~box.dropped /\ ~box.boot
<1> SUFFICES ASSUME Init PROVE IInv /\ ~box.dropped /\ ~box.boot
  OBVIOUS
<1>1. Elements(<<>>) = {} /\ Distinct(<<>>) /\ <<>> \in Seq(Buffers)
  BY EmptySeq DEF Elements, Distinct
<1>2. 0 \in Nat0(Counters) /\ 1 \in Nat0(Counters) /\ 0 \in Nat0(Fragments)
      /\ 0 \in Nat0(MaxRequests) /\ 0 \in Nat0(MaxLosses)
      /\ 0 \in Nat0(MaxStops)
  BY DEF Nat0
<1>3. [b \in Buffers |-> Blank] \in [Buffers -> Contents]
  BY BlankType
<1>4. box \in Boxes /\ ~box.dropped /\ ~box.boot
  BY <1>1, <1>2, <1>3 DEF Init, Boxes, Optional, None
<1>5. Fit(box)
  BY <1>1, <1>4 DEF Init, Fit
<1>6. Own(box, box.coe, {}) /\ Driven(box)
  BY <1>1 DEF Init, Own, Sent, Driven
<1>7. Turns(box, pc) /\ seen \in [full : BOOLEAN, repeat : BOOLEAN]
  BY DEF Init, Turns
<1>8. master \in Masters
  BY <1>2 DEF Init, Masters
<1> QED
  BY <1>4, <1>5, <1>6, <1>7, <1>8 DEF IInv, Good

LEMMA StepIsSafe ==
  ASSUME HeapSuffices, IInv, [Next]_vars
  PROVE  /\ ~box'.dropped => IInv'
         /\ Starts \subseteq {"preop"} /\ ~box.boot /\ ~box.dropped
              => ~box'.dropped /\ ~box'.boot
<1>1. Safe(box, box', pc', seen', master')
  BY ServeStep, UnlockStep, HandleReadStep, HandleRepeatStep,
     HandleWriteStep, StopStep, StartStep, StillStep, MasterStep
     DEF Next, Task
<1>2. Good(box', pc', seen', master') => IInv'
  BY DEF IInv
<1> QED
  BY <1>1, <1>2 DEF Safe

\* The places, one after the other, hold what Own says.
LEMMA OwnedPlaces ==
  ASSUME Fit(box), Own(box, box.coe, {})
  PROVE  MemoryOwned
<1> DEFINE p == <<box.repeat, box.store, box.coe, box.foe>>
           r == IF box.read = box.repeat THEN <<>> ELSE <<box.read>>
<1>0. /\ box \in Boxes /\ box.rq \in Seq(Buffers) /\ box.sq \in Seq(Buffers)
      /\ {box.repeat, box.store, box.coe, box.foe, box.read} \subseteq Optional
      /\ box.foe = None
  BY DEF Fit, Boxes
<1>1. /\ box.rq \in Seq(Optional) /\ box.sq \in Seq(Optional)
      /\ p \in Seq(Optional) /\ r \in Seq(Optional)
  <2>1. ASSUME NEW q \in Seq(Buffers)
        PROVE  q \in Seq(Optional)
    <3>1. PICK n \in Nat : q \in [1 .. n -> Buffers]
      BY SeqDef
    <3>2. q \in [1 .. n -> Optional]
      BY <3>1 DEF Optional
    <3> QED
      BY <3>2, SeqDef
  <2> DEFINE a == box.repeat
             b == box.store
             c == box.coe
             d == box.foe
             e == box.read
  <2>2. {a, b, c, d, e} \subseteq Optional
    BY <1>0
  <2>3. p = <<a, b, c, d>> /\ r \in {<<>>, <<e>>}
    OBVIOUS
  <2> HIDE DEF a, b, c, d, e, p, r
  <2>4. <<a, b, c, d>> \in Seq(Optional) /\ <<e>> \in Seq(Optional)
    BY <2>2
  <2> QED
    BY <1>0, <2>1, <2>3, <2>4, EmptySeq
<1>2. Elements(p) = {box.repeat, box.store, box.coe, box.foe}
  <2>1. DOMAIN p = 1 .. 4
    OBVIOUS
  <2>2. 1 .. 4 = {1, 2, 3, 4}
    OBVIOUS
  <2> QED
    BY <2>1, <2>2 DEF Elements
<1>3. Distinct(p)
  <2>1. /\ box.store # None => box.repeat = None
        /\ box.coe \notin Sent(box)
    BY DEF Fit, Own
  <2>2. DOMAIN p = {1, 2, 3, 4}
    OBVIOUS
  <2>3. p[1] = box.repeat /\ p[2] = box.store /\ p[3] = box.coe
        /\ p[4] = None
    BY <1>0
  <2> HIDE DEF p
  <2> QED
    BY <2>1, <2>2, <2>3 DEF Distinct, Sent
<1>4. /\ Elements(r) = IF box.read = box.repeat THEN {} ELSE {box.read}
      /\ Distinct(r)
  <2>1. DOMAIN r = IF box.read = box.repeat THEN {} ELSE {1}
    OBVIOUS
  <2> QED
    BY <2>1 DEF Elements, Distinct
<1> HIDE DEF p, r
<1>5. Elements(p) \cap Elements(r) \subseteq {None}
  <2>1. /\ box.store # None => box.store # box.read
        /\ box.coe \notin Sent(box)
    BY DEF Fit, Own
  <2> QED
    BY <1>0, <1>2, <1>4, <2>1 DEF Sent
<1> DEFINE pr == p \o r
           prq == pr \o box.rq
           all == prq \o box.sq
<1>6. /\ pr \in Seq(Optional) /\ Elements(pr) = Elements(p) \cup Elements(r)
      /\ Distinct(pr)
  BY <1>1, <1>3, <1>4, <1>5, ConcatElements
<1> HIDE DEF pr
<1>7. Elements(pr) \ {None} = Sent(box) \cup ({box.coe} \ {None})
  BY <1>0, <1>2, <1>4, <1>6 DEF Sent
<1>8. Elements(box.rq) \subseteq Buffers /\ Elements(box.sq) \subseteq Buffers
  BY <1>0, LenProperties DEF Elements
<1>9. /\ prq \in Seq(Optional)
      /\ Elements(prq) = Elements(pr) \cup Elements(box.rq)
      /\ Distinct(prq)
  <2>1. Distinct(box.rq) /\ Elements(pr) \cap Elements(box.rq) \subseteq {None}
    BY <1>7 DEF Own
  <2> QED
    BY <1>1, <1>6, <2>1, ConcatElements
<1> HIDE DEF prq
<1>10. /\ Elements(all) = Elements(prq) \cup Elements(box.sq)
       /\ Distinct(all)
  <2>1. Distinct(box.sq) /\ Elements(prq) \cap Elements(box.sq) \subseteq {None}
    BY <1>7, <1>9 DEF Own
  <2> QED
    BY <1>1, <1>9, <2>1, ConcatElements
<1>11. Places = all
  BY DEF Places, all, prq, pr, p, r
<1> HIDE DEF all
<1>12. Elements(all) \ {None} = box.heap
  BY <1>7, <1>8, <1>9, <1>10 DEF Own
<1> QED
  BY <1>10, <1>11, <1>12 DEF MemoryOwned, Distinct

LEMMA InvariantShows == IInv => TypeOK /\ MemoryOwned /\ PendingIsDriven
  BY OwnedPlaces DEF IInv, Good, Fit, Turns, TypeOK, Driven, PendingIsDriven

\* As long as no answer is given up, every mailbox buffer in use has one
\* owner, in every configuration whose heap suffices (mailbox.c:45-70).
THEOREM BuffersOwned ==
  ASSUME HeapSuffices
  PROVE  Spec /\ [](~box.dropped) => [](TypeOK /\ MemoryOwned)
<1>1. Init => IInv
  BY Initially
<1>2. IInv /\ [Next]_vars /\ (~box.dropped)' => IInv'
  BY StepIsSafe
<1>3. IInv => TypeOK /\ MemoryOwned
  BY InvariantShows
<1> QED
  BY <1>1, <1>2, <1>3, PTL DEF Spec

\* In a mailbox that is never started for BOOT no answer is given up, so
\* that the buffers have their owners whatever the master does: only
\* FOE_ServiceInd in BOOT sends without a look at the result
\* (ecatfoe.c:354-374).
THEOREM BuffersOwnedInPreop ==
  ASSUME HeapSuffices, Starts \subseteq {"preop"}
  PROVE  Spec => [](TypeOK /\ MemoryOwned /\ ~box.dropped)
<1> DEFINE Inv == IInv /\ ~box.dropped /\ ~box.boot
<1>1. Init => Inv
  BY Initially
<1>2. Inv /\ [Next]_vars => Inv'
  BY StepIsSafe
<1>3. Inv => TypeOK /\ MemoryOwned /\ ~box.dropped
  BY InvariantShows
<1> QED
  BY <1>1, <1>2, <1>3, PTL DEF Spec

\* As long as no answer is given up, a service that waits to send waits for
\* a read of the master, which calls it again: none is forgotten, whatever
\* is lost, repeated or stopped (mailbox.c:1008-1016).
THEOREM ServicesDriven ==
  ASSUME HeapSuffices
  PROVE  Spec /\ [](~box.dropped) => []PendingIsDriven
<1>1. Init => IInv
  BY Initially
<1>2. IInv /\ [Next]_vars /\ (~box.dropped)' => IInv'
  BY StepIsSafe
<1>3. IInv => PendingIsDriven
  BY InvariantShows
<1> QED
  BY <1>1, <1>2, <1>3, PTL DEF Spec

=============================================================================
