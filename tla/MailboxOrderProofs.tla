-------------------------- MODULE MailboxOrderProofs --------------------------
(***************************************************************************)
(* Proofs about Mailbox: the answers arrive once each and in order, the    *)
(* queues never overflow, and a request is served once.                    *)
(***************************************************************************)
EXTENDS MailboxProofs

USE BufferAssumption, SizeAssumption DEF None

(***************************************************************************)
(* The data link counter.                                                  *)
(***************************************************************************)

\* The counter of the n-th answer.
CounterOf(n) == IF n = 0 THEN 0 ELSE ((n - 1) % Counters) + 1

LEMMA Remainder ==
  ASSUME NEW n \in Nat
  PROVE  n % Counters \in 0 .. Counters - 1
  OBVIOUS

LEMMA NextRemainder ==
  ASSUME NEW n \in Nat
  PROVE  (n + 1) % Counters = ((n % Counters) + 1) % Counters
<1> DEFINE q == n \div Counters
           r == n % Counters
           k == Counters
<1>1. /\ k \in Nat \ {0, 1} /\ q \in Int /\ r \in 0 .. k - 1
      /\ n = k * q + r
  OBVIOUS
<1> HIDE DEF q, r, k
<1>2. CASE r + 1 < k
  <2>1. (r + 1) % k = r + 1
    BY ONLY <1>1, <1>2
  <2>2. n + 1 = k * q + (r + 1)
    BY ONLY <1>1
  <2>3. (n + 1) % k = r + 1
    BY ONLY n \in Nat, <1>1, <1>2, <2>2
  <2> QED
    BY <2>1, <2>3 DEF r, k
<1>3. CASE r + 1 = k
  <2>1. (r + 1) % k = 0
    BY ONLY <1>1, <1>3
  <2>2. n + 1 = k * (q + 1) + 0
    BY ONLY <1>1, <1>3
  <2>3. (n + 1) % k = 0
    BY ONLY n \in Nat, <1>1, <2>2
  <2> QED
    BY <2>1, <2>3 DEF r, k
<1> QED
  BY <1>1, <1>2, <1>3

\* u8MbxReadCounter counts the answers, and two that follow each other
\* never share a counter.
LEMMA CountsOn ==
  ASSUME NEW n \in Nat
  PROVE  /\ CounterOf(n + 1) # CounterOf(n)
         /\ CounterOf(n + 2) = (CounterOf(n + 1) % Counters) + 1
         /\ CounterOf(n) \in Nat0(Counters)
<1>1. /\ CounterOf(n + 1) = (n % Counters) + 1
      /\ CounterOf(n + 2) = ((n + 1) % Counters) + 1
  BY DEF CounterOf
<1>2. CASE n = 0
  BY <1>1, <1>2, Remainder, NextRemainder DEF CounterOf, Nat0
<1>3. CASE n # 0
  <2> DEFINE p == n - 1
             x == p % Counters
             y == n % Counters
             k == Counters
  <2>1. p \in Nat /\ n = p + 1
    BY <1>3
  <2>2. /\ x \in 0 .. k - 1 /\ y \in 0 .. k - 1 /\ y = (x + 1) % k
        /\ k \in Nat \ {0, 1}
    BY <2>1, Remainder, NextRemainder
  <2>3. CounterOf(n) = x + 1
    BY <1>3 DEF CounterOf
  <2> HIDE DEF x, y, k
  <2>4. x # y
    <3>1. CASE x + 1 = k
      BY ONLY <2>2, <3>1
    <3>2. CASE x + 1 # k
      BY ONLY <2>2, <3>2
    <3> QED
      BY <3>1, <3>2
  <2>5. CounterOf(n + 1) = y + 1
    BY <1>1 DEF y
  <2>6. CounterOf(n + 2) = ((y + 1) % k) + 1
    BY <1>1, NextRemainder DEF y, k
  <2>7. CounterOf(n) \in Nat0(k)
    BY <2>2, <2>3 DEF Nat0
  <2> QED
    BY <2>2, <2>3, <2>4, <2>5, <2>6, <2>7 DEF k
<1> QED
  BY <1>2, <1>3

(***************************************************************************)
(* The answers on the line: the one in SM1 or last there, the one kept for *)
(* a repeat, the one a repeat displaced, and those queued.                 *)
(***************************************************************************)
OnLine(m) == Sent(m) \cup Elements(m.sq)

\* The number of the answer in SM1, or of the last that was there.
Front(m) == m.sent - Len(m.sq) - (IF m.store = None THEN 0 ELSE 1)

Serials(m) ==
  /\ \A b \in OnLine(m) : m.buf[b].counter = CounterOf(m.buf[b].serial)
  /\ \A i \in 1 .. Len(m.sq) : m.buf[m.sq[i]].serial = m.sent - Len(m.sq) + i
  /\ m.store # None => m.buf[m.store].serial = Front(m) + 1
  /\ m.read # None => m.buf[m.read].serial = Front(m)
  /\ m.repeat # None /\ m.full => m.buf[m.repeat].serial = Front(m) - 1

Line(m) ==
  /\ Serials(m)
  /\ m.rcount = CounterOf(m.sent + 1)
  /\ m.read = None => m.sent = 0
  /\ m.sm1 # Nothing => m.full /\ m.read # None /\ m.sm1 = m.buf[m.read]
  /\ m.ack = m.toggle
  /\ ~m.running => m.sent = 0 /\ ~m.toggle

\* The answer a read of the master lost: left in SM1, which nobody has
\* looked at since, or kept for the repeat.
Left(m, n) == m.full /\ m.sm1 = Nothing /\ Front(m) = n

Noticed(m, n) ==
  /\ m.repeat # None /\ m.store = None /\ m.buf[m.repeat].serial = n
  /\ m.full => m.sm1 # Nothing

\* The master waits for a repeat that the slave has not made.
Pending(m, ma) == ma.repeat = "asked" /\ ma.bit # m.toggle

Link(m, ma) ==
  /\ ma.last = CounterOf(ma.got)
  /\ ma.repeat # "asked" => ma.bit = m.toggle
  /\ ma.repeat = "no"
       => Front(m) = ma.got + (IF m.sm1 = Nothing THEN 0 ELSE 1)
  /\ ma.repeat = "asked" /\ ma.bit = m.toggle
       => m.sm1 # Nothing /\ Front(m) = ma.got + 1
  /\ ma.repeat = "wanted" \/ Pending(m, ma)
       => Left(m, ma.got + 1) \/ Noticed(m, ma.got + 1)

\* What the task has seen of SM1 and not yet handled.
Sees(m, at, status, ma) ==
  /\ at \in {"control", "read"} /\ ~status.full => m.sm1 = Nothing
  /\ at \in {"control", "read", "repeat"} /\ status.repeat # m.toggle =>
       /\ m.running /\ Pending(m, ma)
       /\ at = "repeat" \/ status.full => Noticed(m, ma.got + 1)

Linked(m, at, status, ma) ==
  Line(m) /\ Link(m, ma) /\ Sees(m, at, status, ma)

(***************************************************************************)
(* What a function does to the line: nothing, or one answer more.          *)
(***************************************************************************)
Same(m, n) ==
  /\ n.read = m.read /\ n.repeat = m.repeat /\ n.store = m.store
  /\ n.sq = m.sq /\ n.full = m.full /\ n.sm1 = m.sm1
  /\ n.sent = m.sent /\ n.rcount = m.rcount
  /\ n.toggle = m.toggle /\ n.ack = m.ack /\ n.running = m.running
  /\ \A a \in OnLine(m) : n.buf[a] = m.buf[a]

Adds(m, n, b) ==
  /\ b \in Buffers \ OnLine(m)
  /\ n.repeat = m.repeat /\ n.store = m.store
  /\ n.toggle = m.toggle /\ n.ack = m.ack /\ n.running /\ m.running
  /\ n.sent = m.sent + 1 /\ n.rcount = (m.rcount % Counters) + 1
  /\ n.buf[b].serial = m.sent + 1 /\ n.buf[b].counter = m.rcount
  /\ \A a \in OnLine(m) : n.buf[a] = m.buf[a]
  /\ n.full
  /\ m.full => n.read = m.read /\ n.sm1 = m.sm1 /\ n.sq = Append(m.sq, b)
  /\ ~m.full => n.read = b /\ n.sm1 = n.buf[b] /\ n.sq = m.sq

Onward(m, n) == Same(m, n) \/ \E b \in Buffers : Adds(m, n, b)

LEMMA LineTypes ==
  ASSUME NEW m \in Boxes
  PROVE  /\ m.sq \in Seq(Buffers) /\ Len(m.sq) \in Nat
         /\ DOMAIN m.sq = 1 .. Len(m.sq)
         /\ \A i \in 1 .. Len(m.sq) : m.sq[i] \in Elements(m.sq)
         /\ m.sent \in Nat /\ m.rcount \in Nat0(Counters)
         /\ {m.read, m.repeat, m.store} \subseteq Optional
         /\ OnLine(m) \subseteq Buffers
         /\ \A b \in Buffers : m.buf[b] \in Contents /\ m.buf[b].serial \in Nat
         /\ Front(m) \in Int
<1>1. m.sq \in Seq(Buffers) /\ m.sent \in Nat /\ m.rcount \in Nat0(Counters)
      /\ {m.read, m.repeat, m.store} \subseteq Optional
      /\ m.buf \in [Buffers -> Contents]
  BY DEF Boxes
<1>2. Len(m.sq) \in Nat /\ DOMAIN m.sq = 1 .. Len(m.sq)
  BY <1>1, LenProperties
<1>3. \A i \in 1 .. Len(m.sq) : m.sq[i] \in Elements(m.sq)
  BY <1>2 DEF Elements
<1>4. Elements(m.sq) \subseteq Buffers
  BY <1>1, <1>2 DEF Elements
<1>5. OnLine(m) \subseteq Buffers
  BY <1>1, <1>4 DEF OnLine, Sent, Optional
<1>6. \A b \in Buffers : m.buf[b] \in Contents /\ m.buf[b].serial \in Nat
  BY <1>1 DEF Contents
<1>7. Front(m) \in Int
  BY <1>1, <1>2 DEF Front
<1> QED
  BY <1>1, <1>2, <1>3, <1>5, <1>6, <1>7

LEMMA SameFront ==
  ASSUME NEW m, NEW n, Same(m, n)
  PROVE  Front(n) = Front(m) /\ OnLine(n) = OnLine(m)
  BY DEF Same, Front, OnLine, Sent

LEMMA SameLinked ==
  ASSUME NEW m \in Boxes, NEW n, Same(m, n), NEW ma
  PROVE  /\ Line(m) => Line(n)
         /\ Link(m, ma) => Link(n, ma)
         /\ \A k : Noticed(m, k) => Noticed(n, k)
<1>1. Front(n) = Front(m) /\ OnLine(n) = OnLine(m)
  BY SameFront
<1>2. /\ \A i \in 1 .. Len(m.sq) : m.sq[i] \in OnLine(m)
      /\ m.store # None => m.store \in OnLine(m)
      /\ m.read # None => m.read \in OnLine(m)
      /\ m.repeat # None => m.repeat \in OnLine(m)
  BY LineTypes DEF OnLine, Sent
<1>3. Serials(m) => Serials(n)
  BY <1>1, <1>2 DEF Serials, Same
<1>4. Line(m) => Line(n)
  BY <1>2, <1>3 DEF Line, Same
<1>5. \A k : Noticed(m, k) => Noticed(n, k)
  BY <1>2 DEF Noticed, Same
<1>6. \A k : Left(m, k) => Left(n, k)
  BY <1>1 DEF Left, Same
<1>7. Link(m, ma) => Link(n, ma)
  BY <1>1, <1>5, <1>6 DEF Link, Pending, Same
<1> QED
  BY <1>4, <1>5, <1>7

LEMMA AddsLinked ==
  ASSUME NEW m \in Boxes, NEW n \in Boxes, NEW b \in Buffers, Adds(m, n, b),
         Fit(m), Line(m), NEW ma, ma.got \in Nat
  PROVE  /\ Line(n)
         /\ Link(m, ma) => Link(n, ma)
         /\ \A k : Noticed(m, k) => Noticed(n, k)
<1>1. /\ m.sq \in Seq(Buffers) /\ Len(m.sq) \in Nat /\ m.sent \in Nat
      /\ \A i \in 1 .. Len(m.sq) : m.sq[i] \in OnLine(m)
      /\ m.store # None => m.store \in OnLine(m)
      /\ m.read # None => m.read \in OnLine(m)
      /\ m.repeat # None => m.repeat \in OnLine(m)
      /\ \A a \in OnLine(m) : m.buf[a].serial \in Nat
      /\ Front(m) \in Int
  BY LineTypes DEF OnLine, Sent
<1>2. /\ m.full => n.sq = Append(m.sq, b) /\ Len(n.sq) = Len(m.sq) + 1
                   /\ Elements(n.sq) = Elements(m.sq) \cup {b}
                   /\ n.sq[Len(m.sq) + 1] = b
                   /\ \A i \in 1 .. Len(m.sq) : n.sq[i] = m.sq[i]
      /\ ~m.full => n.sq = <<>> /\ m.sq = <<>> /\ Len(n.sq) = 0 /\ Len(m.sq) = 0
                    /\ Elements(n.sq) = {} /\ m.store = None
                    /\ m.read = m.repeat
  <2>1. /\ m.full => n.sq = Append(m.sq, b)
        /\ ~m.full => n.sq = <<>> /\ m.sq = <<>> /\ m.store = None
                      /\ m.read = m.repeat
    BY DEF Adds, Fit
  <2>2. /\ Len(Append(m.sq, b)) = Len(m.sq) + 1
        /\ Elements(Append(m.sq, b)) = Elements(m.sq) \cup {b}
    BY <1>1, AppendElements
  <2>3. /\ Append(m.sq, b)[Len(m.sq) + 1] = b
        /\ \A i \in 1 .. Len(m.sq) : Append(m.sq, b)[i] = m.sq[i]
    BY <1>1, AppendProperties
  <2>4. Len(<<>>) = 0 /\ Elements(<<>>) = {}
    BY DEF Elements
  <2> QED
    BY <2>1, <2>2, <2>3, <2>4
<1>3. Front(n) = (IF m.full THEN Front(m) ELSE Front(m) + 1)
  <2>1. n.sent = m.sent + 1 /\ n.store = m.store
    BY DEF Adds
  <2>2. CASE m.full
    <3>1. Len(n.sq) = Len(m.sq) + 1
      BY <1>2, <2>2
    <3> DEFINE l == Len(m.sq)
               w == IF m.store = None THEN 0 ELSE 1
               t == m.sent
    <3>2. Front(n) = (t + 1) - (l + 1) - w /\ Front(m) = t - l - w
      BY <2>1, <3>1 DEF Front
    <3>3. l \in Nat /\ w \in {0, 1} /\ t \in Nat
      BY <1>1
    <3> HIDE DEF l, w, t
    <3>4. (t + 1) - (l + 1) - w = t - l - w
      BY ONLY <3>3
    <3> QED
      BY ONLY <2>2, <3>2, <3>4
  <2>3. CASE ~m.full
    <3>1. Len(n.sq) = 0 /\ Len(m.sq) = 0
      BY <1>2, <2>3
    <3> QED
      BY ONLY <1>1, <2>1, <2>3, <3>1 DEF Front
  <2> QED
    BY <2>2, <2>3
<1>4. OnLine(n) \subseteq OnLine(m) \cup {b}
  BY <1>2 DEF OnLine, Sent, Adds
<1>5. n.buf[b].counter = CounterOf(n.buf[b].serial)
      /\ n.rcount = CounterOf(n.sent + 1)
  <2>1. n.rcount = CounterOf(m.sent + 2)
    <3>1. CounterOf(m.sent + 2) = (CounterOf(m.sent + 1) % Counters) + 1
      BY <1>1, CountsOn
    <3>2. m.rcount = CounterOf(m.sent + 1)
      BY DEF Line
    <3>3. n.rcount = (m.rcount % Counters) + 1
      BY DEF Adds
    <3> QED
      BY ONLY <3>1, <3>2, <3>3
  <2>2. m.sent + 1 + 1 = m.sent + 2
    BY <1>1
  <2> QED
    <3>1. /\ n.sent = m.sent + 1 /\ n.buf[b].counter = m.rcount
          /\ n.buf[b].serial = m.sent + 1
      BY DEF Adds
    <3>2. m.rcount = CounterOf(m.sent + 1)
      BY DEF Line
    <3> QED
      BY ONLY <2>1, <2>2, <3>1, <3>2
<1>6. \A a \in OnLine(n) : n.buf[a].counter = CounterOf(n.buf[a].serial)
  BY <1>4, <1>5 DEF Adds, Line, Serials
<1>7. \A i \in 1 .. Len(n.sq) : n.buf[n.sq[i]].serial = n.sent - Len(n.sq) + i
  <2> TAKE i \in 1 .. Len(n.sq)
  <2>1. CASE ~m.full
    <3>1. i \in 1 .. 0
      BY <1>2, <2>1
    <3> QED
      BY <3>1
  <2>2. CASE m.full /\ i \in 1 .. Len(m.sq)
    <3>1. n.sq[i] = m.sq[i] /\ m.sq[i] \in OnLine(m)
      BY <1>1, <1>2, <2>2
    <3>2. m.buf[m.sq[i]].serial = m.sent - Len(m.sq) + i
      BY <2>2 DEF Line, Serials
    <3>3. n.buf[n.sq[i]] = m.buf[m.sq[i]]
      BY <3>1 DEF Adds
    <3>4. n.sent = m.sent + 1 /\ Len(n.sq) = Len(m.sq) + 1
      BY <1>2, <2>2 DEF Adds
    <3> QED
      BY <1>1, <2>2, <3>2, <3>3, <3>4
  <2>3. CASE m.full /\ i \notin 1 .. Len(m.sq)
    <3>1. i = Len(m.sq) + 1
      BY <1>1, <1>2, <2>3
    <3>2. /\ n.sent = m.sent + 1 /\ Len(n.sq) = Len(m.sq) + 1
          /\ n.sq[i] = b /\ n.buf[b].serial = m.sent + 1
      BY <1>2, <2>3, <3>1 DEF Adds
    <3> QED
      BY <1>1, <3>1, <3>2
  <2> QED
    BY <2>1, <2>2, <2>3
<1>8. Serials(n)
  <2>1. n.store # None => n.buf[n.store].serial = Front(n) + 1
    BY <1>1, <1>2, <1>3 DEF Adds, Line, Serials
  <2>2. n.read # None => n.buf[n.read].serial = Front(n)
    <3>1. CASE m.full
      BY <1>1, <1>3, <3>1 DEF Adds, Line, Serials
    <3>2. CASE ~m.full
      BY <1>1, <1>2, <1>3, <3>2 DEF Adds, Front
    <3> QED
      BY <3>1, <3>2
  <2>3. n.repeat # None => n.buf[n.repeat].serial = Front(n) - 1
    <3>1. CASE m.full
      BY <1>1, <1>3, <3>1 DEF Adds, Line, Serials
    <3>2. CASE ~m.full
      BY <1>1, <1>2, <1>3, <3>2 DEF Adds, Line, Serials
    <3> QED
      BY <3>1, <3>2
  <2> QED
    BY <1>6, <1>7, <2>1, <2>2, <2>3 DEF Serials
<1>9. n.read # None
  BY BufferAssumption DEF Adds, Fit
<1>10. Line(n)
  <2>1. n.sm1 # Nothing => n.full /\ n.sm1 = n.buf[n.read]
    BY <1>1 DEF Adds, Line
  <2> QED
    BY <1>5, <1>8, <1>9, <2>1 DEF Line, Adds
<1>11. \A k : Noticed(m, k) => Noticed(n, k)
  <2>1. n.buf[b] # Nothing
    BY LineTypes DEF Nothing, Contents, AllKinds
  <2> QED
    BY <1>1, <2>1 DEF Noticed, Adds
<1>12. ASSUME Link(m, ma)
       PROVE  Link(n, ma)
  <2>1. \A k : Left(m, k) => Left(n, k)
    BY <1>3 DEF Left, Adds
  <2>2. ma.repeat = "no"
          => Front(n) = ma.got + (IF n.sm1 = Nothing THEN 0 ELSE 1)
    <3>1. n.buf[b] # Nothing
      BY LineTypes DEF Nothing, Contents, AllKinds
    <3>2. ~m.full => m.sm1 = Nothing
      BY DEF Line
    <3> QED
      BY <1>1, <1>3, <1>12, <3>1, <3>2 DEF Link, Adds
  <2>3. ma.repeat = "asked" /\ ma.bit = n.toggle
          => n.sm1 # Nothing /\ Front(n) = ma.got + 1
    BY <1>3, <1>12 DEF Link, Adds, Line
  <2> QED
    BY <1>11, <1>12, <2>1, <2>2, <2>3 DEF Link, Pending, Adds
<1> QED
  BY <1>10, <1>11, <1>12

(***************************************************************************)
(* What the functions that send do to the line.                            *)
(***************************************************************************)
BoxFields == {
  "running", "boot", "noMemory", "heap", "buf", "read", "repeat", "store",
  "coe", "foe", "rq", "sq", "full", "locked", "toggle", "stored", "wcount",
  "rcount", "left", "part", "sent", "served", "dropped", "sm0", "event",
  "sm1", "ack"}

\* Fields that sending an answer leaves alone, when the queue has room.
AsideFields == {"coe", "dropped", "rq", "wcount", "served", "sm0", "boot",
                "running"}

LEMMA BoxDomain ==
  ASSUME NEW m \in Boxes
  PROVE  DOMAIN m = BoxFields
  BY ZenonT(60) DEF Boxes, BoxFields

LEMMA CountedNumbers ==
  ASSUME NEW m \in Boxes, NEW b \in Buffers
  PROVE  LET n == Counted(m, b)
         IN  /\ n.sent = m.sent + 1 /\ n.rcount = (m.rcount % Counters) + 1
             /\ n.buf[b].serial = m.sent + 1 /\ n.buf[b].counter = m.rcount
<1>1. DOMAIN m = BoxFields
  BY BoxDomain
<1>2. /\ DOMAIN m.buf = Buffers
      /\ DOMAIN m.buf[b] = {"kind", "counter", "serial", "part"}
  <2>1. m.buf \in [Buffers -> Contents]
    BY DEF Boxes
  <2> QED
    BY <2>1 DEF Contents
<1>3. Counted(m, b).buf = [m.buf EXCEPT ![b] =
           [m.buf[b] EXCEPT !.counter = m.rcount, !.serial = m.sent + 1]]
  BY ONLY <1>1 DEF Counted, BoxFields
<1>4. /\ Counted(m, b).sent = m.sent + 1
      /\ Counted(m, b).rcount = (m.rcount % Counters) + 1
  BY ONLY <1>1 DEF Counted, BoxFields
<1> QED
  BY <1>2, <1>3, <1>4

\* The fields that make up the line are those of m.
LineFields == {"read", "repeat", "store", "sq", "full", "sm1", "sent",
               "rcount", "toggle", "ack", "running"}

LEMMA AlikeSame ==
  ASSUME NEW m \in Boxes, NEW n, NEW fs, Alike(m, n, fs),
         fs \cap LineFields = {},
         \A a \in OnLine(m) : n.buf[a] = m.buf[a]
  PROVE  Same(m, n)
<1>1. \A f \in LineFields : n[f] = m[f]
  BY BoxDomain DEF Alike, LineFields, BoxFields
<1> QED
  BY <1>1 DEF Same, LineFields

LEMMA SendReqOnward ==
  ASSUME NEW m \in Boxes, NEW b \in Buffers \ OnLine(m), NEW services,
         NEW follow
  PROVE  Onward(m, SendReq(m, b, services, follow).box)
<1> DEFINE c == Counted(m, b)
           flags(x) == IF follow \/ Refused(m) THEN x.stored \cup services
                       ELSE x.stored
<1>1. /\ c.sent = m.sent + 1 /\ c.rcount = (m.rcount % Counters) + 1
      /\ c.buf[b].serial = m.sent + 1 /\ c.buf[b].counter = m.rcount
      /\ \A a \in Buffers \ {b} : c.buf[a] = m.buf[a]
  BY CountedNumbers, CountedFacts
<1>2. Alike(m, c, {"buf", "rcount", "sent"}) /\ DOMAIN c = BoxFields
      /\ DOMAIN m = BoxFields
  BY CountedFacts, BoxDomain DEF Alike
<1>3. /\ c.read = m.read /\ c.repeat = m.repeat /\ c.store = m.store
      /\ c.sq = m.sq /\ c.full = m.full /\ c.sm1 = m.sm1
      /\ c.toggle = m.toggle /\ c.ack = m.ack /\ c.running = m.running
  BY <1>2, AlikeFields
<1>4. \A a \in OnLine(m) : a \in Buffers \ {b}
  BY LineTypes
<1> HIDE DEF c
<1>5. CASE ~m.running
  BY <1>5 DEF SendReq, Sending, Onward, Same
<1>6. CASE m.running /\ Refused(m)
  <2>1. SendReq(m, b, services, follow).box = [m EXCEPT !.stored = flags(m)]
    BY <1>6 DEF SendReq, Sending, Refused
  <2>2. Same(m, [m EXCEPT !.stored = flags(m)])
    BY ONLY <1>2 DEF Same, BoxFields
  <2> QED
    BY <2>1, <2>2 DEF Onward
<1>7. CASE m.running /\ ~Refused(m) /\ m.full
  <2> DEFINE d == [c EXCEPT !.sq = Append(c.sq, b)]
             n == [d EXCEPT !.stored = flags(d)]
  <2>1. SendReq(m, b, services, follow).box = n
    BY <1>7 DEF SendReq, Sending, Refused, c
  <2>2. /\ n.sq = Append(c.sq, b) /\ n.buf = c.buf
        /\ n.read = c.read /\ n.repeat = c.repeat /\ n.store = c.store
        /\ n.full = c.full /\ n.sm1 = c.sm1 /\ n.sent = c.sent
        /\ n.rcount = c.rcount /\ n.running = c.running
        /\ n.toggle = c.toggle /\ n.ack = c.ack
    BY ONLY <1>2 DEF BoxFields
  <2> HIDE DEF n
  <2>3. Adds(m, n, b)
    BY <1>1, <1>3, <1>4, <1>7, <2>2 DEF Adds
  <2> QED
    BY <2>1, <2>3 DEF Onward
<1>8. CASE m.running /\ ~m.full
  <2> DEFINE d == CopyToSend(c, b)
             n == [d EXCEPT !.stored = flags(d)]
  <2>1. SendReq(m, b, services, follow).box = n
    BY <1>8 DEF SendReq, Sending, Refused, c
  <2>2. /\ n.sq = c.sq /\ n.buf = c.buf
        /\ n.read = b /\ n.repeat = c.repeat /\ n.store = c.store
        /\ n.full /\ n.sm1 = c.buf[b] /\ n.sent = c.sent
        /\ n.rcount = c.rcount /\ n.running = c.running
        /\ n.toggle = c.toggle /\ n.ack = c.ack
    BY ONLY <1>2 DEF CopyToSend, BoxFields
  <2> HIDE DEF n
  <2>3. Adds(m, n, b)
    BY <1>1, <1>3, <1>4, <1>8, <2>2 DEF Adds
  <2> QED
    BY <2>1, <2>3 DEF Onward
<1> QED
  BY <1>5, <1>6, <1>7, <1>8 DEF Refused

LEMMA SendReqDomain ==
  ASSUME NEW m \in Boxes, NEW b \in Buffers, NEW services, NEW follow
  PROVE  DOMAIN SendReq(m, b, services, follow).box = BoxFields
<1>1. DOMAIN m = BoxFields
  BY BoxDomain
<1> QED
  BY <1>1 DEF SendReq, Sending, Counted, CopyToSend

\* n is k but for fields that are not the line's.
Beside(k, n) == n.buf = k.buf /\ \A f \in LineFields : n[f] = k[f]

LEMMA OnwardBeside ==
  ASSUME NEW m, NEW k, NEW n, Onward(m, k), Beside(k, n)
  PROVE  Onward(m, n)
<1>1. /\ n.read = k.read /\ n.repeat = k.repeat /\ n.store = k.store
      /\ n.sq = k.sq /\ n.full = k.full /\ n.sm1 = k.sm1 /\ n.sent = k.sent
      /\ n.rcount = k.rcount /\ n.toggle = k.toggle /\ n.ack = k.ack
      /\ n.running = k.running /\ n.buf = k.buf
  BY DEF Beside, LineFields
<1>2. Same(m, k) => Same(m, n)
  BY <1>1 DEF Same
<1>3. \A b \in Buffers : Adds(m, k, b) => Adds(m, n, b)
  BY <1>1 DEF Adds
<1> QED
  BY <1>2, <1>3 DEF Onward

LEMMA SameOnward ==
  ASSUME NEW m, NEW k, NEW n, Same(m, k), Onward(k, n)
  PROVE  Onward(m, n)
<1>1. OnLine(k) = OnLine(m)
  BY SameFront
<1>2. Same(k, n) => Same(m, n)
  BY <1>1 DEF Same
<1>3. \A b \in Buffers : Adds(k, n, b) => Adds(m, n, b)
  BY <1>1 DEF Same, Adds
<1> QED
  BY <1>2, <1>3 DEF Onward

LEMMA SendCoeOnward ==
  ASSUME NEW m \in Boxes, NEW b \in Buffers \ OnLine(m), NEW follow
  PROVE  Onward(m, SendCoe(m, b, follow))
<1> DEFINE s == SendReq(m, b, {"coe"}, follow)
           k == s.box
           n == [k EXCEPT !.coe = b]
<1>1. Onward(m, k) /\ DOMAIN k = BoxFields
  BY SendReqOnward, SendReqDomain
<1>2. SendCoe(m, b, follow) = IF s.ok THEN k ELSE n
  BY DEF SendCoe
<1> HIDE DEF s, k
<1>3. Beside(k, n)
  BY ONLY <1>1 DEF Beside, LineFields, BoxFields
<1> QED
  BY <1>1, <1>2, <1>3, OnwardBeside

LEMMA SendErrorOnward ==
  ASSUME NEW m \in Boxes, NEW b \in Buffers \ OnLine(m)
  PROVE  Onward(m, SendError(m, b))
<1> DEFINE s == SendReq(m, b, {}, FALSE)
           k == s.box
           n == [k EXCEPT !.dropped = k.dropped \/ ~s.ok]
<1>1. Onward(m, k) /\ DOMAIN k = BoxFields
  BY SendReqOnward, SendReqDomain
<1>2. SendError(m, b) = n
  BY DEF SendError
<1>3. Beside(k, n)
  <2> HIDE DEF s, k
  <2> QED
    BY ONLY <1>1 DEF Beside, LineFields, BoxFields
<1> QED
  BY <1>1, <1>2, <1>3, OnwardBeside

LEMMA SendFoeOnward ==
  ASSUME NEW m \in Boxes, NEW b \in Buffers \ OnLine(m),
         ~SendFoe(m, b).dropped
  PROVE  Onward(m, SendFoe(m, b))
<1> DEFINE s == SendReq(m, b, {"foe"}, FALSE)
           k == s.box
           n == [k EXCEPT !.foe = b]
           c == Counted(m, b)
           d == CopyToSend(c, b)
<1>1. Onward(m, k) /\ DOMAIN k = BoxFields
  BY SendReqOnward, SendReqDomain
<1>2. CASE ~m.boot
  <2>1. SendFoe(m, b) = IF s.ok THEN k ELSE n
    BY <1>2 DEF SendFoe
  <2>2. Beside(k, n)
    <3> HIDE DEF k
    <3> QED
      BY ONLY <1>1 DEF Beside, LineFields, BoxFields
  <2> QED
    BY <1>1, <2>1, <2>2, OnwardBeside
<1>3. CASE m.boot /\ CanSend(m)
  <2>1. SendFoe(m, b) = d /\ m.running /\ ~m.full
    BY <1>3 DEF SendFoe, CanSend
  <2>2. /\ c.sent = m.sent + 1 /\ c.rcount = (m.rcount % Counters) + 1
        /\ c.buf[b].serial = m.sent + 1 /\ c.buf[b].counter = m.rcount
        /\ \A a \in Buffers \ {b} : c.buf[a] = m.buf[a]
    BY CountedNumbers, CountedFacts
  <2>3. Alike(m, c, {"buf", "rcount", "sent"}) /\ DOMAIN c = BoxFields
    BY CountedFacts, BoxDomain DEF Alike
  <2>4. /\ c.read = m.read /\ c.repeat = m.repeat /\ c.store = m.store
        /\ c.sq = m.sq /\ c.full = m.full /\ c.sm1 = m.sm1
        /\ c.toggle = m.toggle /\ c.ack = m.ack /\ c.running = m.running
    BY <2>3, AlikeFields
  <2>5. \A a \in OnLine(m) : a \in Buffers \ {b}
    BY LineTypes
  <2> HIDE DEF c
  <2>6. /\ d.sq = c.sq /\ d.buf = c.buf
        /\ d.read = b /\ d.repeat = c.repeat /\ d.store = c.store
        /\ d.full /\ d.sm1 = c.buf[b] /\ d.sent = c.sent
        /\ d.rcount = c.rcount /\ d.running = c.running
        /\ d.toggle = c.toggle /\ d.ack = c.ack
    BY ONLY <2>3 DEF CopyToSend, BoxFields
  <2> HIDE DEF d
  <2>7. Adds(m, d, b)
    BY <2>1, <2>2, <2>4, <2>5, <2>6 DEF Adds
  <2> QED
    BY <2>1, <2>7 DEF Onward
<1>4. CASE m.boot /\ ~CanSend(m)
  <2>1. SendFoe(m, b) = [m EXCEPT !.rcount = (@ % Counters) + 1,
                                  !.dropped = TRUE]
    BY <1>4 DEF SendFoe
  <2>2. DOMAIN m = BoxFields
    BY BoxDomain
  <2> QED
    BY <2>1, <2>2 DEF BoxFields
<1> QED
  BY <1>2, <1>3, <1>4

LEMMA SdoInfoOnward ==
  ASSUME NEW m \in Boxes, NEW b \in Buffers \ OnLine(m)
  PROVE  Onward(m, SdoInfo(m, b))
<1> DEFINE left == IF m.left = 0 THEN Fragments ELSE m.left - 1
           part == IF m.left = 0 THEN 0 ELSE m.part + 1
           x == [m.buf[b] EXCEPT !.part = part]
           n == [m EXCEPT !.left = left, !.part = part,
                          !.buf = [m.buf EXCEPT ![b] = x]]
<1>1. n \in Boxes
  <2> DEFINE l == m.left
             p == m.part
  <2>1. l \in Nat0(Fragments) /\ p \in Nat /\ m.buf \in [Buffers -> Contents]
    BY DEF Boxes
  <2> HIDE DEF l, p
  <2>2. /\ (IF l = 0 THEN Fragments ELSE l - 1) \in Nat0(Fragments)
        /\ (IF l = 0 THEN 0 ELSE p + 1) \in Nat
    BY <2>1 DEF Nat0
  <2>3. left \in Nat0(Fragments) /\ part \in Nat
    BY <2>2 DEF l, p
  <2> HIDE DEF left, part
  <2>4. [m.buf EXCEPT ![b] = x] \in [Buffers -> Contents]
    BY <2>1, <2>3 DEF Contents
  <2> QED
    BY ONLY m \in Boxes, <2>3, <2>4 DEF Boxes
<1>2. Same(m, n)
  <2>1. DOMAIN m = BoxFields /\ DOMAIN m.buf = Buffers
    BY BoxDomain DEF Boxes
  <2>2. \A a \in OnLine(m) : a \in Buffers \ {b}
    BY LineTypes
  <2> HIDE DEF left, part, x
  <2> QED
    BY ONLY <2>1, <2>2 DEF Same, BoxFields
<1>3. OnLine(n) = OnLine(m)
  BY <1>2, SameFront
<1>4. SdoInfo(m, b) = SendCoe(n, b, left > 0)
  <2>1. DOMAIN m = BoxFields
    BY BoxDomain
  <2>2. [m EXCEPT !.left = left, !.part = part, !.buf[b].part = part] = n
    BY ONLY <2>1 DEF BoxFields
  <2> QED
    BY <2>2 DEF SdoInfo
<1> HIDE DEF n
<1>5. Onward(n, SendCoe(n, b, left > 0))
  BY <1>1, <1>3, SendCoeOnward
<1> QED
  BY <1>2, <1>4, <1>5, SameOnward

LEMMA FreedSame ==
  ASSUME NEW m \in Boxes, NEW X, X \cap OnLine(m) = {}
  PROVE  Same(m, Freed(m, X))
<1>1. /\ Alike(m, Freed(m, X), {"heap", "buf"})
      /\ \A a \in Buffers \ X : Freed(m, X).buf[a] = m.buf[a]
  BY FreedFacts
<1>2. \A a \in OnLine(m) : a \in Buffers \ X
  BY LineTypes
<1> QED
  BY <1>1, <1>2, AlikeSame DEF LineFields

LEMMA ServiceOnward ==
  ASSUME NEW m \in Boxes, NEW b \in Buffers \ OnLine(m),
         m.buf[b].kind # "long", ~ServiceInd(m, b).dropped
  PROVE  Onward(m, ServiceInd(m, b))
<1> DEFINE kind == m.buf[b].kind
<1>1. kind \in AllKinds \ {"long"}
  BY DEF Boxes, Contents
<1>2. CASE kind = "bad" \/ (m.boot /\ kind \notin {"foe", "foeEnd"})
  BY <1>2, SendErrorOnward DEF ServiceInd
<1>3. CASE ~(kind = "bad" \/ (m.boot /\ kind \notin {"foe", "foeEnd"}))
  <2>1. CASE kind = "sdo"
    BY <1>3, <2>1, SendCoeOnward DEF ServiceInd
  <2>2. CASE kind = "list"
    BY <1>3, <2>2, SdoInfoOnward DEF ServiceInd
  <2>3. CASE kind = "info"
    <3> DEFINE n == [m EXCEPT !.left = 0]
    <3>1. DOMAIN m = BoxFields
      BY BoxDomain
    <3>2. Same(m, n)
      BY ONLY <3>1 DEF Same, BoxFields
    <3>3. n \in Boxes
      <4>1. 0 \in Nat0(Fragments)
        BY DEF Nat0
      <4> QED
        BY ONLY m \in Boxes, <4>1 DEF Boxes
    <3>4. ServiceInd(m, b) = SendCoe(n, b, FALSE)
      BY <1>3, <2>3 DEF ServiceInd
    <3> HIDE DEF n
    <3>5. OnLine(n) = OnLine(m)
      BY <3>2, SameFront
    <3>6. Onward(n, SendCoe(n, b, FALSE))
      BY <3>3, <3>5, SendCoeOnward
    <3> QED
      BY <3>2, <3>4, <3>6, SameOnward
  <2>4. CASE kind = "foe"
    BY <1>3, <2>4, SendFoeOnward DEF ServiceInd
  <2>5. CASE kind = "foeEnd"
    BY <1>3, <2>5, FreedSame DEF ServiceInd, Onward
  <2> QED
    BY <1>1, <1>3, <2>1, <2>2, <2>3, <2>4, <2>5 DEF AllKinds
<1> QED
  BY <1>2, <1>3

\* The heap holds what is on the line.
LEMMA LineOwned ==
  ASSUME NEW m, NEW c, NEW X, Own(m, c, X)
  PROVE  OnLine(m) \subseteq m.heap
         /\ c \notin OnLine(m) /\ X \cap OnLine(m) = {}
         /\ Elements(m.rq) \cap OnLine(m) = {}
         /\ Sent(m) \cap Elements(m.sq) = {}
  BY DEF Own, OnLine

LEMMA ContinueCoeOnward ==
  ASSUME NEW m, Kept(m), NEW room, room => Room(m)
  PROVE  Onward(m, ContinueCoe(m, room))
<1>0. m \in Boxes /\ Own(m, m.coe, {}) /\ DOMAIN m = BoxFields
  BY BoxDomain DEF Kept, Fit
<1>1. CASE m.coe # None
  <2> DEFINE b == m.coe
             s == SendReq(m, b, {"coe"}, FALSE)
             k == s.box
             n == [k EXCEPT !.coe = None]
  <2>1. b \in Buffers \ OnLine(m)
    BY <1>0, <1>1, LineOwned DEF Boxes, Optional
  <2>2. ContinueCoe(m, room) = IF s.ok THEN n ELSE k
    BY <1>1 DEF ContinueCoe
  <2>3. Onward(m, k) /\ DOMAIN k = BoxFields
    BY <1>0, <2>1, SendReqOnward, SendReqDomain
  <2>4. Beside(k, n)
    <3> HIDE DEF k
    <3> QED
      BY ONLY <2>3 DEF Beside, LineFields, BoxFields
  <2> QED
    BY <2>2, <2>3, <2>4, OnwardBeside
<1>2. CASE m.coe = None /\ ~room
  <2>1. ContinueCoe(m, room) = [m EXCEPT !.stored = @ \cup {"coe"}]
    BY <1>2 DEF ContinueCoe
  <2>2. Same(m, [m EXCEPT !.stored = @ \cup {"coe"}])
    BY ONLY <1>0 DEF Same, BoxFields
  <2> QED
    BY <2>1, <2>2 DEF Onward
<1>3. CASE m.coe = None /\ room
  <2> DEFINE b == NextBuffer(m)
             x == Request("list", 0, 0)
             k == Filled(m, b, x)
  <2>1. b \in Buffers /\ b \notin m.heap
    BY <1>3 DEF Room, NextBuffer
  <2>2. x \in Contents
    BY DEF Request, Contents, AllKinds, Nat0
  <2>3. ContinueCoe(m, room) = SdoInfo(k, b)
    BY <1>3 DEF ContinueCoe
  <2> HIDE DEF b, x
  <2>4. /\ Alike(m, k, {"heap", "buf"})
        /\ \A a \in Buffers \ {b} : k.buf[a] = m.buf[a]
    BY <1>0, <2>1, <2>2, FilledFacts
  <2>5. b \in Buffers \ OnLine(m)
    BY <1>0, <2>1, LineOwned
  <2>6. k \in Boxes
    BY <2>4 DEF Alike
  <2>7. Same(m, k)
    <3>1. \A a \in OnLine(m) : a \in Buffers \ {b}
      BY <1>0, <2>5, LineTypes
    <3> QED
      BY <1>0, <2>4, <3>1, AlikeSame DEF LineFields
  <2> HIDE DEF k
  <2>8. OnLine(k) = OnLine(m)
    BY <2>7, SameFront
  <2>9. Onward(k, SdoInfo(k, b))
    BY <2>5, <2>6, <2>8, SdoInfoOnward
  <2> QED
    BY <2>3, <2>7, <2>9, SameOnward
<1> QED
  BY <1>1, <1>2, <1>3

(***************************************************************************)
(* The answer that was read is kept, and the next is sent.                 *)
(***************************************************************************)
LEMMA NextSentLine ==
  ASSUME NEW m, Kept(m), m.full, m.sm1 = Nothing, Line(m), NEW ma,
         Link(m, ma), ma.got \in Nat
  PROVE  LET n == NextSent(m)
         IN  /\ Line(n) /\ Link(n, ma) /\ n.sent = m.sent
             /\ ma.repeat = "wanted" \/ Pending(m, ma)
                  => Noticed(n, ma.got + 1)
<1> DEFINE out == Outdated(m)
           kept == KeptForRepeat(m)
           n == NextSent(m)
<1>0. /\ Fit(m) /\ m \in Boxes /\ DOMAIN m = BoxFields /\ Own(m, m.coe, {})
      /\ m.running /\ n \in Boxes
  BY BoxDomain, NextSentFacts DEF Kept, Fit
<1>1. /\ \A b \in Buffers \ out : kept.buf[b] = m.buf[b]
      /\ DOMAIN kept = BoxFields /\ kept.repeat = m.read /\ ~kept.full
      /\ \A f \in BoxFields \ {"heap", "buf", "full", "repeat"} :
           kept[f] = m[f]
  <2> DEFINE f == Freed(m, out)
  <2>1. Alike(m, f, {"heap", "buf"}) /\ DOMAIN f = BoxFields
        /\ \A a \in Buffers \ out : f.buf[a] = m.buf[a]
    BY <1>0, FreedFacts DEF Alike
  <2>2. kept = [f EXCEPT !.full = FALSE, !.repeat = m.read]
    BY DEF KeptForRepeat
  <2> HIDE DEF f, out
  <2>3. \A g \in BoxFields \ {"heap", "buf"} : f[g] = m[g]
    BY <1>0, <2>1 DEF Alike
  <2>4. /\ kept.buf = f.buf /\ kept.repeat = m.read /\ ~kept.full
        /\ DOMAIN kept = BoxFields
        /\ \A g \in BoxFields \ {"full", "repeat"} : kept[g] = f[g]
    BY ONLY <2>1, <2>2 DEF BoxFields
  <2> HIDE DEF kept
  <2> QED
    BY <2>1, <2>3, <2>4
<1>2. /\ kept.read = m.read /\ kept.store = m.store /\ kept.sq = m.sq
      /\ kept.sm1 = m.sm1 /\ kept.sent = m.sent /\ kept.rcount = m.rcount
      /\ kept.toggle = m.toggle /\ kept.ack = m.ack
      /\ kept.running = m.running
  BY <1>1 DEF BoxFields
<1> HIDE DEF kept
<1>3. /\ n.sent = m.sent /\ n.rcount = m.rcount /\ n.toggle = m.toggle
      /\ n.ack = m.ack /\ n.running /\ n.buf = kept.buf
      /\ n.repeat = m.read /\ n.store = None
      /\ m.store # None => /\ n.read = m.store /\ n.sm1 = n.buf[m.store]
                           /\ n.sq = m.sq /\ n.full
      /\ m.store = None /\ m.sq # <<>>
           => /\ n.read = Head(m.sq) /\ n.sm1 = n.buf[Head(m.sq)]
              /\ n.sq = Tail(m.sq) /\ n.full
      /\ m.store = None /\ m.sq = <<>>
           => /\ n.read = m.read /\ n.sm1 = Nothing
              /\ n.sq = <<>> /\ ~n.full
  <2>1. n = IF m.store # None
            THEN [CopyToSend(kept, m.store) EXCEPT !.store = None]
            ELSE IF m.sq # <<>>
            THEN [CopyToSend(kept, Head(m.sq)) EXCEPT !.sq = Tail(@)]
            ELSE kept
    BY DEF NextSent, kept
  <2> HIDE DEF n
  <2>2. CASE m.store # None
    <3>1. n = [kept EXCEPT !.sm1 = kept.buf[m.store], !.read = m.store,
                           !.full = TRUE, !.store = None]
      BY <1>1, <2>1, <2>2 DEF CopyToSend, BoxFields
    <3>2. /\ n.sent = kept.sent /\ n.rcount = kept.rcount
          /\ n.toggle = kept.toggle /\ n.ack = kept.ack
          /\ n.running = kept.running /\ n.buf = kept.buf
          /\ n.repeat = kept.repeat /\ n.store = None /\ n.read = m.store
          /\ n.sm1 = kept.buf[m.store] /\ n.sq = kept.sq /\ n.full
      BY ONLY <1>1, <3>1 DEF BoxFields
    <3> QED
      BY <1>0, <1>1, <1>2, <2>2, <3>2
  <2>3. CASE m.store = None /\ m.sq # <<>>
    <3>1. n = [kept EXCEPT !.sm1 = kept.buf[Head(m.sq)], !.read = Head(m.sq),
                           !.full = TRUE, !.sq = Tail(kept.sq)]
      BY <1>1, <2>1, <2>3 DEF CopyToSend, BoxFields
    <3>2. /\ n.sent = kept.sent /\ n.rcount = kept.rcount
          /\ n.toggle = kept.toggle /\ n.ack = kept.ack
          /\ n.running = kept.running /\ n.buf = kept.buf
          /\ n.repeat = kept.repeat /\ n.store = kept.store
          /\ n.read = Head(m.sq)
          /\ n.sm1 = kept.buf[Head(m.sq)] /\ n.sq = Tail(kept.sq) /\ n.full
      BY ONLY <1>1, <3>1 DEF BoxFields
    <3> QED
      BY <1>0, <1>1, <1>2, <2>3, <3>2
  <2>4. CASE m.store = None /\ m.sq = <<>>
    BY <1>0, <1>1, <1>2, <2>1, <2>4
  <2> QED
    BY <2>2, <2>3, <2>4
<1> HIDE DEF n
<1>4. /\ m.sq \in Seq(Buffers) /\ Len(m.sq) \in Nat /\ m.sent \in Nat
      /\ Front(m) \in Int /\ OnLine(m) \subseteq Buffers
      /\ \A i \in 1 .. Len(m.sq) : m.sq[i] \in OnLine(m)
      /\ m.read \in OnLine(m) /\ (m.store # None => m.store \in OnLine(m))
  BY <1>0, LineTypes DEF OnLine, Sent, Fit
<1>5. m.sq # <<>> =>
        /\ Len(m.sq) >= 1 /\ Head(m.sq) = m.sq[1]
        /\ Len(Tail(m.sq)) = Len(m.sq) - 1
        /\ \A i \in 1 .. Len(m.sq) - 1 : Tail(m.sq)[i] = m.sq[i + 1]
        /\ Elements(m.sq) = Elements(Tail(m.sq)) \cup {Head(m.sq)}
  BY <1>4, HeadTailProperties, TailElements
<1>6. OnLine(n) \subseteq OnLine(m) \ out
  <2>1. CASE m.store # None
    <3>1. out = {}
      BY <2>1 DEF Outdated
    <3> QED
      BY <1>3, <2>1, <3>1 DEF OnLine, Sent
  <2>2. CASE m.store = None
    <3>1. out = {m.repeat} \ {None} /\ m.repeat # m.read
      BY <1>0, <2>2 DEF Outdated, Fit
    <3>2. Sent(m) \cap Elements(m.sq) = {}
      BY <1>0, LineOwned
    <3>3. OnLine(n) \subseteq {m.read} \cup Elements(m.sq)
      BY <1>3, <1>5, <2>2 DEF OnLine, Sent
    <3> QED
      BY <1>4, <3>1, <3>2, <3>3 DEF OnLine, Sent
  <2> QED
    BY <2>1, <2>2
<1>7. \A a \in OnLine(n) : a \in OnLine(m) /\ n.buf[a] = m.buf[a]
  BY <1>1, <1>3, <1>4, <1>6
<1> HIDE DEF out
<1>8. Front(n) = Front(m) + (IF n.full THEN 1 ELSE 0)
  <2>1. CASE m.store # None
    <3>1. n.sent = m.sent /\ n.sq = m.sq /\ n.store = None /\ n.full
      BY <1>3, <2>1
    <3> QED
      BY ONLY <1>4, <2>1, <3>1 DEF Front
  <2>2. CASE m.store = None /\ m.sq # <<>>
    <3>1. /\ n.sent = m.sent /\ Len(n.sq) = Len(m.sq) - 1 /\ n.store = None
          /\ n.full
      BY <1>3, <1>5, <2>2
    <3> QED
      BY ONLY <1>4, <2>2, <3>1 DEF Front
  <2>3. CASE m.store = None /\ m.sq = <<>>
    <3>1. /\ n.sent = m.sent /\ n.sq = m.sq /\ n.store = None /\ ~n.full
      BY <1>3, <2>3
    <3> QED
      BY ONLY <1>4, <2>3, <3>1 DEF Front
  <2> QED
    BY <2>1, <2>2, <2>3
<1>9. n.read \in OnLine(n) /\ n.buf[n.read].serial = Front(n)
  <2>1. n.read # None
    BY <1>0, <1>3, <1>4, <1>5 DEF Fit
  <2>2. n.read \in OnLine(n) /\ n.buf[n.read] = m.buf[n.read]
    BY <1>7, <2>1 DEF OnLine, Sent
  <2>3. CASE m.store # None
    BY <1>3, <1>8, <2>2, <2>3 DEF Line, Serials
  <2>4. CASE m.store = None /\ m.sq # <<>>
    <3>1. m.buf[m.sq[1]].serial = m.sent - Len(m.sq) + 1
      BY <1>4, <1>5, <2>4 DEF Line, Serials
    <3>2. Front(m) = m.sent - Len(m.sq)
      BY <1>4, <2>4 DEF Front
    <3> QED
      BY <1>3, <1>4, <1>5, <1>8, <2>2, <2>4, <3>1, <3>2
  <2>5. CASE m.store = None /\ m.sq = <<>>
    BY <1>0, <1>3, <1>4, <1>8, <2>2, <2>5 DEF Line, Serials, Fit
  <2> QED
    BY <2>2, <2>3, <2>4, <2>5
<1>10. n.repeat \in OnLine(n) /\ n.repeat # None
       /\ n.buf[n.repeat].serial = Front(m)
  <2>1. n.repeat = m.read /\ m.read # None
    BY <1>0, <1>3 DEF Fit
  <2>2. n.repeat \in OnLine(n)
    BY <2>1 DEF OnLine, Sent
  <2> QED
    BY <1>7, <2>1, <2>2 DEF Line, Serials
<1>11. \A i \in 1 .. Len(n.sq) : n.buf[n.sq[i]].serial = n.sent - Len(n.sq) + i
  <2> SUFFICES ASSUME NEW i \in 1 .. Len(n.sq)
               PROVE  n.buf[n.sq[i]].serial = n.sent - Len(n.sq) + i
    OBVIOUS
  <2>0. n.sq[i] \in OnLine(n) /\ n.buf[n.sq[i]] = m.buf[n.sq[i]]
    BY <1>0, <1>7, LineTypes DEF OnLine
  <2>1. CASE n.sq = m.sq
    BY <1>3, <2>0, <2>1 DEF Line, Serials
  <2>2. CASE m.sq # <<>> /\ n.sq = Tail(m.sq)
    <3>1. i + 1 \in 1 .. Len(m.sq) /\ n.sq[i] = m.sq[i + 1]
          /\ Len(n.sq) = Len(m.sq) - 1 /\ i \in Int
      BY <1>4, <1>5, <2>2
    <3>2. m.buf[m.sq[i + 1]].serial = m.sent - Len(m.sq) + (i + 1)
      BY <3>1 DEF Line, Serials
    <3> DEFINE s == m.sent
               l == Len(m.sq)
    <3>3. s \in Int /\ l \in Int /\ i \in Int
      BY <1>4, <3>1
    <3> HIDE DEF s, l
    <3>4. s - (l - 1) + i = s - l + (i + 1)
      BY ONLY <3>3
    <3> QED
      BY <1>3, <2>0, <3>1, <3>2, <3>4 DEF s, l
  <2> QED
    BY <1>3, <2>1, <2>2
<1>12. Line(n)
  <2>1. Serials(n)
    <3>1. \A b \in OnLine(n) : n.buf[b].counter = CounterOf(n.buf[b].serial)
      BY <1>7 DEF Line, Serials
    <3>2. n.full => n.buf[n.repeat].serial = Front(n) - 1
      BY <1>4, <1>8, <1>10
    <3> QED
      BY <1>3, <1>9, <1>11, <3>1, <3>2 DEF Serials
  <2>2. n.read # None
    BY <1>0, <1>3, <1>4, <1>5 DEF Fit
  <2>3. n.sm1 # Nothing => n.full /\ n.sm1 = n.buf[n.read]
    BY <1>3
  <2> QED
    BY <1>3, <2>1, <2>2, <2>3 DEF Line
<1>13. n.sm1 = Nothing <=> ~n.full
  <2>1. n.buf[n.read] # Nothing
    BY <1>0, <1>9, LineTypes DEF Nothing, Contents, AllKinds
  <2> QED
    BY <1>3, <2>1
<1>14. ma.repeat = "wanted" \/ Pending(m, ma)
         => Noticed(n, ma.got + 1)
  <2>1. ma.repeat = "wanted" \/ Pending(m, ma) => Front(m) = ma.got + 1
    BY DEF Link, Left, Noticed
  <2> QED
    BY <1>3, <1>10, <1>13, <2>1 DEF Noticed
<1>15. Link(n, ma)
  <2>1. Pending(n, ma) <=> Pending(m, ma)
    BY <1>3 DEF Pending
  <2>2. ma.repeat = "no"
          => Front(n) = ma.got + (IF n.sm1 = Nothing THEN 0 ELSE 1)
    BY <1>4, <1>8, <1>13 DEF Link
  <2> QED
    BY <1>3, <1>14, <2>1, <2>2 DEF Link
<1> QED
  BY <1>3, <1>12, <1>14, <1>15 DEF n

\* What sending does leaves the line in order.
LEMMA OnwardLinked ==
  ASSUME NEW m \in Boxes, NEW n \in Boxes, Onward(m, n), Fit(m), Line(m),
         NEW ma, ma.got \in Nat
  PROVE  /\ Line(n)
         /\ Link(m, ma) => Link(n, ma)
         /\ \A k : Noticed(m, k) => Noticed(n, k)
         /\ n.sent = m.sent \/ n.sent = m.sent + 1
         /\ n.toggle = m.toggle /\ n.running = m.running
  BY SameLinked, AddsLinked DEF Onward, Same, Adds

LEMMA StoredSame ==
  ASSUME NEW m \in Boxes, NEW S
  PROVE  Same(m, [m EXCEPT !.stored = S])
<1>1. DOMAIN m = BoxFields
  BY BoxDomain
<1> QED
  BY ONLY <1>1 DEF Same, BoxFields

LEMMA ReadIndLine ==
  ASSUME NEW m, Kept(m), Driven(m), m.full, m.sm1 = Nothing, Line(m),
         NEW room \in Rooms(Freed(m, Outdated(m))), ReadInd(m, room) \in Boxes,
         NEW ma, Link(m, ma), ma.got \in Nat
  PROVE  LET n == ReadInd(m, room)
         IN  /\ Line(n) /\ Link(n, ma)
             /\ n.sent = m.sent \/ n.sent = m.sent + 1
             /\ n.toggle = m.toggle /\ n.running = m.running
             /\ ma.repeat = "wanted" \/ Pending(m, ma)
                  => Noticed(n, ma.got + 1)
<1> DEFINE x == NextSent(m)
           n == ReadInd(m, room)
           S == x.stored \ {"coe"}
           y == [x EXCEPT !.stored = S]
<1>1. /\ Kept(x) /\ x.heap = m.heap \ Outdated(m) /\ x \in Boxes
      /\ x.stored = m.stored /\ Alike(m, x, ReadFields) /\ m \in Boxes
  BY NextSentFacts DEF Kept, Fit
<1>2. /\ Line(x) /\ Link(x, ma) /\ x.sent = m.sent
      /\ ma.repeat = "wanted" \/ Pending(m, ma) => Noticed(x, ma.got + 1)
  BY NextSentLine
<1>3. x.toggle = m.toggle /\ x.running = m.running
  BY <1>1, AlikeFields DEF ReadFields
<1>4. n = IF "coe" \in m.stored THEN ContinueCoe(y, room) ELSE x
  BY <1>1 DEF ReadInd, NextSent, KeptForRepeat, Driven
<1>5. room => Room(x)
  <2>1. Freed(m, Outdated(m)).heap = x.heap
    BY <1>1, FreedFacts
  <2> HIDE DEF x
  <2> QED
    BY <2>1 DEF Rooms, Room
<1>6. S \in SUBSET {"coe", "foe"}
  BY <1>1 DEF Boxes
<1> HIDE DEF x, S
<1>7. /\ Same(x, y) /\ Fit(y) /\ Alike(x, y, {"stored"}) /\ Own(y, x.coe, {})
  BY <1>1, <1>6, StoredSame, StoredFacts DEF Kept
<1> HIDE DEF y
<1>8. y.coe = x.coe /\ y.running = x.running /\ y.heap = x.heap
  BY <1>1, <1>7, AlikeFields
<1>9. Kept(y) /\ (room => Room(y))
  BY <1>1, <1>5, <1>7, <1>8 DEF Kept, Room
<1> HIDE DEF n
<1>10. Onward(x, n)
  <2>1. Onward(y, ContinueCoe(y, room))
    BY <1>9, ContinueCoeOnward
  <2>2. Onward(x, x)
    BY DEF Onward, Same
  <2> QED
    BY <1>4, <1>7, <2>1, <2>2, SameOnward
<1>11. n \in Boxes
  BY DEF n
<1>12. /\ Line(n) /\ Link(n, ma) /\ (\A k : Noticed(x, k) => Noticed(n, k))
       /\ n.sent = x.sent \/ n.sent = x.sent + 1
       /\ n.toggle = x.toggle /\ n.running = x.running
  BY <1>1, <1>2, <1>10, <1>11, OnwardLinked DEF Kept
<1> QED
  BY <1>2, <1>3, <1>12 DEF n

(***************************************************************************)
(* A request is taken.                                                     *)
(***************************************************************************)
LEMMA WriteIndOnward ==
  ASSUME NEW m \in Boxes, NEW b \in Buffers \ OnLine(m)
  PROVE  Onward(m, WriteInd(m, b))
<1> DEFINE x == m.buf[b]
           taken == [m EXCEPT !.served = x.serial]
           new == [taken EXCEPT !.wcount = x.counter]
           queued == [new EXCEPT !.rq = Append(new.rq, b)]
<1>1. DOMAIN m = BoxFields /\ x.counter \in Nat0(Counters) /\ x.serial \in Nat
  BY BoxDomain, LineTypes DEF Contents
<1> HIDE DEF x
<1>2. /\ Same(m, taken) /\ Same(m, new) /\ Same(m, queued)
      /\ taken \in Boxes /\ new \in Boxes
  <2>1. Same(m, taken) /\ Same(m, new) /\ Same(m, queued)
    BY ONLY <1>1 DEF Same, BoxFields
  <2>2. taken \in Boxes
    BY ONLY m \in Boxes, <1>1 DEF Boxes
  <2> HIDE DEF taken
  <2>3. new \in Boxes
    BY ONLY <1>1, <2>2 DEF Boxes
  <2> QED
    BY <2>1, <2>2, <2>3
<1>3. WriteInd(m, b) \in {SendError(taken, b), Freed(m, {b}),
                          SendError(new, b), queued}
  BY DEF WriteInd, x
<1> HIDE DEF taken, new, queued
<1>4. OnLine(taken) = OnLine(m) /\ OnLine(new) = OnLine(m)
  BY <1>2, SameFront
<1>5. Onward(taken, SendError(taken, b)) /\ Onward(new, SendError(new, b))
  BY <1>2, <1>4, SendErrorOnward
<1>6. Same(m, Freed(m, {b}))
  BY FreedSame
<1> QED
  BY <1>2, <1>3, <1>5, <1>6, SameOnward DEF Onward

LEMMA CheckAndCopyOnward ==
  ASSUME NEW m, Kept(m), m.sm0 # Nothing, NEW room, room => Room(m)
  PROVE  Onward(m, CheckAndCopy(m, room))
<1> DEFINE n == CheckAndCopy(m, room)
           b == NextBuffer(m)
           f == Filled(m, b, m.sm0)
           k == [f EXCEPT !.locked = FALSE, !.sm0 = Nothing]
           l == [m EXCEPT !.locked = TRUE]
<1>0. /\ Fit(m) /\ m \in Boxes /\ m.running /\ Own(m, m.coe, {})
      /\ ~m.noMemory /\ DOMAIN m = BoxFields
  BY BoxDomain DEF Kept, Fit
<1>1. n = IF Held(m) \/ ~room THEN l ELSE WriteInd(k, b)
  BY <1>0 DEF CheckAndCopy, Locked
<1>2. Same(m, l)
  BY ONLY <1>0 DEF Same, BoxFields
<1> HIDE DEF l, n
<1>3. CASE Held(m) \/ ~room
  BY <1>1, <1>2, <1>3 DEF n, Onward
<1>4. CASE ~Held(m) /\ room
  <2>1. b \in Buffers /\ b \notin m.heap /\ m.sm0 \in Contents
    BY <1>0, <1>4 DEF Room, NextBuffer, Boxes
  <2>2. b \in Buffers \ OnLine(m)
    BY <1>0, <2>1, LineOwned
  <2> HIDE DEF b
  <2>3. /\ Alike(m, f, {"heap", "buf"}) /\ f \in Boxes /\ DOMAIN f = BoxFields
        /\ \A a \in Buffers \ {b} : f.buf[a] = m.buf[a]
    BY <1>0, <2>1, FilledFacts DEF Alike
  <2>4. Same(m, f)
    <3>1. \A a \in OnLine(m) : a \in Buffers \ {b}
      BY <1>0, <2>2, LineTypes
    <3> QED
      BY <1>0, <2>3, <3>1, AlikeSame DEF LineFields
  <2> HIDE DEF f
  <2>5. k \in Boxes
    BY ONLY <2>3 DEF Boxes
  <2>6. Same(f, k)
    BY ONLY <2>3 DEF Same, BoxFields
  <2> HIDE DEF k
  <2>7. OnLine(k) = OnLine(m)
    BY <2>4, <2>6, SameFront
  <2>8. Onward(k, WriteInd(k, b))
    BY <2>2, <2>5, <2>7, WriteIndOnward
  <2>9. Onward(f, WriteInd(k, b))
    BY <2>6, <2>8, SameOnward
  <2> QED
    BY <1>1, <1>4, <2>4, <2>9, SameOnward DEF n
<1> QED
  BY <1>3, <1>4

(***************************************************************************)
(* The answer kept is sent once more, before the one it displaces.         *)
(***************************************************************************)
LEMMA RepeatReqLine ==
  ASSUME NEW m, Kept(m), Line(m), NEW ma, Link(m, ma), ma.got \in Nat,
         ma.bit \in BOOLEAN, Pending(m, ma), Noticed(m, ma.got + 1),
         NEW ack, ack = ~m.toggle
  PROVE  LET n == [RepeatReq(m) EXCEPT !.ack = ack]
         IN  /\ Line(n) /\ Link(n, ma) /\ n.sent = m.sent
             /\ \A f \in AsideFields \cup {"left", "stored", "sq", "sent"} :
                  n[f] = m[f]
             /\ n.toggle = ~m.toggle
<1> DEFINE a == m.repeat
           t == TakenOff(m)
           k == CopyToSend(t, a)
           o == [k EXCEPT !.repeat = None]
           r == RepeatReq(m)
           n == [r EXCEPT !.ack = ack]
<1>0. /\ Fit(m) /\ m \in Boxes /\ m.running /\ Own(m, m.coe, {})
      /\ DOMAIN m = BoxFields /\ a # None /\ m.store = None
      /\ m.toggle \in BOOLEAN
  BY BoxDomain DEF Kept, Fit, Noticed, Boxes
<1>1. /\ DOMAIN t = BoxFields /\ ~t.full /\ t.repeat = a
      /\ t.store = IF m.full THEN m.read ELSE None
      /\ \A f \in BoxFields \ {"store", "full"} : t[f] = m[f]
  <2>1. CASE m.full
    <3>1. t = [m EXCEPT !.store = m.read, !.full = FALSE]
      BY <1>0, <2>1 DEF TakenOff
    <3> HIDE DEF t
    <3> QED
      BY ONLY <1>0, <2>1, <3>1 DEF BoxFields
  <2>2. CASE ~m.full
    <3>1. t = m
      BY <1>0, <2>2 DEF TakenOff
    <3> QED
      BY <1>0, <2>2, <3>1 DEF BoxFields
  <2> QED
    BY <2>1, <2>2
<1>2. r = [o EXCEPT !.toggle = ~o.toggle]
  <2>1. CanSend(t)
    BY <1>0, <1>1 DEF CanSend, BoxFields
  <2>2. t.repeat = a
    BY <1>1 DEF BoxFields
  <2> HIDE DEF t
  <2>3. Resent(t) = o
    BY <2>1, <2>2 DEF Resent
  <2> QED
    BY <1>0, <2>3 DEF RepeatReq, t
<1> HIDE DEF t, a
<1>3. /\ n.read = a /\ n.repeat = None /\ n.sm1 = t.buf[a] /\ n.full
      /\ n.toggle = ~t.toggle /\ n.ack = ack
      /\ n.buf = t.buf /\ n.store = t.store /\ n.sq = t.sq
      /\ n.sent = t.sent /\ n.rcount = t.rcount /\ n.running = t.running
      /\ \A f \in AsideFields \cup {"left", "stored", "sq", "sent"} : n[f] = t[f]
  <2>1. /\ DOMAIN k = BoxFields /\ k.read = a /\ k.sm1 = t.buf[a] /\ k.full
        /\ \A f \in BoxFields \ {"read", "sm1", "full"} : k[f] = t[f]
    BY ONLY <1>1 DEF BoxFields, CopyToSend
  <2> HIDE DEF k, r
  <2>2. /\ DOMAIN o = BoxFields /\ o.repeat = None
        /\ \A f \in BoxFields \ {"repeat"} : o[f] = k[f]
    BY ONLY <2>1 DEF BoxFields
  <2> HIDE DEF o
  <2>3. /\ n.ack = ack /\ n.toggle = ~o.toggle
        /\ \A f \in BoxFields \ {"toggle", "ack"} : n[f] = o[f]
    BY ONLY <1>2, <2>2 DEF BoxFields
  <2> HIDE DEF n
  <2> QED
    BY ONLY <2>1, <2>2, <2>3 DEF BoxFields, AsideFields
<1>15. \A f \in AsideFields \cup {"left", "stored", "sq", "sent"} : n[f] = m[f]
  BY ONLY <1>1, <1>3 DEF AsideFields, BoxFields
<1> HIDE DEF n, r
<1>4. /\ n.sm1 = n.buf[a] /\ n.buf = m.buf /\ n.toggle = ~m.toggle
      /\ n.store = (IF m.full THEN m.read ELSE None) /\ n.sq = m.sq
      /\ n.sent = m.sent /\ n.rcount = m.rcount /\ n.running
  BY <1>0, <1>1, <1>3 DEF BoxFields
<1>5. /\ m.sq \in Seq(Buffers) /\ Len(m.sq) \in Nat /\ m.sent \in Nat
      /\ Front(m) \in Int /\ OnLine(m) \subseteq Buffers
      /\ \A i \in 1 .. Len(m.sq) : m.sq[i] \in OnLine(m)
      /\ \A i \in Buffers : m.buf[i] \in Contents /\ m.buf[i].serial \in Nat
  BY <1>0, LineTypes DEF OnLine
<1>6. a \in OnLine(m) /\ m.buf[a].serial = ma.got + 1
  BY <1>0 DEF OnLine, Sent, Noticed, a
<1>7. Front(m) = m.sent - Len(m.sq)
  BY <1>0, <1>5 DEF Front
<1>8. Front(n) = ma.got + 1
  <2>1. CASE m.full
    <3>1. Front(n) = m.sent - Len(m.sq) - 1
      BY <1>0, <1>4, <2>1 DEF Front, Fit
    <3>2. m.buf[a].serial = Front(m) - 1
      BY <1>0, <2>1 DEF Line, Serials, a
    <3> QED
      BY <1>5, <1>6, <1>7, <3>1, <3>2
  <2>2. CASE ~m.full
    <3>1. Front(n) = m.sent - Len(m.sq)
      BY <1>4, <1>5, <2>2 DEF Front
    <3>2. m.buf[a].serial = Front(m)
      BY <1>0, <2>2 DEF Line, Serials, a, Fit
    <3> QED
      BY <1>5, <1>6, <1>7, <3>1, <3>2
  <2> QED
    BY <2>1, <2>2
<1>9. OnLine(n) \subseteq OnLine(m)
  BY <1>3, <1>4, <1>6 DEF OnLine, Sent
<1>10. Serials(n)
  <2>1. \A b \in OnLine(n) : n.buf[b].counter = CounterOf(n.buf[b].serial)
    BY <1>4, <1>9 DEF Line, Serials
  <2>2. \A i \in 1 .. Len(n.sq) :
          n.buf[n.sq[i]].serial = n.sent - Len(n.sq) + i
    BY <1>4 DEF Line, Serials
  <2>3. n.store # None => n.buf[n.store].serial = Front(n) + 1
    <3> SUFFICES ASSUME n.store # None
                 PROVE  n.buf[n.store].serial = Front(n) + 1
      OBVIOUS
    <3>1. m.full /\ n.store = m.read /\ m.read # None
      BY <1>0, <1>4 DEF Fit
    <3>2. m.buf[m.read].serial = Front(m) /\ m.buf[a].serial = Front(m) - 1
      BY <1>0, <3>1 DEF Line, Serials, a
    <3> QED
      BY <1>4, <1>5, <1>6, <1>8, <3>1, <3>2
  <2>4. n.buf[n.read].serial = Front(n)
    BY <1>3, <1>4, <1>6, <1>8
  <2> QED
    BY <1>3, <2>1, <2>2, <2>3, <2>4 DEF Serials
<1>11. n.sm1 # Nothing
  BY <1>4, <1>5, <1>6 DEF Nothing, Contents, AllKinds
<1>12. n.ack = n.toggle /\ n.read # None
  BY <1>0, <1>3, <1>4 DEF a
<1>13. Line(n)
  BY <1>3, <1>4, <1>10, <1>12 DEF Line
<1>14. Link(n, ma)
  <2>1. ma.repeat = "asked" /\ ma.bit = n.toggle
    BY <1>0, <1>4 DEF Pending
  <2> QED
    BY <1>8, <1>11, <2>1 DEF Link, Pending
<1> QED
  BY <1>4, <1>13, <1>14, <1>15 DEF n, r

(***************************************************************************)
(* Stopped, the mailbox and its master start counting again.               *)
(***************************************************************************)
LEMMA StoppedLine ==
  ASSUME NEW m \in Boxes, NEW ma, ma.repeat = "no", ma.bit = FALSE,
         ma.got = 0, ma.last = 0
  PROVE  LET n == Stopped(m)
         IN  /\ Line(n) /\ Link(n, ma) /\ n.sent = 0 /\ ~n.running
             /\ n.stored = {} /\ n.rq = <<>> /\ n.sq = <<>> /\ n.sm0 = Nothing
             /\ ~n.boot /\ n.wcount = 0 /\ n.coe = m.coe
             /\ n.dropped = m.dropped /\ n.served = m.served
<1> DEFINE X == ({m.repeat, m.store, m.read} \ {None})
                  \cup Elements(m.rq) \cup Elements(m.sq)
           f == Freed(m, X)
           g == [f EXCEPT !.running = FALSE, !.boot = FALSE, !.read = None,
                          !.repeat = None, !.store = None, !.foe = None,
                          !.rq = <<>>, !.sq = <<>>, !.sm0 = Nothing,
                          !.event = FALSE, !.sm1 = Nothing]
           n == Stopped(m)
<1>1. /\ DOMAIN f = BoxFields
      /\ f.coe = m.coe /\ f.dropped = m.dropped /\ f.served = m.served
  BY BoxDomain, FreedFacts, AlikeFields DEF Alike
<1>2. n = ResetCounters(ResetFlags(g))
  BY DEF Stopped
<1> HIDE DEF f, n
<1>3. /\ n.read = None /\ n.repeat = None /\ n.store = None /\ n.sq = <<>>
      /\ n.sm1 = Nothing /\ ~n.running /\ n.sent = 0 /\ n.rcount = 1
      /\ ~n.toggle /\ ~n.ack /\ ~n.full /\ n.toggle = FALSE /\ n.ack = FALSE
      /\ n.stored = {} /\ n.rq = <<>> /\ n.sm0 = Nothing
      /\ ~n.boot /\ n.wcount = 0 /\ n.coe = f.coe
      /\ n.dropped = f.dropped /\ n.served = f.served
  BY ONLY <1>1, <1>2 DEF ResetCounters, ResetFlags, BoxFields
<1>4. Elements(<<>>) = {} /\ Len(<<>>) = 0 /\ (1 .. 0) = {}
  BY DEF Elements
<1>5. OnLine(n) = {}
  BY <1>3, <1>4 DEF OnLine, Sent
<1>6. Front(n) = 0
  <2>1. Len(n.sq) = 0
    BY <1>3, <1>4
  <2>2. Front(n) = n.sent - Len(n.sq) - 0
    BY <1>3, Zenon DEF Front
  <2>3. n.sent = 0
    BY <1>3
  <2>4. \A x, y : x = 0 /\ y = 0 => x - y - 0 = 0
    OBVIOUS
  <2> QED
    BY ONLY <2>1, <2>2, <2>3, <2>4
<1>7. CounterOf(n.sent + 1) = 1 /\ CounterOf(ma.got) = 0
  <2>1. n.sent + 1 = 1 /\ 0 % Counters = 0
    BY <1>3
  <2>2. CounterOf(1) = 1
    BY <2>1 DEF CounterOf
  <2> QED
    BY <2>1, <2>2 DEF CounterOf
<1>8. Line(n)
  <2>1. Serials(n)
    BY <1>3, <1>4, <1>5 DEF Serials
  <2> QED
    BY <1>3, <1>7, <2>1 DEF Line
<1>9. Link(n, ma)
  <2>1. ma.last = CounterOf(ma.got) /\ ma.bit = n.toggle
    BY <1>3, <1>7
  <2>2. Front(n) = ma.got + 0
    BY <1>6
  <2> QED
    BY <1>3, <2>1, <2>2 DEF Link, Pending
<1> QED
  BY <1>1, <1>3, <1>8, <1>9 DEF n

LEMMA StartedLine ==
  ASSUME NEW m \in Boxes, Line(m), ~m.running, NEW ma, Link(m, ma),
         NEW boot, NEW room
  PROVE  LET n == Started(m, boot, room)
         IN  /\ Line(n) /\ Link(n, ma) /\ n.sent = m.sent
             /\ n.toggle = m.toggle /\ n.sm1 = m.sm1
             /\ n.running /\ n.stored = m.stored /\ n.rq = m.rq
             /\ n.sq = m.sq /\ n.full = m.full /\ n.sm0 = m.sm0
             /\ n.wcount = m.wcount /\ n.coe = m.coe
             /\ n.dropped = m.dropped /\ n.served = m.served
<1> DEFINE n == Started(m, boot, room)
<1>1. DOMAIN m = BoxFields
  BY BoxDomain
<1>2. /\ n.read = m.read /\ n.repeat = m.repeat /\ n.store = m.store
      /\ n.sq = m.sq /\ n.full = m.full /\ n.sm1 = m.sm1
      /\ n.sent = m.sent /\ n.rcount = m.rcount /\ n.buf = m.buf
      /\ n.toggle = m.toggle /\ n.ack = m.ack /\ n.running
      /\ n.stored = m.stored /\ n.rq = m.rq /\ n.sm0 = m.sm0
      /\ n.wcount = m.wcount /\ n.coe = m.coe
      /\ n.dropped = m.dropped /\ n.served = m.served
  BY ONLY <1>1 DEF Started, BoxFields
<1> HIDE DEF n
<1>3. Front(n) = Front(m) /\ OnLine(n) = OnLine(m)
  BY <1>2 DEF Front, OnLine, Sent
<1>4. Line(n)
  BY <1>2, <1>3 DEF Line, Serials
<1>5. Link(n, ma)
  BY <1>2, <1>3 DEF Link, Left, Noticed, Pending
<1> QED
  BY <1>2, <1>4, <1>5 DEF n

(***************************************************************************)
(* The steps.                                                              *)
(***************************************************************************)
OrderInv == IInv /\ Linked(box, pc, seen, master)

\* What the abstract mailbox may do, as records say it.
Delivered(m, n, ma, na) ==
  \/ (n.sent = m.sent \/ n.sent = m.sent + 1) /\ na.got = ma.got
  \/ ma.got < m.sent /\ na.got = ma.got + 1 /\ n.sent = m.sent
  \/ n.sent = 0 /\ na.got = 0

Ordered(n, at, status, ma) ==
  Linked(n, at, status, ma) /\ Delivered(box, n, master, ma)

\* What every step starts from.
LEMMA Given ==
  ASSUME OrderInv
  PROVE  /\ Fit(box) /\ box \in Boxes /\ Own(box, box.coe, {}) /\ Driven(box)
         /\ Turns(box, pc) /\ DOMAIN box = BoxFields
         /\ Line(box) /\ Link(box, master) /\ Sees(box, pc, seen, master)
         /\ seen.full \in BOOLEAN /\ seen.repeat \in BOOLEAN
         /\ box.toggle \in BOOLEAN /\ box.running \in BOOLEAN
         /\ master \in Masters /\ master.got \in Nat /\ master.bit \in BOOLEAN
         /\ DOMAIN master = {"bit", "repeat", "last", "got", "counter", "kind",
                             "requests", "losses", "stops"}
         /\ box.sent \in Nat /\ Front(box) \in Int
<1>1. /\ Fit(box) /\ box \in Boxes /\ Own(box, box.coe, {}) /\ Driven(box)
      /\ Turns(box, pc) /\ master \in Masters
      /\ Line(box) /\ Link(box, master) /\ Sees(box, pc, seen, master)
      /\ seen \in [full : BOOLEAN, repeat : BOOLEAN]
  BY DEF OrderInv, IInv, Good, Fit, Linked
<1>2. master.got \in Nat /\ master.bit \in BOOLEAN
      /\ DOMAIN master = {"bit", "repeat", "last", "got", "counter", "kind",
                          "requests", "losses", "stops"}
  BY <1>1 DEF Masters
<1>3. box.toggle \in BOOLEAN /\ box.running \in BOOLEAN
  BY <1>1 DEF Boxes
<1> QED
  BY <1>1, <1>2, <1>3, BoxDomain, LineTypes

LEMMA SeesNothing ==
  ASSUME NEW m, NEW at \in {"main", "status", "write"}, NEW status, NEW ma
  PROVE  Sees(m, at, status, ma)
  BY DEF Sees

LEMMA OnwardStep ==
  ASSUME OrderInv, NEW n \in Boxes, NEW m \in Boxes, Same(box, m), Fit(m),
         Onward(m, n),
         NEW at \in {"main", "status", "write"}, NEW status
  PROVE  Ordered(n, at, status, master)
<1>1. Line(m) /\ Link(m, master)
  BY Given, SameLinked
<1>2. /\ Line(n) /\ Link(n, master)
      /\ n.sent = m.sent \/ n.sent = m.sent + 1
  BY <1>1, Given, OnwardLinked
<1>3. m.sent = box.sent
  BY DEF Same
<1> QED
  BY <1>2, <1>3, SeesNothing DEF Ordered, Linked, Delivered

\* A request that MBX_Main takes leaves the mailbox fit.
LEMMA TailFits ==
  ASSUME NEW m, Fit(m), m.rq # <<>>, NEW n, Alike(m, n, {"rq"}),
         n.rq = Tail(m.rq)
  PROVE  Fit(n)
<1>1. m \in Boxes /\ n \in Boxes /\ m.rq \in Seq(Buffers)
  BY DEF Fit, Alike, Boxes
<1>2. /\ n.full = m.full /\ n.read = m.read /\ n.repeat = m.repeat
      /\ n.store = m.store /\ n.sq = m.sq /\ n.running = m.running
      /\ n.sm0 = m.sm0 /\ n.event = m.event /\ n.locked = m.locked
      /\ n.noMemory = m.noMemory /\ n.foe = m.foe /\ n.buf = m.buf
  BY <1>1, AlikeFields
<1>3. Elements(n.rq) \subseteq Elements(m.rq)
  BY <1>1, TailElements
<1> QED
  BY <1>1, <1>2, <1>3 DEF Fit

LEMMA ServeOrder ==
  ASSUME HeapSuffices, OrderInv, Serve, ~box'.dropped
  PROVE  Ordered(box', pc', seen', master')
<1> DEFINE b == Head(box.rq)
           q == Tail(box.rq)
           m == [box EXCEPT !.rq = q]
           n == ServiceInd(m, b)
<1>1. /\ box' = n /\ pc' = "main" /\ master' = master
      /\ box.rq \in Seq(Buffers) /\ box.rq # <<>>
  BY Given DEF Serve, Goto, Boxes
<1>2. /\ b \in Buffers /\ q \in Seq(Buffers)
      /\ Elements(box.rq) = Elements(q) \cup {b}
  BY <1>1, TailElements
<1>3. b \notin OnLine(box) /\ box.buf[b].kind # "long"
  BY <1>2, Given, LineOwned DEF Fit
<1> HIDE DEF b, q, n
<1>4. Same(box, m) /\ m.buf = box.buf
  BY ONLY Given, OrderInv DEF Same, BoxFields
<1>5. Alike(box, m, {"rq"}) /\ m.rq = q
  BY ONLY Given, OrderInv, <1>2 DEF Alike, Boxes
<1> HIDE DEF m
<1>6. m \in Boxes /\ OnLine(m) = OnLine(box)
  BY <1>4, <1>5, SameFront DEF Alike
<1>7. Fit(m)
  BY <1>1, <1>5, Given, TailFits DEF q
<1>8. Onward(m, n)
  BY <1>1, <1>2, <1>3, <1>4, <1>6, ServiceOnward DEF n
<1>9. n \in Boxes
  <2>1. IInv
    BY DEF OrderInv
  <2>2. Safe(box, box', pc', seen', master')
    BY <2>1, ServeStep
  <2> QED
    BY <1>1, <2>2 DEF Safe, Good, Fit
<1> QED
  BY <1>1, <1>4, <1>6, <1>7, <1>8, <1>9, OnwardStep

LEMMA StandsStill ==
  ASSUME OrderInv, NEW at \in {"main", "status", "write"}, NEW status
  PROVE  Ordered(box, at, status, master)
<1>1. Same(box, box)
  BY DEF Same
<1> QED
  BY <1>1, Given, OnwardStep DEF Onward

LEMMA UnlockOrder ==
  ASSUME HeapSuffices, OrderInv, Unlock, ~box'.dropped
  PROVE  Ordered(box', pc', seen', master')
<1>1. pc' = "status" /\ master' = master
  BY DEF Unlock, Goto
<1>2. PICK room \in Rooms(box) :
        box' = IF box.locked THEN CheckAndCopy(box, room) ELSE box
  BY DEF Unlock
<1>3. CASE ~box.locked
  BY <1>1, <1>2, <1>3, StandsStill
<1>4. CASE box.locked
  <2>1. box.running /\ box.sm0 # Nothing /\ (room => Room(box))
    BY <1>4, Given DEF Fit, Rooms
  <2>2. Onward(box, box')
    BY <1>2, <1>4, <2>1, Given, CheckAndCopyOnward DEF Kept
  <2>3. IInv
    BY DEF OrderInv
  <2>4. Safe(box, box', pc', seen', master')
    BY <2>3, UnlockStep
  <2>5. box' \in Boxes /\ Same(box, box)
    BY <2>4 DEF Safe, Good, Fit, Same
  <2> QED
    BY <1>1, <2>2, <2>5, Given, OnwardStep
<1> QED
  BY <1>3, <1>4

LEMMA ReadStatusOrder ==
  ASSUME OrderInv, ReadStatus
  PROVE  Ordered(box', pc', seen', master')
<1>1. /\ box' = box /\ master' = master /\ pc' = "control"
      /\ seen'.full = (box.running /\ box.sm1 # Nothing)
      /\ seen'.repeat = (box.running /\ master.bit)
  BY DEF ReadStatus, Goto
<1>2. ~box.running => box.sm1 = Nothing /\ ~box.toggle
  BY Given DEF Line, Fit
<1>3. ~seen'.full => box.sm1 = Nothing
  BY <1>1, <1>2
<1>4. ASSUME seen'.repeat # box.toggle
      PROVE  /\ box.running /\ Pending(box, master)
             /\ seen'.full => Noticed(box, master.got + 1)
  <2>1. box.running /\ master.bit # box.toggle
    BY <1>1, <1>2, <1>4, Given
  <2>2. Pending(box, master)
    BY <2>1, Given DEF Link, Pending
  <2>3. seen'.full => Noticed(box, master.got + 1)
    BY <1>1, <2>2, Given DEF Link, Left
  <2> QED
    BY <2>1, <2>2, <2>3
<1>5. Sees(box, "control", seen', master)
  BY <1>3, <1>4 DEF Sees
<1> QED
  BY <1>1, <1>5, Given DEF Ordered, Linked, Delivered

LEMMA KeepOrder ==
  ASSUME OrderInv, KeepMailbox
  PROVE  Ordered(box', pc', seen', master')
<1>1. /\ box' = box /\ master' = master /\ seen' = seen /\ pc = "control"
      /\ pc' \in {"read", "main"}
  BY DEF KeepMailbox
<1>2. Sees(box, pc', seen, master)
  BY <1>1, Given DEF Sees
<1> QED
  BY <1>1, <1>2, Given DEF Ordered, Linked, Delivered

LEMMA StopOrder ==
  ASSUME OrderInv, StopMailbox
  PROVE  Ordered(box', pc', seen', master')
<1>1. /\ box' = Stopped(box) /\ pc' = "main"
      /\ master' = [Restarted(master) EXCEPT !.stops = @ + 1]
  BY DEF StopMailbox, Goto
<1>2. master'.repeat = "no" /\ master'.bit = FALSE /\ master'.got = 0
      /\ master'.last = 0
  BY ONLY <1>1, Given, OrderInv DEF Restarted
<1>3. Line(box') /\ Link(box', master') /\ box'.sent = 0
  BY <1>1, <1>2, Given, StoppedLine
<1>4. Sees(box', pc', seen', master')
  BY <1>1, SeesNothing
<1> QED
  BY <1>2, <1>3, <1>4 DEF Ordered, Linked, Delivered

LEMMA StartOrder ==
  ASSUME OrderInv, StartMailbox
  PROVE  Ordered(box', pc', seen', master')
<1>1. PICK start \in Starts, room \in Rooms(box) :
        box' = Started(box, start = "boot", room)
  BY DEF StartMailbox
<1>2. /\ ~box.running /\ pc = "control" /\ pc' = "read" /\ seen' = seen
      /\ master' = master
  BY DEF StartMailbox, Goto
<1>3. /\ Line(box') /\ Link(box', master) /\ box'.sent = box.sent
      /\ box'.toggle = box.toggle /\ box'.sm1 = box.sm1
  BY <1>1, <1>2, Given, StartedLine
<1>4. Sees(box', "read", seen, master)
  BY <1>2, <1>3, Given DEF Sees
<1> QED
  BY <1>2, <1>3, <1>4 DEF Ordered, Linked, Delivered

LEMMA HandleReadOrder ==
  ASSUME HeapSuffices, OrderInv, HandleRead, ~box'.dropped
  PROVE  Ordered(box', pc', seen', master')
<1>1. pc = "read" /\ pc' = "repeat" /\ seen' = seen /\ master' = master
  BY DEF HandleRead, Goto
<1>2. PICK room \in Rooms(Freed(box, Outdated(box))) :
        box' = IF ~seen.full /\ box.full THEN ReadInd(box, room) ELSE box
  BY DEF HandleRead
<1>3. CASE ~seen.full /\ box.full
  <2>1. box' = ReadInd(box, room) /\ box.sm1 = Nothing /\ box.running
    BY <1>1, <1>2, <1>3, Given DEF Sees, Turns
  <2>2. box' \in Boxes
    <3>1. IInv
      BY DEF OrderInv
    <3>2. Safe(box, box', pc', seen', master')
      BY <3>1, HandleReadStep
    <3> QED
      BY <3>2 DEF Safe, Good, Fit
  <2>3. /\ Line(box') /\ Link(box', master)
        /\ box'.sent = box.sent \/ box'.sent = box.sent + 1
        /\ box'.toggle = box.toggle /\ box'.running = box.running
        /\ Pending(box, master) => Noticed(box', master.got + 1)
    BY <1>3, <2>1, <2>2, Given, ReadIndLine DEF Kept
  <2>4. Sees(box', "repeat", seen, master)
    BY <1>1, <2>3, Given DEF Sees, Pending
  <2> QED
    BY <1>1, <2>3, <2>4 DEF Ordered, Linked, Delivered
<1>4. CASE ~(~seen.full /\ box.full)
  <2>1. box' = box
    BY <1>2, <1>4
  <2>2. seen.repeat # box.toggle => Noticed(box, master.got + 1)
    BY <1>1, <1>4, Given DEF Sees, Link, Left
  <2>3. Sees(box, "repeat", seen, master)
    BY <1>1, <2>2, Given DEF Sees
  <2> QED
    BY <1>1, <2>1, <2>3, Given DEF Ordered, Linked, Delivered
<1> QED
  BY <1>3, <1>4

LEMMA HandleRepeatOrder ==
  ASSUME OrderInv, HandleRepeat
  PROVE  Ordered(box', pc', seen', master')
<1>1. /\ pc = "repeat" /\ pc' = "write" /\ master' = master
      /\ box' = IF seen.repeat # box.toggle
                THEN [RepeatReq(box) EXCEPT !.ack = ~box.toggle] ELSE box
  BY DEF HandleRepeat, Goto
<1>2. CASE seen.repeat = box.toggle
  BY <1>1, <1>2, StandsStill
<1>3. CASE seen.repeat # box.toggle
  <2> DEFINE ack == ~box.toggle
  <2>1. /\ box.running /\ Pending(box, master)
        /\ Noticed(box, master.got + 1)
    BY <1>1, <1>3, Given DEF Sees
  <2>2. box' = [RepeatReq(box) EXCEPT !.ack = ack]
    BY <1>1, <1>3
  <2>3. Kept(box)
    BY <2>1, Given DEF Kept
  <2>4. ack = ~box.toggle
    OBVIOUS
  <2> HIDE DEF ack
  <2>5. Line(box') /\ Link(box', master) /\ box'.sent = box.sent
    BY <2>1, <2>2, <2>3, <2>4, Given, RepeatReqLine
  <2> QED
    BY <1>1, <2>5, SeesNothing DEF Ordered, Linked, Delivered
<1> QED
  BY <1>2, <1>3

LEMMA HandleWriteOrder ==
  ASSUME HeapSuffices, OrderInv, HandleWrite, ~box'.dropped
  PROVE  Ordered(box', pc', seen', master')
<1>1. pc = "write" /\ pc' = "main" /\ master' = master
  BY DEF HandleWrite, Goto
<1>2. PICK room \in Rooms(box) :
        box' = IF box.event
               THEN CheckAndCopy([box EXCEPT !.event = FALSE], room) ELSE box
  BY DEF HandleWrite
<1>3. CASE ~box.event
  BY <1>1, <1>2, <1>3, StandsStill
<1>4. CASE box.event
  <2> DEFINE m == [box EXCEPT !.event = FALSE]
  <2>1. Alike(box, m, {"event"}) /\ ~m.event
    BY ONLY Given, OrderInv, ZenonT(60) DEF Alike, Boxes
  <2>2. Same(box, m)
    BY ONLY Given, OrderInv DEF Same, BoxFields
  <2>3. box' = CheckAndCopy(m, room)
    BY <1>2, <1>4
  <2> HIDE DEF m
  <2>4. /\ m.running = box.running /\ m.sm0 = box.sm0 /\ m.heap = box.heap
        /\ m \in Boxes
    BY <2>1, Given, AlikeFields
  <2>5. Fit(m)
    BY <2>1, Given, AlikeFields DEF Fit
  <2>6. Own(m, m.coe, {})
    BY <2>1, Given, AlikeFields DEF Own, Sent
  <2>7. box.running /\ box.sm0 # Nothing /\ (room => Room(m))
    BY <1>1, <1>4, <2>4, Given DEF Turns, Fit, Rooms, Room
  <2>8. Onward(m, box')
    BY <2>3, <2>4, <2>5, <2>6, <2>7, CheckAndCopyOnward DEF Kept
  <2>9. box' \in Boxes
    <3>1. IInv
      BY DEF OrderInv
    <3>2. Safe(box, box', pc', seen', master')
      BY <3>1, HandleWriteStep
    <3> QED
      BY <3>2 DEF Safe, Good, Fit
  <2> QED
    BY <1>1, <2>2, <2>4, <2>5, <2>8, <2>9, OnwardStep
<1> QED
  BY <1>3, <1>4

\* The master writes, or believes that it does.
LEMMA WritesOrder ==
  ASSUME OrderInv, MasterWrites \/ MasterLosesWrite \/ MasterRewrites
  PROVE  Ordered(box', pc', seen', master')
<1>1. /\ pc' = pc /\ seen' = seen
      /\ master'.bit = master.bit /\ master'.repeat = master.repeat
      /\ master'.last = master.last /\ master'.got = master.got
  <2>1. ASSUME NEW arrives \in BOOLEAN, MasterSends(arrives)
        PROVE  /\ pc' = pc /\ seen' = seen
               /\ master'.bit = master.bit /\ master'.repeat = master.repeat
               /\ master'.last = master.last /\ master'.got = master.got
    <3>1. pc' = pc /\ seen' = seen
          /\ \E counter, kind, requests, losses :
               master' = [master EXCEPT
                 !.counter = counter, !.kind = kind, !.requests = requests,
                 !.losses = losses]
      BY <2>1 DEF MasterSends
    <3> QED
      BY ONLY <3>1, Given, OrderInv
  <2>2. ASSUME MasterRewrites
        PROVE  /\ pc' = pc /\ seen' = seen
               /\ master'.bit = master.bit /\ master'.repeat = master.repeat
               /\ master'.last = master.last /\ master'.got = master.got
    <3>1. /\ pc' = pc /\ seen' = seen
          /\ master' = [master EXCEPT !.kind = "none",
                                      !.losses = master.losses + 1]
      BY <2>2 DEF MasterRewrites
    <3> QED
      BY ONLY <3>1, Given, OrderInv
  <2> QED
    BY <2>1, <2>2 DEF MasterWrites, MasterLosesWrite
<1>2. \E request : box' \in {box, Posted(request)}
  BY DEF MasterWrites, MasterLosesWrite, MasterSends, MasterRewrites
<1>3. PICK request : box' \in {box, Posted(request)}
  BY <1>2
<1>4. Same(box, box')
  <2>1. Same(box, Posted(request))
    BY ONLY Given, OrderInv DEF Same, Posted, BoxFields
  <2>2. Same(box, box)
    BY DEF Same
  <2> QED
    BY <1>3, <2>1, <2>2
<1>5. /\ Line(box') /\ Link(box', master)
      /\ \A k : Noticed(box, k) => Noticed(box', k)
  BY <1>4, Given, SameLinked
<1>6. Link(box', master')
  BY <1>1, <1>5 DEF Link, Pending
<1>7. Sees(box', pc', seen', master')
  BY <1>1, <1>4, <1>5, Given DEF Sees, Pending, Same
<1> QED
  BY <1>1, <1>4, <1>5, <1>6, <1>7 DEF Ordered, Linked, Delivered, Same

\* What the master may read is the answer after the last it has.
LEMMA NextAnswer ==
  ASSUME OrderInv, MayRead
  PROVE  /\ Front(box) = master.got + 1 /\ master.bit = box.toggle
         /\ ~Pending(box, master) /\ seen.repeat \in BOOLEAN
         /\ box.full /\ box.sm1.serial = master.got + 1
         /\ box.sm1.counter = CounterOf(master.got + 1)
         /\ box.sm1.counter # master.last /\ master.got < box.sent
<1>1. box.sm1 # Nothing /\ Line(box) /\ Link(box, master) /\ box.ack = box.toggle
  BY Given DEF MayRead, Line
<1>2. Front(box) = master.got + 1 /\ master.bit = box.toggle
  BY <1>1 DEF MayRead, Link
<1>3. box.full /\ box.read # None /\ box.sm1 = box.buf[box.read]
  BY <1>1 DEF Line
<1>4. box.sm1.serial = master.got + 1
  BY <1>1, <1>2, <1>3 DEF Line, Serials
<1>5. box.sm1.counter = CounterOf(master.got + 1)
  <2>1. box.read \in OnLine(box)
    BY <1>3 DEF OnLine, Sent
  <2> QED
    BY <1>1, <1>3, <1>4, <2>1 DEF Line, Serials
<1>6. master.last # CounterOf(master.got + 1)
  BY <1>1, Given, CountsOn DEF Link
<1>7. master.got < box.sent
  <2>1. Len(box.sq) \in Nat /\ box.sent \in Nat /\ master.got \in Nat
    BY Given, LineTypes
  <2> DEFINE l == Len(box.sq)
             s == box.sent
             g == master.got
             w == IF box.store = None THEN 0 ELSE 1
  <2>2. w \in {0, 1} /\ s - l - w = g + 1
    BY <1>2 DEF Front
  <2>3. l \in Nat /\ s \in Nat /\ g \in Nat
    BY <2>1
  <2> HIDE DEF l, s, g, w
  <2>4. g < s
    BY ONLY <2>2, <2>3
  <2> QED
    BY <2>4 DEF g, s
<1> QED
  BY <1>1, <1>2, <1>3, <1>4, <1>5, <1>6, <1>7, Given DEF Pending

\* Read from SM1 is what waits there: the line stays in order.
LEMMA TakenLine ==
  ASSUME OrderInv, box' = [box EXCEPT !.sm1 = Nothing]
  PROVE  /\ Line(box') /\ Front(box') = Front(box) /\ box'.sm1 = Nothing
         /\ box'.full = box.full /\ box'.toggle = box.toggle
         /\ box'.sent = box.sent
<1>1. /\ box'.read = box.read /\ box'.repeat = box.repeat
      /\ box'.store = box.store /\ box'.sq = box.sq /\ box'.full = box.full
      /\ box'.sm1 = Nothing /\ box'.sent = box.sent
      /\ box'.rcount = box.rcount /\ box'.buf = box.buf
      /\ box'.toggle = box.toggle /\ box'.ack = box.ack
      /\ box'.running = box.running
  BY ONLY Given, OrderInv, box' = [box EXCEPT !.sm1 = Nothing] DEF BoxFields
<1>2. Front(box') = Front(box) /\ OnLine(box') = OnLine(box)
  BY <1>1 DEF Front, OnLine, Sent
<1>3. Line(box')
  BY <1>1, <1>2, Given DEF Line, Serials
<1> QED
  BY <1>1, <1>2, <1>3

LEMMA ReadsOrder ==
  ASSUME OrderInv, MasterReads
  PROVE  Ordered(box', pc', seen', master')
<1>1. /\ MayRead /\ box' = [box EXCEPT !.sm1 = Nothing]
      /\ pc' = pc /\ seen' = seen
      /\ master' = [master EXCEPT !.repeat = "no", !.got = master.got + 1,
                                  !.last = CounterOf(master.got + 1)]
  BY NextAnswer DEF MasterReads
<1>2. /\ master'.repeat = "no" /\ master'.got = master.got + 1
      /\ master'.last = CounterOf(master.got + 1)
      /\ master'.bit = master.bit
  BY ONLY <1>1, Given, OrderInv
<1>3. /\ Line(box') /\ Front(box') = Front(box) /\ box'.sm1 = Nothing
      /\ box'.toggle = box.toggle /\ box'.sent = box.sent
  BY <1>1, TakenLine
<1>4. Link(box', master')
  <2>1. Front(box') = master'.got + 0
    BY <1>1, <1>2, <1>3, NextAnswer, Given
  <2> QED
    BY <1>1, <1>2, <1>3, <2>1, NextAnswer DEF Link, Pending
<1>5. Sees(box', pc', seen', master')
  BY <1>1, <1>3, NextAnswer, Given DEF Sees
<1> QED
  BY <1>1, <1>2, <1>3, <1>4, <1>5, NextAnswer DEF Ordered, Linked, Delivered

LEMMA LosesReadOrder ==
  ASSUME OrderInv, MasterLosesRead
  PROVE  Ordered(box', pc', seen', master')
<1>1. /\ MayRead /\ box' = [box EXCEPT !.sm1 = Nothing]
      /\ pc' = pc /\ seen' = seen
      /\ master' = [master EXCEPT !.repeat = "wanted",
                                  !.losses = master.losses + 1]
  BY DEF MasterLosesRead
<1>2. /\ master'.repeat = "wanted" /\ master'.got = master.got
      /\ master'.last = master.last /\ master'.bit = master.bit
  BY ONLY <1>1, Given, OrderInv
<1>3. /\ Line(box') /\ Front(box') = Front(box) /\ box'.sm1 = Nothing
      /\ box'.full = box.full
      /\ box'.toggle = box.toggle /\ box'.sent = box.sent
  BY <1>1, TakenLine
<1>4. Link(box', master')
  <2>1. Left(box', master'.got + 1)
    BY <1>1, <1>2, <1>3, NextAnswer DEF Left
  <2>2. master'.last = CounterOf(master'.got)
    BY <1>2, Given DEF Link
  <2> QED
    BY <1>1, <1>2, <1>3, <2>1, <2>2, NextAnswer DEF Link, Pending
<1>5. Sees(box', pc', seen', master')
  BY <1>1, <1>3, NextAnswer, Given DEF Sees
<1> QED
  BY <1>1, <1>2, <1>3, <1>4, <1>5 DEF Ordered, Linked, Delivered

LEMMA AsksAgainOrder ==
  ASSUME OrderInv, MasterAsksAgain
  PROVE  Ordered(box', pc', seen', master')
<1>1. /\ master.repeat = "wanted" /\ box' = box /\ pc' = pc /\ seen' = seen
      /\ master' = [master EXCEPT !.repeat = "asked", !.bit = ~master.bit]
  BY DEF MasterAsksAgain
<1>2. /\ master'.repeat = "asked" /\ master'.got = master.got
      /\ master'.last = master.last /\ master'.bit = ~master.bit
  BY ONLY <1>1, Given, OrderInv
<1>3. Link(box, master')
  BY <1>1, <1>2, Given DEF Link, Pending
<1>4. Sees(box, pc, seen, master')
  BY <1>1, Given DEF Sees, Pending
<1> QED
  BY <1>1, <1>2, <1>3, <1>4, Given DEF Ordered, Linked, Delivered

LEMMA InitialOrder == Init => OrderInv /\ box.sent = 0 /\ master.got = 0
<1> SUFFICES ASSUME Init PROVE OrderInv /\ box.sent = 0 /\ master.got = 0
  OBVIOUS
<1>1. IInv
  BY Initially
<1>2. /\ box.read = None /\ box.repeat = None /\ box.store = None
      /\ box.sq = <<>> /\ box.sent = 0 /\ box.rcount = 1 /\ ~box.full
      /\ box.sm1 = Nothing /\ box.ack = FALSE /\ box.toggle = FALSE
      /\ master.bit = FALSE /\ master.repeat = "no" /\ master.last = 0
      /\ master.got = 0 /\ pc = "main"
  BY DEF Init
<1>3. Elements(<<>>) = {} /\ Len(<<>>) = 0 /\ (1 .. 0) = {}
  BY DEF Elements
<1>4. OnLine(box) = {} /\ Len(box.sq) = 0
  BY <1>2, <1>3 DEF OnLine, Sent
<1>5. Front(box) = 0
  <2>1. Front(box) = box.sent - Len(box.sq) - 0
    BY <1>2, Zenon DEF Front
  <2>2. \A x, y : x = 0 /\ y = 0 => x - y - 0 = 0
    OBVIOUS
  <2> QED
    BY ONLY <1>2, <1>4, <2>1, <2>2
<1>6. CounterOf(1) = 1 /\ CounterOf(0) = 0 /\ 0 + 1 = 1 /\ 0 + 0 = 0
  BY Remainder DEF CounterOf
<1>7. Line(box)
  <2>1. Serials(box)
    BY <1>2, <1>3, <1>4 DEF Serials
  <2> QED
    BY <1>2, <1>6, <2>1 DEF Line
<1>8. Link(box, master)
  BY <1>2, <1>5, <1>6 DEF Link, Pending
<1>9. Sees(box, pc, seen, master)
  BY <1>2 DEF Sees
<1> QED
  BY <1>1, <1>2, <1>7, <1>8, <1>9 DEF OrderInv, Linked

LEMMA OrderStep ==
  ASSUME HeapSuffices, OrderInv, [Next]_vars, ~box'.dropped
  PROVE  OrderInv' /\ [Reliable!Next]_(Reliable!vars)
<1>1. IInv'
  BY StepIsSafe DEF OrderInv
<1>2. Ordered(box', pc', seen', master')
  <2>1. CASE UNCHANGED vars
    BY <2>1, Given DEF vars, Ordered, Linked, Delivered
  <2>2. CASE Task
    BY <2>2, ServeOrder, UnlockOrder, ReadStatusOrder, KeepOrder, StopOrder,
       StartOrder, HandleReadOrder, HandleRepeatOrder, HandleWriteOrder
       DEF Task
  <2>3. CASE Master
    BY <2>3, WritesOrder, ReadsOrder, LosesReadOrder, AsksAgainOrder
       DEF Master
  <2> QED
    BY <2>1, <2>2, <2>3 DEF Next
<1>3. OrderInv'
  BY <1>1, <1>2 DEF OrderInv, Ordered
<1>4. [Reliable!Next]_(Reliable!vars)
  BY <1>2 DEF Ordered, Delivered, Reliable!Next, Reliable!vars,
     Reliable!Send, Reliable!Receive, Reliable!Stop
<1> QED
  BY <1>3, <1>4

\* As long as no answer is given up, the master has every answer once and in
\* the order they were sent, whatever reads are lost and repeated, in a
\* mailbox of any size whose heap suffices and with any range of counters
\* (mailbox.c:633-670).
THEOREM AnswersInOrder ==
  ASSUME HeapSuffices
  PROVE  Spec /\ [](~box.dropped) => ImplementsReliable
<1>1. Init => OrderInv /\ Reliable!Init
  BY InitialOrder DEF Reliable!Init
<1>2. OrderInv /\ [Next]_vars /\ (~box.dropped)'
        => OrderInv' /\ [Reliable!Next]_(Reliable!vars)
  BY OrderStep
<1> QED
  BY <1>1, <1>2, PTL DEF Spec, ImplementsReliable, Reliable!Spec

(***************************************************************************)
(* Room in the send queue.                                                 *)
(***************************************************************************)

\* Fragments of an object list that are still to be sent, and answers that
\* are in SM1 or queued.
ToCome(m) ==
  IF "coe" \notin m.stored THEN 0
  ELSE IF m.left = 0 THEN Fragments + 1 ELSE m.left

Used(m) == Len(m.sq) + (IF m.full THEN 1 ELSE 0)

\* What sending does when the queue has room.
Sends(m, n) ==
  /\ n.full /\ Len(n.sq) = Used(m)
  /\ \A f \in AsideFields : n[f] = m[f]

\* ... with these services waiting afterwards.
SendsBeside(m, n, waiting) ==
  Sends(m, n) /\ n.left = m.left /\ n.stored = waiting

LEMMA UsedTypes ==
  ASSUME NEW m \in Boxes
  PROVE  /\ Len(m.sq) \in Nat /\ Len(m.rq) \in Nat /\ Used(m) \in Nat
         /\ m.full => Used(m) = Len(m.sq) + 1
         /\ ~m.full => Used(m) = Len(m.sq)
         /\ ToCome(m) \in 0 .. Fragments + 1 /\ m.left \in 0 .. Fragments
         /\ "coe" \notin m.stored => ToCome(m) = 0
         /\ "coe" \in m.stored => ToCome(m) >= 1
<1>1. Len(m.sq) \in Nat /\ Len(m.rq) \in Nat
  BY LengthFacts
<1>2. m.left \in 0 .. Fragments
  BY DEF Boxes, Nat0
<1> DEFINE l == m.left
           s == Len(m.sq)
<1>3. l \in 0 .. Fragments /\ s \in Nat
  BY <1>1, <1>2
<1>4. /\ ToCome(m) = IF "coe" \notin m.stored THEN 0
                     ELSE IF l = 0 THEN Fragments + 1 ELSE l
      /\ Used(m) = s + (IF m.full THEN 1 ELSE 0)
  BY DEF ToCome, Used
<1> HIDE DEF l, s
<1>5. ToCome(m) \in 0 .. Fragments + 1
      /\ ("coe" \in m.stored => ToCome(m) >= 1)
      /\ ("coe" \notin m.stored => ToCome(m) = 0)
  BY <1>3, <1>4
<1>6. /\ Used(m) \in Nat
      /\ m.full => Used(m) = s + 1
      /\ ~m.full => Used(m) = s
  BY <1>3, <1>4
<1> QED
  BY <1>1, <1>2, <1>5, <1>6 DEF s

LEMMA SendReqSends ==
  ASSUME NEW m, Fit(m), m.running, ~Refused(m), NEW b \in Buffers,
         NEW services \in SUBSET {"coe", "foe"}, NEW follow \in BOOLEAN
  PROVE  LET s == SendReq(m, b, services, follow)
         IN  s.ok /\ SendsBeside(m, s.box, IF follow
                                           THEN m.stored \cup services
                                           ELSE m.stored)
<1> DEFINE c == Counted(m, b)
           kept == AsideFields \cup {"left", "stored", "full", "sq"}
           flags(x) == IF follow THEN x.stored \cup services ELSE x.stored
<1>1. m \in Boxes /\ DOMAIN m = BoxFields
  BY BoxDomain DEF Fit
<1>2. DOMAIN c = BoxFields /\ \A f \in kept : c[f] = m[f]
  BY <1>1, CountedFacts DEF Alike, BoxFields, AsideFields
<1>3. c.stored = m.stored /\ c.left = m.left /\ c.sq = m.sq
      /\ \A f \in AsideFields : c[f] = m[f]
  BY <1>2
<1> HIDE DEF c, kept
<1>4. CASE m.full
  <2> DEFINE d == [c EXCEPT !.sq = Append(c.sq, b)]
             n == [d EXCEPT !.stored = flags(d)]
  <2>1. SendReq(m, b, services, follow) = Sending(n, TRUE)
    BY <1>4 DEF SendReq, Refused, c
  <2>2. /\ n.sq = Append(c.sq, b) /\ n.left = c.left
        /\ n.stored = (IF follow THEN c.stored \cup services ELSE c.stored)
        /\ \A f \in AsideFields \cup {"full"} : n[f] = c[f]
    BY ONLY <1>2 DEF BoxFields, AsideFields
  <2> HIDE DEF n
  <2>3. c.full = m.full
    BY <1>2 DEF kept
  <2>4. Len(n.sq) = Used(m)
    <3>1. m.sq \in Seq(Buffers) /\ n.sq = Append(m.sq, b)
      BY <1>1, <1>3, <2>2, LineTypes
    <3>2. Len(n.sq) = Len(m.sq) + 1
      BY <3>1, AppendElements
    <3>3. Used(m) = Len(m.sq) + 1
      BY <1>1, <1>4, UsedTypes
    <3> QED
      BY ONLY <3>2, <3>3
  <2>5. Sends(m, n)
    BY <1>3, <1>4, <2>2, <2>3, <2>4 DEF Sends
  <2> QED
    BY <1>3, <2>1, <2>2, <2>5 DEF Sending, SendsBeside
<1>5. CASE ~m.full
  <2> DEFINE d == CopyToSend(c, b)
             n == [d EXCEPT !.stored = flags(d)]
  <2>1. SendReq(m, b, services, follow) = Sending(n, TRUE)
    BY <1>5 DEF SendReq, c
  <2>2. /\ n.sq = c.sq /\ n.left = c.left /\ n.full
        /\ n.stored = (IF follow THEN c.stored \cup services ELSE c.stored)
        /\ \A f \in AsideFields : n[f] = c[f]
    BY ONLY <1>2 DEF CopyToSend, BoxFields, AsideFields
  <2> HIDE DEF n
  <2>3. Len(n.sq) = Used(m)
    BY <1>1, <1>3, <1>5, <2>2, UsedTypes
  <2>4. Sends(m, n)
    BY <1>3, <2>2, <2>3 DEF Sends
  <2> QED
    BY <1>3, <2>1, <2>2, <2>4 DEF Sending, SendsBeside
<1> QED
  BY <1>4, <1>5

LEMMA SendCoeSends ==
  ASSUME NEW m, Fit(m), m.running, ~Refused(m), NEW b \in Buffers,
         NEW follow \in BOOLEAN
  PROVE  LET n == SendCoe(m, b, follow)
         IN  SendsBeside(m, n, IF follow THEN m.stored \cup {"coe"}
                               ELSE m.stored)
<1> DEFINE s == SendReq(m, b, {"coe"}, follow)
<1>1. s.ok /\ SendsBeside(m, s.box, IF follow THEN m.stored \cup {"coe"}
                                             ELSE m.stored)
  BY SendReqSends
<1>2. SendCoe(m, b, follow) = s.box
  BY <1>1 DEF SendCoe
<1> QED
  BY <1>1, <1>2

LEMMA SendErrorSends ==
  ASSUME NEW m, Fit(m), m.running, ~Refused(m), NEW b \in Buffers
  PROVE  LET n == SendError(m, b)
         IN  SendsBeside(m, n, m.stored)
<1> DEFINE s == SendReq(m, b, {}, FALSE)
           k == s.box
           n == [k EXCEPT !.dropped = k.dropped \/ ~s.ok]
<1>1. /\ s.ok /\ Sends(m, k) /\ k.left = m.left /\ k.stored = m.stored
      /\ DOMAIN k = BoxFields
  <2>1. s.ok /\ SendsBeside(m, k, IF FALSE THEN m.stored \cup {}
                                  ELSE m.stored)
    BY SendReqSends
  <2>2. DOMAIN k = BoxFields
    BY SendReqDomain DEF Fit
  <2> QED
    BY <2>1, <2>2 DEF SendsBeside
<1>2. SendError(m, b) = n
  BY DEF SendError
<1>3. k.dropped = m.dropped /\ m.dropped \in BOOLEAN
  BY <1>1 DEF Sends, AsideFields, Fit, Boxes
<1> HIDE DEF s, k
<1>4. n.dropped = k.dropped
  BY <1>1, <1>3 DEF BoxFields
<1>5. \A f \in BoxFields \ {"dropped"} : n[f] = k[f]
  BY ONLY <1>1 DEF BoxFields
<1> HIDE DEF n
<1>6. /\ n.full = k.full /\ n.sq = k.sq /\ n.left = k.left
      /\ n.stored = k.stored /\ \A f \in AsideFields : n[f] = k[f]
  BY <1>4, <1>5 DEF BoxFields, AsideFields
<1> QED
  BY <1>1, <1>2, <1>6 DEF Sends, SendsBeside

LEMMA SendFoeSends ==
  ASSUME NEW m, Fit(m), m.running, ~Refused(m), NEW b \in Buffers,
         m.boot => ~m.full
  PROVE  LET n == SendFoe(m, b)
         IN  SendsBeside(m, n, m.stored)
<1>1. CASE ~m.boot
  <2> DEFINE s == SendReq(m, b, {"foe"}, FALSE)
  <2>1. s.ok /\ SendsBeside(m, s.box, IF FALSE THEN m.stored \cup {"foe"}
                                      ELSE m.stored)
    BY SendReqSends
  <2>2. SendFoe(m, b) = s.box
    BY <1>1, <2>1 DEF SendFoe
  <2> QED
    BY <2>1, <2>2
<1>2. CASE m.boot
  <2> DEFINE c == Counted(m, b)
             kept == AsideFields \cup {"left", "stored", "full", "sq"}
             n == CopyToSend(c, b)
  <2>1. m \in Boxes /\ DOMAIN m = BoxFields
    BY BoxDomain DEF Fit
  <2>2. DOMAIN c = BoxFields /\ \A f \in kept : c[f] = m[f]
    BY <2>1, CountedFacts DEF Alike, BoxFields, AsideFields
  <2>3. SendFoe(m, b) = n
    BY <1>2 DEF SendFoe, CanSend
  <2>6. c.sq = m.sq /\ c.left = m.left /\ c.stored = m.stored
        /\ \A f \in AsideFields : c[f] = m[f]
    BY <2>2
  <2> HIDE DEF c
  <2>4. /\ n.full /\ n.sq = c.sq /\ n.left = c.left /\ n.stored = c.stored
        /\ \A f \in AsideFields : n[f] = c[f]
    BY ONLY <2>2 DEF CopyToSend, BoxFields, AsideFields
  <2> HIDE DEF n, kept
  <2>5. Len(n.sq) = Used(m)
    BY <1>2, <2>1, <2>4, <2>6, UsedTypes
  <2> QED
    BY <2>3, <2>4, <2>5, <2>6 DEF Sends, SendsBeside
<1> QED
  BY <1>1, <1>2

LEMMA SdoInfoSends ==
  ASSUME NEW m, Fit(m), m.running, ~Refused(m), NEW b \in Buffers
  PROVE  LET n == SdoInfo(m, b)
         IN  /\ Sends(m, n)
             /\ n.left = IF m.left = 0 THEN Fragments ELSE m.left - 1
             /\ n.stored = IF n.left > 0 THEN m.stored \cup {"coe"}
                           ELSE m.stored
<1> DEFINE left == IF m.left = 0 THEN Fragments ELSE m.left - 1
           part == IF m.left = 0 THEN 0 ELSE m.part + 1
           k == [m EXCEPT !.left = left, !.part = part, !.buf[b].part = part]
           n == SdoInfo(m, b)
<1>1. m \in Boxes /\ DOMAIN m = BoxFields
  BY BoxDomain DEF Fit
<1>2. n = SendCoe(k, b, left > 0)
  BY DEF SdoInfo
<1>3. Alike(m, k, {"left", "part", "buf"}) /\ k.left = left
      /\ \A a \in Buffers : k.buf[a].kind = m.buf[a].kind
  <2> DEFINE l == m.left
             p == m.part
             x == [m.buf[b] EXCEPT !.part = part]
  <2>1. l \in Nat0(Fragments) /\ p \in Nat /\ m.buf \in [Buffers -> Contents]
    BY <1>1 DEF Boxes
  <2> HIDE DEF l, p
  <2>2. /\ (IF l = 0 THEN Fragments ELSE l - 1) \in Nat0(Fragments)
        /\ (IF l = 0 THEN 0 ELSE p + 1) \in Nat
    BY <2>1 DEF Nat0
  <2>3. left \in Nat0(Fragments) /\ part \in Nat
    BY <2>2 DEF l, p
  <2> HIDE DEF left, part
  <2>4. /\ [m.buf EXCEPT ![b] = x] \in [Buffers -> Contents]
        /\ \A a \in Buffers : [m.buf EXCEPT ![b] = x][a].kind = m.buf[a].kind
    BY <2>1, <2>3 DEF Contents
  <2>5. k = [m EXCEPT !.left = left, !.part = part,
                      !.buf = [m.buf EXCEPT ![b] = x]]
    BY ONLY <1>1 DEF BoxFields
  <2> DEFINE y == [m.buf EXCEPT ![b] = x]
  <2>6. /\ y \in [Buffers -> Contents]
        /\ \A a \in Buffers : y[a].kind = m.buf[a].kind
        /\ k = [m EXCEPT !.left = left, !.part = part, !.buf = y]
    BY <2>4, <2>5
  <2> HIDE DEF k, y
  <2>7. k \in Boxes
    BY ONLY <1>1, <2>3, <2>6 DEF Boxes
  <2>8. k.left = left /\ k.buf = y /\ DOMAIN k = DOMAIN m
        /\ \A f \in DOMAIN m \ {"left", "part", "buf"} : k[f] = m[f]
    BY ONLY <1>1, <2>6 DEF BoxFields
  <2> QED
    BY <2>6, <2>7, <2>8 DEF Alike
<1> HIDE DEF left, k, n
<1>4. Fit(k)
  <2>1. \A a \in Elements(m.rq) : k.buf[a].kind # "long"
    <3>1. Elements(m.rq) \subseteq Buffers
      BY <1>1, LenProperties DEF Elements, Boxes
    <3> QED
      BY <1>3, <3>1 DEF Fit
  <2> QED
    BY <1>1, <1>3, <2>1, AlikeFields DEF Fit
<1>5. /\ k.running = m.running /\ k.full = m.full /\ k.sq = m.sq
      /\ k.stored = m.stored /\ \A f \in AsideFields : k[f] = m[f]
  BY <1>1, <1>3 DEF Alike, BoxFields, AsideFields
<1>6. /\ Sends(k, n) /\ n.left = left
      /\ n.stored = IF left > 0 THEN k.stored \cup {"coe"} ELSE k.stored
  <2> DEFINE follow == left > 0
  <2>1. ~Refused(k) /\ follow \in BOOLEAN /\ n = SendCoe(k, b, follow)
    BY <1>2, <1>5 DEF Refused
  <2> HIDE DEF follow
  <2>2. SendsBeside(k, n, IF follow THEN k.stored \cup {"coe"}
                          ELSE k.stored)
    BY <1>4, <1>5, <2>1, SendCoeSends
  <2> QED
    BY <1>3, <2>2 DEF follow, SendsBeside
<1>7. Used(k) = Used(m)
  BY <1>5 DEF Used
<1>8. Sends(m, n)
  BY <1>5, <1>6, <1>7 DEF Sends
<1> QED
  BY <1>5, <1>6, <1>8 DEF left, n

\* A request that is served leaves one answer more, at most.
Serves(m, n) ==
  /\ \A f \in AsideFields : n[f] = m[f]
  /\ Len(n.sq) <= Used(m) /\ Used(n) <= Used(m) + 1
  /\ m.boot => n.stored = m.stored

LEMMA ServiceServes ==
  ASSUME NEW m, Fit(m), m.running, ~Refused(m), NEW b \in Buffers,
         m.buf[b].kind # "long", m.boot => ~m.full
  PROVE  Serves(m, ServiceInd(m, b))
<1> DEFINE n == ServiceInd(m, b)
           kind == m.buf[b].kind
<1>0. m \in Boxes /\ kind \in AllKinds \ {"long"}
  BY DEF Fit, Boxes, Contents
<1>1. ASSUME Sends(m, n), m.boot => n.stored = m.stored
      PROVE  Serves(m, n)
  <2>1. n.full /\ Len(n.sq) = Used(m)
    BY <1>1 DEF Sends
  <2> HIDE DEF n
  <2>2. Used(n) = Used(m) + 1 /\ Len(n.sq) <= Used(m)
    BY <1>0, <2>1, UsedTypes DEF Used
  <2> QED
    BY <1>1, <2>2, UsedTypes, <1>0 DEF Sends, Serves
<1>2. CASE kind = "bad" \/ (m.boot /\ kind \notin {"foe", "foeEnd"})
  BY <1>1, <1>2, SendErrorSends DEF ServiceInd, SendsBeside
<1>3. CASE ~(kind = "bad" \/ (m.boot /\ kind \notin {"foe", "foeEnd"}))
  <2>1. CASE kind = "sdo"
    BY <1>1, <1>3, <2>1, SendCoeSends DEF ServiceInd, SendsBeside
  <2>2. CASE kind = "list"
    <3>1. n = SdoInfo(m, b) /\ ~m.boot
      BY <1>3, <2>2 DEF ServiceInd
    <3> QED
      BY <1>1, <3>1, SdoInfoSends
  <2>3. CASE kind = "info"
    <3> DEFINE k == [m EXCEPT !.left = 0]
    <3>1. n = SendCoe(k, b, FALSE) /\ ~m.boot
      BY <1>3, <2>3 DEF ServiceInd
    <3>2. DOMAIN m = BoxFields
      BY <1>0, BoxDomain
    <3>3. k \in Boxes
      <4>1. 0 \in Nat0(Fragments)
        BY DEF Nat0
      <4> QED
        BY ONLY <1>0, <4>1 DEF Boxes
    <3>4. Alike(m, k, {"left"})
      BY ONLY <3>2, <3>3 DEF Alike, BoxFields
    <3> HIDE DEF k, n
    <3>5. Fit(k) /\ k.running /\ ~Refused(k)
      BY <1>0, <3>4, AlikeFields DEF Fit, Refused
    <3>6. Sends(k, n)
      BY <3>1, <3>5, SendCoeSends DEF SendsBeside
    <3>7. /\ k.full = m.full /\ k.sq = m.sq
          /\ \A f \in AsideFields : k[f] = m[f]
      BY <1>0, <3>2, <3>4 DEF Alike, BoxFields, AsideFields
    <3>8. Used(k) = Used(m)
      BY <3>7 DEF Used
    <3>9. Sends(m, n)
      BY <3>6, <3>7, <3>8 DEF Sends
    <3> QED
      BY <1>1, <3>1, <3>9 DEF n
  <2>4. CASE kind = "foe"
    BY <1>1, <1>3, <2>4, SendFoeSends DEF ServiceInd, SendsBeside
  <2>5. CASE kind = "foeEnd"
    <3>1. n = Freed(m, {b})
      BY <1>3, <2>5 DEF ServiceInd
    <3> HIDE DEF n
    <3>2. /\ n.full = m.full /\ n.sq = m.sq /\ n.stored = m.stored
          /\ \A f \in AsideFields : n[f] = m[f]
      BY <1>0, <3>1, FreedFacts, BoxDomain DEF Alike, BoxFields, AsideFields
    <3>3. Used(n) = Used(m)
      BY <3>2 DEF Used
    <3>4. Len(n.sq) <= Used(m) /\ Used(n) <= Used(m) + 1
      BY <1>0, <3>2, <3>3, UsedTypes
    <3>5. Serves(m, n)
      BY <3>2, <3>4 DEF Serves
    <3> QED
      BY <3>5 DEF n
  <2> QED
    BY <1>0, <1>3, <2>1, <2>2, <2>3, <2>4, <2>5 DEF AllKinds
<1> QED
  BY <1>2, <1>3

(***************************************************************************)
(* The invariant: a fragment that waits to be sent has a place in the      *)
(* queue, and MBX_Main finds one for each request it has; in BOOT, where   *)
(* the master waits for each answer, nothing else is ever on the way when  *)
(* a request is served.                                                    *)
(***************************************************************************)
Fill(m, at) ==
  /\ m.coe = None
  /\ Len(m.sq) + ToCome(m) <= Fragments + 2
  /\ at = "main" /\ m.rq # <<>> => Len(m.rq) + Used(m) <= 2

NoWait(m, ma) == m.rq = <<>> /\ m.stored = {} /\ m.sent = ma.got

\* What the master may still write, or has written, is its last request.
LastRequest(m, ma) ==
  /\ ~m.running => ma.kind = "none"
  /\ m.sm0 # Nothing \/ ma.kind # "none" => ma.counter # 0
  /\ m.sm0 # Nothing => /\ m.sm0.counter = ma.counter
                        /\ ma.kind # "none" => m.sm0.kind = ma.kind

\* In BOOT a request that will be served finds the mailbox empty.
Alone(m, ma) ==
  m.boot =>
    /\ m.stored = {} /\ m.sq = <<>>
    /\ m.rq # <<>> =>
         /\ Len(m.rq) = 1 /\ ~m.full /\ m.sent = ma.got
         /\ ma.kind # "long" /\ (m.sm0 # Nothing => m.sm0.kind # "long")
    /\ m.sm0 # Nothing /\ m.sm0.kind # "long" /\ m.sm0.counter # m.wcount
         => NoWait(m, ma)
    /\ m.sm0 = Nothing /\ ma.kind \notin {"none", "long"}
       /\ ma.counter # m.wcount
         => NoWait(m, ma)

Ample(m, at, ma) ==
  Fill(m, at) /\ LastRequest(m, ma) /\ Alone(m, ma) /\ ~m.dropped

AmpleInv == OrderInv /\ Ample(box, pc, master)

\* The queue has room for the fragments of a list and the answers beside it,
\* and in BOOT the master waits for its answers.
QueueSuffices == QueueSize >= Fragments + 3 /\ "boot" \notin Pipelined

\* Fields that Ample looks at.
AmpleFields == AsideFields \cup {"stored", "sq", "full", "sent", "left"}

LEMMA SameAmple ==
  ASSUME NEW m, NEW n, \A f \in AmpleFields : n[f] = m[f],
         NEW at, NEW ma, Ample(m, at, ma)
  PROVE  Ample(n, at, ma)
<1>1. /\ n.coe = m.coe /\ n.dropped = m.dropped /\ n.rq = m.rq
      /\ n.wcount = m.wcount /\ n.sm0 = m.sm0 /\ n.boot = m.boot
      /\ n.running = m.running /\ n.stored = m.stored /\ n.sq = m.sq
      /\ n.full = m.full /\ n.sent = m.sent /\ n.left = m.left
  BY DEF AmpleFields, AsideFields
<1>2. Fill(n, at)
  BY <1>1 DEF Ample, Fill, Used, ToCome
<1>3. Alone(n, ma)
  BY <1>1 DEF Ample, Alone, NoWait
<1> QED
  BY <1>1, <1>2, <1>3 DEF Ample, LastRequest

\* Every step of the mailbox that does not pass by the main loop.
LEMMA ElsewhereAmple ==
  ASSUME NEW m, NEW at, NEW ma, Ample(m, at, ma), NEW there,
         there # "main" \/ m.rq = <<>>
  PROVE  Ample(m, there, ma)
  BY DEF Ample, Fill

LEMMA ServeAmple ==
  ASSUME HeapSuffices, AmpleInv, Serve
  PROVE  /\ Ample(box', pc', master')
         /\ Len(box'.rq) <= Len(box.rq) /\ master' = master
         /\ \A f \in AsideFields \ {"rq"} : box'[f] = box[f]
<1> DEFINE b == Head(box.rq)
           q == Tail(box.rq)
           m == [box EXCEPT !.rq = q]
           n == ServiceInd(m, b)
<1>0. OrderInv /\ Ample(box, pc, master)
  BY DEF AmpleInv
<1>1. /\ box' = n /\ pc = "main" /\ pc' = "main" /\ master' = master
      /\ box.rq \in Seq(Buffers) /\ box.rq # <<>>
  BY <1>0, Given DEF Serve, Goto, Boxes
<1>2. /\ b \in Buffers /\ q \in Seq(Buffers) /\ Len(q) = Len(box.rq) - 1
      /\ Elements(box.rq) = Elements(q) \cup {b}
  BY <1>1, TailElements
<1>3. box.buf[b].kind # "long" /\ box.running
  BY <1>0, <1>1, <1>2, Given DEF Fit
<1> HIDE DEF b, q, n
<1>4. Alike(box, m, {"rq"}) /\ m.rq = q /\ DOMAIN m = BoxFields
  BY ONLY Given, <1>0, <1>2 DEF Alike, Boxes
<1> HIDE DEF m
<1>5. /\ m.running /\ m.buf = box.buf /\ m.full = box.full
      /\ m.sq = box.sq /\ m.boot = box.boot /\ m.stored = box.stored
      /\ m.dropped = box.dropped /\ m.sm0 = box.sm0 /\ m.coe = box.coe
      /\ m.wcount = box.wcount /\ m.served = box.served /\ m \in Boxes
  BY <1>0, <1>3, <1>4, Given, AlikeFields
<1>6. Fit(m)
  BY <1>0, <1>1, <1>4, Given, TailFits DEF q
<1>7. /\ Len(box.rq) \in Nat \ {0} /\ Len(box.sq) \in Nat
      /\ Used(box) \in Nat /\ Len(box.rq) + Used(box) <= 2
      /\ box.full => Used(box) = Len(box.sq) + 1
  BY <1>0, <1>1, Given, UsedTypes, LengthFacts DEF Ample, Fill
<1>8. Used(m) = Used(box) /\ ~Refused(m)
  <2>1. Used(m) = Used(box)
    BY <1>5 DEF Used
  <2>2. ASSUME box.full PROVE Len(box.sq) # QueueSize - 1
    <3> DEFINE i == Len(box.rq)
               l == Len(box.sq)
               u == Used(box)
    <3>1. /\ i \in Nat \ {0} /\ l \in Nat /\ i + u <= 2 /\ u = l + 1
          /\ QueueSize \in Nat /\ QueueSize >= 3
      BY <1>7, <2>2 DEF HeapSuffices
    <3> HIDE DEF i, l, u
    <3>2. l # QueueSize - 1
      BY ONLY <3>1
    <3> QED
      BY <3>2 DEF l
  <2> QED
    BY <1>5, <2>1, <2>2 DEF Refused, QueueFull
<1>9. m.boot => ~m.full
  BY <1>0, <1>1, <1>5 DEF Ample, Alone
<1>10. Serves(m, n)
  BY <1>2, <1>3, <1>5, <1>6, <1>8, <1>9, ServiceServes DEF n
<1>11. /\ n.coe = m.coe /\ n.dropped = m.dropped /\ n.rq = m.rq
       /\ n.wcount = m.wcount /\ n.served = m.served
       /\ n.sm0 = m.sm0 /\ n.boot = m.boot
       /\ n.running = m.running /\ Len(n.sq) <= Used(m)
       /\ Used(n) <= Used(m) + 1 /\ (m.boot => n.stored = m.stored)
  BY <1>10 DEF Serves, AsideFields
<1>12. n \in Boxes
  <2>1. ~n.dropped
    BY <1>0, <1>5, <1>11 DEF Ample
  <2>2. IInv
    BY <1>0 DEF OrderInv
  <2>3. Safe(box, box', pc', seen', master')
    BY <2>2, ServeStep
  <2> QED
    BY <1>1, <2>1, <2>3 DEF Safe, Good, Fit
<1>13. Len(n.sq) \in Nat /\ ToCome(n) \in 0 .. Fragments + 1
       /\ Used(n) \in Nat /\ Len(n.rq) \in Nat
  BY <1>12, UsedTypes
<1> HIDE DEF n
<1>14. Fill(n, "main")
  <2> DEFINE l == Len(n.sq)
             i == Len(box.rq)
             u == Used(box)
             v == Used(n)
             c == ToCome(n)
             j == Len(n.rq)
  <2>1. /\ i \in Nat \ {0} /\ u \in Nat /\ i + u <= 2 /\ l \in Nat /\ l <= u
        /\ v \in Nat /\ v <= u + 1 /\ c \in 0 .. Fragments + 1 /\ j = i - 1
        /\ j \in Nat /\ Fragments \in Nat
    BY <1>2, <1>4, <1>7, <1>8, <1>11, <1>13
  <2> HIDE DEF l, i, u, v, c, j
  <2>2. l + c <= Fragments + 2 /\ j + v <= 2
    BY ONLY <2>1
  <2>3. n.coe = None
    BY <1>0, <1>5, <1>11 DEF Ample, Fill
  <2> QED
    BY <2>2, <2>3 DEF Fill, l, c, j, v
<1>15. Alone(n, master)
  <2> SUFFICES ASSUME box.boot
               PROVE  Alone(n, master)
    BY <1>5, <1>11 DEF Alone
  <2>1. /\ box.stored = {} /\ box.sq = <<>> /\ Len(box.rq) = 1 /\ ~box.full
        /\ ~NoWait(box, master)
        /\ ~(box.sm0 # Nothing /\ box.sm0.kind # "long"
             /\ box.sm0.counter # box.wcount)
        /\ ~(box.sm0 = Nothing /\ master.kind \notin {"none", "long"}
             /\ master.counter # box.wcount)
    BY <1>0, <1>1 DEF Ample, Alone, NoWait
  <2>2. n.rq = <<>>
    BY <1>2, <1>4, <1>11, <1>12, <2>1, LengthFacts
  <2>3. n.sq = <<>>
    <3>1. Used(m) = 0
      BY <1>0, <1>8, <2>1, Given, UsedTypes, LengthFacts
    <3>2. Len(n.sq) = 0
      BY <1>11, <1>13, <3>1
    <3> QED
      BY <1>12, <3>2, LengthFacts
  <2> QED
    BY <1>5, <1>11, <2>1, <2>2, <2>3 DEF Alone
<1>16. LastRequest(n, master)
  BY <1>0, <1>3, <1>5, <1>11 DEF Ample, LastRequest
<1>17. Len(n.rq) <= Len(box.rq)
  BY <1>2, <1>4, <1>7, <1>11
<1>18. \A f \in AsideFields \ {"rq"} : n[f] = box[f]
  BY <1>5, <1>11, <1>3 DEF AsideFields
<1> QED
  BY <1>0, <1>1, <1>5, <1>11, <1>14, <1>15, <1>16, <1>17, <1>18 DEF Ample

\* An answer was read: what is sent after it takes the place it leaves.
LEMMA NextSentBeside ==
  ASSUME NEW m, Kept(m), m.full
  PROVE  LET x == NextSent(m)
         IN  /\ Len(x.sq) \in Nat /\ Len(x.sq) <= Len(m.sq)
             /\ x.left = m.left /\ x.stored = m.stored /\ x.sent = m.sent
             /\ \A f \in AsideFields : x[f] = m[f]
<1> DEFINE f == Freed(m, Outdated(m))
           kept == KeptForRepeat(m)
           x == NextSent(m)
           s == CopyToSend(kept, m.store)
           h == CopyToSend(kept, Head(m.sq))
<1>0. m \in Boxes /\ DOMAIN m = BoxFields /\ m.sq \in Seq(Buffers)
      /\ Len(m.sq) \in Nat
  BY BoxDomain, LineTypes DEF Kept, Fit
<1>1. x \in Boxes /\ Alike(m, x, ReadFields)
  BY NextSentFacts
<1>2. x.sq = m.sq \/ (m.sq # <<>> /\ x.sq = Tail(m.sq))
  <2>1. f.sq = m.sq /\ DOMAIN f = BoxFields
    BY <1>0, FreedFacts, AlikeFields DEF Alike
  <2>2. kept = [f EXCEPT !.full = FALSE, !.repeat = m.read]
    BY DEF KeptForRepeat
  <2> HIDE DEF f, kept
  <2>3. kept.sq = m.sq /\ DOMAIN kept = BoxFields
    BY ONLY <2>1, <2>2 DEF BoxFields
  <2>4. /\ DOMAIN s = BoxFields /\ s.sq = m.sq
        /\ DOMAIN h = BoxFields /\ h.sq = m.sq
    BY ONLY <2>3 DEF CopyToSend, BoxFields
  <2>5. x = IF m.store # None THEN [s EXCEPT !.store = None]
            ELSE IF m.sq # <<>> THEN [h EXCEPT !.sq = Tail(h.sq)]
            ELSE kept
    BY DEF NextSent, kept
  <2> HIDE DEF x, s, h
  <2>6. [s EXCEPT !.store = None].sq = m.sq
        /\ [h EXCEPT !.sq = Tail(h.sq)].sq = Tail(m.sq)
    BY ONLY <2>4 DEF BoxFields
  <2> QED
    BY ONLY <2>3, <2>5, <2>6
<1> HIDE DEF x
<1>3. Len(x.sq) \in Nat /\ Len(x.sq) <= Len(m.sq)
  <2>1. CASE x.sq = m.sq
    BY <1>0, <2>1
  <2>2. CASE m.sq # <<>> /\ x.sq = Tail(m.sq)
    <3>1. Len(x.sq) = Len(m.sq) - 1 /\ Len(x.sq) \in Nat
      BY <1>0, <1>1, <2>2, LineTypes, TailElements
    <3> QED
      BY <1>0, <3>1
  <2> QED
    BY <1>2, <2>1, <2>2
<1>4. /\ x.left = m.left /\ x.stored = m.stored /\ x.sent = m.sent
      /\ \A g \in AsideFields : x[g] = m[g]
  BY <1>0, <1>1 DEF Alike, ReadFields, AsideFields, BoxFields
<1> QED
  BY <1>3, <1>4 DEF x

LEMMA ReadIndBeside ==
  ASSUME QueueSuffices, NEW m, Kept(m), Driven(m), m.full, m.coe = None,
         Len(m.sq) + ToCome(m) <= Fragments + 2,
         NEW room \in Rooms(Freed(m, Outdated(m)))
  PROVE  LET n == ReadInd(m, room)
         IN  /\ \A f \in AsideFields : n[f] = m[f]
             /\ Len(n.sq) + ToCome(n) <= Fragments + 2
             /\ m.stored = {} => /\ n.stored = {} /\ n.sent = m.sent
                                 /\ Len(n.sq) \in 0 .. Len(m.sq)
<1> DEFINE x == NextSent(m)
           n == ReadInd(m, room)
           S == x.stored \ {"coe"}
           y == [x EXCEPT !.stored = S]
<1>0. m \in Boxes /\ Len(m.sq) \in Nat /\ m.stored \subseteq {"coe"}
  BY LineTypes DEF Kept, Fit, Driven
<1>1. /\ Kept(x) /\ x.heap = m.heap \ Outdated(m) /\ x \in Boxes
      /\ DOMAIN x = BoxFields
  BY NextSentFacts, BoxDomain
<1>2. /\ Len(x.sq) \in Nat /\ Len(x.sq) <= Len(m.sq)
      /\ x.left = m.left /\ x.stored = m.stored /\ x.sent = m.sent
      /\ \A f \in AsideFields : x[f] = m[f]
  BY NextSentBeside
<1>4. n = IF "coe" \in m.stored THEN ContinueCoe(y, room) ELSE x
  <2>1. n = IF "coe" \in m.stored THEN ContinueCoe(y, room)
            ELSE IF "foe" \in m.stored
            THEN ContinueFoe([x EXCEPT !.stored = x.stored \ {"foe"}])
            ELSE x
    BY ONLY DEF n, x, y, S, ReadInd, NextSent, KeptForRepeat
  <2> HIDE DEF n, x, y
  <2> QED
    BY <1>0, <2>1
<1>5. room => Room(x)
  <2>1. Freed(m, Outdated(m)).heap = x.heap
    BY <1>0, <1>1, FreedFacts
  <2> HIDE DEF x
  <2> QED
    BY <2>1 DEF Rooms, Room
<1>6. S = {} /\ S \in SUBSET {"coe", "foe"}
  BY <1>0, <1>2
<1> HIDE DEF x, n, S
<1>7. CASE "coe" \notin m.stored
  <2>1. n = x /\ n.stored = {}
    BY <1>0, <1>2, <1>4, <1>7
  <2>2. ToCome(n) = 0 /\ ToCome(m) = 0
    BY <1>7, <2>1 DEF ToCome
  <2>3. Len(n.sq) + ToCome(n) <= Fragments + 2
        /\ Len(n.sq) \in 0 .. Len(m.sq)
    BY <1>0, <1>2, <2>1, <2>2
  <2> QED
    BY <1>2, <2>1, <2>3 DEF n
<1>8. CASE "coe" \in m.stored
  <2>1. /\ Fit(y) /\ Alike(x, y, {"stored"}) /\ Own(y, x.coe, {})
        /\ y.stored = {}
    <3>1. Fit(y) /\ Alike(x, y, {"stored"}) /\ Own(y, x.coe, {})
      BY <1>1, <1>6, StoredFacts DEF Kept
    <3>2. y.stored = S
      BY ONLY <1>1 DEF BoxFields
    <3> QED
      BY <1>6, <3>1, <3>2
  <2> HIDE DEF y
  <2>2. /\ \A f \in AsideFields \cup {"left", "sq", "full", "heap"} :
             y[f] = x[f]
        /\ DOMAIN y = BoxFields
    BY <1>1, <2>1 DEF Alike, AsideFields, BoxFields
  <2>3. /\ y \in Boxes /\ y.running /\ y.coe = None /\ y.left = m.left
        /\ y.sq = x.sq /\ y.heap = x.heap /\ x.coe = None
        /\ \A f \in AsideFields : y[f] = m[f]
    BY <1>1, <1>2, <2>1, <2>2 DEF Kept, Fit, AsideFields
  <2> DEFINE c == ToCome(m)
             l == Len(m.sq)
             k == Len(y.sq)
             e == m.left
  <2>4. /\ c = IF e = 0 THEN Fragments + 1 ELSE e
        /\ e \in 0 .. Fragments /\ l \in Nat /\ k \in Nat /\ k <= l
        /\ l + c <= Fragments + 2
    BY <1>0, <1>2, <1>8, <2>3, UsedTypes DEF ToCome
  <2>5. n = ContinueCoe(y, room)
    BY <1>4, <1>8
  <2>6. CASE ~room
    <3> DEFINE T == y.stored \cup {"coe"}
               z == [y EXCEPT !.stored = T]
    <3>1. n = z
      BY <2>3, <2>5, <2>6 DEF ContinueCoe
    <3>2. /\ z.stored = T /\ z.left = y.left /\ z.sq = y.sq
          /\ \A f \in AsideFields : z[f] = y[f]
      BY ONLY <2>2 DEF AsideFields, BoxFields
    <3>3. "coe" \in T
      OBVIOUS
    <3> HIDE DEF z, T
    <3>4. ToCome(n) = c /\ Len(n.sq) = k
      BY <2>3, <2>4, <3>1, <3>2, <3>3 DEF ToCome
    <3>5. ASSUME NEW a \in Nat, NEW b, a = c, b = k
          PROVE  b + a <= Fragments + 2
      <4> HIDE DEF c, k, l, e
      <4> QED
        BY ONLY <2>4, <3>5, SizeAssumption
    <3>6. c \in Nat
      <4> HIDE DEF c, e
      <4> QED
        BY ONLY <2>4, SizeAssumption
    <3>7. Len(n.sq) + ToCome(n) <= Fragments + 2
      BY <3>4, <3>5, <3>6
    <3> QED
      BY <1>8, <2>3, <3>1, <3>2, <3>7 DEF n
  <2>7. CASE room
    <3> DEFINE b == NextBuffer(y)
               r == Request("list", 0, 0)
               z == Filled(y, b, r)
    <3>1. b \in Buffers /\ b \notin y.heap
      BY <1>5, <2>3, <2>7 DEF Room, NextBuffer
    <3>2. r \in Contents
      BY DEF Request, Contents, AllKinds, Nat0
    <3>3. n = SdoInfo(z, b)
      BY <2>3, <2>5, <2>7 DEF ContinueCoe
    <3> HIDE DEF b, r
    <3>4. /\ Alike(y, z, {"heap", "buf"}) /\ z.heap = y.heap \cup {b}
          /\ \A a \in Buffers \ {b} : z.buf[a] = y.buf[a]
      BY <2>3, <3>1, <3>2, FilledFacts
    <3> HIDE DEF z
    <3>5. Elements(y.rq) \subseteq Buffers \ {b}
      BY <2>1, <2>3, <3>1, LenProperties DEF Elements, Boxes, Own
    <3>6. Fit(z)
      BY <2>1, <2>3, <3>4, <3>5, AlikeFields DEF Fit
    <3>7. /\ z.running /\ z.left = m.left /\ z.sq = y.sq /\ z.stored = {}
          /\ z.full = y.full /\ z \in Boxes
          /\ \A f \in AsideFields : z[f] = y[f]
      <4>1. \A f \in BoxFields \ {"heap", "buf"} : z[f] = y[f]
        BY <2>2, <3>4 DEF Alike
      <4> QED
        BY <2>1, <2>3, <3>4, <4>1 DEF Alike, AsideFields, BoxFields
    <3>8. ~Refused(z)
      <4>1. QueueSize >= Fragments + 3 /\ QueueSize \in Nat
            /\ Fragments \in Nat
        BY DEF QueueSuffices
      <4> HIDE DEF c, l, e, k
      <4>2. k # QueueSize - 1
        BY ONLY <2>4, <4>1
      <4> QED
        BY <3>7, <4>2 DEF Refused, QueueFull, k
    <3>9. /\ Sends(z, n)
          /\ n.left = IF z.left = 0 THEN Fragments ELSE z.left - 1
          /\ n.stored = IF n.left > 0 THEN z.stored \cup {"coe"}
                        ELSE z.stored
      BY <3>1, <3>3, <3>6, <3>7, <3>8, SdoInfoSends
    <3> DEFINE d == n.left
               u == Len(n.sq)
               v == Used(z)
    <3>10. /\ d = IF e = 0 THEN Fragments ELSE e - 1
           /\ u = v /\ v \in Nat /\ v <= k + 1
      <4>1. u = v /\ d = IF e = 0 THEN Fragments ELSE e - 1
        BY <3>7, <3>9 DEF Sends
      <4>2. Len(z.sq) = k /\ v \in Nat /\ v \in {k, k + 1}
        BY <3>7, UsedTypes
      <4> HIDE DEF u, v, d, e, k, c, l
      <4>3. v <= k + 1
        BY ONLY <4>2, <2>4
      <4> QED
        BY ONLY <4>1, <4>2, <4>3
    <3>11. ToCome(n) = d
      <4>1. d \in Nat
        <5> HIDE DEF d, e, c, k, l, u, v
        <5> QED
          BY ONLY <2>4, <3>10, SizeAssumption
      <4>2. CASE d = 0
        BY <3>7, <3>9, <4>2 DEF ToCome
      <4>3. CASE d # 0
        <5>1. d > 0
          BY <4>1, <4>3
        <5>2. "coe" \in n.stored
          BY <3>9, <5>1
        <5> QED
          BY <4>3, <5>2 DEF ToCome
      <4> QED
        BY <4>2, <4>3
    <3>12. u + d <= Fragments + 2
      <4> HIDE DEF c, l, e, k, d, u, v
      <4> QED
        BY ONLY <2>4, <3>10, SizeAssumption
    <3>13. \A f \in AsideFields : n[f] = m[f]
      BY <2>3, <3>7, <3>9 DEF Sends
    <3> QED
      BY <1>8, <3>11, <3>12, <3>13 DEF n
  <2> QED
    BY <2>6, <2>7
<1> QED
  BY <1>7, <1>8

\* A request that waits in SM0 is locked out, ...
LocksOut(m, n) ==
  \A f \in AsideFields \cup {"left", "stored", "sq", "full", "sent"} : n[f] = m[f]

\* ... or it is taken: refused with an error, because it is too long,
\* discarded as one that was taken before, or queued.
TakesOut(m, n) ==
  /\ ~m.full /\ m.stored = {} /\ m.sq = <<>> /\ n.sm0 = Nothing
  /\ n.left = m.left /\ n.stored = {} /\ n.sq = <<>>
  /\ \A f \in {"coe", "dropped", "boot", "running"} : n[f] = m[f]

Refuses(m, n) ==
  /\ m.sm0.kind = "long" /\ n.full
  /\ n.rq = m.rq /\ n.wcount = m.wcount /\ n.served = m.sm0.serial

Discards(m, n) ==
  /\ m.sm0.kind # "long" /\ m.sm0.counter # 0 /\ m.sm0.counter = m.wcount
  /\ ~n.full /\ n.sent = m.sent
  /\ n.rq = m.rq /\ n.wcount = m.wcount /\ n.served = m.served

Queues(m, n) ==
  /\ m.sm0.kind # "long" /\ ~(m.sm0.counter # 0 /\ m.sm0.counter = m.wcount)
  /\ ~n.full /\ n.sent = m.sent
  /\ Len(n.rq) = Len(m.rq) + 1
  /\ n.wcount = m.sm0.counter /\ n.served = m.sm0.serial

LEMMA CheckAndCopyTakes ==
  ASSUME NEW m, Kept(m), m.sm0 # Nothing, ~m.event, Len(m.rq) <= 1, QueueSize >= 3,
         NEW room, room => Room(m)
  PROVE  LET n == CheckAndCopy(m, room)
         IN  \/ LocksOut(m, n)
             \/ TakesOut(m, n) /\ (Refuses(m, n) \/ Discards(m, n) \/ Queues(m, n))
<1> DEFINE n == CheckAndCopy(m, room)
           b == NextBuffer(m)
           f == Filled(m, b, m.sm0)
           k == [f EXCEPT !.locked = FALSE, !.sm0 = Nothing]
           l == [m EXCEPT !.locked = TRUE]
<1>0. /\ Fit(m) /\ m \in Boxes /\ m.running /\ Own(m, m.coe, {})
      /\ ~m.noMemory /\ DOMAIN m = BoxFields
  BY BoxDomain DEF Kept, Fit
<1>1. n = IF Held(m) \/ ~room THEN l ELSE WriteInd(k, b)
  BY <1>0 DEF CheckAndCopy, Locked
<1>2. LocksOut(m, l)
  BY ONLY <1>0 DEF LocksOut, AsideFields, BoxFields
<1> HIDE DEF l, n
<1>3. CASE Held(m) \/ ~room
  BY <1>1, <1>2, <1>3 DEF n
<1>4. CASE ~Held(m) /\ room
  <2>1. /\ b \in Buffers /\ b \notin m.heap /\ m.sm0 \in Contents
        /\ ~m.full /\ m.stored = {} /\ m.sq = <<>>
    BY <1>0, <1>4 DEF Room, NextBuffer, Boxes, Held, Fit
  <2> HIDE DEF b
  <2>2. /\ Alike(m, f, {"heap", "buf"}) /\ f \in Boxes /\ DOMAIN f = BoxFields
        /\ f.buf[b] = m.sm0
        /\ \A a \in Buffers \ {b} : f.buf[a] = m.buf[a]
    BY <1>0, <2>1, FilledFacts DEF Alike
  <2> HIDE DEF f
  <2>3. k \in Boxes
    BY ONLY <2>2 DEF Boxes
  <2>4. /\ k.sm0 = Nothing /\ k.buf = f.buf /\ k.locked = FALSE
        /\ \A g \in BoxFields \ {"sm0", "locked"} : k[g] = f[g]
        /\ DOMAIN k = BoxFields
    BY ONLY <2>2 DEF BoxFields
  <2> HIDE DEF k
  <2>5. \A g \in BoxFields \ {"sm0", "locked", "heap", "buf"} : k[g] = m[g]
    BY <1>0, <2>2, <2>4 DEF Alike
  <2>6. /\ k.running /\ k.rq = m.rq /\ k.wcount = m.wcount /\ k.full = m.full
        /\ k.stored = m.stored /\ k.sq = m.sq /\ k.left = m.left
        /\ k.sent = m.sent /\ k.served = m.served /\ k.buf[b] = m.sm0
        /\ \A g \in {"coe", "dropped", "boot", "running"} : k[g] = m[g]
        /\ k.rq \in Seq(Buffers)
    BY <1>0, <2>2, <2>3, <2>4, <2>5 DEF BoxFields, Boxes
  <2>7. Fit(k)
    <3>1. Elements(m.rq) \subseteq Buffers \ {b}
      BY <1>0, <2>1, LenProperties DEF Elements, Boxes, Own
    <3>2. \A a \in Elements(m.rq) : k.buf[a] = m.buf[a]
      BY <2>2, <2>4, <3>1
    <3>3. /\ k.read = m.read /\ k.repeat = m.repeat /\ k.store = m.store
          /\ k.event = m.event /\ k.noMemory = m.noMemory /\ k.foe = m.foe
      BY <2>5 DEF BoxFields
    <3> QED
      BY <1>0, <2>3, <2>4, <2>6, <3>2, <3>3 DEF Fit
  <2> DEFINE c == m.sm0.counter
             e == m.sm0.serial
             taken == [k EXCEPT !.served = e]
             new == [taken EXCEPT !.wcount = c]
             queued == [new EXCEPT !.rq = Append(new.rq, b)]
  <2>8. c \in Nat0(Counters) /\ e \in Nat
    BY <2>1 DEF Contents
  <2>9. ~QueueFull(k.rq)
    <3>1. Len(k.rq) \in Nat
      BY <2>6, LenProperties
    <3> QED
      BY <2>6, <3>1 DEF QueueFull
  <2>10. n = IF m.sm0.kind = "long" THEN SendError(taken, b)
             ELSE IF c # 0 /\ c = m.wcount THEN Freed(k, {b})
             ELSE queued
    BY <1>1, <1>4, <2>6, <2>9 DEF WriteInd
  <2> HIDE DEF c, e, n
  <2>11. CASE m.sm0.kind = "long"
    <3>1. Alike(k, taken, {"served"}) /\ taken.served = e
      <4>1. taken \in Boxes
        BY ONLY <2>3, <2>8 DEF Boxes
      <4>2. taken.served = e /\ DOMAIN taken = DOMAIN k
            /\ \A g \in DOMAIN k \ {"served"} : taken[g] = k[g]
        BY ONLY <2>4 DEF BoxFields
      <4> QED
        BY ONLY <4>1, <4>2 DEF Alike
    <3> HIDE DEF taken
    <3>2. /\ taken.running /\ taken.full = k.full /\ taken.sq = k.sq
          /\ taken.stored = k.stored /\ taken.left = k.left
          /\ taken \in Boxes /\ taken.rq = k.rq /\ taken.wcount = k.wcount
          /\ taken.sm0 = k.sm0
          /\ \A g \in {"coe", "dropped", "boot", "running"} : taken[g] = k[g]
      BY <2>3, <2>4, <2>6, <3>1 DEF Alike, BoxFields
    <3>3. Fit(taken)
      BY <2>3, <2>7, <3>1, AlikeFields DEF Fit
    <3>4. SendsBeside(taken, n, taken.stored)
      BY <2>1, <2>6, <2>10, <2>11, <3>2, <3>3, SendErrorSends DEF Refused
    <3>5. n.sq = <<>>
      <4>1. Taken(m, n)
        BY CheckAndCopyFacts DEF n
      <4> QED
        BY <2>1, <4>1 DEF Taken
    <3> QED
      BY <2>1, <2>4, <2>6, <2>11, <3>1, <3>2, <3>4, <3>5
         DEF SendsBeside, Sends, AsideFields, TakesOut, Refuses, n, e
  <2>12. CASE m.sm0.kind # "long" /\ c # 0 /\ c = m.wcount
    <3>1. n = Freed(k, {b})
      BY <2>10, <2>12
    <3>2. \A g \in BoxFields \ {"heap", "buf"} : n[g] = k[g]
      BY <2>3, <2>4, <3>1, FreedFacts DEF Alike
    <3> QED
      BY <2>1, <2>4, <2>6, <2>12, <3>2
         DEF BoxFields, TakesOut, Discards, n, c
  <2>13. CASE m.sm0.kind # "long" /\ ~(c # 0 /\ c = m.wcount)
    <3>1. n = queued
      BY <2>10, <2>13
    <3>2. /\ queued.rq = Append(k.rq, b) /\ queued.wcount = c
          /\ queued.served = e
          /\ \A g \in BoxFields \ {"rq", "wcount", "served"} : queued[g] = k[g]
      BY ONLY <2>4 DEF BoxFields
    <3> HIDE DEF queued
    <3>3. Len(n.rq) = Len(m.rq) + 1
      BY <2>1, <2>6, <3>1, <3>2, AppendElements
    <3> QED
      BY <2>1, <2>4, <2>6, <2>13, <3>1, <3>2, <3>3
         DEF BoxFields, TakesOut, Queues, n, c, e
  <2> QED
    BY <2>11, <2>12, <2>13
<1> QED
  BY <1>3, <1>4

LEMMA MainAmple ==
  ASSUME NEW m \in Boxes, NEW at, NEW ma, Ample(m, at, ma),
         m.rq = <<>> \/ (Len(m.rq) = 1 /\ m.sq = <<>>)
  PROVE  Ample(m, "main", ma)
<1>1. ASSUME Len(m.rq) = 1, m.sq = <<>>
      PROVE  Len(m.rq) + Used(m) <= 2
  <2>1. Used(m) \in {0, 1}
    BY <1>1, LengthFacts, UsedTypes
  <2> QED
    BY ONLY <1>1, <2>1
<1> QED
  BY <1>1 DEF Ample, Fill

LEMMA LocksOutAmple ==
  ASSUME NEW m, NEW n, LocksOut(m, n), NEW at, NEW ma, Ample(m, at, ma)
  PROVE  Ample(n, at, ma)
  BY SameAmple DEF LocksOut, AmpleFields

\* A request that is taken finds nothing on the way.
LEMMA TakesAmple ==
  ASSUME NEW m \in Boxes, NEW n \in Boxes, NEW at, NEW ma, Ample(m, at, ma),
         m.sm0 # Nothing, m.running, Len(m.rq) <= 1,
         TakesOut(m, n), Refuses(m, n) \/ Discards(m, n) \/ Queues(m, n),
         NEW there
  PROVE  Ample(n, there, ma)
<1>1. /\ n.coe = m.coe /\ n.dropped = m.dropped /\ n.boot = m.boot
      /\ n.running = m.running /\ n.stored = {} /\ n.sq = <<>>
      /\ n.sm0 = Nothing /\ ~m.full
  BY DEF TakesOut
<1>2. Fill(n, there)
  <2>1. ToCome(n) = 0 /\ Len(n.sq) = 0
    BY <1>1, LengthFacts DEF ToCome
  <2>2. /\ Len(m.rq) \in Nat /\ Len(n.rq) \in Nat
        /\ n.full => Used(n) = 1
        /\ ~n.full => Used(n) = 0
    BY <2>1, LengthFacts, UsedTypes
  <2>3. Len(n.rq) + Used(n) <= 2
    <3>1. CASE Refuses(m, n)
      <4>1. Len(n.rq) = Len(m.rq) /\ Used(n) = 1
        BY <2>2, <3>1 DEF Refuses
      <4> QED
        BY <2>2, <4>1
    <3>2. CASE Discards(m, n)
      <4>1. Len(n.rq) = Len(m.rq) /\ Used(n) = 0
        BY <2>2, <3>2 DEF Discards
      <4> QED
        BY <2>2, <4>1
    <3>3. CASE Queues(m, n)
      <4>1. Len(n.rq) = Len(m.rq) + 1 /\ Used(n) = 0
        BY <2>2, <3>3 DEF Queues
      <4> QED
        BY <2>2, <4>1
    <3> QED
      BY <3>1, <3>2, <3>3
  <2>4. Len(n.sq) + ToCome(n) <= Fragments + 2
    BY <2>1
  <2> QED
    BY <1>1, <2>3, <2>4 DEF Ample, Fill
<1>3. m.sm0.counter = ma.counter /\ ma.counter # 0
      /\ (ma.kind # "none" => m.sm0.kind = ma.kind)
  BY DEF Ample, LastRequest
<1>4. Alone(n, ma)
  <2> SUFFICES ASSUME m.boot PROVE Alone(n, ma)
    BY <1>1 DEF Alone
  <2>1. /\ m.rq # <<>> =>
             /\ Len(m.rq) = 1 /\ m.sent = ma.got
             /\ ma.kind # "long" /\ m.sm0.kind # "long"
        /\ m.sm0.kind # "long" /\ m.sm0.counter # m.wcount
             => NoWait(m, ma)
    BY DEF Ample, Alone
  <2>2. CASE Refuses(m, n)
    <3>1. n.rq = <<>> /\ ma.kind \in {"none", "long"}
      BY <1>3, <2>1, <2>2 DEF Refuses
    <3> QED
      BY <1>1, <3>1 DEF Alone
  <2>3. CASE Discards(m, n)
    BY <1>1, <1>3, <2>1, <2>3 DEF Discards, Alone
  <2>4. CASE Queues(m, n)
    <3>1. m.rq = <<>> /\ m.sent = ma.got
      BY <1>3, <2>1, <2>4 DEF Queues, NoWait
    <3>2. Len(n.rq) = 1
      BY <2>4, <3>1, LengthFacts DEF Queues
    <3>3. ma.kind # "long" /\ ~n.full /\ n.sent = ma.got
          /\ n.wcount = ma.counter
      BY <1>3, <2>4, <3>1 DEF Queues
    <3> QED
      BY <1>1, <3>2, <3>3 DEF Alone
  <2> QED
    BY <2>2, <2>3, <2>4
<1>5. LastRequest(n, ma)
  BY <1>1, <1>3 DEF LastRequest
<1> QED
  BY <1>1, <1>2, <1>4, <1>5 DEF Ample

\* What MBX_CheckAndCopyMailbox does to a request, called by MBX_Main for one
\* that was locked out, or by the event of a write.
Checked ==
  \/ LocksOut(box, box')
  \/ TakesOut(box, box') /\ (Refuses(box, box') \/ Discards(box, box')
                               \/ Queues(box, box'))

LEMMA UnlockChecks ==
  ASSUME HeapSuffices, OrderInv, Unlock, box.locked
  PROVE  /\ box.sm0 # Nothing /\ box.running /\ Len(box.rq) <= 1
         /\ box' \in Boxes /\ Checked
<1>1. box.rq = <<>>
  BY DEF Unlock, Goto
<1>2. PICK room \in Rooms(box) : box' = CheckAndCopy(box, room)
  BY DEF Unlock
<1>3. /\ Kept(box) /\ box.sm0 # Nothing /\ (room => Room(box))
      /\ ~box.event /\ box.running
  BY Given DEF Fit, Rooms, Kept
<1>4. Len(box.rq) <= 1 /\ QueueSize >= 3
  BY <1>1, Given, LengthFacts DEF HeapSuffices
<1>5. Checked
  BY <1>2, <1>3, <1>4, CheckAndCopyTakes DEF Checked
<1>6. box' \in Boxes
  BY <1>2, <1>3, <1>4, CheckAndCopyFacts DEF Taken, Kept, Fit
<1> QED
  BY <1>3, <1>4, <1>5, <1>6

LEMMA WriteChecks ==
  ASSUME HeapSuffices, OrderInv, HandleWrite, box.event
  PROVE  /\ box.sm0 # Nothing /\ box.running /\ Len(box.rq) <= 1
         /\ box' \in Boxes /\ Checked
<1> DEFINE m == [box EXCEPT !.event = FALSE]
<1>1. pc = "write"
  BY DEF HandleWrite, Goto
<1>2. PICK room \in Rooms(box) : box' = CheckAndCopy(m, room)
  BY DEF HandleWrite
<1>3. Alike(box, m, {"event"}) /\ ~m.event
  BY ONLY Given, OrderInv, ZenonT(60) DEF Alike, Boxes
<1>4. \A f \in BoxFields \ {"event"} : m[f] = box[f]
  BY ONLY Given, OrderInv DEF BoxFields
<1> HIDE DEF m
<1>5. /\ m.running = box.running /\ m.sm0 = box.sm0 /\ m.heap = box.heap
      /\ m.rq = box.rq /\ m \in Boxes
  BY <1>3, Given, AlikeFields
<1>6. Fit(m) /\ Own(m, m.coe, {})
  BY <1>3, Given, AlikeFields DEF Fit, Own, Sent
<1>7. box.running /\ box.sm0 # Nothing /\ (room => Room(m))
  BY <1>1, <1>5, Given DEF Turns, Fit, Rooms, Room
<1>8. Kept(m)
  BY <1>5, <1>6, <1>7 DEF Kept
<1>9. Len(box.rq) <= 1 /\ QueueSize >= 3
  <2>1. box.rq = <<>> \/ Len(box.rq) = 1
    BY <1>1, Given DEF Turns
  <2>2. Len(box.rq) \in {0, 1}
    BY <2>1, Given, LengthFacts
  <2>3. \A i \in {0, 1} : i <= 1
    OBVIOUS
  <2> QED
    BY <2>2, <2>3 DEF HeapSuffices
<1>10. \/ LocksOut(m, box')
       \/ TakesOut(m, box') /\ (Refuses(m, box') \/ Discards(m, box')
                                  \/ Queues(m, box'))
  BY <1>2, <1>3, <1>5, <1>7, <1>8, <1>9, CheckAndCopyTakes
<1>11. box' \in Boxes
  BY <1>2, <1>3, <1>5, <1>7, <1>8, <1>9, CheckAndCopyFacts DEF Taken, Kept, Fit
<1>12. \A f \in AsideFields \cup {"left", "stored", "sq", "full", "sent"} :
         m[f] = box[f]
  BY <1>4 DEF AsideFields, BoxFields
<1>13. Checked
  <2>1. CASE LocksOut(m, box')
    BY <1>12, <2>1 DEF LocksOut, Checked
  <2>2. CASE ~LocksOut(m, box')
    <3>1. TakesOut(box, box')
      BY <1>10, <1>12, <2>2 DEF TakesOut, AsideFields
    <3>2. Refuses(m, box') => Refuses(box, box')
      BY <1>12 DEF Refuses, AsideFields
    <3>3. Discards(m, box') => Discards(box, box')
      BY <1>12 DEF Discards, AsideFields
    <3>4. Queues(m, box') => Queues(box, box')
      BY <1>12 DEF Queues, AsideFields
    <3> QED
      BY <1>10, <2>2, <3>1, <3>2, <3>3, <3>4 DEF Checked
  <2> QED
    BY <2>1, <2>2
<1> QED
  BY <1>7, <1>9, <1>11, <1>13

LEMMA UnlockAmple ==
  ASSUME HeapSuffices, AmpleInv, Unlock
  PROVE  Ample(box', pc', master')
<1>0. OrderInv /\ Ample(box, pc, master)
  BY DEF AmpleInv
<1>1. pc' = "status" /\ master' = master
  BY DEF Unlock, Goto
<1>2. Ample(box, "status", master)
  BY <1>0, ElsewhereAmple
<1>3. CASE ~box.locked
  BY <1>1, <1>2, <1>3 DEF Unlock
<1>4. CASE box.locked
  BY <1>0, <1>1, <1>2, <1>4, Given, UnlockChecks, LocksOutAmple, TakesAmple
     DEF Checked
<1> QED
  BY <1>3, <1>4

LEMMA HandleWriteAmple ==
  ASSUME HeapSuffices, AmpleInv, HandleWrite
  PROVE  Ample(box', pc', master')
<1>0. OrderInv /\ Ample(box, pc, master)
  BY DEF AmpleInv
<1>1. pc = "write" /\ pc' = "main" /\ master' = master
  BY DEF HandleWrite, Goto
<1>2. Ample(box, "main", master)
  <2>1. box.rq = <<>> \/ (Len(box.rq) = 1 /\ box.sq = <<>>)
    BY <1>0, <1>1, Given DEF Turns
  <2> QED
    BY <1>0, <2>1, Given, MainAmple
<1>3. CASE ~box.event
  BY <1>1, <1>2, <1>3 DEF HandleWrite
<1>4. CASE box.event
  BY <1>0, <1>1, <1>2, <1>4, Given, WriteChecks, LocksOutAmple, TakesAmple
     DEF Checked
<1> QED
  BY <1>3, <1>4

LEMMA HandleReadAmple ==
  ASSUME HeapSuffices, QueueSuffices, AmpleInv, HandleRead
  PROVE  Ample(box', pc', master')
<1>0. OrderInv /\ Ample(box, pc, master)
  BY DEF AmpleInv
<1>1. pc = "read" /\ pc' = "repeat" /\ master' = master
  BY DEF HandleRead, Goto
<1>2. PICK room \in Rooms(Freed(box, Outdated(box))) :
        box' = IF ~seen.full /\ box.full THEN ReadInd(box, room) ELSE box
  BY DEF HandleRead
<1>3. CASE ~(~seen.full /\ box.full)
  BY <1>0, <1>1, <1>2, <1>3, ElsewhereAmple
<1>4. CASE ~seen.full /\ box.full
  <2> DEFINE n == ReadInd(box, room)
  <2>1. /\ Kept(box) /\ Driven(box) /\ box.coe = None /\ box.rq = <<>>
        /\ Len(box.sq) + ToCome(box) <= Fragments + 2
    BY <1>0, <1>1, <1>4, Given DEF Turns, Kept, Ample, Fill
  <2>2. /\ \A f \in AsideFields : n[f] = box[f]
        /\ Len(n.sq) + ToCome(n) <= Fragments + 2
        /\ box.stored = {} => /\ n.stored = {} /\ n.sent = box.sent
                             /\ Len(n.sq) \in 0 .. Len(box.sq)
    BY <1>4, <2>1, ReadIndBeside
  <2>3. n \in Boxes
    BY <1>4, <2>1, ReadIndFacts DEF Kept, Fit
  <2>4. box' = n
    BY <1>2, <1>4
  <2> HIDE DEF n
  <2>5. /\ n.coe = box.coe /\ n.dropped = box.dropped /\ n.rq = box.rq
        /\ n.wcount = box.wcount /\ n.sm0 = box.sm0 /\ n.boot = box.boot
        /\ n.running = box.running
    BY <2>2 DEF AsideFields
  <2>6. Fill(n, "repeat")
    BY <2>1, <2>2, <2>5 DEF Fill
  <2>7. Alone(n, master)
    <3> SUFFICES ASSUME box.boot PROVE Alone(n, master)
      BY <2>5 DEF Alone
    <3>1. box.stored = {} /\ box.sq = <<>>
      BY <1>0 DEF Ample, Alone
    <3>2. n.stored = {} /\ n.sent = box.sent /\ n.sq = <<>>
      <4>1. Len(box.sq) = 0
        BY <1>0, <3>1, Given, LengthFacts
      <4>2. Len(n.sq) = 0
        BY <2>2, <3>1, <4>1
      <4> QED
        BY <2>2, <2>3, <3>1, <4>2, LengthFacts
    <3> QED
      BY <1>0, <2>1, <2>5, <3>1, <3>2 DEF Ample, Alone, NoWait
  <2>8. LastRequest(n, master)
    BY <1>0, <2>5 DEF Ample, LastRequest
  <2> QED
    BY <1>0, <1>1, <2>4, <2>5, <2>6, <2>7, <2>8 DEF Ample
<1> QED
  BY <1>3, <1>4

LEMMA HandleRepeatAmple ==
  ASSUME AmpleInv, HandleRepeat
  PROVE  Ample(box', pc', master')
<1>0. OrderInv /\ Ample(box, pc, master)
  BY DEF AmpleInv
<1>1. /\ pc = "repeat" /\ pc' = "write" /\ master' = master
      /\ box' = IF seen.repeat # box.toggle
                THEN [RepeatReq(box) EXCEPT !.ack = ~box.toggle] ELSE box
  BY DEF HandleRepeat, Goto
<1>2. CASE seen.repeat = box.toggle
  BY <1>0, <1>1, <1>2, ElsewhereAmple
<1>3. CASE seen.repeat # box.toggle
  <2> DEFINE ack == ~box.toggle
  <2>1. /\ box.running /\ Pending(box, master)
        /\ Noticed(box, master.got + 1)
    BY <1>0, <1>1, <1>3, Given DEF Sees
  <2>2. box' = [RepeatReq(box) EXCEPT !.ack = ack]
    BY <1>1, <1>3
  <2>3. Kept(box)
    BY <1>0, <2>1, Given DEF Kept
  <2>4. ack = ~box.toggle /\ ack \in BOOLEAN
    BY <1>0, Given
  <2> HIDE DEF ack
  <2>5. /\ Link(box', master) /\ box'.sent = box.sent
        /\ \A f \in AsideFields \cup {"left", "stored", "sq", "sent"} :
             box'[f] = box[f]
        /\ box'.toggle = ~box.toggle
    BY <1>0, <2>1, <2>2, <2>3, <2>4, Given, RepeatReqLine
  <2>6. /\ box'.coe = box.coe /\ box'.dropped = box.dropped
        /\ box'.rq = box.rq /\ box'.wcount = box.wcount
        /\ box'.sm0 = box.sm0 /\ box'.boot = box.boot
        /\ box'.running = box.running /\ box'.left = box.left
        /\ box'.stored = box.stored /\ box'.sq = box.sq
    BY <2>5 DEF AsideFields
  <2>7. box' \in Boxes
    BY <2>2, <2>3, <2>4, RepeatReqFacts DEF Kept, Fit
  <2>8. master.got < box.sent
    <3>1. Front(box') = master.got + 1
      <4>1. master.repeat = "asked" /\ master.bit = box'.toggle
        BY <1>0, <2>1, <2>5, Given DEF Pending
      <4> QED
        BY <2>5, <4>1 DEF Link
    <3> DEFINE l == Len(box'.sq)
               w == IF box'.store = None THEN 0 ELSE 1
               s == box.sent
               g == master.got
    <3>2. /\ l \in Nat /\ w \in {0, 1} /\ s \in Nat /\ g \in Nat
          /\ s - l - w = g + 1
      BY <1>0, <2>5, <2>7, <3>1, Given, LengthFacts DEF Front
    <3> HIDE DEF l, w, s, g
    <3>3. g < s
      BY ONLY <3>2
    <3> QED
      BY <3>3 DEF g, s
  <2>9. Fill(box', "write")
    BY <1>0, <2>6 DEF Ample, Fill, ToCome
  <2>10. ~NoWait(box, master) /\ box.sent # master.got
    BY <1>0, <2>8, Given DEF NoWait
  <2>11. Alone(box', master)
    BY <1>0, <2>6, <2>10 DEF Ample, Alone
  <2>12. LastRequest(box', master)
    BY <1>0, <2>6 DEF Ample, LastRequest
  <2> QED
    BY <1>0, <1>1, <2>6, <2>9, <2>11, <2>12 DEF Ample
<1> QED
  BY <1>2, <1>3

LEMMA StopAmple ==
  ASSUME AmpleInv, StopMailbox
  PROVE  Ample(box', pc', master')
<1>0. OrderInv /\ Ample(box, pc, master)
  BY DEF AmpleInv
<1>1. /\ box' = Stopped(box) /\ pc' = "main"
      /\ master' = [Restarted(master) EXCEPT !.stops = @ + 1]
  BY DEF StopMailbox, Goto
<1>2. /\ master'.repeat = "no" /\ master'.bit = FALSE /\ master'.got = 0
      /\ master'.last = 0 /\ master'.kind = "none"
  BY ONLY <1>1, Given, <1>0 DEF Restarted
<1>3. /\ ~box'.running /\ box'.stored = {} /\ box'.rq = <<>> /\ box'.sq = <<>>
      /\ box'.sm0 = Nothing /\ ~box'.boot /\ box'.coe = box.coe
      /\ box'.dropped = box.dropped
  BY <1>0, <1>1, <1>2, Given, StoppedLine
<1>4. Fill(box', "main")
  <2>1. ToCome(box') = 0 /\ Len(box'.sq) = 0
    BY <1>3 DEF ToCome
  <2>2. Len(box'.sq) + ToCome(box') <= Fragments + 2
    BY <2>1
  <2> QED
    BY <1>0, <1>3, <2>2 DEF Ample, Fill
<1> QED
  BY <1>0, <1>1, <1>2, <1>3, <1>4 DEF Ample, Alone, LastRequest

LEMMA StartAmple ==
  ASSUME AmpleInv, StartMailbox
  PROVE  Ample(box', pc', master')
<1>0. OrderInv /\ Ample(box, pc, master)
  BY DEF AmpleInv
<1>1. PICK start \in Starts, room \in Rooms(box) :
        box' = Started(box, start = "boot", room)
  BY DEF StartMailbox
<1>2. ~box.running /\ pc' = "read" /\ master' = master
  BY DEF StartMailbox, Goto
<1>3. /\ box'.running /\ box'.stored = box.stored /\ box'.rq = box.rq
      /\ box'.sq = box.sq /\ box'.full = box.full /\ box'.sm0 = box.sm0
      /\ box'.coe = box.coe /\ box'.dropped = box.dropped
  BY <1>0, <1>1, <1>2, Given, StartedLine
<1>4. /\ box.rq = <<>> /\ ~box.full /\ box.sq = <<>> /\ box.sm0 = Nothing
      /\ box.stored = {} /\ master.kind = "none"
  BY <1>0, <1>2, Given DEF Fit, Driven, Ample, LastRequest
<1>5. Fill(box', "read")
  <2>1. ToCome(box') = 0 /\ Len(box'.sq) = 0
    BY <1>3, <1>4 DEF ToCome
  <2>2. Len(box'.sq) + ToCome(box') <= Fragments + 2
    BY <2>1
  <2> QED
    BY <1>0, <1>3, <2>2 DEF Ample, Fill
<1> QED
  BY <1>0, <1>2, <1>3, <1>4, <1>5 DEF Ample, Alone, LastRequest

LEMMA StillAmple ==
  ASSUME AmpleInv, ReadStatus \/ KeepMailbox \/ UNCHANGED vars
  PROVE  Ample(box', pc', master')
<1>0. OrderInv /\ Ample(box, pc, master)
  BY DEF AmpleInv
<1>1. CASE ReadStatus
  BY <1>0, <1>1, ElsewhereAmple DEF ReadStatus, Goto
<1>2. CASE KeepMailbox
  <2>1. ~box.running => box.rq = <<>>
    BY <1>0, Given DEF Fit
  <2> QED
    BY <1>0, <1>2, <2>1, ElsewhereAmple DEF KeepMailbox
<1>3. CASE UNCHANGED vars
  BY <1>0, <1>3 DEF vars
<1> QED
  BY <1>1, <1>2, <1>3

\* The master writes its next request, or believes that it does; or it writes
\* the last one once more.
Writes(counter, kind) ==
  /\ \/ /\ box' = Posted(Request(kind, counter, master.requests + 1))
        /\ master'.losses = master.losses
     \/ box' = box /\ master'.losses = master.losses + 1
  /\ kind \in Kinds /\ counter = (master.counter % Counters) + 1
  /\ master'.counter = counter /\ master'.kind = kind
  /\ master'.requests = master.requests + 1
  /\ (IF box.boot THEN "boot" ELSE "preop") \in Pipelined \/ Answered

Rewrites ==
  /\ box' = Posted(Request(master.kind, master.counter, master.requests))
  /\ master.kind # "none" /\ master'.kind = "none"
  /\ master'.counter = master.counter /\ master'.requests = master.requests
  /\ master'.losses = master.losses + 1

LEMMA WritesOrRewrites ==
  ASSUME OrderInv, MasterWrites \/ MasterLosesWrite \/ MasterRewrites
  PROVE  /\ pc' = pc /\ master'.got = master.got
         /\ box.running /\ box.sm0 = Nothing
         /\ (\E counter, kind : Writes(counter, kind)) \/ Rewrites
<1>0. DOMAIN master = {"bit", "repeat", "last", "got", "counter", "kind",
                       "requests", "losses", "stops"}
  BY Given
<1>1. ASSUME NEW arrives \in BOOLEAN, MasterSends(arrives)
      PROVE  /\ pc' = pc /\ master'.got = master.got
             /\ box.running /\ box.sm0 = Nothing
             /\ \E counter, kind : Writes(counter, kind)
  <2> DEFINE c == (master.counter % Counters) + 1
             r == master.requests + 1
             l == IF arrives THEN master.losses ELSE master.losses + 1
  <2>1. PICK kind \in Kinds :
          /\ box' = IF arrives THEN Posted(Request(kind, c, r)) ELSE box
          /\ master' = [master EXCEPT !.counter = c, !.kind = kind,
                                      !.requests = r, !.losses = l]
    BY <1>1 DEF MasterSends
  <2>2. /\ pc' = pc /\ box.running /\ box.sm0 = Nothing
        /\ (IF box.boot THEN "boot" ELSE "preop") \in Pipelined \/ Answered
    BY <1>1 DEF MasterSends
  <2> HIDE DEF c, r, l
  <2>3. /\ master'.counter = c /\ master'.kind = kind /\ master'.requests = r
        /\ master'.got = master.got /\ master'.losses = l
    BY ONLY <1>0, <2>1
  <2>4. Writes(c, kind)
    BY <2>1, <2>2, <2>3 DEF Writes, c, r, l
  <2> QED
    BY <2>2, <2>3, <2>4
<1>2. ASSUME MasterRewrites
      PROVE  /\ pc' = pc /\ master'.got = master.got
             /\ box.running /\ box.sm0 = Nothing /\ Rewrites
  <2>1. /\ pc' = pc /\ box.running /\ box.sm0 = Nothing
        /\ master.kind # "none"
        /\ box' = Posted(Request(master.kind, master.counter, master.requests))
        /\ master' = [master EXCEPT !.kind = "none",
                                    !.losses = master.losses + 1]
    BY <1>2 DEF MasterRewrites
  <2>2. /\ master'.kind = "none" /\ master'.got = master.got
        /\ master'.counter = master.counter
        /\ master'.requests = master.requests
        /\ master'.losses = master.losses + 1
    BY ONLY <1>0, <2>1
  <2> QED
    BY <2>1, <2>2 DEF Rewrites
<1> QED
  BY <1>1, <1>2 DEF MasterWrites, MasterLosesWrite

\* What the master writes changes SM0 only.
LEMMA PostedBeside ==
  ASSUME OrderInv, NEW kind, NEW counter, NEW serial
  PROVE  LET n == Posted(Request(kind, counter, serial))
         IN  /\ n.sm0.kind = kind /\ n.sm0.counter = counter
             /\ n.sm0.serial = serial
             /\ n.sm0 # Nothing
             /\ \A f \in BoxFields \ {"sm0", "event"} : n[f] = box[f]
<1> DEFINE c == Request(kind, counter, serial)
           n == Posted(c)
<1>1. /\ c.kind = kind /\ c.counter = counter /\ c.serial = serial
      /\ c # Nothing
  BY DEF Request, Nothing
<1> HIDE DEF c
<1>2. n.sm0 = c /\ \A f \in BoxFields \ {"sm0", "event"} : n[f] = box[f]
  BY ONLY Given, OrderInv DEF Posted, BoxFields
<1> QED
  BY <1>1, <1>2 DEF c

LEMMA WritesAmple ==
  ASSUME QueueSuffices, AmpleInv,
         MasterWrites \/ MasterLosesWrite \/ MasterRewrites
  PROVE  Ample(box', pc', master')
<1>0. OrderInv /\ Ample(box, pc, master)
  BY DEF AmpleInv
<1>1. /\ pc' = pc /\ master'.got = master.got
      /\ box.running /\ box.sm0 = Nothing
      /\ (\E counter, kind : Writes(counter, kind)) \/ Rewrites
  BY <1>0, WritesOrRewrites
<1>2. ASSUME NEW n, \A f \in BoxFields \ {"sm0", "event"} : n[f] = box[f]
      PROVE  /\ n.coe = box.coe /\ n.dropped = box.dropped /\ n.rq = box.rq
             /\ n.wcount = box.wcount /\ n.boot = box.boot
             /\ n.running = box.running /\ n.stored = box.stored
             /\ n.sq = box.sq /\ n.full = box.full /\ n.sent = box.sent
             /\ Fill(n, pc)
  <2>1. /\ n.coe = box.coe /\ n.dropped = box.dropped /\ n.rq = box.rq
        /\ n.wcount = box.wcount /\ n.boot = box.boot
        /\ n.running = box.running /\ n.stored = box.stored
        /\ n.sq = box.sq /\ n.full = box.full /\ n.sent = box.sent
        /\ n.left = box.left
    BY <1>2 DEF BoxFields
  <2> QED
    BY <1>0, <2>1 DEF Ample, Fill, Used, ToCome
<1>3. ASSUME NEW counter, NEW kind, Writes(counter, kind)
      PROVE  Ample(box', pc', master')
  <2>1. /\ counter # 0 /\ master'.counter = counter /\ master'.kind = kind
        /\ kind # "none"
    <3>1. master.counter \in Nat
      BY <1>0, Given DEF Masters, Nat0
    <3>2. (master.counter % Counters) \in 0 .. Counters - 1
      BY <3>1, Remainder
    <3>3. counter # 0 /\ kind \in Kinds
      BY <1>3, <3>2 DEF Writes
    <3> QED
      BY <1>3, <3>3, KindAssumption DEF Writes, AllKinds
  <2>2. box.boot => NoWait(box, master)
    BY <1>3 DEF Writes, QueueSuffices, Answered, NoWait
  <2>3. box.boot => box.stored = {} /\ box.sq = <<>>
    BY <1>0 DEF Ample, Alone
  <2>4. CASE box' = Posted(Request(kind, counter, master.requests + 1))
    <3>1. /\ box'.sm0.kind = kind /\ box'.sm0.counter = counter
          /\ box'.sm0 # Nothing
          /\ \A f \in BoxFields \ {"sm0", "event"} : box'[f] = box[f]
      BY <1>0, <2>4, PostedBeside
    <3>2. /\ box'.dropped = box.dropped /\ box'.rq = box.rq
          /\ box'.boot = box.boot
          /\ box'.running = box.running /\ box'.stored = box.stored
          /\ box'.sq = box.sq /\ box'.sent = box.sent /\ Fill(box', pc)
      BY <1>2, <3>1
    <3>3. Alone(box', master')
      BY <1>1, <2>2, <2>3, <3>1, <3>2 DEF Alone, NoWait
    <3>4. LastRequest(box', master')
      BY <1>1, <2>1, <3>1, <3>2 DEF LastRequest
    <3> QED
      BY <1>0, <1>1, <3>2, <3>3, <3>4 DEF Ample
  <2>5. CASE box' = box
    <3>1. Alone(box, master')
      BY <1>1, <2>2, <2>3 DEF Alone, NoWait
    <3>2. LastRequest(box, master')
      BY <1>1, <2>1 DEF LastRequest
    <3> QED
      BY <1>0, <1>1, <2>5, <3>1, <3>2 DEF Ample
  <2> QED
    BY <1>3, <2>4, <2>5 DEF Writes
<1>4. CASE Rewrites
  <2> DEFINE kind == master.kind
             counter == master.counter
  <2>1. /\ box' = Posted(Request(kind, counter, master.requests))
        /\ kind # "none" /\ master'.kind = "none"
        /\ master'.counter = counter
    BY <1>4 DEF Rewrites
  <2>2. /\ box'.sm0.kind = kind /\ box'.sm0.counter = counter
        /\ box'.sm0 # Nothing
        /\ \A f \in BoxFields \ {"sm0", "event"} : box'[f] = box[f]
    BY <1>0, <2>1, PostedBeside
  <2>3. /\ box'.dropped = box.dropped /\ box'.rq = box.rq
        /\ box'.boot = box.boot /\ box'.wcount = box.wcount
        /\ box'.running = box.running /\ box'.stored = box.stored
        /\ box'.sq = box.sq /\ box'.full = box.full
        /\ box'.sent = box.sent /\ Fill(box', pc)
    BY <1>2, <2>2
  <2>4. Alone(box', master')
    <3> SUFFICES ASSUME box.boot PROVE Alone(box', master')
      BY <2>3 DEF Alone
    <3>1. /\ box.stored = {} /\ box.sq = <<>>
          /\ box.rq # <<>> => /\ Len(box.rq) = 1 /\ ~box.full
                              /\ box.sent = master.got /\ kind # "long"
          /\ kind # "long" /\ counter # box.wcount => NoWait(box, master)
      BY <1>0, <1>1, <2>1 DEF Ample, Alone
    <3> QED
      BY <1>1, <2>1, <2>2, <2>3, <3>1 DEF Alone, NoWait
  <2>5. LastRequest(box', master')
    <3>1. counter # 0
      BY <1>0, <2>1 DEF Ample, LastRequest
    <3> QED
      BY <1>1, <2>1, <2>2, <2>3, <3>1 DEF LastRequest
  <2> QED
    BY <1>0, <1>1, <2>3, <2>4, <2>5 DEF Ample
<1> QED
  BY <1>1, <1>3, <1>4

\* What the master reads is an answer it did not have: nothing else waits for
\* it in BOOT.
LEMMA ReadsAmple ==
  ASSUME AmpleInv, MasterReads \/ MasterLosesRead \/ MasterAsksAgain
  PROVE  Ample(box', pc', master')
<1>0. OrderInv /\ Ample(box, pc, master)
  BY DEF AmpleInv
<1>1. ASSUME NEW n, \A f \in BoxFields \ {"sm1"} : n[f] = box[f],
             pc' = pc, master'.kind = master.kind,
             master'.counter = master.counter,
             master'.got = master.got \/ box.sent # master.got
      PROVE  Ample(n, pc', master')
  <2>1. \A f \in AmpleFields : n[f] = box[f]
    BY <1>1 DEF AmpleFields, AsideFields, BoxFields
  <2>2. Ample(n, pc, master)
    BY <1>0, <2>1, SameAmple
  <2>3. n.sent = box.sent
    BY <2>1 DEF AmpleFields
  <2> QED
    BY <1>1, <2>2, <2>3 DEF Ample, Alone, NoWait, LastRequest
<1>2. CASE MasterReads
  <2>1. /\ MayRead /\ box' = [box EXCEPT !.sm1 = Nothing] /\ pc' = pc
        /\ master' = [master EXCEPT !.repeat = "no", !.got = master.got + 1,
                                    !.last = CounterOf(master.got + 1)]
        /\ master.got < box.sent
    BY <1>0, <1>2, NextAnswer DEF MasterReads
  <2>2. master'.kind = master.kind /\ master'.counter = master.counter
    BY ONLY <2>1, Given, <1>0
  <2>3. \A f \in BoxFields \ {"sm1"} : box'[f] = box[f]
    BY ONLY <2>1, Given, <1>0 DEF BoxFields
  <2>4. box.sent # master.got
    BY <1>0, <2>1, Given
  <2> QED
    BY <1>1, <2>1, <2>2, <2>3, <2>4
<1>3. CASE MasterLosesRead
  <2>1. /\ box' = [box EXCEPT !.sm1 = Nothing] /\ pc' = pc
        /\ master' = [master EXCEPT !.repeat = "wanted",
                                    !.losses = master.losses + 1]
    BY <1>3 DEF MasterLosesRead
  <2>2. /\ master'.kind = master.kind /\ master'.counter = master.counter
        /\ master'.got = master.got
    BY ONLY <2>1, Given, <1>0
  <2>3. \A f \in BoxFields \ {"sm1"} : box'[f] = box[f]
    BY ONLY <2>1, Given, <1>0 DEF BoxFields
  <2> QED
    BY <1>1, <2>1, <2>2, <2>3
<1>4. CASE MasterAsksAgain
  <2>1. /\ box' = box /\ pc' = pc
        /\ master' = [master EXCEPT !.repeat = "asked", !.bit = ~master.bit]
    BY <1>4 DEF MasterAsksAgain
  <2>2. /\ master'.kind = master.kind /\ master'.counter = master.counter
        /\ master'.got = master.got
    BY ONLY <2>1, Given, <1>0
  <2> QED
    BY <1>1, <2>1, <2>2
<1> QED
  BY <1>2, <1>3, <1>4

LEMMA InitialAmple == Init => AmpleInv
<1> SUFFICES ASSUME Init PROVE AmpleInv
  OBVIOUS
<1>1. /\ box.coe = None /\ box.rq = <<>> /\ box.sq = <<>> /\ box.stored = {}
      /\ ~box.dropped /\ ~box.boot /\ ~box.running /\ box.sm0 = Nothing
      /\ master.kind = "none"
  BY DEF Init
<1>2. Fill(box, pc)
  <2>1. ToCome(box) = 0 /\ Len(box.sq) = 0
    BY <1>1 DEF ToCome
  <2>2. Len(box.sq) + ToCome(box) <= Fragments + 2
    BY <2>1
  <2> QED
    BY <1>1, <2>2 DEF Fill
<1> QED
  BY <1>1, <1>2, InitialOrder DEF AmpleInv, Ample, Alone, LastRequest

LEMMA AmpleStep ==
  ASSUME HeapSuffices, QueueSuffices, AmpleInv, [Next]_vars
  PROVE  AmpleInv' /\ [Reliable!Next]_(Reliable!vars)
<1>1. Ample(box', pc', master')
  BY ServeAmple, UnlockAmple, HandleReadAmple, HandleRepeatAmple,
     HandleWriteAmple, StopAmple, StartAmple, StillAmple, WritesAmple,
     ReadsAmple DEF Next, Task, Master
<1>2. ~box'.dropped
  BY <1>1 DEF Ample
<1>3. OrderInv' /\ [Reliable!Next]_(Reliable!vars)
  BY <1>2, OrderStep DEF AmpleInv
<1>4. Ample(box, pc, master)'
  BY <1>1
<1> QED
  BY <1>3, <1>4 DEF AmpleInv

LEMMA AmpleShows ==
  AmpleInv => TypeOK /\ MemoryOwned /\ PendingIsDriven /\ NothingRefused
<1> SUFFICES ASSUME AmpleInv
             PROVE  TypeOK /\ MemoryOwned /\ PendingIsDriven /\ NothingRefused
  OBVIOUS
<1>1. IInv
  BY DEF AmpleInv, OrderInv
<1>2. box.foe = None /\ box.coe = None /\ ~box.dropped
  BY <1>1 DEF IInv, Good, Fit, AmpleInv, Ample, Fill
<1> QED
  BY <1>1, <1>2, InvariantShows DEF NothingRefused

\* With QueueSuffices no queue ever overflows and no answer is kept back or
\* given up, in BOOT or not, whatever the master asks for, loses and repeats:
\* a request is only taken when the answers before it have left the queue
\* (mailbox.c:740).
THEOREM NothingIsRefused ==
  ASSUME HeapSuffices, QueueSuffices
  PROVE  Spec => []NothingRefused
<1>1. Init => AmpleInv
  BY InitialAmple
<1>2. AmpleInv /\ [Next]_vars => AmpleInv'
  BY AmpleStep
<1>3. AmpleInv => NothingRefused
  BY AmpleShows
<1> QED
  BY <1>1, <1>2, <1>3, PTL DEF Spec

\* Then the variables keep their types, every buffer in use has one owner, and
\* a service that waits is driven by a read, without the assumption on the
\* run that BuffersOwned and ServicesDriven make (mailbox.c:45-70, 1008-1016).
THEOREM OwnedAndDriven ==
  ASSUME HeapSuffices, QueueSuffices
  PROVE  Spec => [](TypeOK /\ MemoryOwned /\ PendingIsDriven)
<1>1. Init => AmpleInv
  BY InitialAmple
<1>2. AmpleInv /\ [Next]_vars => AmpleInv'
  BY AmpleStep
<1>3. AmpleInv => TypeOK /\ MemoryOwned /\ PendingIsDriven
  BY AmpleShows
<1> QED
  BY <1>1, <1>2, <1>3, PTL DEF Spec

\* The mailbox implements the reliable one: the master has every answer once
\* and in order, whatever reads are lost and repeated (mailbox.c:633-670).
THEOREM ReliableMailboxImplemented ==
  ASSUME HeapSuffices, QueueSuffices
  PROVE  Spec => ImplementsReliable
<1>1. Init => AmpleInv /\ Reliable!Init
  BY InitialAmple, InitialOrder DEF Reliable!Init
<1>2. AmpleInv /\ [Next]_vars => AmpleInv' /\ [Reliable!Next]_(Reliable!vars)
  BY AmpleStep
<1> QED
  BY <1>1, <1>2, PTL DEF Spec, ImplementsReliable, Reliable!Spec

(***************************************************************************)
(* Requests are told apart by the counter of the last that was taken.      *)
(***************************************************************************)

\* What is in SM0, or may be written there once more, is the last request;
\* when it was taken before, its counter is known.
Once(m, ma) ==
  /\ m.served <= ma.requests
  /\ m.sm0 # Nothing => m.sm0.serial = ma.requests /\ m.sm0.kind \in Kinds
  /\ m.sm0 # Nothing /\ m.sm0.kind # "long" /\ m.served = ma.requests
       => m.wcount = ma.counter
  /\ ma.kind # "none" => ma.kind \in Kinds
  /\ m.sm0 = Nothing /\ ma.kind \notin {"none", "long"}
     /\ m.served = ma.requests
       => m.wcount = ma.counter

\* The master is d requests ahead of the last counter that was kept; those
\* that are too long leave none.
Ahead(m, ma, d) ==
  /\ d < ma.requests /\ ma.requests - m.served <= d
  /\ "long" \notin Kinds => d = ma.requests - m.served
  /\ ma.counter = CounterOf(m.wcount + d)

Gap(m, ma) == m.wcount # 0 => \E d \in Nat : Ahead(m, ma, d)

OnceInv == AmpleInv /\ Once(box, master) /\ Gap(box, master)

LEMMA CountersApart ==
  ASSUME NEW w \in 1 .. Counters, NEW d \in 0 .. Counters - 1,
         CounterOf(w + d) = w
  PROVE  d = 0
<1> DEFINE k == Counters
           e == w + d - 1
           r == e % k
<1>1. k \in Nat \ {0, 1} /\ w \in 1 .. k /\ d \in 0 .. k - 1 /\ e = w + d - 1
  BY SizeAssumption
<1>2. r + 1 = w
  BY DEF CounterOf
<1>3. e \in Nat /\ r = e % k
  BY <1>1
<1> HIDE DEF k, e, r
<1>4. CASE e < k
  <2>1. r = e
    BY ONLY <1>1, <1>3, <1>4
  <2> QED
    BY ONLY <1>1, <1>2, <2>1
<1>5. CASE e >= k
  <2>1. e = k * 1 + (e - k) /\ e - k \in 0 .. k - 1
    BY ONLY <1>1, <1>5
  <2>2. r = e - k
    BY ONLY <1>1, <1>3, <2>1
  <2> QED
    BY ONLY <1>1, <1>2, <2>2
<1> QED
  BY <1>1, <1>3, <1>4, <1>5

LEMMA CountsFrom ==
  ASSUME NEW w \in 1 .. Counters, NEW d \in Nat
  PROVE  /\ CounterOf(w + 0) = w
         /\ CounterOf(w + (d + 1)) = (CounterOf(w + d) % Counters) + 1
<1>1. CounterOf(w + 0) = w
  <2> DEFINE k == Counters
             e == w - 1
  <2>1. k \in Nat \ {0, 1} /\ e \in 0 .. k - 1
    BY SizeAssumption
  <2>2. CounterOf(w + 0) = (e % k) + 1
    BY DEF CounterOf
  <2> HIDE DEF k, e
  <2>3. e % k = e
    BY ONLY <2>1
  <2> QED
    BY <2>2, <2>3 DEF e
<1>2. CounterOf(w + (d + 1)) = (CounterOf(w + d) % Counters) + 1
  <2> DEFINE n == w + d - 1
  <2>1. n \in Nat /\ n + 1 = w + d /\ n + 2 = w + (d + 1)
    OBVIOUS
  <2> HIDE DEF n
  <2> QED
    BY <2>1, CountsOn
<1> QED
  BY <1>1, <1>2

(***************************************************************************)
(* A step keeps the last request, takes it, drops it with the mailbox, or  *)
(* the master writes.                                                      *)
(***************************************************************************)
Stays ==
  /\ \A f \in {"served", "wcount", "sm0"} : box'[f] = box[f]
  /\ Len(box'.rq) <= Len(box.rq)
  /\ \A f \in {"counter", "kind", "requests"} : master'[f] = master[f]
  /\ master'.losses \in {master.losses, master.losses + 1}

Takes ==
  /\ master' = master /\ box.sm0 # Nothing /\ box'.sm0 = Nothing
  /\ Refuses(box, box') \/ Discards(box, box') \/ Queues(box, box')

Drops ==
  /\ ~box'.running /\ box'.sm0 = Nothing /\ box'.rq = <<>>
  /\ box'.wcount = 0 /\ box'.served = box.served
  /\ master'.kind = "none" /\ master'.requests = master.requests

Posts ==
  /\ box.sm0 = Nothing
  /\ \A f \in {"served", "wcount", "rq"} : box'[f] = box[f]
  /\ (\E counter, kind : Writes(counter, kind)) \/ Rewrites

LEMMA AsideStays ==
  ASSUME OrderInv, \A f \in AsideFields : box'[f] = box[f], master' = master
  PROVE  Stays
<1>1. Len(box.rq) \in Nat
  BY Given, LengthFacts
<1> QED
  BY <1>1 DEF AsideFields, Stays

LEMMA RequestMoves ==
  ASSUME HeapSuffices, QueueSuffices, AmpleInv, [Next]_vars
  PROVE  Stays \/ Takes \/ Drops \/ Posts
<1>0. OrderInv /\ Ample(box, pc, master)
  BY DEF AmpleInv
<1>1. CASE Serve
  BY <1>1, ServeAmple DEF Stays, AsideFields
<1>2. CASE Unlock
  <2>1. master' = master
    BY <1>2 DEF Unlock
  <2>2. CASE ~box.locked
    BY <1>0, <1>2, <2>1, <2>2, AsideStays DEF Unlock
  <2>3. CASE box.locked
    BY <1>0, <1>2, <2>1, <2>3, UnlockChecks, AsideStays
       DEF Checked, LocksOut, TakesOut, Takes
  <2> QED
    BY <2>2, <2>3
<1>3. CASE HandleWrite
  <2>1. master' = master
    BY <1>3 DEF HandleWrite
  <2>2. CASE ~box.event
    BY <1>0, <1>3, <2>1, <2>2, AsideStays DEF HandleWrite
  <2>3. CASE box.event
    BY <1>0, <1>3, <2>1, <2>3, WriteChecks, AsideStays
       DEF Checked, LocksOut, TakesOut, Takes
  <2> QED
    BY <2>2, <2>3
<1>4. CASE HandleRead
  <2>1. pc = "read" /\ master' = master
    BY <1>4 DEF HandleRead, Goto
  <2>2. PICK room \in Rooms(Freed(box, Outdated(box))) :
          box' = IF ~seen.full /\ box.full THEN ReadInd(box, room) ELSE box
    BY <1>4 DEF HandleRead
  <2>3. CASE ~(~seen.full /\ box.full)
    BY <1>0, <2>1, <2>2, <2>3, AsideStays
  <2>4. CASE ~seen.full /\ box.full
    <3>1. /\ Kept(box) /\ Driven(box) /\ box.coe = None
          /\ Len(box.sq) + ToCome(box) <= Fragments + 2
      BY <1>0, <2>1, <2>4, Given DEF Turns, Kept, Ample, Fill
    <3>2. \A f \in AsideFields : box'[f] = box[f]
      BY <2>2, <2>4, <3>1, ReadIndBeside
    <3> QED
      BY <1>0, <2>1, <3>2, AsideStays
  <2> QED
    BY <2>3, <2>4
<1>5. CASE HandleRepeat
  <2> DEFINE ack == ~box.toggle
  <2>1. pc = "repeat" /\ master' = master
        /\ box' = IF seen.repeat # box.toggle
                  THEN [RepeatReq(box) EXCEPT !.ack = ack] ELSE box
    BY <1>5 DEF HandleRepeat, Goto
  <2>2. CASE seen.repeat = box.toggle
    BY <1>0, <2>1, <2>2, AsideStays
  <2>3. CASE seen.repeat # box.toggle
    <3>1. /\ Kept(box) /\ Pending(box, master)
          /\ Noticed(box, master.got + 1)
      BY <1>0, <2>1, <2>3, Given DEF Sees, Kept
    <3>2. box' = [RepeatReq(box) EXCEPT !.ack = ack] /\ ack = ~box.toggle
      BY <2>1, <2>3
    <3> HIDE DEF ack
    <3>3. \A f \in AsideFields : box'[f] = box[f]
      BY <1>0, <3>1, <3>2, Given, RepeatReqLine
    <3> QED
      BY <1>0, <2>1, <3>3, AsideStays
  <2> QED
    BY <2>2, <2>3
<1>6. CASE StopMailbox
  <2>1. /\ box' = Stopped(box)
        /\ master' = [Restarted(master) EXCEPT !.stops = @ + 1]
    BY <1>6 DEF StopMailbox
  <2>2. /\ master'.repeat = "no" /\ master'.bit = FALSE /\ master'.got = 0
        /\ master'.last = 0 /\ master'.kind = "none"
        /\ master'.requests = master.requests
    BY ONLY <2>1, Given, <1>0 DEF Restarted
  <2> QED
    BY <1>0, <2>1, <2>2, Given, StoppedLine DEF Drops
<1>7. CASE StartMailbox
  <2>1. PICK start \in Starts, room \in Rooms(box) :
          box' = Started(box, start = "boot", room)
    BY <1>7 DEF StartMailbox
  <2>2. ~box.running /\ master' = master
    BY <1>7 DEF StartMailbox
  <2>3. /\ box'.rq = box.rq /\ box'.sm0 = box.sm0
        /\ box'.wcount = box.wcount /\ box'.served = box.served
    BY <1>0, <2>1, <2>2, Given, StartedLine
  <2>4. Len(box.rq) \in Nat
    BY <1>0, Given, LengthFacts
  <2> QED
    BY <2>2, <2>3, <2>4 DEF Stays
<1>8. CASE ReadStatus \/ KeepMailbox \/ UNCHANGED vars
  BY <1>0, <1>8, AsideStays DEF ReadStatus, KeepMailbox, vars
<1>9. CASE MasterWrites \/ MasterLosesWrite \/ MasterRewrites
  <2>1. /\ box.sm0 = Nothing
        /\ (\E counter, kind : Writes(counter, kind)) \/ Rewrites
    BY <1>0, <1>9, WritesOrRewrites
  <2>2. \A f \in {"served", "wcount", "rq"} : box'[f] = box[f]
    BY <1>0, <2>1, PostedBeside DEF Writes, Rewrites, BoxFields
  <2> QED
    BY <2>1, <2>2 DEF Posts
<1>10. CASE MasterReads \/ MasterLosesRead \/ MasterAsksAgain
  <2>1. box' = [box EXCEPT !.sm1 = Nothing] \/ box' = box
    BY <1>10 DEF MasterReads, MasterLosesRead, MasterAsksAgain
  <2>2. \A f \in AsideFields : box'[f] = box[f]
    BY ONLY <1>0, <2>1, Given DEF AsideFields, BoxFields
  <2>3. Len(box.rq) \in Nat /\ box'.rq = box.rq
    BY <1>0, <2>2, Given, LengthFacts DEF AsideFields
  <2>4. /\ \A f \in {"counter", "kind", "requests"} : master'[f] = master[f]
        /\ master'.losses \in {master.losses, master.losses + 1}
    <3>1. CASE MasterReads
      BY ONLY <3>1, <1>0, Given DEF MasterReads
    <3>2. CASE MasterLosesRead
      BY ONLY <3>2, <1>0, Given DEF MasterLosesRead
    <3>3. CASE MasterAsksAgain
      BY ONLY <3>3, <1>0, Given DEF MasterAsksAgain
    <3> QED
      BY <1>10, <3>1, <3>2, <3>3
  <2> QED
    BY <2>2, <2>3, <2>4 DEF Stays, AsideFields
<1> QED
  BY <1>1, <1>2, <1>3, <1>4, <1>5, <1>6, <1>7, <1>8, <1>9, <1>10
     DEF Next, Task, Master

LEMMA RequestTypes ==
  ASSUME AmpleInv
  PROVE  /\ master.requests \in Nat /\ master.losses \in Nat
         /\ master.counter \in 0 .. Counters /\ box.wcount \in 0 .. Counters
         /\ box.served \in Nat
         /\ box.sm0 # Nothing =>
              /\ box.sm0.kind \in AllKinds /\ box.sm0.serial \in Nat
              /\ box.sm0.counter = master.counter /\ master.counter # 0
              /\ master.kind # "none" => box.sm0.kind = master.kind
         /\ master.kind # "none" => master.counter # 0
         /\ ~box.running => master.kind = "none"
<1>1. /\ box \in Boxes /\ master \in Masters
      /\ LastRequest(box, master)
  BY Given DEF AmpleInv, Ample
<1>2. box.sm0 # Nothing => box.sm0 \in Contents
  BY <1>1 DEF Boxes
<1>3. master.requests \in Nat /\ master.losses \in Nat
      /\ master.counter \in 0 .. Counters
  BY <1>1, SizeAssumption DEF Masters, Nat0
<1>4. box.wcount \in 0 .. Counters /\ box.served \in Nat
  BY <1>1 DEF Boxes, Nat0
<1> QED
  BY <1>1, <1>2, <1>3, <1>4 DEF LastRequest, Contents

\* A request that is taken is the last one, and when it is queued it was not
\* taken before.
LEMMA TakenOnce ==
  ASSUME OnceInv, Takes
  PROVE  /\ box.sm0.serial = master.requests
         /\ Queues(box, box') => box.served < master.requests
<1>1. AmpleInv /\ Once(box, master) /\ box.sm0 # Nothing
  BY DEF OnceInv, Takes
<1>2. ASSUME Queues(box, box')
      PROVE  box.served # master.requests
  BY <1>1, <1>2, RequestTypes DEF Queues, Once
<1> QED
  BY <1>1, <1>2, RequestTypes DEF Once

LEMMA OnceStep ==
  ASSUME HeapSuffices, QueueSuffices, OnceInv, [Next]_vars
  PROVE  Once(box', master')
<1>0. AmpleInv /\ AmpleInv' /\ Once(box, master)
  BY AmpleStep DEF OnceInv
<1>1. Stays \/ Takes \/ Drops \/ Posts
  BY <1>0, RequestMoves
<1>2. CASE Stays
  BY <1>0, <1>2 DEF Stays, Once
<1>3. CASE Takes
  <2>1. /\ box.sm0.serial = master.requests /\ master' = master
        /\ box'.sm0 = Nothing /\ box.sm0 # Nothing
    BY <1>3, TakenOnce DEF Takes
  <2>2. /\ master.requests \in Nat /\ box.served <= master.requests
        /\ box.sm0.counter = master.counter
        /\ master.kind # "none" => box.sm0.kind = master.kind
        /\ master.kind # "none" => master.kind \in Kinds
        /\ box.sm0.kind # "long" /\ box.served = master.requests
             => box.wcount = master.counter
    BY <1>0, <2>1, RequestTypes DEF Once
  <2>3. CASE Refuses(box, box')
    BY <2>1, <2>2, <2>3 DEF Refuses, Once
  <2>4. CASE Discards(box, box')
    BY <2>1, <2>2, <2>4 DEF Discards, Once
  <2>5. CASE Queues(box, box')
    BY <2>1, <2>2, <2>5 DEF Queues, Once
  <2> QED
    BY <1>3, <2>3, <2>4, <2>5 DEF Takes
<1>4. CASE Drops
  BY <1>0, <1>4 DEF Drops, Once
<1>5. CASE Posts
  <2>1. /\ box.sm0 = Nothing /\ box'.served = box.served
        /\ box'.wcount = box.wcount
        /\ box.served \in Nat /\ master.requests \in Nat
        /\ box.served <= master.requests
    BY <1>0, <1>5, RequestTypes DEF Posts, Once
  <2>2. ASSUME NEW counter, NEW kind, Writes(counter, kind)
        PROVE  Once(box', master')
    <3>1. /\ master'.kind = kind /\ kind \in Kinds
          /\ master'.requests = master.requests + 1
          /\ box'.served <= master'.requests
          /\ box'.served # master'.requests
      BY <2>1, <2>2 DEF Writes
    <3>2. \/ box'.sm0 = Nothing
          \/ box'.sm0.serial = master'.requests /\ box'.sm0.kind = kind
      <4>1. \/ box' = Posted(Request(kind, counter, master.requests + 1))
            \/ box' = box
        BY <2>2 DEF Writes
      <4> QED
        BY <1>0, <2>1, <3>1, <4>1, PostedBeside DEF AmpleInv
    <3> QED
      BY <3>1, <3>2 DEF Once
  <2>3. CASE Rewrites
    <3>1. /\ box' = Posted(Request(master.kind, master.counter, master.requests))
          /\ master.kind # "none" /\ master'.kind = "none"
          /\ master'.counter = master.counter
          /\ master'.requests = master.requests
      BY <2>3 DEF Rewrites
    <3>2. /\ box'.sm0.kind = master.kind
          /\ box'.sm0.serial = master.requests /\ box'.sm0 # Nothing
      BY <1>0, <3>1, PostedBeside DEF AmpleInv
    <3> QED
      BY <1>0, <2>1, <3>1, <3>2 DEF Once
  <2> QED
    BY <1>5, <2>2, <2>3 DEF Posts
<1> QED
  BY <1>1, <1>2, <1>3, <1>4, <1>5

LEMMA GapStep ==
  ASSUME HeapSuffices, QueueSuffices, OnceInv, [Next]_vars
  PROVE  Gap(box', master')
<1>0. AmpleInv /\ AmpleInv' /\ Once(box, master) /\ Gap(box, master)
  BY AmpleStep DEF OnceInv
<1>1. Stays \/ Takes \/ Drops \/ Posts
  BY <1>0, RequestMoves
<1>2. CASE Stays
  BY <1>0, <1>2 DEF Stays, Gap, Ahead
<1>3. CASE Takes
  <2>1. /\ box.sm0.serial = master.requests /\ master' = master
        /\ box.sm0 # Nothing
        /\ Queues(box, box') => box.served < master.requests
    BY <1>3, TakenOnce DEF Takes
  <2>2. /\ master.requests \in Nat /\ box.served <= master.requests
        /\ box.sm0.counter = master.counter /\ box.served \in Nat
        /\ master.counter \in 1 .. Counters /\ box.sm0.kind \in Kinds
    BY <1>0, <2>1, RequestTypes DEF Once
  <2>3. CASE Refuses(box, box')
    <3>1. /\ box'.served = master.requests /\ box'.wcount = box.wcount
          /\ "long" \in Kinds
      BY <2>1, <2>2, <2>3 DEF Refuses
    <3>2. ASSUME NEW d \in Nat, Ahead(box, master, d)
          PROVE  Ahead(box', master', d)
      BY <2>1, <2>2, <3>1, <3>2 DEF Ahead
    <3> QED
      BY <1>0, <3>1, <3>2 DEF Gap
  <2>4. CASE Discards(box, box')
    BY <1>0, <2>1, <2>4 DEF Discards, Gap, Ahead
  <2>5. CASE Queues(box, box')
    <3>1. /\ box'.served = master.requests
          /\ box'.wcount = master.counter /\ master.requests > 0
      BY <2>1, <2>2, <2>5 DEF Queues
    <3>2. CounterOf(master.counter + 0) = master.counter
      BY <2>2, CountsFrom
    <3>3. Ahead(box', master', 0)
      BY <2>1, <2>2, <3>1, <3>2 DEF Ahead
    <3> QED
      BY <3>3 DEF Gap
  <2> QED
    BY <1>3, <2>3, <2>4, <2>5 DEF Takes
<1>4. CASE Drops
  BY <1>4 DEF Drops, Gap
<1>5. CASE Posts
  <2>1. /\ box'.served = box.served /\ box'.wcount = box.wcount
        /\ box.served \in Nat /\ master.requests \in Nat
        /\ box.wcount \in 0 .. Counters
    BY <1>0, <1>5, RequestTypes DEF Posts
  <2>2. ASSUME NEW counter, NEW kind, Writes(counter, kind)
        PROVE  Gap(box', master')
    <3>1. /\ master'.requests = master.requests + 1
          /\ master'.counter = (master.counter % Counters) + 1
      BY <2>2 DEF Writes
    <3>2. SUFFICES ASSUME box.wcount # 0, NEW d \in Nat, Ahead(box, master, d)
                   PROVE  Ahead(box', master', d + 1)
      BY <1>0, <2>1 DEF Gap
    <3>3. CounterOf(box.wcount + (d + 1))
            = (CounterOf(box.wcount + d) % Counters) + 1
      <4>1. box.wcount \in 1 .. Counters
        BY <2>1, <3>2
      <4> QED
        BY <3>2, <4>1, CountsFrom
    <3>4. master'.counter = CounterOf(box'.wcount + (d + 1))
      BY <2>1, <3>1, <3>2, <3>3 DEF Ahead
    <3> QED
      BY <2>1, <3>1, <3>2, <3>4 DEF Ahead
  <2>3. CASE Rewrites
    BY <1>0, <2>1, <2>3 DEF Rewrites, Gap, Ahead
  <2> QED
    BY <1>5, <2>2, <2>3 DEF Posts
<1> QED
  BY <1>1, <1>2, <1>3, <1>4, <1>5

\* The counters tell the requests since the last that was taken apart.
CountersTell ==
  box.wcount # 0 =>
    \/ master.requests <= Counters
    \/ "long" \notin Kinds /\ master.requests - box.served < Counters

LEMMA NoneDiscarded ==
  ASSUME OnceInv, CountersTell, Takes
  PROVE  box'.served = master.requests
<1>0. AmpleInv /\ Once(box, master) /\ Gap(box, master)
  BY DEF OnceInv
<1>1. /\ box.sm0.serial = master.requests /\ box.sm0 # Nothing
      /\ box.sm0.counter = master.counter
      /\ master.requests \in Nat /\ box.served \in Nat
      /\ box.served <= master.requests /\ box.wcount \in 0 .. Counters
  BY <1>0, TakenOnce, RequestTypes DEF Takes, Once
<1>2. CASE Refuses(box, box') \/ Queues(box, box')
  BY <1>1, <1>2 DEF Refuses, Queues
<1>3. CASE Discards(box, box')
  <2>1. /\ box.wcount \in 1 .. Counters /\ master.counter = box.wcount
        /\ box'.served = box.served
    BY <1>1, <1>3 DEF Discards
  <2>2. PICK d \in Nat : Ahead(box, master, d)
    BY <1>0, <2>1 DEF Gap
  <2>3. d < Counters
    BY <1>1, <2>1, <2>2, SizeAssumption DEF CountersTell, Ahead
  <2>4. d \in 0 .. Counters - 1 /\ CounterOf(box.wcount + d) = box.wcount
    BY <2>1, <2>2, <2>3, SizeAssumption DEF Ahead
  <2>5. d = 0
    BY <2>1, <2>4, CountersApart
  <2> QED
    BY <1>1, <2>1, <2>2, <2>5 DEF Ahead
<1> QED
  BY <1>2, <1>3 DEF Takes

LEMMA ServedOnce ==
  ASSUME HeapSuffices, QueueSuffices, OnceInv, CountersTell, [Next]_vars
  PROVE  /\ Len(box'.rq) > Len(box.rq) => box'.served > box.served
         /\ box.sm0 # Nothing /\ box'.sm0 = Nothing /\ box'.running
              => box'.served >= box.sm0.serial
<1>0. /\ AmpleInv /\ AmpleInv'
      /\ Len(box.rq) \in Nat /\ Len(box'.rq) \in Nat
  <2>1. AmpleInv /\ AmpleInv'
    BY AmpleStep DEF OnceInv
  <2>2. box \in Boxes /\ box' \in Boxes
    BY <2>1 DEF AmpleInv, OrderInv, IInv, Good, Fit
  <2> QED
    BY <2>1, <2>2, LengthFacts
<1>1. CASE Stays
  BY <1>0, <1>1 DEF Stays
<1>2. CASE Takes
  <2>1. /\ box'.served = master.requests /\ box.sm0.serial = master.requests
        /\ Queues(box, box') => box.served < master.requests
        /\ master.requests \in Nat /\ box.served \in Nat
    BY <1>0, <1>2, NoneDiscarded, TakenOnce, RequestTypes
  <2>2. Len(box'.rq) > Len(box.rq) => Queues(box, box')
    BY <1>0, <1>2 DEF Takes, Refuses, Discards
  <2> QED
    BY <2>1, <2>2
<1>3. CASE Drops
  <2>1. Len(box'.rq) = 0
    BY <1>3 DEF Drops
  <2> QED
    BY <1>0, <1>3, <2>1 DEF Drops
<1>4. CASE Posts
  BY <1>0, <1>4 DEF Posts
<1> QED
  BY <1>0, <1>1, <1>2, <1>3, <1>4, RequestMoves

LEMMA OnceStarts == Init => OnceInv
<1> SUFFICES ASSUME Init PROVE OnceInv
  OBVIOUS
<1>1. /\ box.served = 0 /\ master.requests = 0 /\ box.sm0 = Nothing
      /\ master.kind = "none" /\ box.wcount = 0
  BY DEF Init
<1> QED
  BY <1>1, InitialAmple DEF OnceInv, Once, Gap

\* While fewer requests follow each other untaken than there are counters, a
\* repeated write is never executed again and no new request is discarded for
\* a repeat (mailbox.c:508-511).
THEOREM CountersTellRequestsApart ==
  ASSUME HeapSuffices, QueueSuffices
  PROVE  Spec /\ []CountersTell => RequestsServedOnce
<1>1. Init => OnceInv
  BY OnceStarts
<1>2. OnceInv /\ [Next]_vars => OnceInv'
  BY AmpleStep, OnceStep, GapStep DEF OnceInv
<1>3. OnceInv /\ CountersTell /\ [Next]_vars
        => [/\ Len(box'.rq) > Len(box.rq) => box'.served > box.served
            /\ box.sm0 # Nothing /\ box'.sm0 = Nothing /\ box'.running
                 => box'.served >= box.sm0.serial]_vars
  BY ServedOnce
<1> QED
  BY <1>1, <1>2, <1>3, PTL DEF Spec, RequestsServedOnce

\* What was not taken was lost, or is in SM0.
Lost(m, ma) ==
  m.wcount # 0 /\ "long" \notin Kinds =>
    ma.requests - m.served <= ma.losses + (IF m.sm0 = Nothing THEN 0 ELSE 1)

\* All requests differ in their counters, or those the master may lose do.
CountersSuffice ==
  \/ MaxRequests <= Counters
  \/ "long" \notin Kinds /\ MaxLosses + 2 <= Counters

LostInv == OnceInv /\ Lost(box, master)

LEMMA LostTells ==
  ASSUME CountersSuffice, LostInv
  PROVE  CountersTell
<1>1. /\ master.requests \in 0 .. MaxRequests
      /\ master.losses \in 0 .. MaxLosses
  BY Given DEF LostInv, OnceInv, AmpleInv, Masters, Nat0
<1>2. box.served \in Nat
  BY RequestTypes DEF LostInv, OnceInv
<1>3. CASE MaxRequests <= Counters
  BY <1>1, <1>3, SizeAssumption DEF CountersTell
<1>4. CASE "long" \notin Kinds /\ MaxLosses + 2 <= Counters
  <2>1. SUFFICES ASSUME box.wcount # 0
                 PROVE  master.requests - box.served < Counters
    BY <1>4 DEF CountersTell
  <2>2. master.requests - box.served <= master.losses + 1
    BY <1>1, <1>2, <1>4, <2>1 DEF LostInv, Lost
  <2> QED
    BY <1>1, <1>2, <1>4, <2>2, SizeAssumption
<1> QED
  BY <1>3, <1>4 DEF CountersSuffice

LEMMA LostStep ==
  ASSUME HeapSuffices, QueueSuffices, CountersSuffice, LostInv, [Next]_vars
  PROVE  Lost(box', master')
<1>0. AmpleInv /\ OnceInv /\ CountersTell /\ Lost(box, master)
  BY LostTells DEF LostInv, OnceInv
<1>1. /\ master.requests \in Nat /\ master.losses \in Nat
      /\ box.served \in Nat
  BY <1>0, RequestTypes
<1>2. CASE Stays
  <2>1. /\ box'.served = box.served /\ box'.wcount = box.wcount
        /\ box'.sm0 = box.sm0 /\ master'.requests = master.requests
        /\ master'.losses \in {master.losses, master.losses + 1}
    BY <1>2 DEF Stays
  <2> DEFINE w == IF box.sm0 = Nothing THEN 0 ELSE 1
             d == master.requests - box.served
             l == master.losses
             x == master'.losses
  <2>2. d \in Int /\ w \in {0, 1} /\ l \in Nat /\ x \in {l, l + 1}
    BY <1>1, <2>1
  <2> HIDE DEF w, d, l, x
  <2>3. d <= l + w => d <= x + w
    BY ONLY <2>2
  <2> QED
    BY <1>0, <2>1, <2>3 DEF Lost, w, d, l, x
<1>3. CASE Takes
  <2>1. box'.served = master'.requests /\ master' = master
    BY <1>0, <1>3, NoneDiscarded DEF Takes
  <2>2. master'.requests - box'.served = 0 /\ master'.losses \in Nat
    BY <1>1, <2>1
  <2>3. \A l \in Nat, w \in {0, 1} : 0 <= l + w
    OBVIOUS
  <2> QED
    BY <2>2, <2>3 DEF Lost
<1>4. CASE Drops
  BY <1>4 DEF Drops, Lost
<1>5. CASE Posts
  <2>1. /\ box.sm0 = Nothing /\ box'.served = box.served
        /\ box'.wcount = box.wcount
    BY <1>5 DEF Posts
  <2>2. ASSUME NEW counter, NEW kind, Writes(counter, kind)
        PROVE  Lost(box', master')
    <3>1. master'.requests = master.requests + 1
      BY <2>2 DEF Writes
    <3>2. \/ master'.losses = master.losses /\ box'.sm0 # Nothing
          \/ master'.losses = master.losses + 1
      BY <1>0, <2>2, PostedBeside DEF Writes, AmpleInv
    <3> QED
      BY <1>0, <1>1, <2>1, <3>1, <3>2 DEF Lost
  <2>3. CASE Rewrites
    BY <1>0, <1>1, <2>1, <2>3 DEF Rewrites, Lost
  <2> QED
    BY <1>5, <2>2, <2>3 DEF Posts
<1> QED
  BY <1>0, <1>2, <1>3, <1>4, <1>5, RequestMoves

\* With CountersSuffice a repeated write is never executed again, and no new
\* request is discarded for a repeat, whatever is lost, repeated, locked out
\* or stopped (mailbox.c:508-511).
THEOREM EachRequestServedOnce ==
  ASSUME HeapSuffices, QueueSuffices, CountersSuffice
  PROVE  Spec => RequestsServedOnce
<1>1. Init => LostInv
  BY OnceStarts DEF LostInv, Lost, Init
<1>2. LostInv /\ [Next]_vars => LostInv' /\ CountersTell
  BY AmpleStep, OnceStep, GapStep, LostStep, LostTells DEF LostInv, OnceInv
<1>3. Spec => []CountersTell
  <2>1. LostInv => CountersTell
    BY LostTells
  <2> QED
    BY <1>1, <1>2, <2>1, PTL DEF Spec
<1> QED
  BY <1>3, CountersTellRequestsApart, PTL

=============================================================================
