-------------------------- MODULE ContainerIoProofs --------------------------
(***************************************************************************)
(* What an attacher of a container with pipes sees, for every set of       *)
(* attachers, every pipe size and every amount of output.  The proof       *)
(* follows the bytes: the pipe and the chunk in the tee thread's hands are *)
(* the end of what was written, and each sink of the fan-out has been sent *)
(* what was broadcast up to the place broadcast has reached in its list.   *)
(***************************************************************************)
EXTENDS ContainerIo, SequenceTheorems, TLAPS

AttStates == {"new", "locked", "reading", "stalled", "closed", "ended"}

Casting == [pc : {"cast"}, chunk : Seq(Bytes), at : Nat \ {0}, sent : Nat]

\* What the variables hold; log and pending are not looked at.
Typed ==
  /\ mode \in {"pipe", "tty"}
  /\ written \in Seq(Bytes) /\ pipe \in Seq(Bytes)
  /\ sinks \in Seq(Attachers)
  /\ att \in [Attachers -> AttStates]
  /\ mail \in [Attachers -> Seq(Bytes)] /\ got \in [Attachers -> Seq(Bytes)]
  /\ since \in [Attachers -> Nat]
  /\ tee.pc \in {"read", "lock", "cast", "log", "done"}
  /\ tee.pc \in {"lock", "cast", "log"} => tee.chunk \in Seq(Bytes) /\ Len(tee.chunk) > 0
  /\ tee.pc = "cast" =>
       /\ tee \in Casting
       /\ tee.at <= Len(sinks) + 1 /\ tee.sent < Len(tee.chunk)
  /\ tee.pc \in {"lock", "cast"} => mode = "pipe"

Taken == Len(written) - Len(pipe)

\* s is what w has up to its place e.
UpTo(w, e, s) ==
  /\ Len(s) <= e
  /\ \A i \in 1..Len(s) : s[i] = w[e - Len(s) + i]

\* The pipe, and before it the chunk, are the end of what was written.
Flows ==
  /\ UpTo(written, Len(written), pipe)
  /\ tee.pc \in {"lock", "cast"} => UpTo(written, Taken, tee.chunk)

\* Who is in the fan-out: once, from its registration on.
Registered ==
  mode = "pipe" =>
    /\ \A i, j \in 1..Len(sinks) : sinks[i] = sinks[j] => i = j
    /\ \A a \in Attachers : att[a] \in {"reading", "stalled"} => \E i \in 1..Len(sinks) : sinks[i] = a
    /\ \A i \in 1..Len(sinks) : att[sinks[i]] \notin {"new", "locked"}
    /\ \A a \in Attachers : att[a] \in {"new", "locked"} => got[a] = <<>> /\ mail[a] = <<>>

\* How much of the output the sink at this place of the list has been sent.
Reach(j) ==
  IF tee.pc = "lock" THEN Taken - Len(tee.chunk)
  ELSE IF tee.pc # "cast" \/ j < tee.at THEN Taken
  ELSE Taken - Len(tee.chunk) + IF j = tee.at THEN tee.sent ELSE 0

\* What was read and what is to be read, g and m, are what w has from b up to r.
Stretch(w, g, m, b, r) ==
  /\ Len(g) + Len(m) = r - b
  /\ \A i \in 1..Len(g) : g[i] = w[b + i]
  /\ \A i \in 1..Len(m) : m[i] = w[b + Len(g) + i]

Fed ==
  mode = "pipe" =>
    \A j \in 1..Len(sinks) :
      att[sinks[j]] \in {"reading", "stalled"} =>
        LET a == sinks[j] IN Stretch(written, got[a], mail[a], since[a], Reach(j))

Seen == Typed /\ Flows /\ Registered /\ Fed

-----------------------------------------------------------------------------
(* What the invariant says of an attacher *)

\* What a sink has been sent is output: a lemma on how broadcast goes through the list.
LEMMA ReachBound ==
  ASSUME Seen, NEW j \in 1..Len(sinks)
  PROVE  Reach(j) \in Int /\ Reach(j) <= Len(written)
<1>1. Typed /\ Flows
  BY DEF Seen
<1>2. Len(written) \in Nat /\ Len(pipe) \in Nat /\ Len(sinks) \in Nat
  BY <1>1, LenProperties DEF Typed
<1>3. tee.pc \in {"lock", "cast"} => Len(tee.chunk) \in Nat
  BY <1>1, LenProperties DEF Typed
<1> DEFINE c == Len(tee.chunk)
           e == Taken
<1>a. e \in Int /\ e <= Len(written)
  BY <1>2 DEF Taken
<1>b. tee.pc \in {"lock", "cast"} => c <= e
  BY <1>1 DEF Flows, UpTo
<1>4. CASE tee.pc = "cast"
  <2>1. tee.sent \in Nat /\ tee.sent < c
    BY <1>1, <1>4 DEF Typed, Casting
  <2>2. c \in Nat /\ c <= e
    BY <1>3, <1>4, <1>b
  <2>3. Reach(j) = e \/ Reach(j) = e - c + tee.sent \/ Reach(j) = e - c + 0
    BY <1>4 DEF Reach
  <2> HIDE DEF c, e
  <2>4. QED
    BY <1>2, <1>a, <2>1, <2>2, <2>3
<1>5. CASE tee.pc = "lock"
  <2>1. Reach(j) = e - c
    BY <1>5 DEF Reach
  <2>2. c \in Nat /\ c <= e
    BY <1>3, <1>5, <1>b
  <2> HIDE DEF c, e
  <2>3. QED
    BY <1>2, <1>a, <2>1, <2>2
<1>6. CASE tee.pc \notin {"lock", "cast"}
  <2>1. Reach(j) = e
    BY <1>6 DEF Reach
  <2> HIDE DEF c, e
  <2>2. QED
    BY <1>2, <1>a, <2>1
<1>7. QED
  BY <1>4, <1>5, <1>6

\* The invariant gives the property: an attacher's bytes are the stretch of the output
\* between its registration and where broadcast has got to with its sink.
LEMMA SeenIsAll == ASSUME Seen PROVE AttacherSeesAll
<1> SUFFICES ASSUME NEW a \in Attachers, mode = "pipe", att[a] \in {"reading", "stalled"}
             PROVE  got[a] \o mail[a] = SubSeq(written, since[a] + 1, Broadcast - SentTo(a))
  BY DEF AttacherSeesAll
<1>0. Typed /\ Flows /\ Registered /\ Fed
  BY DEF Seen
<1>a. /\ Len(written) \in Nat /\ Len(pipe) \in Nat /\ Len(sinks) \in Nat /\ since[a] \in Nat
      /\ got[a] \in Seq(Bytes) /\ mail[a] \in Seq(Bytes)
      /\ Len(got[a]) \in Nat /\ Len(mail[a]) \in Nat
      /\ DOMAIN sinks = 1..Len(sinks)
  BY <1>0, LenProperties DEF Typed
<1>1. PICK i \in 1..Len(sinks) : sinks[i] = a
  BY <1>0 DEF Registered
<1>2. \A j \in 1..Len(sinks) : sinks[j] = a => j = i
  BY <1>0, <1>1 DEF Registered
<1>3. Stretch(written, got[a], mail[a], since[a], Reach(i))
  BY <1>0, <1>1 DEF Fed
<1>4. (CHOOSE j \in DOMAIN sinks : sinks[j] = a) = i
  BY <1>a, <1>1, <1>2
<1>5. Contains(sinks, a)
  BY <1>1 DEF Contains
<1>6. tee.pc \in {"lock", "cast"} => Len(tee.chunk) \in Nat
  BY <1>0, LenProperties DEF Typed
<1>7. Broadcast - SentTo(a) = Reach(i)
  <2>1. CASE tee.pc = "cast"
    <3>1. tee.at \in Nat /\ tee.sent \in Nat
      BY <1>0, <2>1 DEF Typed, Casting
    <3>2. SentTo(a) = IF i < tee.at THEN 0 ELSE Len(tee.chunk) - IF i = tee.at THEN tee.sent ELSE 0
      BY <1>4, <1>5, <2>1 DEF SentTo
    <3>3. Broadcast = Len(written) - Len(pipe)
      BY <1>a, <2>1 DEF Broadcast
    <3>4. Reach(i) = Len(written) - Len(pipe) - SentTo(a)
      <4> DEFINE w == Len(written) - Len(pipe)
                 n == Len(tee.chunk)
                 sent == tee.sent
                 at == tee.at
      <4>1. w \in Int /\ n \in Nat /\ sent \in Nat /\ at \in Nat /\ i \in Nat
        BY <1>a, <1>6, <2>1, <3>1
      <4>2. SentTo(a) = IF i < at THEN 0 ELSE n - IF i = at THEN sent ELSE 0
        BY <3>2
      <4>3. Reach(i) = IF i < at THEN w ELSE w - n + IF i = at THEN sent ELSE 0
        BY <2>1 DEF Reach, Taken
      <4> HIDE DEF w, n, sent, at
      <4>4. Reach(i) = w - SentTo(a)
        BY <4>1, <4>2, <4>3
      <4>5. QED
        BY <4>4 DEF w
    <3>5. QED
      BY <3>3, <3>4
  <2>2. CASE tee.pc # "cast"
    BY <1>a, <1>6, <2>2 DEF SentTo, Broadcast, Reach, Taken
  <2>3. QED
    BY <2>1, <2>2
<1>8. Reach(i) \in Int /\ Reach(i) <= Len(written)
  BY <1>1, ReachBound
<1> DEFINE r == Reach(i)
           b == since[a]
           g == Len(got[a])
           m == Len(mail[a])
           s == SubSeq(written, b + 1, r)
           u == got[a] \o mail[a]
<1>9. /\ r \in Int /\ r <= Len(written) /\ b \in Nat /\ g \in Nat /\ m \in Nat
      /\ got[a] \in Seq(Bytes) /\ mail[a] \in Seq(Bytes)
      /\ \A k \in 1..Len(written) : written[k] \in Bytes
  BY <1>0, <1>a, <1>8, ElementOfSeq DEF Typed
<1>10. /\ g + m = r - b
       /\ \A k \in 1..g : got[a][k] = written[b + k]
       /\ \A k \in 1..m : mail[a][k] = written[b + g + k]
  BY <1>3 DEF Stretch
<1>11. u \in Seq(Bytes) /\ Len(u) = g + m
       /\ \A k \in 1..(g + m) : u[k] = IF k <= g THEN got[a][k] ELSE mail[a][k - g]
  BY <1>9, ConcatProperties
<1> HIDE DEF r, b, g, m
<1>12. s \in Seq(Bytes) /\ Len(s) = g + m /\ \A k \in 1..(g + m) : s[k] = written[b + k]
  <2>1. b + 1 \in Int /\ \A k \in (b + 1)..r : written[k] \in Bytes
    BY <1>a, <1>9
  <2> DEFINE n == b + 1
  <2> HIDE DEF n
  <2>2. n \in Int /\ \A k \in n..r : written[k] \in Bytes
    BY <2>1 DEF n
  <2>3. /\ SubSeq(written, n, r) \in Seq(Bytes)
        /\ Len(SubSeq(written, n, r)) = IF n <= r THEN r - n + 1 ELSE 0
        /\ \A k \in 1..(r - n + 1) : SubSeq(written, n, r)[k] = written[n + k - 1]
    BY <1>9, <2>2, SubSeqProperties
  <2>4. r - n + 1 = g + m /\ (n <= r <=> g + m > 0) /\ \A k \in Int : n + k - 1 = b + k
    BY <1>9, <1>10 DEF n
  <2>5. s = SubSeq(written, n, r)
    BY DEF n
  <2> HIDE DEF s
  <2>6. s \in Seq(Bytes) /\ (n <= r => Len(s) = r - n + 1) /\ (~(n <= r) => Len(s) = 0)
    BY <2>3, <2>5
  <2>7. Len(s) = g + m
    BY <1>9, <2>2, <2>4, <2>6
  <2>8. \A k \in 1..(g + m) : s[k] = written[b + k]
    <3>1. TAKE k \in 1..(g + m)
    <3>2. s[k] = written[n + k - 1]
      BY <2>3, <2>4, <2>5
    <3>3. n + k - 1 = b + k
      BY <1>9 DEF n
    <3>4. QED
      BY <3>2, <3>3
  <2>9. QED
    BY <2>6, <2>7, <2>8
<1> HIDE DEF s, u
<1>13. \A k \in 1..(g + m) : u[k] = written[b + k]
  <2>1. ASSUME NEW k \in 1..(g + m), k <= g PROVE u[k] = written[b + k]
    <3>1. k \in 1..g
      BY <1>9, <2>1
    <3>2. got[a][k] = written[b + k]
      BY <1>10, <3>1
    <3>3. QED
      BY <1>11, <2>1, <3>2
  <2>2. ASSUME NEW k \in 1..(g + m), ~(k <= g) PROVE u[k] = written[b + k]
    <3>1. k - g \in 1..m /\ b + g + (k - g) = b + k
      BY <1>9, <2>2
    <3>2. mail[a][k - g] = written[b + k]
      BY <1>10, <3>1
    <3>3. QED
      BY <1>11, <2>2, <3>2
  <2>3. QED
    BY <2>1, <2>2
<1>14. Len(u) = Len(s) /\ \A k \in 1..Len(u) : u[k] = s[k]
  BY <1>11, <1>12, <1>13
<1>15. u = s
  BY <1>11, <1>12, <1>14, SeqEqual
<1>16. QED
  BY <1>7, <1>15 DEF s, u, r, b

-----------------------------------------------------------------------------
(* Ends and stretches of a sequence *)

\* The container writes a byte: it is the end of the output and of the pipe.
LEMMA UpToAppend ==
  ASSUME NEW w \in Seq(Bytes), NEW p \in Seq(Bytes), NEW b \in Bytes, UpTo(w, Len(w), p)
  PROVE  UpTo(Append(w, b), Len(Append(w, b)), Append(p, b))
<1> DEFINE v == Append(w, b)
           q == Append(p, b)
           n == Len(w)
           m == Len(p)
<1>1. n \in Nat /\ m \in Nat /\ m <= n /\ \A i \in 1..m : p[i] = w[n - m + i]
  BY LenProperties DEF UpTo
<1>2. /\ Len(v) = n + 1 /\ v[n + 1] = b /\ \A i \in 1..n : v[i] = w[i]
      /\ Len(q) = m + 1 /\ q[m + 1] = b /\ \A i \in 1..m : q[i] = p[i]
  BY AppendProperties
<1> HIDE DEF v, q, n, m
<1>3. ASSUME NEW i \in 1..(m + 1) PROVE q[i] = v[(n + 1) - (m + 1) + i]
  <2>1. CASE i = m + 1
    <3>1. (n + 1) - (m + 1) + i = n + 1
      BY <1>1, <2>1
    <3>2. QED
      BY <1>2, <2>1, <3>1
  <2>2. CASE i # m + 1
    <3>1. i \in 1..m /\ n - m + i \in 1..n /\ (n + 1) - (m + 1) + i = n - m + i
      BY <1>1, <2>2
    <3>2. q[i] = p[i] /\ p[i] = w[n - m + i] /\ v[n - m + i] = w[n - m + i]
      BY <1>1, <1>2, <3>1
    <3>3. QED
      BY <3>1, <3>2
  <2>3. QED
    BY <2>1, <2>2
<1>4. Len(q) <= Len(v)
  BY <1>1, <1>2
<1>5. QED
  BY <1>2, <1>3, <1>4 DEF UpTo, v, q

\* What was written stays: only what follows it is new.
LEMMA UpToLonger ==
  ASSUME NEW w, NEW v, NEW e \in Int, NEW n \in Nat, NEW s \in Seq(Bytes),
         UpTo(w, e, s), e <= n, \A k \in 1..n : v[k] = w[k]
  PROVE  UpTo(v, e, s)
<1> DEFINE m == Len(s)
<1>1. m \in Nat /\ m <= e /\ \A i \in 1..m : s[i] = w[e - m + i]
  BY LenProperties DEF UpTo
<1> HIDE DEF m
<1>2. ASSUME NEW i \in 1..m PROVE s[i] = v[e - m + i]
  <2>1. e - m + i \in 1..n
    BY <1>1
  <2>2. QED
    BY <1>1, <2>1
<1>3. QED
  BY <1>1, <1>2 DEF UpTo, m

\* The tee thread reads: its chunk comes before what it leaves in the pipe.
LEMMA UpToSplit ==
  ASSUME NEW w, NEW e \in Int, NEW p \in Seq(Bytes), NEW n \in 1..Len(p), UpTo(w, e, p)
  PROVE  LET c == SubSeq(p, 1, n)
             q == SubSeq(p, n + 1, Len(p))
         IN /\ c \in Seq(Bytes) /\ Len(c) = n /\ UpTo(w, e - Len(q), c)
            /\ q \in Seq(Bytes) /\ Len(q) = Len(p) - n /\ UpTo(w, e, q)
<1> DEFINE c == SubSeq(p, 1, n)
           q == SubSeq(p, n + 1, Len(p))
           m == Len(p)
<1>1. m \in Nat /\ n \in 1..m /\ m <= e /\ \A i \in 1..m : p[i] = w[e - m + i] /\ p[i] \in Bytes
  BY LenProperties, ElementOfSeq DEF UpTo
<1>2. c \in Seq(Bytes) /\ Len(c) = n /\ \A i \in 1..n : c[i] = p[i]
  <2>1. \A i \in 1..n : p[i] \in Bytes
    BY <1>1 DEF m
  <2>2. /\ c \in Seq(Bytes) /\ Len(c) = (IF 1 <= n THEN n - 1 + 1 ELSE 0)
        /\ \A i \in 1..(n - 1 + 1) : c[i] = p[1 + i - 1]
    BY <2>1, SubSeqProperties
  <2> HIDE DEF c
  <2>3. 1 <= n /\ n - 1 + 1 = n /\ \A i \in 1..n : 1 + i - 1 = i
    BY <1>1
  <2>4. QED
    BY <2>2, <2>3
<1>3. q \in Seq(Bytes) /\ Len(q) = m - n /\ \A i \in 1..(m - n) : q[i] = p[n + i]
  <2> DEFINE a == n + 1
  <2>1. a \in Int /\ m \in Int /\ \A i \in a..m : p[i] \in Bytes
    BY <1>1
  <2>2. q = SubSeq(p, a, m)
    OBVIOUS
  <2> HIDE DEF q, a, m
  <2>3. /\ q \in Seq(Bytes) /\ Len(q) = (IF a <= m THEN m - a + 1 ELSE 0)
        /\ \A i \in 1..(m - a + 1) : q[i] = p[a + i - 1]
    BY <2>1, <2>2, SubSeqProperties
  <2>4. Len(q) = m - n /\ m - a + 1 = m - n
    BY <1>1, <2>3 DEF a
  <2>5. ASSUME NEW i \in 1..(m - n) PROVE q[i] = p[n + i]
    <3>1. a + i - 1 = n + i
      BY <1>1 DEF a
    <3>2. q[i] = p[a + i - 1]
      BY <2>3, <2>4
    <3>3. QED
      BY <3>1, <3>2
  <2>6. QED
    BY <2>3, <2>4, <2>5
<1> HIDE DEF c, q, m
<1>4. UpTo(w, e - Len(q), c)
  <2>1. ASSUME NEW i \in 1..n PROVE c[i] = w[(e - (m - n)) - n + i]
    <3>1. i \in 1..m /\ (e - (m - n)) - n + i = e - m + i
      BY <1>1
    <3>2. QED
      BY <1>1, <1>2, <3>1
  <2>2. n <= e - (m - n)
    BY <1>1
  <2>3. QED
    BY <1>2, <1>3, <2>1, <2>2 DEF UpTo
<1>5. UpTo(w, e, q)
  <2>1. ASSUME NEW i \in 1..(m - n) PROVE q[i] = w[e - (m - n) + i]
    <3>1. n + i \in 1..m /\ e - (m - n) + i = e - m + (n + i)
      BY <1>1
    <3>2. QED
      BY <1>1, <1>3, <3>1
  <2>2. m - n <= e
    BY <1>1
  <2>3. QED
    BY <1>3, <2>1, <2>2 DEF UpTo
<1>6. QED
  BY <1>2, <1>3, <1>4, <1>5 DEF c, q, m

\* What an attacher sees stays when the container writes on.
LEMMA StretchLonger ==
  ASSUME NEW w, NEW v, NEW g \in Seq(Bytes), NEW m \in Seq(Bytes), NEW b \in Nat, NEW r \in Int,
         NEW n \in Nat, Stretch(w, g, m, b, r), r <= n, \A k \in 1..n : v[k] = w[k]
  PROVE  Stretch(v, g, m, b, r)
<1> DEFINE x == Len(g)
           y == Len(m)
<1>1. /\ x \in Nat /\ y \in Nat /\ x + y = r - b
      /\ \A i \in 1..x : g[i] = w[b + i]
      /\ \A i \in 1..y : m[i] = w[b + x + i]
  BY LenProperties DEF Stretch
<1> HIDE DEF x, y
<1>2. ASSUME NEW i \in 1..x PROVE g[i] = v[b + i]
  <2>1. b + i \in 1..n
    BY <1>1
  <2>2. QED
    BY <1>1, <2>1
<1>3. ASSUME NEW i \in 1..y PROVE m[i] = v[b + x + i]
  <2>1. b + x + i \in 1..n
    BY <1>1
  <2>2. QED
    BY <1>1, <2>1
<1>4. QED
  BY <1>1, <1>2, <1>3 DEF Stretch, x, y

\* An attacher that registers has seen nothing yet.
LEMMA StretchEmpty ==
  ASSUME NEW w, NEW b \in Nat
  PROVE  Stretch(w, <<>>, <<>>, b, b)
<1>1. Len(<<>>) = 0
  OBVIOUS
<1>2. QED
  BY <1>1 DEF Stretch

\* broadcast sends the byte that comes next.
LEMMA StretchSent ==
  ASSUME NEW w, NEW g \in Seq(Bytes), NEW m \in Seq(Bytes), NEW b \in Nat, NEW r \in Int,
         NEW c \in Bytes, Stretch(w, g, m, b, r), c = w[r + 1]
  PROVE  Stretch(w, g, Append(m, c), b, r + 1)
<1> DEFINE x == Len(g)
           y == Len(m)
           q == Append(m, c)
<1>1. /\ x \in Nat /\ y \in Nat /\ x + y = r - b
      /\ \A i \in 1..x : g[i] = w[b + i]
      /\ \A i \in 1..y : m[i] = w[b + x + i]
  BY LenProperties DEF Stretch
<1>2. Len(q) = y + 1 /\ q[y + 1] = c /\ \A i \in 1..y : q[i] = m[i]
  BY AppendProperties
<1> HIDE DEF x, y, q
<1>3. ASSUME NEW i \in 1..(y + 1) PROVE q[i] = w[b + x + i]
  <2>1. CASE i = y + 1
    <3>1. b + x + i = r + 1
      BY <1>1, <2>1
    <3>2. QED
      BY <1>2, <2>1, <3>1
  <2>2. CASE i # y + 1
    <3>1. i \in 1..y
      BY <1>1, <2>2
    <3>2. QED
      BY <1>1, <1>2, <3>1
  <2>3. QED
    BY <2>1, <2>2
<1>4. x + (y + 1) = (r + 1) - b
  BY <1>1
<1>5. QED
  BY <1>1, <1>2, <1>3, <1>4 DEF Stretch, x, q

\* The client reads all there is in its pipe.
LEMMA StretchRead ==
  ASSUME NEW w, NEW g \in Seq(Bytes), NEW m \in Seq(Bytes), NEW b \in Nat, NEW r \in Int,
         Stretch(w, g, m, b, r)
  PROVE  Stretch(w, g \o m, <<>>, b, r)
<1> DEFINE x == Len(g)
           y == Len(m)
           u == g \o m
<1>1. /\ x \in Nat /\ y \in Nat /\ x + y = r - b
      /\ \A i \in 1..x : g[i] = w[b + i]
      /\ \A i \in 1..y : m[i] = w[b + x + i]
  BY LenProperties DEF Stretch
<1>2. Len(u) = x + y /\ \A i \in 1..(x + y) : u[i] = IF i <= x THEN g[i] ELSE m[i - x]
  BY ConcatProperties
<1>3. Len(<<>>) = 0
  OBVIOUS
<1> HIDE DEF x, y, u
<1>4. ASSUME NEW i \in 1..(x + y) PROVE u[i] = w[b + i]
  <2>1. CASE i <= x
    <3>1. i \in 1..x
      BY <1>1, <2>1
    <3>2. QED
      BY <1>1, <1>2, <2>1, <3>1
  <2>2. CASE ~(i <= x)
    <3>1. i - x \in 1..y /\ b + x + (i - x) = b + i
      BY <1>1, <2>2
    <3>2. u[i] = m[i - x]
      BY <1>2, <2>2
    <3>3. QED
      BY <1>1, <3>1, <3>2
  <2>3. QED
    BY <2>1, <2>2
<1>5. (x + y) + 0 = r - b
  BY <1>1
<1>6. \A i \in 1..0 : FALSE
  OBVIOUS
<1>7. QED
  BY <1>2, <1>3, <1>4, <1>5, <1>6 DEF Stretch, u

-----------------------------------------------------------------------------
(* The container and the reaper *)

\* Steps that only tell the tee thread where it is leave every sink where it was.
LEMMA FedKept ==
  ASSUME Fed, UNCHANGED <<mode, written, sinks, att, mail, got, since>>,
         \A j \in 1..Len(sinks) : Reach(j)' = Reach(j)
  PROVE  Fed'
<1> SUFFICES ASSUME mode = "pipe", NEW j \in 1..Len(sinks), att[sinks[j]] \in {"reading", "stalled"}
             PROVE  Stretch(written, got[sinks[j]], mail[sinks[j]], since[sinks[j]], Reach(j)')
  BY DEF Fed
<1>1. Stretch(written, got[sinks[j]], mail[sinks[j]], since[sinks[j]], Reach(j))
  BY DEF Fed
<1>2. Reach(j)' = Reach(j)
  OBVIOUS
<1>3. QED
  BY <1>1, <1>2

\* The fan-out does not change with the pipe, the output or the tee thread's place.
LEMMA RegisteredKept ==
  ASSUME Registered, UNCHANGED <<mode, sinks, att, mail, got>>
  PROVE  Registered'
BY DEF Registered

\* Closing the output, the reaper's steps and stuttering move no byte.
LEMMA StillKeeps ==
  ASSUME Seen, UNCHANGED <<mode, written, pipe, tee, sinks, att, mail, got, since>>
  PROVE  Seen'
<1>1. Typed'
  BY DEF Seen, Typed, Casting
<1>2. Flows'
  BY DEF Seen, Flows, UpTo, Taken
<1>3. Registered'
  BY RegisteredKept DEF Seen
<1>4. \A j \in 1..Len(sinks) : Reach(j)' = Reach(j)
  BY DEF Reach, Taken
<1>5. Fed'
  BY <1>4, FedKept DEF Seen
<1>6. QED
  BY <1>1, <1>2, <1>3, <1>5 DEF Seen

\* The container writes: no sink has been sent the new byte, and the rest of the output stays.
LEMMA WriteKeeps ==
  ASSUME Seen, NEW b \in Bytes, Write(b)
  PROVE  Seen'
<1> USE DEF Write, attachers, logging
<1>0. Typed /\ Flows /\ Registered /\ Fed
  BY DEF Seen
<1>1. /\ written \in Seq(Bytes) /\ pipe \in Seq(Bytes) /\ Len(written) \in Nat /\ Len(pipe) \in Nat
      /\ Len(pipe) <= Len(written)
  BY <1>0, LenProperties DEF Typed, Flows, UpTo
<1>2. /\ written' \in Seq(Bytes) /\ Len(written') = Len(written) + 1
      /\ \A k \in 1..Len(written) : written'[k] = written[k]
      /\ pipe' \in Seq(Bytes) /\ Len(pipe') = Len(pipe) + 1
  BY <1>1, AppendProperties
<1>3. Taken' = Taken /\ Taken \in Int /\ Taken <= Len(written)
  BY <1>1, <1>2 DEF Taken
<1>4. Typed'
  BY <1>0, <1>2 DEF Typed, Casting
<1>5. Flows'
  <2>1. UpTo(written', Len(written'), pipe')
    BY <1>0, <1>1, UpToAppend DEF Flows
  <2>2. ASSUME tee.pc \in {"lock", "cast"} PROVE UpTo(written', Taken', tee'.chunk)
    <3>1. tee.chunk \in Seq(Bytes) /\ UpTo(written, Taken, tee.chunk)
      BY <1>0, <2>2 DEF Typed, Flows
    <3>2. UpTo(written', Taken, tee.chunk)
      BY <1>1, <1>2, <1>3, <3>1, UpToLonger
    <3>3. QED
      BY <1>3, <3>2
  <2>3. QED
    BY <2>1, <2>2 DEF Flows
<1>6. Registered'
  BY <1>0, RegisteredKept
<1>7. Fed'
  <2> SUFFICES ASSUME mode = "pipe", NEW j \in 1..Len(sinks), att[sinks[j]] \in {"reading", "stalled"}
               PROVE  Stretch(written', got[sinks[j]], mail[sinks[j]], since[sinks[j]], Reach(j)')
    BY DEF Fed
  <2> DEFINE a == sinks[j]
             r == Reach(j)
  <2>1. r \in Int /\ r <= Len(written)
    BY ReachBound
  <2>2. Reach(j)' = r
    BY <1>3 DEF Reach
  <2>3. a \in Attachers
    BY <1>0, ElementOfSeq DEF Typed
  <2>4. got[a] \in Seq(Bytes) /\ mail[a] \in Seq(Bytes) /\ since[a] \in Nat
    BY <1>0, <2>3 DEF Typed
  <2>5. Stretch(written, got[a], mail[a], since[a], r)
    BY <1>0 DEF Fed
  <2> HIDE DEF r, a
  <2>6. Stretch(written', got[a], mail[a], since[a], r)
    <3>1. Len(written) \in Nat /\ \A k \in 1..Len(written) : written'[k] = written[k]
      BY <1>1, <1>2
    <3>2. QED
      BY <2>1, <2>4, <2>5, <3>1, StretchLonger
  <2>7. QED
    BY <2>2, <2>6 DEF a
<1>8. QED
  BY <1>4, <1>5, <1>6, <1>7 DEF Seen

-----------------------------------------------------------------------------
(* The tee thread *)

\* The tee thread takes a chunk, all of it still to be sent.
LEMMA TeeReadKeeps ==
  ASSUME Seen, TeeRead
  PROVE  Seen'
<1>0. Typed /\ Flows /\ Registered /\ Fed
  BY DEF Seen
<1>1. PICK n \in 1..Len(pipe) :
         /\ tee' = [pc |-> IF mode = "pipe" THEN "lock" ELSE "log", chunk |-> SubSeq(pipe, 1, n)]
         /\ pipe' = SubSeq(pipe, n + 1, Len(pipe))
  BY DEF TeeRead
<1>2. /\ tee.pc = "read"
      /\ UNCHANGED <<mode, written, sinks, att, mail, got, since>>
  BY DEF TeeRead, process, attachers
<1>3. /\ tee'.pc = (IF mode = "pipe" THEN "lock" ELSE "log") /\ tee'.chunk = SubSeq(pipe, 1, n)
  BY <1>1
<1>4. written \in Seq(Bytes) /\ pipe \in Seq(Bytes) /\ Len(written) \in Nat /\ Len(pipe) \in Nat
  BY <1>0, LenProperties DEF Typed
<1>5. /\ tee'.chunk \in Seq(Bytes) /\ Len(tee'.chunk) = n
      /\ UpTo(written, Len(written) - Len(pipe'), tee'.chunk)
      /\ pipe' \in Seq(Bytes) /\ Len(pipe') = Len(pipe) - n /\ UpTo(written, Len(written), pipe')
  BY <1>0, <1>1, <1>3, <1>4, UpToSplit DEF Flows
<1>6. Typed'
  <2>1. tee'.pc \in {"lock", "log"} /\ (tee'.pc = "lock" => mode = "pipe") /\ Len(tee'.chunk) > 0
    BY <1>0, <1>3, <1>4, <1>5 DEF Typed
  <2>2. QED
    BY <1>0, <1>2, <1>5, <2>1 DEF Typed
<1>7. Flows'
  BY <1>2, <1>5 DEF Flows, Taken
<1>8. Registered'
  BY <1>0, <1>2, RegisteredKept
<1>9. Fed'
  <2>1. CASE mode = "pipe"
    <3>1. ASSUME NEW j \in 1..Len(sinks) PROVE Reach(j)' = Reach(j)
      <4>1. Reach(j)' = Len(written) - Len(pipe') - Len(tee'.chunk)
        BY <1>2, <1>3, <2>1 DEF Reach, Taken
      <4>2. Reach(j) = Len(written) - Len(pipe)
        BY <1>2 DEF Reach, Taken
      <4>3. QED
        BY <1>4, <1>5, <4>1, <4>2
    <3>2. QED
      BY <1>0, <1>2, <3>1, FedKept
  <2>2. CASE mode # "pipe"
    BY <1>2, <2>2 DEF Fed
  <2>3. QED
    BY <2>1, <2>2
<1>10. QED
  BY <1>6, <1>7, <1>8, <1>9 DEF Seen

\* broadcast starts at the first sink, and has sent nothing of the chunk.
LEMMA TeeLockKeeps ==
  ASSUME Seen, TeeLock
  PROVE  Seen'
<1>0. Typed /\ Flows /\ Registered /\ Fed
  BY DEF Seen
<1>1. /\ tee.pc = "lock" /\ tee' = [pc |-> "cast", chunk |-> tee.chunk, at |-> 1, sent |-> 0]
      /\ UNCHANGED <<mode, written, pipe, sinks, att, mail, got, since>>
  BY DEF TeeLock, process, attachers
<1>2. tee'.pc = "cast" /\ tee'.chunk = tee.chunk /\ tee'.at = 1 /\ tee'.sent = 0
  BY <1>1
<1>3. /\ tee.chunk \in Seq(Bytes) /\ Len(tee.chunk) > 0 /\ Len(tee.chunk) \in Nat
      /\ mode = "pipe" /\ Len(sinks) \in Nat
      /\ Len(written) \in Nat /\ Len(pipe) \in Nat
  BY <1>0, <1>1, LenProperties DEF Typed
<1>4. Typed'
  <2>1. tee' \in Casting
    BY <1>1, <1>3 DEF Casting
  <2>2. tee'.at <= Len(sinks) + 1 /\ tee'.sent < Len(tee'.chunk)
    BY <1>2, <1>3
  <2>3. QED
    BY <1>0, <1>1, <1>2, <1>3, <2>1, <2>2 DEF Typed
<1>5. Flows'
  BY <1>0, <1>1, <1>2 DEF Flows, Taken
<1>6. Registered'
  BY <1>0, <1>1, RegisteredKept
<1>7. ASSUME NEW j \in 1..Len(sinks) PROVE Reach(j)' = Reach(j)
  <2>1. Taken' = Taken /\ Taken \in Int
    BY <1>1, <1>3 DEF Taken
  <2>2. Reach(j)' = Taken - Len(tee.chunk) + 0
    <3>1. ~(j < tee'.at)
      BY <1>2, <1>3
    <3>2. QED
      BY <1>2, <2>1, <3>1 DEF Reach
  <2>3. Reach(j) = Taken - Len(tee.chunk)
    BY <1>1 DEF Reach
  <2>4. QED
    BY <1>3, <2>1, <2>2, <2>3
<1>8. Fed'
  BY <1>0, <1>1, <1>7, FedKept
<1>9. QED
  BY <1>4, <1>5, <1>6, <1>8 DEF Seen

\* Past the last sink, every sink has been sent the whole chunk.
LEMMA TeeUnlockKeeps ==
  ASSUME Seen, TeeUnlock
  PROVE  Seen'
<1>0. Typed /\ Flows /\ Registered /\ Fed
  BY DEF Seen
<1>1. /\ tee.pc = "cast" /\ tee.at > Len(sinks) /\ tee' = [pc |-> "log", chunk |-> tee.chunk]
      /\ UNCHANGED <<mode, written, pipe, sinks, att, mail, got, since>>
  BY DEF TeeUnlock, process, attachers
<1>2. tee'.pc = "log" /\ tee'.chunk = tee.chunk
  BY <1>1
<1>3. Typed'
  BY <1>0, <1>1, <1>2 DEF Typed
<1>4. Flows'
  BY <1>0, <1>1, <1>2 DEF Flows, Taken
<1>5. Registered'
  BY <1>0, <1>1, RegisteredKept
<1>6. ASSUME NEW j \in 1..Len(sinks) PROVE Reach(j)' = Reach(j)
  <2>1. j < tee.at
    <3>1. tee.at \in Nat /\ Len(sinks) \in Nat
      BY <1>0, <1>1, LenProperties DEF Typed, Casting
    <3>2. QED
      BY <1>1, <3>1
  <2>2. Taken' = Taken
    BY <1>1 DEF Taken
  <2>3. QED
    BY <1>1, <1>2, <2>1, <2>2 DEF Reach
<1>7. Fed'
  BY <1>0, <1>1, <1>6, FedKept
<1>8. QED
  BY <1>3, <1>4, <1>5, <1>7 DEF Seen

\* What the tee thread logs has been sent to every sink before.
LEMMA TeeLogKeeps ==
  ASSUME Seen, TeeLog \/ TeeEnd
  PROVE  Seen'
<1>0. Typed /\ Flows /\ Registered /\ Fed
  BY DEF Seen
<1>1. /\ tee.pc \in {"log", "read"} /\ tee'.pc \in {"read", "done"}
      /\ UNCHANGED <<mode, written, pipe, sinks, att, mail, got, since>>
  BY DEF TeeLog, TeeEnd, process, attachers
<1>2. Typed'
  BY <1>0, <1>1 DEF Typed
<1>3. Flows'
  BY <1>0, <1>1 DEF Flows
<1>4. Registered'
  BY <1>0, <1>1, RegisteredKept
<1>5. ASSUME NEW j \in 1..Len(sinks) PROVE Reach(j)' = Reach(j)
  BY <1>1 DEF Reach, Taken
<1>6. Fed'
  BY <1>0, <1>1, <1>5, FedKept
<1>7. QED
  BY <1>2, <1>3, <1>4, <1>6 DEF Seen

\* Taking one sink out of the list moves the later ones up by one place.
LEMMA RemoveAtProperties ==
  ASSUME NEW S, NEW s \in Seq(S), NEW i \in 1..Len(s)
  PROVE  /\ RemoveAt(s, i) \in Seq(S) /\ Len(RemoveAt(s, i)) = Len(s) - 1
         /\ \A k \in 1..(Len(s) - 1) : RemoveAt(s, i)[k] = s[IF k < i THEN k ELSE k + 1]
<1> DEFINE n == Len(s)
           h == i - 1
           l == i + 1
           c == SubSeq(s, 1, h)
           q == SubSeq(s, l, n)
           u == RemoveAt(s, i)
<1>1. n \in Nat /\ i \in 1..n /\ \A k \in 1..n : s[k] \in S
  BY LenProperties, ElementOfSeq
<1>2. u = c \o q
  BY DEF RemoveAt
<1> HIDE DEF n, u
<1>3. c \in Seq(S) /\ Len(c) = i - 1 /\ \A k \in 1..(i - 1) : c[k] = s[k]
  <2>1. h \in Int /\ h = i - 1
    BY <1>1
  <2> HIDE DEF h
  <2>2. \A k \in 1..h : s[k] \in S
    BY <1>1, <2>1
  <2>3. /\ c \in Seq(S) /\ Len(c) = (IF 1 <= h THEN h - 1 + 1 ELSE 0)
        /\ \A k \in 1..(h - 1 + 1) : c[k] = s[1 + k - 1]
    BY <2>1, <2>2, SubSeqProperties
  <2> HIDE DEF c
  <2>4. h - 1 + 1 = i - 1 /\ \A k \in 1..(i - 1) : 1 + k - 1 = k
    BY <1>1, <2>1
  <2>5. QED
    BY <1>1, <2>1, <2>3, <2>4
<1>4. q \in Seq(S) /\ Len(q) = n - i /\ \A k \in 1..(n - i) : q[k] = s[i + k]
  <2>1. l \in Int /\ l = i + 1
    BY <1>1
  <2> HIDE DEF l
  <2>2. \A k \in l..n : s[k] \in S
    BY <1>1, <2>1
  <2>3. /\ q \in Seq(S) /\ Len(q) = (IF l <= n THEN n - l + 1 ELSE 0)
        /\ \A k \in 1..(n - l + 1) : q[k] = s[l + k - 1]
    BY <1>1, <2>1, <2>2, SubSeqProperties
  <2> HIDE DEF q
  <2>4. n - l + 1 = n - i /\ \A k \in 1..(n - i) : l + k - 1 = i + k
    BY <1>1, <2>1
  <2>5. Len(q) = n - i
    BY <1>1, <2>1, <2>3
  <2>6. QED
    BY <2>3, <2>4, <2>5
<1> HIDE DEF c, q, h, l
<1>5. /\ u \in Seq(S) /\ Len(u) = Len(c) + Len(q)
      /\ \A k \in 1..(Len(c) + Len(q)) : u[k] = IF k <= Len(c) THEN c[k] ELSE q[k - Len(c)]
  BY <1>2, <1>3, <1>4, ConcatProperties
<1>6. Len(u) = n - 1
  BY <1>1, <1>3, <1>4, <1>5
<1>7. ASSUME NEW k \in 1..(n - 1) PROVE u[k] = s[IF k < i THEN k ELSE k + 1]
  <2>1. k \in 1..(Len(c) + Len(q)) /\ (k <= Len(c) <=> k < i)
    BY <1>1, <1>3, <1>4
  <2>2. CASE k < i
    <3>1. k \in 1..(i - 1)
      BY <1>1, <2>2
    <3>2. u[k] = c[k] /\ c[k] = s[k]
      BY <1>3, <1>5, <2>1, <2>2, <3>1
    <3>3. QED
      BY <2>2, <3>2
  <2>3. CASE ~(k < i)
    <3>1. k - Len(c) \in 1..(n - i) /\ i + (k - Len(c)) = k + 1
      BY <1>1, <1>3, <2>3
    <3>2. u[k] = q[k - Len(c)] /\ q[k - Len(c)] = s[i + (k - Len(c))]
      BY <1>4, <1>5, <2>1, <2>3, <3>1
    <3>3. QED
      BY <2>3, <3>1, <3>2
  <2>4. QED
    BY <2>2, <2>3
<1>8. QED
  BY <1>5, <1>6, <1>7 DEF n, u

\* A sink nobody reads any more leaves the list, and the one after it is next: nobody is
\* skipped and nobody is sent the chunk twice.
LEMMA TeePruneKeeps ==
  ASSUME Seen, TeePrune
  PROVE  Seen'
<1>0. Typed /\ Flows /\ Registered /\ Fed
  BY DEF Seen
<1> DEFINE n == Len(sinks)
<1>a. PICK i \in 1..n : i = tee.at
  <2>1. tee.at \in 1..n
    BY <1>0, LenProperties DEF TeePrune, Typed, Casting
  <2>2. QED
    BY <2>1
<1>1. /\ tee.pc = "cast" /\ i <= n /\ att[sinks[i]] = "closed"
      /\ sinks' = RemoveAt(sinks, i) /\ tee' = [tee EXCEPT !.sent = 0]
      /\ UNCHANGED <<mode, written, pipe, att, mail, got, since>>
  BY <1>a DEF TeePrune, process, attachers
<1>2. tee \in Casting /\ i <= n + 1 /\ tee.sent < Len(tee.chunk)
  BY <1>0, <1>1, <1>a DEF Typed
<1>3. /\ tee.chunk \in Seq(Bytes) /\ Len(tee.chunk) \in Nat /\ n \in Nat /\ i \in 1..n
      /\ Len(written) \in Nat /\ Len(pipe) \in Nat
  BY <1>0, <1>1, <1>2, LenProperties DEF Typed, Casting
<1>4. tee' \in Casting /\ tee'.pc = "cast" /\ tee'.chunk = tee.chunk /\ tee'.at = i /\ tee'.sent = 0
  BY <1>a, <1>1, <1>2 DEF Casting
<1>5. /\ sinks' \in Seq(Attachers) /\ Len(sinks') = n - 1
      /\ \A k \in 1..(n - 1) : sinks'[k] = sinks[IF k < i THEN k ELSE k + 1]
  BY <1>0, <1>1, <1>3, RemoveAtProperties DEF Typed
<1>6. Typed'
  <2>0. Len(tee'.chunk) = Len(tee.chunk) /\ Len(tee.chunk) > 0
    BY <1>0, <1>1, <1>4 DEF Typed
  <2>1. tee'.at <= Len(sinks') + 1 /\ tee'.sent < Len(tee'.chunk)
    BY <1>3, <1>4, <1>5, <2>0
  <2>2. tee'.chunk \in Seq(Bytes) /\ Len(tee'.chunk) > 0
    BY <1>0, <1>1, <1>4 DEF Typed
  <2>3. QED
    BY <1>0, <1>1, <1>4, <1>5, <2>1, <2>2 DEF Typed
<1>7. Flows'
  BY <1>0, <1>1, <1>4 DEF Flows, Taken
<1> DEFINE old(k) == IF k < i THEN k ELSE k + 1
<1>8. \A k \in 1..(n - 1) : old(k) \in 1..n /\ old(k) # i /\ sinks'[k] = sinks[old(k)]
  BY <1>3, <1>5
<1>9. \A k, l \in 1..(n - 1) : old(k) = old(l) => k = l
  BY <1>3
<1>10. \A l \in 1..n : l # i => \E k \in 1..(n - 1) : old(k) = l
  <2>1. TAKE l \in 1..n
  <2>2. CASE l < i
    <3>1. l \in 1..(n - 1) /\ old(l) = l
      BY <1>3, <2>2
    <3>2. QED
      BY <3>1
  <2>3. CASE l > i
    <3>1. l - 1 \in 1..(n - 1) /\ old(l - 1) = l
      BY <1>3, <2>3
    <3>2. QED
      BY <3>1
  <2>4. QED
    BY <1>3, <2>2, <2>3
<1>11. \A k \in 1..(n - 1) : Reach(k)' = Reach(old(k))
  <2>1. TAKE k \in 1..(n - 1)
  <2>2. Reach(k)' = IF k < i THEN Taken ELSE Taken - Len(tee.chunk) + 0
    <3>1. Taken' = Taken
      BY <1>1 DEF Taken
    <3>2. tee'.pc = "cast" /\ tee'.at = i /\ tee'.chunk = tee.chunk /\ tee'.sent = 0
      BY <1>4
    <3>3. Reach(k)' = IF k < tee'.at THEN Taken' ELSE Taken' - Len(tee'.chunk) + IF k = tee'.at THEN tee'.sent ELSE 0
      BY <3>2 DEF Reach
    <3>4. Reach(k)' = IF k < i THEN Taken ELSE Taken - Len(tee.chunk) + IF k = i THEN 0 ELSE 0
      BY <3>1, <3>2, <3>3
    <3>5. QED
      BY <3>4
  <2>3. Reach(old(k)) = IF old(k) < i THEN Taken ELSE Taken - Len(tee.chunk) + 0
    BY <1>a, <1>1, <1>8 DEF Reach
  <2>4. old(k) < i <=> k < i
    BY <1>3
  <2>5. QED
    BY <2>2, <2>3, <2>4
<1> HIDE DEF old
<1>12. Registered'
  <2> SUFFICES ASSUME mode = "pipe"
               PROVE  /\ \A k, l \in 1..(n - 1) : sinks'[k] = sinks'[l] => k = l
                      /\ \A a \in Attachers : att[a] \in {"reading", "stalled"} => \E k \in 1..(n - 1) : sinks'[k] = a
                      /\ \A k \in 1..(n - 1) : att[sinks'[k]] \notin {"new", "locked"}
                      /\ \A a \in Attachers : att[a] \in {"new", "locked"} => got[a] = <<>> /\ mail[a] = <<>>
    BY <1>1, <1>5 DEF Registered
  <2>1. \A k, l \in 1..(n - 1) : sinks'[k] = sinks'[l] => k = l
    <3>1. ASSUME NEW k \in 1..(n - 1), NEW l \in 1..(n - 1), sinks'[k] = sinks'[l] PROVE k = l
      <4>1. sinks[old(k)] = sinks[old(l)] /\ old(k) \in 1..n /\ old(l) \in 1..n
        BY <1>8, <3>1
      <4>2. old(k) = old(l)
        BY <1>0, <4>1 DEF Registered
      <4>3. QED
        BY <1>9, <4>2
    <3>2. QED
      BY <3>1
  <2>2. ASSUME NEW a \in Attachers, att[a] \in {"reading", "stalled"} PROVE \E k \in 1..(n - 1) : sinks'[k] = a
    <3>1. PICK l \in 1..n : sinks[l] = a
      BY <1>0, <2>2 DEF Registered
    <3>2. l # i
      BY <1>1, <2>2, <3>1
    <3>3. QED
      BY <1>8, <1>10, <3>1, <3>2
  <2>3. \A k \in 1..(n - 1) : att[sinks'[k]] \notin {"new", "locked"}
    BY <1>0, <1>8 DEF Registered
  <2>4. QED
    BY <1>0, <2>1, <2>2, <2>3 DEF Registered
<1>13. Fed'
  <2> SUFFICES ASSUME mode = "pipe", NEW k \in 1..(n - 1), att[sinks'[k]] \in {"reading", "stalled"}
               PROVE  Stretch(written, got[sinks'[k]], mail[sinks'[k]], since[sinks'[k]], Reach(k)')
    BY <1>1, <1>5 DEF Fed
  <2> DEFINE l == old(k)
  <2>1. l \in 1..n /\ sinks'[k] = sinks[l] /\ Reach(k)' = Reach(l)
    BY <1>8, <1>11
  <2> HIDE DEF l
  <2>2. Stretch(written, got[sinks[l]], mail[sinks[l]], since[sinks[l]], Reach(l))
    BY <1>0, <2>1 DEF Fed
  <2>3. QED
    BY <2>1, <2>2
<1>14. QED
  BY <1>6, <1>7, <1>12, <1>13 DEF Seen

\* broadcast sends the next byte of the chunk, which is the next byte of the output for
\* this sink and for no other.
LEMMA TeeSendKeeps ==
  ASSUME Seen, TeeSend
  PROVE  Seen'
<1>0. Typed /\ Flows /\ Registered /\ Fed
  BY DEF Seen
<1> DEFINE n == Len(sinks)
<1>a. PICK i \in 1..n, k \in Nat, m \in Nat, e \in Int :
         i = tee.at /\ k = tee.sent + 1 /\ m = Len(tee.chunk) /\ e = Taken
  <2>1. /\ tee.at \in 1..n /\ tee.sent \in Nat /\ Len(tee.chunk) \in Nat
        /\ Len(written) \in Nat /\ Len(pipe) \in Nat
    BY <1>0, LenProperties DEF TeeSend, Typed, Casting
  <2>2. tee.sent + 1 \in Nat /\ Taken \in Int
    BY <2>1 DEF Taken
  <2>3. QED
    BY <2>1, <2>2
<1>b. PICK x : x = sinks[i]
  OBVIOUS
<1>1. /\ tee.pc = "cast" /\ i <= n /\ att[x] # "closed"
      /\ mail' = [mail EXCEPT ![x] = Append(@, tee.chunk[k])]
      /\ tee' = IF k = m THEN [tee EXCEPT !.at = @ + 1, !.sent = 0] ELSE [tee EXCEPT !.sent = k]
      /\ UNCHANGED <<mode, written, pipe, sinks, att, got, since>>
  BY <1>a, <1>b DEF TeeSend, process, attachers
<1>2. tee \in Casting /\ i <= n + 1 /\ tee.sent < m /\ mode = "pipe"
  BY <1>0, <1>a, <1>1 DEF Typed
<1>3. /\ tee.chunk \in Seq(Bytes) /\ m \in Nat /\ n \in Nat /\ i \in 1..n /\ tee.sent \in Nat
      /\ k \in 1..m /\ e \in Int
  <2>1. tee.chunk \in Seq(Bytes) /\ tee.sent \in Nat
    BY <1>2 DEF Casting
  <2>2. n \in Nat
    BY <1>0, LenProperties DEF Typed
  <2>3. m \in Nat /\ k \in Nat /\ k = tee.sent + 1
    BY <1>a
  <2> HIDE DEF n
  <2>4. k \in 1..m
    BY <1>2, <2>1, <2>3
  <2>5. QED
    BY <1>a, <2>1, <2>2, <2>3, <2>4
<1>4. x \in Attachers /\ tee.chunk[k] \in Bytes /\ mail[x] \in Seq(Bytes)
  BY <1>0, <1>a, <1>b, <1>3, ElementOfSeq DEF Typed
<1>5. tee' \in Casting /\ tee'.pc = "cast" /\ tee'.chunk = tee.chunk
      /\ tee'.at = (IF k = m THEN i + 1 ELSE i) /\ tee'.sent = (IF k = m THEN 0 ELSE k)
  <2>1. CASE k = m
    <3>1. tee' = [tee EXCEPT !.at = @ + 1, !.sent = 0] /\ tee.at + 1 \in Nat \ {0}
      BY <1>a, <1>1, <2>1
    <3>2. QED
      BY <1>a, <1>2, <2>1, <3>1 DEF Casting
  <2>2. CASE k # m
    <3>1. tee' = [tee EXCEPT !.sent = k] /\ k \in Nat
      BY <1>1, <1>3, <2>2
    <3>2. QED
      BY <1>a, <1>2, <2>2, <3>1 DEF Casting
  <2>3. QED
    BY <2>1, <2>2
<1>6. /\ mail'[x] = Append(mail[x], tee.chunk[k]) /\ \A a \in Attachers : a # x => mail'[a] = mail[a]
      /\ mail' \in [Attachers -> Seq(Bytes)]
  <2>1. Append(mail[x], tee.chunk[k]) \in Seq(Bytes)
    BY <1>4, AppendProperties
  <2>2. mail \in [Attachers -> Seq(Bytes)]
    BY <1>0 DEF Typed
  <2>3. QED
    BY <1>1, <1>4, <2>1, <2>2
<1>7. Typed'
  <2>1. tee'.at <= n + 1 /\ tee'.sent < m
    BY <1>2, <1>3, <1>5
  <2>2. tee.chunk \in Seq(Bytes) /\ m > 0
    BY <1>0, <1>a, <1>1 DEF Typed
  <2>3. QED
    BY <1>0, <1>a, <1>1, <1>2, <1>5, <1>6, <2>1, <2>2 DEF Typed
<1>8. Flows'
  BY <1>0, <1>1, <1>5 DEF Flows, Taken
<1>9. att[x] \notin {"new", "locked"} /\ \A j \in 1..n : sinks[j] = x => j = i
  BY <1>0, <1>b, <1>2, <1>3 DEF Registered
<1>10. Registered'
  <2>1. \A a \in Attachers : att[a] \in {"new", "locked"} => mail'[a] = mail[a]
    BY <1>6, <1>9
  <2>2. QED
    BY <1>0, <1>1, <2>1 DEF Registered
<1>11. Reach(i) = (e - m) + tee.sent /\ Reach(i)' = (e - m) + k
  <2>0. Taken' = e
    BY <1>a, <1>1 DEF Taken
  <2>1. Reach(i) = (e - m) + tee.sent
    BY <1>a, <1>1, <1>3 DEF Reach
  <2>2. CASE k = m
    <3>1. Reach(i)' = e
      BY <1>3, <1>5, <2>0, <2>2 DEF Reach
    <3>2. QED
      BY <1>3, <2>1, <2>2, <3>1
  <2>3. CASE k # m
    <3>1. Reach(i)' = (e - m) + k
      BY <1>a, <1>3, <1>5, <2>0, <2>3 DEF Reach
    <3>2. QED
      BY <2>1, <3>1
  <2>4. QED
    BY <2>2, <2>3
<1>12. ASSUME NEW j \in 1..n, j # i PROVE Reach(j)' = Reach(j)
  <2>1. Reach(j) = IF j < i THEN e ELSE (e - m) + 0
    BY <1>a, <1>1, <1>12 DEF Reach
  <2>0. Taken' = e
    BY <1>a, <1>1 DEF Taken
  <2>2. Reach(j)' = IF j < tee'.at THEN e ELSE (e - m) + IF j = tee'.at THEN tee'.sent ELSE 0
    BY <1>a, <1>5, <2>0 DEF Reach
  <2>3. (j < tee'.at <=> j < i) /\ (j = tee'.at => tee'.sent = 0)
    BY <1>3, <1>5, <1>12
  <2>4. QED
    BY <2>1, <2>2, <2>3
<1>13. Fed'
  <2> SUFFICES ASSUME NEW j \in 1..n, att[sinks[j]] \in {"reading", "stalled"}
               PROVE  Stretch(written, got[sinks[j]], mail'[sinks[j]], since[sinks[j]], Reach(j)')
    BY <1>1, <1>2 DEF Fed
  <2>1. Stretch(written, got[sinks[j]], mail[sinks[j]], since[sinks[j]], Reach(j))
    BY <1>0, <1>2 DEF Fed
  <2>2. CASE j # i
    <3>1. sinks[j] # x /\ sinks[j] \in Attachers
      BY <1>0, <1>b, <1>9, <2>2, ElementOfSeq DEF Typed
    <3>2. QED
      BY <1>6, <1>12, <2>1, <2>2, <3>1
  <2>3. CASE j = i
    <3> DEFINE r == (e - m) + tee.sent
               c == tee.chunk[k]
               b == since[x]
    <3>1. tee.chunk[k] = written[e - m + k]
      BY <1>0, <1>a, <1>1, <1>3 DEF Flows, UpTo
    <3>2. r \in Int /\ r + 1 = e - m + k /\ r + 1 = (e - m) + k
      BY <1>a, <1>3
    <3>3. b \in Nat /\ got[x] \in Seq(Bytes)
      BY <1>0, <1>4 DEF Typed
    <3>4. Stretch(written, got[x], mail[x], b, r)
      BY <1>b, <1>11, <2>1, <2>3
    <3> HIDE DEF r, c, b
    <3>5. c \in Bytes /\ c = written[r + 1]
      BY <1>4, <3>1, <3>2 DEF c
    <3>6. Stretch(written, got[x], Append(mail[x], c), b, r + 1)
      BY <1>4, <3>2, <3>3, <3>4, <3>5, StretchSent
    <3>7. mail'[x] = Append(mail[x], c) /\ Reach(i)' = r + 1 /\ sinks[j] = x
      BY <1>b, <1>6, <1>11, <2>3, <3>2 DEF c
    <3>8. QED
      BY <2>3, <3>6, <3>7 DEF b
  <2>4. QED
    BY <2>2, <2>3
<1>14. QED
  BY <1>7, <1>8, <1>10, <1>13 DEF Seen

-----------------------------------------------------------------------------
(* The attachers *)

\* An attacher's own steps leave the bytes between the container and broadcast alone.
LEMMA FlowsKept ==
  ASSUME Flows, UNCHANGED <<written, pipe, tee>>
  PROVE  Flows'
BY DEF Flows, UpTo, Taken

\* Nor do they change how much a sink has been sent.
LEMMA ReachKept ==
  ASSUME UNCHANGED <<written, pipe, tee>>, NEW j
  PROVE  Reach(j)' = Reach(j)
BY DEF Reach, Taken

\* An attacher that finds the container running takes the lock of the io_table; it is in no
\* fan-out yet.
LEMMA AttachCheckKeeps ==
  ASSUME Seen, NEW a \in Attachers, AttachCheck(a)
  PROVE  Seen'
<1>0. Typed /\ Flows /\ Registered /\ Fed
  BY DEF Seen
<1>1. /\ att[a] = "new" /\ UNCHANGED <<mode, written, pipe, tee, sinks, mail, got, since>>
      /\ \/ att' = [att EXCEPT ![a] = "ended"]
         \/ mode # "pipe" /\ att' = [att EXCEPT ![a] = "reading"]
         \/ att' = [att EXCEPT ![a] = "locked"]
  BY DEF AttachCheck, process
<1>2. /\ att' \in [Attachers -> AttStates] /\ \A c \in Attachers : c # a => att'[c] = att[c]
      /\ mode = "pipe" => att'[a] \in {"ended", "locked"}
  <2>1. att \in [Attachers -> AttStates]
    BY <1>0 DEF Typed
  <2>2. QED
    BY <1>1, <2>1 DEF AttStates
<1>3. mode = "pipe" => \A j \in 1..Len(sinks) : sinks[j] \in Attachers /\ sinks[j] # a
  <2>1. \A j \in 1..Len(sinks) : sinks[j] \in Attachers
    BY <1>0, ElementOfSeq DEF Typed
  <2>2. mode = "pipe" => \A j \in 1..Len(sinks) : att[sinks[j]] # "new"
    BY <1>0 DEF Registered
  <2>3. QED
    BY <1>1, <2>1, <2>2
<1>4. Typed'
  BY <1>0, <1>1, <1>2 DEF Typed, Casting
<1>5. Flows'
  BY <1>0, <1>1, FlowsKept
<1>6. Registered'
  <2> SUFFICES ASSUME mode = "pipe"
               PROVE  /\ \A c \in Attachers : att'[c] \in {"reading", "stalled"} => \E i \in 1..Len(sinks) : sinks[i] = c
                      /\ \A i \in 1..Len(sinks) : att'[sinks[i]] \notin {"new", "locked"}
                      /\ \A c \in Attachers : att'[c] \in {"new", "locked"} => got[c] = <<>> /\ mail[c] = <<>>
    BY <1>0, <1>1 DEF Registered
  <2>1. \A c \in Attachers : att'[c] \in {"reading", "stalled"} => c # a /\ att[c] \in {"reading", "stalled"}
    BY <1>2
  <2>2. \A c \in Attachers : att'[c] \in {"new", "locked"} => att[c] \in {"new", "locked"}
    BY <1>1, <1>2
  <2>3. \A i \in 1..Len(sinks) : att'[sinks[i]] \notin {"new", "locked"}
    BY <1>0, <1>2, <1>3 DEF Registered
  <2>4. QED
    BY <1>0, <2>1, <2>2, <2>3 DEF Registered
<1>7. Fed'
  <2> SUFFICES ASSUME mode = "pipe", NEW j \in 1..Len(sinks), att'[sinks[j]] \in {"reading", "stalled"}
               PROVE  Stretch(written, got[sinks[j]], mail[sinks[j]], since[sinks[j]], Reach(j)')
    BY <1>1 DEF Fed
  <2>1. att[sinks[j]] \in {"reading", "stalled"}
    BY <1>2, <1>3
  <2>2. Reach(j)' = Reach(j)
    BY <1>1, ReachKept
  <2>3. QED
    BY <1>0, <2>1, <2>2 DEF Fed
<1>8. QED
  BY <1>4, <1>5, <1>6, <1>7 DEF Seen

\* No broadcast is under way when a sink joins the fan-out: it starts at the output that is
\* yet to be broadcast, at the end of the list.
LEMMA AttachRegisterKeeps ==
  ASSUME Seen, NEW a \in Attachers, AttachRegister(a)
  PROVE  Seen'
<1>0. Typed /\ Flows /\ Registered /\ Fed
  BY DEF Seen
<1> DEFINE n == Len(sinks)
<1>1. /\ att[a] = "locked" /\ tee.pc # "cast" /\ sinks' = Append(sinks, a)
      /\ since' = [since EXCEPT ![a] = Broadcast]
      /\ att' = [att EXCEPT ![a] = "reading"]
      /\ UNCHANGED <<mode, written, pipe, tee, mail, got>>
  BY DEF AttachRegister, process
<1>2. /\ n \in Nat /\ sinks' \in Seq(Attachers) /\ Len(sinks') = n + 1 /\ sinks'[n + 1] = a
      /\ \A j \in 1..n : sinks'[j] = sinks[j]
  BY <1>0, <1>1, LenProperties, AppendProperties DEF Typed
<1>3. /\ Len(written) \in Nat /\ Len(pipe) \in Nat /\ Len(pipe) <= Len(written)
      /\ tee.pc = "lock" => Len(tee.chunk) \in Nat /\ Len(tee.chunk) <= Len(written) - Len(pipe)
  BY <1>0, LenProperties DEF Typed, Flows, UpTo, Taken
<1>4. Broadcast \in Nat /\ \A j : Reach(j) = Broadcast
  <2>1. CASE tee.pc = "lock"
    BY <1>3, <2>1 DEF Broadcast, Reach, Taken
  <2>2. CASE tee.pc # "lock"
    BY <1>1, <1>3, <2>2 DEF Broadcast, Reach, Taken
  <2>3. QED
    BY <2>1, <2>2
<1>5. /\ att' \in [Attachers -> AttStates] /\ att'[a] = "reading"
      /\ \A c \in Attachers : c # a => att'[c] = att[c]
      /\ since' \in [Attachers -> Nat] /\ since'[a] = Broadcast
      /\ \A c \in Attachers : c # a => since'[c] = since[c]
  <2>1. att \in [Attachers -> AttStates] /\ since \in [Attachers -> Nat]
    BY <1>0 DEF Typed
  <2>2. QED
    BY <1>1, <1>4, <2>1 DEF AttStates
<1>6. mode = "pipe" => \A j \in 1..n : sinks[j] \in Attachers /\ sinks[j] # a
  <2>1. \A j \in 1..n : sinks[j] \in Attachers
    BY <1>0, ElementOfSeq DEF Typed
  <2>2. mode = "pipe" => \A j \in 1..n : att[sinks[j]] # "locked"
    BY <1>0 DEF Registered
  <2>3. QED
    BY <1>1, <2>1, <2>2
<1>7. Typed'
  BY <1>0, <1>1, <1>2, <1>5 DEF Typed
<1>8. Flows'
  BY <1>0, <1>1, FlowsKept
<1>9. \A j \in 1..(n + 1) : j \in 1..n \/ j = n + 1
  BY <1>2
<1>10. 1..n \subseteq 1..(n + 1) /\ n + 1 \in 1..(n + 1)
  BY <1>2
<1>11. Registered'
  <2> SUFFICES ASSUME mode = "pipe"
               PROVE  /\ \A i, j \in 1..(n + 1) : sinks'[i] = sinks'[j] => i = j
                      /\ \A c \in Attachers : att'[c] \in {"reading", "stalled"} => \E i \in 1..(n + 1) : sinks'[i] = c
                      /\ \A i \in 1..(n + 1) : att'[sinks'[i]] \notin {"new", "locked"}
                      /\ \A c \in Attachers : att'[c] \in {"new", "locked"} => got[c] = <<>> /\ mail[c] = <<>>
    BY <1>1, <1>2 DEF Registered
  <2>1. \A i, j \in 1..(n + 1) : sinks'[i] = sinks'[j] => i = j
    <3>1. \A i, j \in 1..n : sinks[i] = sinks[j] => i = j
      BY <1>0 DEF Registered
    <3>2. QED
      BY <1>2, <1>6, <1>9, <3>1
  <2>2. ASSUME NEW c \in Attachers, att'[c] \in {"reading", "stalled"}
        PROVE  \E i \in 1..(n + 1) : sinks'[i] = c
    <3>1. CASE c = a
      BY <1>2, <1>10, <3>1
    <3>2. CASE c # a
      <4>1. PICK i \in 1..n : sinks[i] = c
        BY <1>0, <1>5, <2>2, <3>2 DEF Registered
      <4>2. QED
        BY <1>2, <1>10, <4>1
    <3>3. QED
      BY <3>1, <3>2
  <2>3. ASSUME NEW i \in 1..(n + 1) PROVE att'[sinks'[i]] \notin {"new", "locked"}
    <3>1. CASE i = n + 1
      BY <1>2, <1>5, <3>1
    <3>2. CASE i \in 1..n
      <4>1. att'[sinks'[i]] = att[sinks[i]]
        BY <1>2, <1>5, <1>6, <3>2
      <4>2. QED
        BY <1>0, <3>2, <4>1 DEF Registered
    <3>3. QED
      BY <1>9, <3>1, <3>2
  <2>4. \A c \in Attachers : att'[c] \in {"new", "locked"} => got[c] = <<>> /\ mail[c] = <<>>
    BY <1>0, <1>5 DEF Registered
  <2>5. QED
    BY <2>1, <2>2, <2>3, <2>4
<1>12. Fed'
  <2> SUFFICES ASSUME mode = "pipe", NEW j \in 1..(n + 1), att'[sinks'[j]] \in {"reading", "stalled"}
               PROVE  Stretch(written, got[sinks'[j]], mail[sinks'[j]], since'[sinks'[j]], Reach(j)')
    BY <1>1, <1>2 DEF Fed
  <2>1. Reach(j)' = Reach(j)
    BY <1>1, ReachKept
  <2>2. CASE j = n + 1
    <3>1. got[a] = <<>> /\ mail[a] = <<>>
      BY <1>0, <1>1 DEF Registered
    <3>2. sinks'[j] = a /\ since'[a] = Broadcast /\ Reach(j)' = Broadcast
      BY <1>2, <1>4, <1>5, <2>1, <2>2
    <3>3. Stretch(written, <<>>, <<>>, Broadcast, Broadcast)
      BY <1>4, StretchEmpty
    <3>4. QED
      BY <3>1, <3>2, <3>3
  <2>3. CASE j \in 1..n
    <3>1. /\ sinks'[j] = sinks[j] /\ att'[sinks[j]] = att[sinks[j]]
          /\ since'[sinks[j]] = since[sinks[j]]
      BY <1>2, <1>5, <1>6, <2>3
    <3>2. Stretch(written, got[sinks[j]], mail[sinks[j]], since[sinks[j]], Reach(j))
      BY <1>0, <2>3, <3>1 DEF Fed
    <3>3. QED
      BY <2>1, <3>1, <3>2
  <2>4. QED
    BY <1>9, <2>2, <2>3
<1>13. QED
  BY <1>7, <1>8, <1>11, <1>12 DEF Seen

\* Reading moves bytes from the pipe of the attacher to what it has got.
LEMMA AttachReadKeeps ==
  ASSUME Seen, NEW a \in Attachers, AttachRead(a)
  PROVE  Seen'
<1>0. Typed /\ Flows /\ Registered /\ Fed
  BY DEF Seen
<1>1. /\ att[a] = "reading" /\ mode = "pipe"
      /\ got' = [got EXCEPT ![a] = @ \o mail[a]] /\ mail' = [mail EXCEPT ![a] = <<>>]
      /\ UNCHANGED <<mode, written, pipe, tee, sinks, att, since>>
  BY DEF AttachRead, process
<1>2. /\ got \in [Attachers -> Seq(Bytes)] /\ mail \in [Attachers -> Seq(Bytes)]
      /\ since \in [Attachers -> Nat]
  BY <1>0 DEF Typed
<1>3. got[a] \o mail[a] \in Seq(Bytes) /\ <<>> \in Seq(Bytes)
  BY <1>2, ConcatProperties, EmptySeq
<1>4. /\ got' \in [Attachers -> Seq(Bytes)] /\ mail' \in [Attachers -> Seq(Bytes)]
      /\ got'[a] = got[a] \o mail[a] /\ mail'[a] = <<>>
      /\ \A c \in Attachers : c # a => got'[c] = got[c] /\ mail'[c] = mail[c]
  BY <1>1, <1>2, <1>3
<1>5. Typed'
  BY <1>0, <1>1, <1>4 DEF Typed, Casting
<1>6. Flows'
  BY <1>0, <1>1, FlowsKept
<1>7. Registered'
  <2>1. \A c \in Attachers : att[c] \in {"new", "locked"} => got'[c] = got[c] /\ mail'[c] = mail[c]
    BY <1>1, <1>4
  <2>2. QED
    BY <1>0, <1>1, <2>1 DEF Registered
<1>8. Fed'
  <2> SUFFICES ASSUME NEW j \in 1..Len(sinks), att[sinks[j]] \in {"reading", "stalled"}
               PROVE  Stretch(written, got'[sinks[j]], mail'[sinks[j]], since[sinks[j]], Reach(j)')
    BY <1>1 DEF Fed
  <2>1. Stretch(written, got[sinks[j]], mail[sinks[j]], since[sinks[j]], Reach(j))
    BY <1>0, <1>1 DEF Fed
  <2>2. Reach(j)' = Reach(j)
    BY <1>1, ReachKept
  <2>3. Reach(j) \in Int
    BY ReachBound
  <2>4. sinks[j] \in Attachers
    BY <1>0, ElementOfSeq DEF Typed
  <2>5. CASE sinks[j] = a
    <3>1. Stretch(written, got[a] \o mail[a], <<>>, since[a], Reach(j))
      BY <1>2, <2>1, <2>3, <2>5, StretchRead
    <3>2. QED
      BY <1>4, <2>2, <2>5, <3>1
  <2>6. CASE sinks[j] # a
    BY <1>4, <2>1, <2>2, <2>4, <2>6
  <2>7. QED
    BY <2>5, <2>6
<1>9. QED
  BY <1>5, <1>6, <1>7, <1>8 DEF Seen

\* A reader of a pty master takes bytes from the tee thread; there is no fan-out.
LEMMA AttachReadTtyKeeps ==
  ASSUME Seen, NEW a \in Attachers, AttachReadTty(a)
  PROVE  Seen'
<1>0. Typed /\ Flows /\ Registered /\ Fed
  BY DEF Seen
<1>1. /\ mode = "tty" /\ pipe' = <<>> /\ got' = [got EXCEPT ![a] = @ \o pipe]
      /\ UNCHANGED <<mode, written, tee, sinks, att, mail, since>>
  BY DEF AttachReadTty, process
<1>2. /\ got \in [Attachers -> Seq(Bytes)] /\ pipe \in Seq(Bytes) /\ written \in Seq(Bytes)
      /\ Len(written) \in Nat
  BY <1>0, LenProperties DEF Typed
<1>3. got[a] \o pipe \in Seq(Bytes) /\ <<>> \in Seq(Bytes) /\ Len(<<>>) = 0
  BY <1>2, ConcatProperties, EmptySeq
<1>4. got' \in [Attachers -> Seq(Bytes)]
  BY <1>1, <1>2, <1>3
<1>5. Typed'
  BY <1>0, <1>1, <1>3, <1>4 DEF Typed, Casting
<1>6. Flows'
  <2>1. tee.pc \notin {"lock", "cast"}
    BY <1>0, <1>1 DEF Typed
  <2>2. \A i \in 1..0 : FALSE
    OBVIOUS
  <2>3. UpTo(written, Len(written), <<>>)
    BY <1>2, <1>3, <2>2 DEF UpTo
  <2>4. QED
    BY <1>1, <2>1, <2>3 DEF Flows
<1>7. Registered' /\ Fed'
  BY <1>1 DEF Registered, Fed
<1>8. QED
  BY <1>5, <1>6, <1>7 DEF Seen

\* An attacher that stops or goes away keeps its sink until broadcast finds it closed.
LEMMA LeaveKeeps ==
  ASSUME Seen, NEW a \in Attachers, AttachEof(a) \/ Stall(a) \/ Detach(a)
  PROVE  Seen'
<1>0. Typed /\ Flows /\ Registered /\ Fed
  BY DEF Seen
<1>1. PICK e \in {"ended", "stalled", "closed"} :
        /\ att[a] \in {"reading", "stalled"} /\ att' = [att EXCEPT ![a] = e]
        /\ mail' = mail \/ (e = "closed" /\ mail' = [mail EXCEPT ![a] = <<>>])
        /\ UNCHANGED <<mode, written, pipe, tee, sinks, got, since>>
  BY DEF AttachEof, Stall, Detach, process
<1>2. att \in [Attachers -> AttStates] /\ mail \in [Attachers -> Seq(Bytes)] /\ <<>> \in Seq(Bytes)
  BY <1>0, EmptySeq DEF Typed
<1>3. /\ att' \in [Attachers -> AttStates] /\ mail' \in [Attachers -> Seq(Bytes)] /\ att'[a] = e
      /\ \A c \in Attachers : c # a => att'[c] = att[c] /\ mail'[c] = mail[c]
      /\ e # "closed" => mail' = mail
  BY <1>1, <1>2 DEF AttStates
<1>4. Typed'
  BY <1>0, <1>1, <1>3 DEF Typed, Casting
<1>5. Flows'
  BY <1>0, <1>1, FlowsKept
<1>6. \A c \in Attachers : att'[c] \in {"reading", "stalled"} => att[c] \in {"reading", "stalled"} /\ mail'[c] = mail[c]
  BY <1>1, <1>3
<1>7. \A c \in Attachers : att'[c] \in {"new", "locked"} => att[c] \in {"new", "locked"} /\ mail'[c] = mail[c]
  BY <1>3
<1>8. \A j \in 1..Len(sinks) : sinks[j] \in Attachers
  BY <1>0, ElementOfSeq DEF Typed
<1>9. Registered'
  <2>1. \A c \in Attachers : att[c] \notin {"new", "locked"} => att'[c] \notin {"new", "locked"}
    BY <1>7
  <2>2. QED
    BY <1>0, <1>1, <1>6, <1>7, <1>8, <2>1 DEF Registered
<1>10. Fed'
  <2> SUFFICES ASSUME mode = "pipe", NEW j \in 1..Len(sinks), att'[sinks[j]] \in {"reading", "stalled"}
               PROVE  Stretch(written, got[sinks[j]], mail'[sinks[j]], since[sinks[j]], Reach(j)')
    BY <1>1 DEF Fed
  <2>1. att[sinks[j]] \in {"reading", "stalled"} /\ mail'[sinks[j]] = mail[sinks[j]]
    BY <1>6, <1>8
  <2>2. Reach(j)' = Reach(j)
    BY <1>1, ReachKept
  <2>3. QED
    BY <1>0, <2>1, <2>2 DEF Fed
<1>11. QED
  BY <1>4, <1>5, <1>9, <1>10 DEF Seen

-----------------------------------------------------------------------------
(* The theorem *)

\* Before anything is written nobody has seen anything.
LEMMA InitSeen == Init => Seen
<1> SUFFICES ASSUME Init PROVE Seen
  OBVIOUS
<1> USE DEF Init
<1>1. <<>> \in Seq(Bytes) /\ <<>> \in Seq(Attachers) /\ Len(<<>>) = 0 /\ \A i \in 1..0 : FALSE
  BY EmptySeq
<1>2. tee.pc = "read"
  OBVIOUS
<1>3. mode \in {"pipe", "tty"}
  BY IoConstants
<1>4. Typed
  BY <1>1, <1>2, <1>3 DEF Typed, AttStates
<1>5. Flows
  BY <1>1, <1>2 DEF Flows, UpTo
<1>6. Registered
  BY <1>1 DEF Registered
<1>7. Fed
  BY <1>1 DEF Fed
<1>8. QED
  BY <1>4, <1>5, <1>6, <1>7 DEF Seen

\* Every step of the container, the reaper, the tee thread and an attacher keeps the
\* invariant.
LEMMA StepSeen == Seen /\ [Next]_iovars => Seen'
<1> SUFFICES ASSUME Seen, [Next]_iovars PROVE Seen'
  OBVIOUS
<1>1. ASSUME NEW b \in Bytes, Write(b) PROVE Seen'
  BY <1>1, WriteKeeps
<1>2. CASE CloseOutput \/ Exit \/ Reap \/ RecordExit \/ UNCHANGED iovars
  <2>1. UNCHANGED <<mode, written, pipe, tee, sinks, att, mail, got, since>>
    BY <1>2 DEF CloseOutput, Exit, Reap, RecordExit, iovars, process, attachers
  <2>2. QED
    BY <2>1, StillKeeps
<1>3. CASE TeeStep
  BY <1>3, TeeReadKeeps, TeeLockKeeps, TeeSendKeeps, TeePruneKeeps, TeeUnlockKeeps, TeeLogKeeps DEF TeeStep
<1>4. ASSUME NEW a \in Attachers, AttachCheck(a) PROVE Seen'
  BY <1>4, AttachCheckKeeps
<1>5. ASSUME NEW a \in Attachers, AttachStep(a) PROVE Seen'
  BY <1>5, AttachRegisterKeeps, AttachReadKeeps, AttachReadTtyKeeps, LeaveKeeps DEF AttachStep
<1>6. ASSUME NEW a \in Attachers, Stall(a) \/ Detach(a) PROVE Seen'
  BY <1>6, LeaveKeeps
<1>7. QED
  BY <1>1, <1>2, <1>3, <1>4, <1>5, <1>6 DEF Next

\* Whatever the container writes and however its output is cut into reads, whoever attaches,
\* stalls and leaves: an attacher of a container with pipes has got, or has in its pipe, a
\* gapless stretch of the output that starts where it registered and ends where broadcast is
\* (open_attach's registration against TeeFanout::broadcast).
THEOREM AttachersSeeAll == Spec => []AttacherSeesAll
<1>1. Init => Seen
  BY InitSeen
<1>2. Seen /\ [Next]_iovars => Seen'
  BY StepSeen
<1>3. Seen => AttacherSeesAll
  BY SeenIsAll
<1>4. QED
  BY <1>1, <1>2, <1>3, PTL DEF Spec
=============================================================================
