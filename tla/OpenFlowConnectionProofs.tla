---------------------- MODULE OpenFlowConnectionProofs ----------------------
(***************************************************************************)
(* dataReceived() (ofagent/of_connection.py) implements the channel that   *)
(* the protocol handler relies on, and feeds the message queue as that     *)
(* queue expects, for any messages of any lengths and however TCP cuts the *)
(* stream.                                                                 *)
(*                                                                         *)
(* The invariant lays the messages out on the stream: what is in the       *)
(* buffer and under way is what was sent and has not arrived, one message  *)
(* behind the other.                                                       *)
(***************************************************************************)
EXTENDS OpenFlowConnection, MessageQueueProofs

Byte == Messages \X Nat

StreamTypes ==
    /\ sent \in Seq(Messages) /\ arrived \in Seq(Messages)
    /\ wire \in Seq(Byte) /\ read_buffer \in Seq(Byte)
    /\ parsing => connected

\* The stream from the first byte that was not consumed.
At(buf, rest, p) == IF p <= Len(buf) THEN buf[p] ELSE rest[p - Len(buf)]

\* Message i begins behind the byte off[i] of everything that was sent.
Offsets(off, ms) ==
    /\ off \in [Nat -> Nat]
    /\ \A i \in 1..Len(ms) : off[i + 1] = off[i] + Length[ms[i]]
    /\ \A i, j \in 1..(Len(ms) + 1) : i <= j => off[i] <= off[j]

\* buf and rest hold the messages ms from the n-th on, and nothing else.
Holds(off, ms, n, buf, rest) ==
    /\ off[Len(ms) + 1] = off[n] + Len(buf) + Len(rest)
    /\ \A i \in n..Len(ms) : \A k \in 1..Length[ms[i]] :
        At(buf, rest, off[i] - off[n] + k) = <<ms[i], k>>

LaidOut ==
    \E off : /\ Offsets(off, sent)
             /\ Holds(off, sent, Len(arrived) + 1, read_buffer, wire)

Prefix ==
    /\ Len(arrived) <= Len(sent)
    /\ \A i \in 1..Len(arrived) : arrived[i] = sent[i]

\* The controller does not send a message object twice.
Distinct == \A i, j \in 1..Len(sent) : sent[i] = sent[j] => i = j

StreamInv == StreamTypes /\ LaidOut /\ Prefix /\ Distinct

-----------------------------------------------------------------------------

\* b and r hold the same stream as buf and rest.
SameStream(buf, rest, b, r) ==
    /\ b \in Seq(Byte) /\ r \in Seq(Byte)
    /\ Len(b) + Len(r) = Len(buf) + Len(rest)
    /\ \A p \in 1..(Len(buf) + Len(rest)) : At(b, r, p) = At(buf, rest, p)

\* b and rest hold the same stream without its first n bytes.
StreamAfter(n, buf, rest, b) ==
    /\ b \in Seq(Byte) /\ n + Len(b) = Len(buf)
    /\ \A p \in 1..(Len(b) + Len(rest)) : At(b, rest, p) = At(buf, rest, n + p)

\* buf and r hold the same stream with message m behind it.
StreamWith(m, buf, rest, r) ==
    /\ r \in Seq(Byte) /\ Len(r) = Len(rest) + Length[m]
    /\ \A p \in 1..(Len(buf) + Len(rest)) : At(buf, r, p) = At(buf, rest, p)
    /\ \A k \in 1..Length[m] : At(buf, r, Len(buf) + Len(rest) + k) = <<m, k>>

\* Bytes that move from the wire to the buffer keep their places.
LEMMA Moved ==
    ASSUME NEW buf \in Seq(Byte), NEW rest \in Seq(Byte), NEW n \in 1..Len(rest),
           NEW b, b = buf \o SubSeq(rest, 1, n),
           NEW r, r = SubSeq(rest, n + 1, Len(rest))
    PROVE  SameStream(buf, rest, b, r)
<1> DEFINE a == SubSeq(rest, 1, n)
<1>1. n \in Nat /\ Len(buf) \in Nat /\ Len(rest) \in Nat /\ 1 <= n /\ n <= Len(rest)
  OBVIOUS
<1>2. a \in Seq(Byte) /\ Len(a) = n /\ \A p \in 1..n : a[p] = rest[p]
  BY <1>1
<1>3. /\ r \in Seq(Byte) /\ Len(r) = Len(rest) - n
      /\ \A p \in 1..(Len(rest) - n) : r[p] = rest[n + p]
  BY <1>1
<1> HIDE DEF a
<1>4. /\ b \in Seq(Byte) /\ Len(b) = Len(buf) + n
      /\ \A p \in 1..Len(buf) : b[p] = buf[p]
      /\ \A p \in 1..n : b[Len(buf) + p] = a[p]
  <2>1. b = buf \o a
    BY Zenon DEF a
  <2>2. /\ b \in Seq(Byte) /\ Len(b) = Len(buf) + Len(a)
        /\ \A p \in 1..Len(buf) : b[p] = buf[p]
        /\ \A p \in 1..Len(a) : b[Len(buf) + p] = a[p]
    BY <1>2, <2>1
  <2> QED
    BY <1>2, <2>2, Zenon
<1>5. ASSUME NEW p \in 1..(Len(buf) + Len(rest))
      PROVE  At(b, r, p) = At(buf, rest, p)
  <2>1. CASE p <= Len(buf)
    BY <1>1, <1>4, <2>1 DEF At
  <2>2. CASE p > Len(buf) /\ p <= Len(buf) + n
    <3>1. p - Len(buf) \in 1..n /\ Len(buf) + (p - Len(buf)) = p
      BY <1>1, <2>2
    <3>2. b[p] = rest[p - Len(buf)]
      BY <1>2, <1>4, <3>1, Zenon
    <3> QED
      BY <1>1, <1>4, <2>2, <3>2 DEF At
  <2>3. CASE p > Len(buf) + n
    <3>1. /\ p - (Len(buf) + n) \in 1..(Len(rest) - n)
          /\ n + (p - (Len(buf) + n)) = p - Len(buf)
      BY <1>1, <2>3
    <3>2. r[p - (Len(buf) + n)] = rest[p - Len(buf)]
      BY <1>3, <3>1
    <3> QED
      BY <1>1, <1>4, <2>3, <3>2 DEF At
  <2> QED
    BY <1>1, <2>1, <2>2, <2>3
<1>6. Len(b) + Len(r) = Len(buf) + Len(rest)
  <2>1. (Len(buf) + n) + (Len(rest) - n) = Len(buf) + Len(rest)
    BY <1>1
  <2> QED
    BY <1>3, <1>4, <2>1, Zenon
<1> QED
  BY <1>3, <1>4, <1>5, <1>6, Zenon DEF SameStream

\* What is consumed is taken off the front.
LEMMA Consumed ==
    ASSUME NEW buf \in Seq(Byte), NEW rest \in Seq(Byte), NEW n \in Nat,
           n <= Len(buf), NEW b, b = SubSeq(buf, n + 1, Len(buf))
    PROVE  StreamAfter(n, buf, rest, b)
<1>1. Len(buf) \in Nat /\ Len(rest) \in Nat
  OBVIOUS
<1>2. /\ b \in Seq(Byte) /\ Len(b) = Len(buf) - n
      /\ \A p \in 1..(Len(buf) - n) : b[p] = buf[n + p]
  BY <1>1
<1>3. ASSUME NEW p \in 1..(Len(b) + Len(rest))
      PROVE  At(b, rest, p) = At(buf, rest, n + p)
  BY <1>1, <1>2 DEF At
<1>4. n + Len(b) = Len(buf)
  BY <1>1, <1>2
<1> QED
  BY <1>2, <1>3, <1>4, Zenon DEF StreamAfter

\* What is written goes to the end.
LEMMA Written ==
    ASSUME NEW buf \in Seq(Byte), NEW rest \in Seq(Byte), NEW m \in Messages,
           NEW r, r = rest \o Bytes(m)
    PROVE  StreamWith(m, buf, rest, r)
<1> DEFINE a == Bytes(m)
<1>1. Length[m] \in Nat /\ Len(buf) \in Nat /\ Len(rest) \in Nat
  BY LengthAssumption DEF LengthAssumption, HEADER
<1>2. a \in Seq(Byte) /\ Len(a) = Length[m] /\ \A k \in 1..Length[m] : a[k] = <<m, k>>
  <2>1. PICK n \in Nat : n = Length[m]
    BY <1>1, Zenon
  <2>2. a = [k \in 1..n |-> <<m, k>>]
    BY <2>1, Zenon DEF Bytes
  <2> HIDE DEF a
  <2>3. \A k \in 1..n : <<m, k>> \in Byte
    BY DEF Byte
  <2>4. a \in Seq(Byte) /\ Len(a) = n /\ \A k \in 1..n : a[k] = <<m, k>>
    BY <2>2, <2>3
  <2> QED
    BY <2>1, <2>4, Zenon
<1> HIDE DEF a
<1>3. /\ r \in Seq(Byte) /\ Len(r) = Len(rest) + Length[m]
      /\ \A p \in 1..Len(rest) : r[p] = rest[p]
      /\ \A k \in 1..Length[m] : r[Len(rest) + k] = a[k]
  <2>1. r = rest \o a
    BY Zenon DEF a
  <2>2. /\ r \in Seq(Byte) /\ Len(r) = Len(rest) + Len(a)
        /\ \A p \in 1..Len(rest) : r[p] = rest[p]
        /\ \A k \in 1..Len(a) : r[Len(rest) + k] = a[k]
    BY <1>2, <2>1
  <2> QED
    BY <1>2, <2>2, Zenon
<1>4. ASSUME NEW p \in 1..(Len(buf) + Len(rest))
      PROVE  At(buf, r, p) = At(buf, rest, p)
  <2>1. p > Len(buf) => p - Len(buf) \in 1..Len(rest)
    BY <1>1
  <2> QED
    BY <1>1, <1>3, <2>1 DEF At
<1>5. ASSUME NEW k \in 1..Length[m]
      PROVE  At(buf, r, Len(buf) + Len(rest) + k) = <<m, k>>
  <2>1. /\ ~(Len(buf) + Len(rest) + k <= Len(buf))
        /\ (Len(buf) + Len(rest) + k) - Len(buf) = Len(rest) + k
    BY <1>1
  <2>2. r[Len(rest) + k] = <<m, k>>
    BY <1>2, <1>3, Zenon
  <2> QED
    BY <2>1, <2>2, Zenon DEF At
<1> QED
  BY <1>3, <1>4, <1>5, Zenon DEF StreamWith

-----------------------------------------------------------------------------

\* Places on the stream, counted from the message at x and from the next.
Skips(x, y, L, B, b, R) ==
    y = x + L /\ L + b = B => x + B + R = y + b + R
Shifts(x, y, z, L, B, b, R, k) ==
    /\ y = x + L /\ L + b = B /\ y <= z
    /\ z - x + k \in 1..(B + R)
    => z - y + k \in 1..(b + R) /\ L + (z - y + k) = z - x + k

LEMMA Skipping == \A x, y, L, B, b, R \in Nat : Skips(x, y, L, B, b, R)
  BY DEF Skips

LEMMA Shifting ==
    \A x, y, z, L, B, b, R \in Nat, k \in Nat \ {0} : Shifts(x, y, z, L, B, b, R, k)
  BY DEF Shifts

LEMMA LenIsNat == \A S : \A s \in Seq(S) : Len(s) \in Nat
  OBVIOUS

LEMMA LengthsAreNat == \A m \in Messages : Length[m] \in Nat /\ Length[m] >= 8
  BY LengthAssumption DEF LengthAssumption, HEADER

\* The bytes of the messages from the n-th on are within the stream.
LEMMA InStream ==
    ASSUME NEW ms \in Seq(Messages), NEW n \in 1..(Len(ms) + 1),
           NEW buf \in Seq(Byte), NEW rest \in Seq(Byte),
           NEW off, Offsets(off, ms), Holds(off, ms, n, buf, rest),
           NEW i \in n..Len(ms), NEW k \in 1..Length[ms[i]]
    PROVE  /\ off[i] - off[n] + k \in 1..(Len(buf) + Len(rest))
           /\ off[n] \in Nat /\ off[i] \in Nat /\ off[n] <= off[i]
<1>1. Len(ms) \in Nat /\ Len(buf) \in Nat /\ Len(rest) \in Nat
  OBVIOUS
<1>2. /\ n \in Nat /\ i \in Nat /\ i + 1 \in Nat /\ Len(ms) + 1 \in Nat
      /\ n \in 1..(Len(ms) + 1) /\ i \in 1..(Len(ms) + 1)
      /\ i + 1 \in 1..(Len(ms) + 1) /\ Len(ms) + 1 \in 1..(Len(ms) + 1)
      /\ n <= i /\ i + 1 <= Len(ms) + 1 /\ i \in 1..Len(ms)
  BY <1>1
<1>3. ms[i] \in Messages
  BY <1>2
<1>4. Length[ms[i]] \in Nat
  BY <1>3, LengthsAreNat, Zenon
<1>5. /\ off[n] \in Nat /\ off[i] \in Nat /\ off[i + 1] \in Nat
      /\ off[Len(ms) + 1] \in Nat
  BY <1>2, Zenon DEF Offsets
<1>6. /\ off[n] <= off[i] /\ off[i + 1] <= off[Len(ms) + 1]
      /\ off[i + 1] = off[i] + Length[ms[i]]
      /\ off[Len(ms) + 1] = off[n] + Len(buf) + Len(rest)
  BY <1>2, Zenon DEF Offsets, Holds
<1>7. PICK L \in Nat : L = Length[ms[i]]
  BY <1>4, Zenon
<1>8. k \in 1..L /\ off[i + 1] = off[i] + L
  BY <1>6, <1>7, Zenon
<1>9. PICK x \in Nat, y \in Nat, z \in Nat, w \in Nat :
        x = off[n] /\ y = off[i] /\ z = off[i + 1] /\ w = off[Len(ms) + 1]
  BY <1>5, Zenon
<1>10. x <= y /\ z <= w /\ z = y + L /\ w = x + Len(buf) + Len(rest)
  BY <1>6, <1>8, <1>9, Zenon
<1>11. y - x + k \in 1..(Len(buf) + Len(rest))
  BY <1>1, <1>8, <1>10
<1> QED
  BY <1>5, <1>6, <1>9, <1>11, Zenon

\* dataReceived() takes bytes from the wire.
LEMMA LaysMoved ==
    ASSUME NEW ms \in Seq(Messages), NEW n \in 1..(Len(ms) + 1),
           NEW buf \in Seq(Byte), NEW rest \in Seq(Byte),
           NEW off, Offsets(off, ms), Holds(off, ms, n, buf, rest),
           NEW c \in 1..Len(rest),
           NEW b, b = buf \o SubSeq(rest, 1, c),
           NEW r, r = SubSeq(rest, c + 1, Len(rest))
    PROVE  Holds(off, ms, n, b, r)
<1>1. SameStream(buf, rest, b, r)
  BY Moved, Zenon
<1>2. off[Len(ms) + 1] = off[n] + Len(b) + Len(r)
  <2>1. off[Len(ms) + 1] = off[n] + Len(buf) + Len(rest)
    BY Zenon DEF Holds
  <2>2. off[n] \in Nat
    BY DEF Offsets
  <2>3. /\ Len(buf) \in Nat /\ Len(rest) \in Nat /\ Len(b) \in Nat
        /\ Len(r) \in Nat /\ Len(b) + Len(r) = Len(buf) + Len(rest)
    <3>1. /\ b \in Seq(Byte) /\ r \in Seq(Byte)
          /\ Len(b) + Len(r) = Len(buf) + Len(rest)
      BY <1>1, Zenon DEF SameStream
    <3> QED
      BY <3>1, LenIsNat, Zenon
  <2> QED
    BY <2>1, <2>2, <2>3
<1>3. ASSUME NEW i \in n..Len(ms), NEW k \in 1..Length[ms[i]]
      PROVE  At(b, r, off[i] - off[n] + k) = <<ms[i], k>>
  <2>1. off[i] - off[n] + k \in 1..(Len(buf) + Len(rest))
    BY InStream, Zenon
  <2>2. At(buf, rest, off[i] - off[n] + k) = <<ms[i], k>>
    BY Zenon DEF Holds
  <2> QED
    BY <1>1, <2>1, <2>2, Zenon DEF SameStream
<1> QED
  BY <1>2, <1>3, Zenon DEF Holds

\* An iteration of its loop consumes the first message.
LEMMA LaysConsumed ==
    ASSUME NEW ms \in Seq(Messages), NEW n \in 1..Len(ms),
           NEW buf \in Seq(Byte), NEW rest \in Seq(Byte),
           NEW off, Offsets(off, ms), Holds(off, ms, n, buf, rest),
           NEW L \in Nat, L = Length[ms[n]], L <= Len(buf),
           NEW b, b = SubSeq(buf, L + 1, Len(buf))
    PROVE  Holds(off, ms, n + 1, b, rest)
<1>1. StreamAfter(L, buf, rest, b)
  BY Consumed, Zenon
<1>2. /\ Len(ms) \in Nat /\ Len(buf) \in Nat /\ Len(rest) \in Nat
      /\ Len(b) \in Nat /\ L + Len(b) = Len(buf)
  <2>1. b \in Seq(Byte) /\ L + Len(b) = Len(buf)
    BY <1>1, Zenon DEF StreamAfter
  <2> QED
    BY <2>1, LenIsNat, Zenon
<1>3. n \in 1..(Len(ms) + 1) /\ n \in Nat /\ n + 1 \in Nat
  BY <1>2
<1>4. off[n] \in Nat /\ off[n + 1] \in Nat /\ off[n + 1] = off[n] + L
  BY <1>3, Zenon DEF Offsets
<1>5. off[Len(ms) + 1] = off[n + 1] + Len(b) + Len(rest)
  <2>1. off[Len(ms) + 1] = off[n] + Len(buf) + Len(rest)
    BY Zenon DEF Holds
  <2>2. Skips(off[n], off[n + 1], L, Len(buf), Len(b), Len(rest))
    BY <1>2, <1>4, Skipping, Zenon
  <2> QED
    BY <1>2, <1>4, <2>1, <2>2, Zenon DEF Skips
<1>6. ASSUME NEW i \in (n + 1)..Len(ms), NEW k \in 1..Length[ms[i]]
      PROVE  At(b, rest, off[i] - off[n + 1] + k) = <<ms[i], k>>
  <2>1. i \in n..Len(ms) /\ n + 1 <= i /\ i \in Nat
    BY <1>2, <1>3
  <2>2. /\ off[i] - off[n] + k \in 1..(Len(buf) + Len(rest))
        /\ off[i] \in Nat
    BY <1>3, <2>1, InStream, Zenon
  <2>3. off[n + 1] <= off[i]
    <3>1. n + 1 \in 1..(Len(ms) + 1) /\ i \in 1..(Len(ms) + 1)
      BY <1>2, <1>3, <2>1
    <3> QED
      BY <2>1, <3>1, Zenon DEF Offsets
  <2>4. At(buf, rest, off[i] - off[n] + k) = <<ms[i], k>>
    BY <2>1, Zenon DEF Holds
  <2>5. Length[ms[i]] \in Nat
    <3>1. ms[i] \in Messages
      BY <2>1, <1>3
    <3> QED
      BY <3>1, LengthsAreNat, Zenon
  <2>6. k \in Nat \ {0}
    BY <2>5
  <2>7. /\ off[i] - off[n + 1] + k \in 1..(Len(b) + Len(rest))
        /\ L + (off[i] - off[n + 1] + k) = off[i] - off[n] + k
    <3>1. Shifts(off[n], off[n + 1], off[i], L, Len(buf), Len(b), Len(rest), k)
      BY <1>2, <1>4, <2>2, <2>6, Shifting, Zenon
    <3> QED
      BY <1>2, <1>4, <2>2, <2>3, <3>1, Zenon DEF Shifts
  <2> QED
    BY <1>1, <2>4, <2>7, Zenon DEF StreamAfter
<1> QED
  BY <1>5, <1>6, Zenon DEF Holds

\* The last message ends where the stream ends.
Ends(x, y, L, B, R, S) == y = x + B + R /\ S = R + L => y + L = x + B + S
Behind(x, y, B, R, k) == y = x + B + R => y - x + k = B + R + k

LEMMA Ending ==
    /\ \A x, y, L, B, R, S \in Nat : Ends(x, y, L, B, R, S)
    /\ \A x, y, B, R, k \in Nat : Behind(x, y, B, R, k)
  BY DEF Ends, Behind

\* o is off with place N + 2 set to v.
PutAt(o, off, N, v) ==
    /\ o \in [Nat -> Nat] /\ o[N + 2] = v
    /\ \A i \in 1..(N + 1) : o[i] = off[i]

LEMMA PuttingAt ==
    ASSUME NEW off \in [Nat -> Nat], NEW N \in Nat, NEW v \in Nat
    PROVE  PutAt([off EXCEPT ![N + 2] = v], off, N, v)
  BY DEF PutAt

\* The controller writes message m: where the new message begins.
LEMMA NewOffsets ==
    ASSUME NEW ms \in Seq(Messages), NEW m \in Messages,
           NEW off, Offsets(off, ms),
           NEW ns, ns = Append(ms, m),
           NEW o, PutAt(o, off, Len(ms), off[Len(ms) + 1] + Length[m])
    PROVE  Offsets(o, ns)
<1>1. PICK N \in Nat : N = Len(ms)
  BY LenIsNat, Zenon
<1>2. PICK L \in Nat : L = Length[m]
  BY LengthsAreNat, Zenon
<1>3. off \in [Nat -> Nat]
  BY Zenon DEF Offsets
<1>4. PICK e \in Nat : e = off[N + 1]
  BY <1>3
<1>5. PutAt(o, off, N, e + L)
  BY <1>1, <1>2, <1>4, Zenon
<1>6. /\ o \in [Nat -> Nat] /\ o[N + 2] = e + L
      /\ \A i \in 1..(N + 1) : o[i] = off[i]
  BY <1>5, Zenon DEF PutAt
<1>7. /\ Len(ns) = N + 1 /\ ns[N + 1] = m
      /\ \A i \in 1..N : ns[i] = ms[i]
  BY <1>1
<1>8. /\ \A i \in 1..N : off[i + 1] = off[i] + Length[ms[i]]
      /\ \A i, j \in 1..(N + 1) : i <= j => off[i] <= off[j]
  BY <1>1, Zenon DEF Offsets
<1>9. ASSUME NEW i \in 1..(N + 1) PROVE o[i + 1] = o[i] + Length[ns[i]]
  <2>1. CASE i \in 1..N
    <3>1. i \in 1..(N + 1) /\ i + 1 \in 1..(N + 1)
      BY <2>1
    <3> QED
      BY <1>6, <1>7, <1>8, <2>1, <3>1, Zenon
  <2>2. CASE i = N + 1
    <3>1. i + 1 = N + 2 /\ i \in 1..(N + 1)
      BY <2>2
    <3>2. o[i + 1] = e + L
      BY <1>6, <3>1, Zenon
    <3>3. o[i] = e
      BY <1>4, <1>6, <2>2, <3>1, Zenon
    <3>4. Length[ns[i]] = L
      BY <1>2, <1>7, <2>2, Zenon
    <3> QED
      BY <3>2, <3>3, <3>4, Zenon
  <2>3. i \in 1..N \/ i = N + 1
    OBVIOUS
  <2> QED
    BY <2>1, <2>2, <2>3, Zenon
<1>10. ASSUME NEW i \in 1..(N + 2), NEW j \in 1..(N + 2), i <= j
       PROVE  o[i] <= o[j]
  <2>1. CASE j \in 1..(N + 1)
    <3>1. i \in 1..(N + 1)
      BY <1>10, <2>1
    <3> QED
      BY <1>6, <1>8, <1>10, <2>1, <3>1, Zenon
  <2>2. CASE j = N + 2 /\ i \in 1..(N + 1)
    <3>1. N + 1 \in 1..(N + 1) /\ i <= N + 1 /\ i \in Nat
      BY <2>2
    <3>2. off[i] <= off[N + 1] /\ off[i] \in Nat
      BY <1>3, <1>8, <2>2, <3>1, Zenon
    <3>3. PICK x \in Nat : x = off[i]
      BY <3>2, Zenon
    <3>4. x <= e
      BY <1>4, <3>2, <3>3, Zenon
    <3>5. x <= e + L
      BY <3>4
    <3>6. o[i] = x /\ o[j] = e + L
      BY <1>6, <2>2, <3>3, Zenon
    <3> QED
      BY <3>5, <3>6, Zenon
  <2>3. CASE j = N + 2 /\ i = N + 2
    <3>1. e + L <= e + L
      OBVIOUS
    <3> QED
      BY <1>6, <2>3, <3>1, Zenon
  <2>4. (j \in 1..(N + 1) \/ j = N + 2) /\ (i \in 1..(N + 1) \/ i = N + 2)
    OBVIOUS
  <2> QED
    BY <2>1, <2>2, <2>3, <2>4, Zenon
<1>11. (N + 1) + 1 = N + 2
  OBVIOUS
<1> QED
  BY <1>6, <1>7, <1>9, <1>10, <1>11, Zenon DEF Offsets

LEMMA LaysWritten ==
    ASSUME NEW ms \in Seq(Messages), NEW n \in 1..(Len(ms) + 1),
           NEW buf \in Seq(Byte), NEW rest \in Seq(Byte),
           NEW off, Offsets(off, ms), Holds(off, ms, n, buf, rest),
           NEW m \in Messages, NEW ns, ns = Append(ms, m),
           NEW r, r = rest \o Bytes(m)
    PROVE  \E o : Offsets(o, ns) /\ Holds(o, ns, n, buf, r)
<1>1. Len(ms) \in Nat /\ Len(buf) \in Nat /\ Len(rest) \in Nat /\ Length[m] \in Nat
  BY LenIsNat, LengthsAreNat, Zenon
<1>2. off \in [Nat -> Nat] /\ off[Len(ms) + 1] = off[n] + Len(buf) + Len(rest)
  BY Zenon DEF Offsets, Holds
<1>3. n \in Nat /\ Len(ms) + 1 \in Nat /\ Len(ms) + 1 \in 1..(Len(ms) + 1)
  BY <1>1
<1>4. off[n] \in Nat /\ off[Len(ms) + 1] \in Nat
  BY <1>2, <1>3, Zenon
<1>5. PICK v \in Nat : v = off[Len(ms) + 1] + Length[m]
  BY <1>1, <1>4
<1>6. PICK o : PutAt(o, off, Len(ms), v)
  BY <1>1, <1>2, PuttingAt, Zenon
<1>7. PutAt(o, off, Len(ms), off[Len(ms) + 1] + Length[m])
  BY <1>5, <1>6, Zenon
<1>8. Offsets(o, ns)
  BY <1>7, NewOffsets, Zenon
<1>9. \A i \in 1..(Len(ms) + 1) : o[i] = off[i]
  BY <1>6, Zenon DEF PutAt
<1>10. o[Len(ns) + 1] = off[Len(ms) + 1] + Length[m]
  <2>1. Len(ns) + 1 = Len(ms) + 2
    OBVIOUS
  <2> QED
    BY <1>7, <2>1, Zenon DEF PutAt
<1>11. StreamWith(m, buf, rest, r)
  BY Written, Zenon
<1>12. Len(r) = Len(rest) + Length[m] /\ Len(r) \in Nat
  BY <1>11, LenIsNat, Zenon DEF StreamWith
<1>13. o[Len(ns) + 1] = o[n] + Len(buf) + Len(r)
  <2>1. Ends(off[n], off[Len(ms) + 1], Length[m], Len(buf), Len(rest), Len(r))
    BY <1>1, <1>4, <1>12, Ending, Zenon
  <2>2. off[Len(ms) + 1] + Length[m] = off[n] + Len(buf) + Len(r)
    BY <1>2, <1>12, <2>1, Zenon DEF Ends
  <2> QED
    BY <1>9, <1>10, <2>2, Zenon
<1>14. /\ Len(ns) = Len(ms) + 1 /\ ns[Len(ms) + 1] = m
       /\ \A i \in 1..Len(ms) : ns[i] = ms[i]
  OBVIOUS
<1>15. ASSUME NEW i \in n..Len(ns), NEW k \in 1..Length[ns[i]]
       PROVE  At(buf, r, o[i] - o[n] + k) = <<ns[i], k>>
  <2>1. CASE i \in n..Len(ms)
    <3>1. i \in 1..(Len(ms) + 1) /\ i \in 1..Len(ms)
      BY <1>1, <1>3, <2>1
    <3>2. ns[i] = ms[i] /\ o[i] = off[i] /\ o[n] = off[n]
      BY <1>9, <1>14, <3>1, Zenon
    <3>3. k \in 1..Length[ms[i]]
      BY <3>2, Zenon
    <3>4. off[i] - off[n] + k \in 1..(Len(buf) + Len(rest))
      BY <2>1, <3>3, InStream, Zenon
    <3>5. At(buf, rest, off[i] - off[n] + k) = <<ms[i], k>>
      BY <2>1, <3>3, Zenon DEF Holds
    <3>6. At(buf, r, off[i] - off[n] + k) = <<ms[i], k>>
      BY <1>11, <3>4, <3>5, Zenon DEF StreamWith
    <3> QED
      BY <3>2, <3>6, Zenon
  <2>2. CASE i = Len(ms) + 1
    <3>1. ns[i] = m /\ o[i] = off[Len(ms) + 1] /\ o[n] = off[n]
      BY <1>3, <1>9, <1>14, <2>2, Zenon
    <3>2. k \in 1..Length[m]
      BY <3>1, Zenon
    <3>3. k \in Nat
      BY <1>1, <3>2
    <3>4. Behind(off[n], off[Len(ms) + 1], Len(buf), Len(rest), k)
      BY <1>1, <1>4, <3>3, Ending, Zenon
    <3>5. off[Len(ms) + 1] - off[n] + k = Len(buf) + Len(rest) + k
      BY <1>2, <3>4, Zenon DEF Behind
    <3>6. At(buf, r, Len(buf) + Len(rest) + k) = <<m, k>>
      BY <1>11, <3>2, Zenon DEF StreamWith
    <3> QED
      BY <3>1, <3>5, <3>6, Zenon
  <2>3. i \in n..Len(ms) \/ i = Len(ms) + 1
    <3>1. i \in n..(Len(ms) + 1)
      BY <1>14, Zenon
    <3> QED
      BY <1>1, <1>3, <3>1
  <2> QED
    BY <2>1, <2>2, <2>3, Zenon
<1>16. Holds(o, ns, n, buf, r)
  BY <1>13, <1>15, Zenon DEF Holds
<1> QED
  BY <1>8, <1>16, Zenon

-----------------------------------------------------------------------------

LEMMA InitStream == Init => StreamInv
<1> SUFFICES ASSUME Init PROVE StreamInv
  OBVIOUS
<1>1. /\ sent = <<>> /\ wire = <<>> /\ read_buffer = <<>> /\ arrived = <<>>
      /\ parsing = FALSE /\ connected = TRUE
  BY Zenon DEF Init, QueueInit
<1>2. StreamTypes /\ Prefix /\ Distinct
  BY <1>1 DEF StreamTypes, Prefix, Distinct
<1> DEFINE off == [i \in Nat |-> 0]
<1>3. Offsets(off, sent)
  BY <1>1 DEF Offsets
<1>4. Holds(off, sent, Len(arrived) + 1, read_buffer, wire)
  BY <1>1 DEF Holds
<1>5. LaidOut
  BY <1>3, <1>4, Zenon DEF LaidOut
<1> QED
  BY <1>2, <1>5, Zenon DEF StreamInv

\* ControllerSends appends to both ends of the picture.
LEMMA SendKeepsStream ==
    ASSUME StreamInv, NEW m \in Messages, ControllerSends(m)
    PROVE  StreamInv'
<1>1. /\ sent \in Seq(Messages) /\ arrived \in Seq(Messages)
      /\ wire \in Seq(Byte) /\ read_buffer \in Seq(Byte)
      /\ parsing => connected
  BY Zenon DEF StreamInv, StreamTypes
<1>2. /\ \A i \in 1..Len(sent) : sent[i] # m
      /\ sent' = Append(sent, m) /\ wire' = wire \o Bytes(m)
      /\ read_buffer' = read_buffer /\ arrived' = arrived
      /\ parsing' = parsing /\ connected' = connected
  BY Zenon DEF ControllerSends, queueVars
<1>3. /\ Len(arrived) <= Len(sent)
      /\ \A i \in 1..Len(arrived) : arrived[i] = sent[i]
  BY Zenon DEF StreamInv, Prefix
<1>4. \A i, j \in 1..Len(sent) : sent[i] = sent[j] => i = j
  BY Zenon DEF StreamInv, Distinct
<1>5. /\ sent' \in Seq(Messages) /\ Len(sent') = Len(sent) + 1
      /\ sent'[Len(sent) + 1] = m
      /\ \A i \in 1..Len(sent) : sent'[i] = sent[i]
      /\ Len(sent) \in Nat /\ Len(arrived) \in Nat
  BY <1>1, <1>2
<1>6. StreamTypes'
  <2>1. wire' \in Seq(Byte)
    BY <1>1, <1>2, Written, Zenon DEF StreamWith
  <2> QED
    BY <1>1, <1>2, <1>5, <2>1, Zenon DEF StreamTypes
<1>7. LaidOut'
  <2>1. PICK off : /\ Offsets(off, sent)
                   /\ Holds(off, sent, Len(arrived) + 1, read_buffer, wire)
    BY Zenon DEF StreamInv, LaidOut
  <2>2. Len(arrived) + 1 \in 1..(Len(sent) + 1)
    BY <1>3, <1>5
  <2>3. \E o : /\ Offsets(o, sent')
               /\ Holds(o, sent', Len(arrived) + 1, read_buffer, wire')
    BY <1>1, <1>2, <2>1, <2>2, LaysWritten, Zenon
  <2> QED
    BY <1>2, <2>3, Zenon DEF LaidOut
<1>8. Prefix'
  <2>1. Len(arrived) <= Len(sent')
    BY <1>3, <1>5
  <2>2. \A i \in 1..Len(arrived) : i \in 1..Len(sent)
    BY <1>3, <1>5
  <2>3. \A i \in 1..Len(arrived) : arrived[i] = sent'[i]
    BY <1>3, <1>5, <2>2, Zenon
  <2> QED
    BY <1>2, <2>1, <2>3, Zenon DEF Prefix
<1>9. Distinct'
  <2>1. \A i \in 1..Len(sent') : i \in 1..Len(sent) \/ i = Len(sent) + 1
    BY <1>5
  <2>2. ASSUME NEW i \in 1..Len(sent'), NEW j \in 1..Len(sent'),
               sent'[i] = sent'[j]
        PROVE  i = j
    <3>1. CASE i \in 1..Len(sent) /\ j \in 1..Len(sent)
      BY <1>4, <1>5, <2>2, <3>1, Zenon
    <3>2. CASE i \in 1..Len(sent) /\ j = Len(sent) + 1
      BY <1>2, <1>5, <2>2, <3>2, Zenon
    <3>3. CASE i = Len(sent) + 1 /\ j \in 1..Len(sent)
      BY <1>2, <1>5, <2>2, <3>3, Zenon
    <3> QED
      BY <2>1, <3>1, <3>2, <3>3, Zenon
  <2> QED
    BY <2>2, Zenon DEF Distinct
<1> QED
  BY <1>6, <1>7, <1>8, <1>9, Zenon DEF StreamInv

LEMMA ReceiveKeepsStream ==
    ASSUME StreamInv, NEW n \in 1..Len(wire), DataReceived(n)
    PROVE  StreamInv'
<1>1. /\ sent \in Seq(Messages) /\ arrived \in Seq(Messages)
      /\ wire \in Seq(Byte) /\ read_buffer \in Seq(Byte)
  BY Zenon DEF StreamInv, StreamTypes
<1>2. /\ read_buffer' = read_buffer \o SubSeq(wire, 1, n)
      /\ wire' = SubSeq(wire, n + 1, Len(wire))
      /\ sent' = sent /\ arrived' = arrived
      /\ connected /\ connected' = connected
  BY Zenon DEF DataReceived, queueVars
<1>3. Len(arrived) + 1 \in 1..(Len(sent) + 1)
  <2>1. Len(arrived) <= Len(sent)
    BY Zenon DEF StreamInv, Prefix
  <2> QED
    BY <1>1, <2>1
<1>4. StreamTypes'
  <2>1. read_buffer' \in Seq(Byte) /\ wire' \in Seq(Byte)
    <3>1. SameStream(read_buffer, wire, read_buffer', wire')
      BY <1>1, <1>2, Moved, Zenon
    <3> QED
      BY <3>1, Zenon DEF SameStream
  <2> QED
    BY <1>1, <1>2, <2>1, Zenon DEF StreamTypes
<1>5. LaidOut'
  <2>1. PICK off : /\ Offsets(off, sent)
                   /\ Holds(off, sent, Len(arrived) + 1, read_buffer, wire)
    BY Zenon DEF StreamInv, LaidOut
  <2>2. Holds(off, sent, Len(arrived) + 1, read_buffer', wire')
    BY <1>1, <1>2, <1>3, <2>1, LaysMoved, Zenon
  <2> QED
    BY <1>2, <2>1, <2>2, Zenon DEF LaidOut
<1>6. Prefix' /\ Distinct'
  BY <1>2, Zenon DEF StreamInv, Prefix, Distinct
<1> QED
  BY <1>4, <1>5, <1>6, Zenon DEF StreamInv

\* A buffer that is not empty begins with the message that is due.
LEMMA Front ==
    ASSUME NEW ms \in Seq(Messages), NEW n \in 1..(Len(ms) + 1),
           NEW buf \in Seq(Byte), NEW rest \in Seq(Byte),
           NEW off, Offsets(off, ms), Holds(off, ms, n, buf, rest),
           Len(buf) >= HEADER
    PROVE  n \in 1..Len(ms) /\ buf[1] = <<ms[n], 1>>
<1>1. Len(ms) \in Nat /\ Len(buf) \in Nat /\ Len(rest) \in Nat
  BY LenIsNat, Zenon
<1>2. n \in Nat
  BY <1>1
<1>3. off[n] \in Nat /\ off[Len(ms) + 1] = off[n] + Len(buf) + Len(rest)
  BY <1>2, Zenon DEF Offsets, Holds
<1>4. n # Len(ms) + 1
  <2>1. SUFFICES ASSUME n = Len(ms) + 1 PROVE FALSE
    OBVIOUS
  <2>2. PICK x \in Nat : x = off[n]
    BY <1>3, Zenon
  <2>3. x = x + Len(buf) + Len(rest)
    BY <1>3, <2>1, <2>2, Zenon
  <2> QED
    BY <1>1, <2>3 DEF HEADER
<1>5. n \in 1..Len(ms) /\ n \in n..Len(ms)
  BY <1>1, <1>4
<1>6. ms[n] \in Messages
  BY <1>5
<1>7. 1 \in 1..Length[ms[n]]
  <2>1. PICK L \in Nat : L = Length[ms[n]] /\ L >= 8
    BY <1>6, LengthsAreNat, Zenon
  <2>2. 1 \in 1..L
    BY <2>1
  <2> QED
    BY <2>1, <2>2, Zenon
<1>8. At(buf, rest, off[n] - off[n] + 1) = <<ms[n], 1>>
  BY <1>5, <1>7, Zenon DEF Holds
<1>9. off[n] - off[n] + 1 = 1 /\ 1 <= Len(buf)
  <2>1. PICK x \in Nat : x = off[n]
    BY <1>3, Zenon
  <2>2. x - x + 1 = 1 /\ 1 <= Len(buf)
    BY <1>1 DEF HEADER
  <2> QED
    BY <2>1, <2>2, Zenon
<1> QED
  BY <1>5, <1>8, <1>9, Zenon DEF At

\* What an iteration that finds a message finds.
LEMMA ParseFinds ==
    ASSUME StreamInv, ParseNext
    PROVE  /\ Len(arrived) + 1 \in 1..Len(sent)
           /\ read_buffer[1][1] = sent[Len(arrived) + 1]
           /\ Len_(read_buffer) <= Len(read_buffer)
<1>1. /\ sent \in Seq(Messages) /\ arrived \in Seq(Messages)
      /\ wire \in Seq(Byte) /\ read_buffer \in Seq(Byte)
  BY Zenon DEF StreamInv, StreamTypes
<1>2. Len(read_buffer) >= HEADER /\ Len_(read_buffer) <= Len(read_buffer)
  BY Zenon DEF ParseNext, Whole, Incomplete
<1>3. PICK off : /\ Offsets(off, sent)
                 /\ Holds(off, sent, Len(arrived) + 1, read_buffer, wire)
  BY Zenon DEF StreamInv, LaidOut
<1>4. Len(arrived) + 1 \in 1..(Len(sent) + 1)
  <2>1. Len(arrived) <= Len(sent)
    BY Zenon DEF StreamInv, Prefix
  <2> QED
    BY <1>1, <2>1
<1>5. /\ Len(arrived) + 1 \in 1..Len(sent)
      /\ read_buffer[1] = <<sent[Len(arrived) + 1], 1>>
  BY <1>1, <1>2, <1>3, <1>4, Front, Zenon
<1> QED
  BY <1>2, <1>5

LEMMA ParseKeepsStream ==
    ASSUME StreamInv, ParseNext
    PROVE  StreamInv'
<1>1. /\ sent \in Seq(Messages) /\ arrived \in Seq(Messages)
      /\ wire \in Seq(Byte) /\ read_buffer \in Seq(Byte)
      /\ parsing => connected
  BY Zenon DEF StreamInv, StreamTypes
<1>2. PICK n : n = Len(arrived) + 1
  BY Zenon
<1>3. /\ n \in 1..Len(sent) /\ read_buffer[1][1] = sent[n]
      /\ Len_(read_buffer) <= Len(read_buffer)
  BY <1>2, ParseFinds, Zenon
<1>4. sent[n] \in Messages
  BY <1>1, <1>3
<1>5. PICK L \in Nat : L = Length[sent[n]]
  BY <1>4, LengthsAreNat, Zenon
<1>6. Len_(read_buffer) = L /\ L <= Len(read_buffer)
  BY <1>3, <1>5, Zenon DEF Len_
<1>7. /\ arrived' = Append(arrived, sent[n])
      /\ read_buffer' = SubSeq(read_buffer, L + 1, Len(read_buffer))
      /\ sent' = sent /\ wire' = wire
      /\ parsing' = parsing /\ connected' = connected
  BY <1>3, <1>6, Zenon DEF ParseNext, Put, Consume
<1>8. /\ arrived' \in Seq(Messages) /\ Len(arrived') = n
      /\ arrived'[n] = sent[n]
      /\ \A i \in 1..Len(arrived) : arrived'[i] = arrived[i]
      /\ Len(arrived) \in Nat /\ Len(sent) \in Nat
  BY <1>1, <1>2, <1>4, <1>7
<1>9. StreamTypes'
  <2>1. StreamAfter(L, read_buffer, wire, read_buffer')
    BY <1>1, <1>6, <1>7, Consumed, Zenon
  <2> QED
    BY <1>1, <1>7, <1>8, <2>1, Zenon DEF StreamTypes, StreamAfter
<1>10. LaidOut'
  <2>1. PICK off : Offsets(off, sent) /\ Holds(off, sent, n, read_buffer, wire)
    BY <1>2, Zenon DEF StreamInv, LaidOut
  <2>2. Holds(off, sent, n + 1, read_buffer', wire)
    BY <1>1, <1>3, <1>5, <1>6, <1>7, <2>1, LaysConsumed, Zenon
  <2> QED
    BY <1>7, <1>8, <2>1, <2>2, Zenon DEF LaidOut
<1>11. Prefix'
  <2>1. \A i \in 1..Len(arrived) : arrived[i] = sent[i]
    BY Zenon DEF StreamInv, Prefix
  <2>2. \A i \in 1..n : i \in 1..Len(arrived) \/ i = n
    BY <1>2, <1>8
  <2>3. n <= Len(sent)
    BY <1>3, <1>8
  <2>4. \A i \in 1..n : arrived'[i] = sent[i]
    BY <1>8, <2>1, <2>2, Zenon
  <2> QED
    BY <1>7, <1>8, <2>3, <2>4, Zenon DEF Prefix
<1>12. Distinct'
  BY <1>7, Zenon DEF StreamInv, Distinct
<1> QED
  BY <1>9, <1>10, <1>11, <1>12, Zenon DEF StreamInv

\* The steps that leave the stream alone.
LEMMA StillStream ==
    ASSUME StreamInv, sent' = sent, arrived' = arrived, wire' = wire,
           read_buffer' = read_buffer, parsing' => connected'
    PROVE  StreamInv'
<1>1. StreamTypes' /\ Prefix' /\ Distinct'
  BY Zenon DEF StreamInv, StreamTypes, Prefix, Distinct
<1>2. LaidOut'
  BY Zenon DEF StreamInv, LaidOut
<1> QED
  BY <1>1, <1>2, Zenon DEF StreamInv

\* What the readers and reset() do: nothing to the connection.
Reads ==
    \/ \E g \in Gets : Recv(g) \/ CancelRecv(g)
    \/ ResetRx \/ ResetGoesOn

LEMMA ReadsKeep ==
    ASSUME Reads
    PROVE  /\ sent' = sent /\ arrived' = arrived /\ wire' = wire
           /\ read_buffer' = read_buffer /\ parsing' = parsing
           /\ connected' = connected
<1>1. ASSUME NEW g \in Gets, Recv(g) PROVE arrived' = arrived /\ UNCHANGED connVars
  BY <1>1, Zenon DEF Recv, Get
<1>2. ASSUME NEW g \in Gets, CancelRecv(g)
      PROVE  arrived' = arrived /\ UNCHANGED connVars
  BY <1>2, Zenon DEF CancelRecv, Cancel
<1>3. CASE ResetRx
  BY <1>3, Zenon DEF ResetRx, ResetBegin, connVars
<1>4. CASE ResetGoesOn
  BY <1>4, Zenon DEF ResetGoesOn, ResetErrback, ResetEnd, connVars
<1>5. CASE \E g \in Gets : Recv(g) \/ CancelRecv(g)
  BY <1>1, <1>2, <1>5, Zenon DEF connVars
<1> QED
  BY <1>3, <1>4, <1>5, Zenon DEF Reads

LEMMA Steps ==
    ASSUME Next
    PROVE  \/ \E m \in Messages : ControllerSends(m)
           \/ \E n \in 1..Len(wire) : DataReceived(n)
           \/ ParseNext \/ ParseStops \/ ConnectionLost \/ Reads
  BY Zenon DEF Next, Reads

LEMMA StreamStep == StreamInv /\ [Next]_vars => StreamInv'
<1> SUFFICES ASSUME StreamInv, [Next]_vars PROVE StreamInv'
  OBVIOUS
<1>1. parsing => connected
  BY Zenon DEF StreamInv, StreamTypes
<1>2. CASE \E m \in Messages : ControllerSends(m)
  BY <1>2, SendKeepsStream, Zenon
<1>3. CASE \E n \in 1..Len(wire) : DataReceived(n)
  BY <1>3, ReceiveKeepsStream, Zenon
<1>4. CASE ParseNext
  BY <1>4, ParseKeepsStream, Zenon
<1>5. CASE ParseStops
  BY <1>5, StillStream, Zenon DEF ParseStops, queueVars
<1>6. CASE ConnectionLost
  BY <1>6, StillStream, Zenon DEF ConnectionLost, queueVars
<1>7. CASE Reads
  <2>1. /\ sent' = sent /\ arrived' = arrived /\ wire' = wire
        /\ read_buffer' = read_buffer /\ parsing' = parsing
        /\ connected' = connected
    BY <1>7, ReadsKeep, Zenon
  <2> QED
    BY <1>1, <2>1, StillStream, Zenon
<1>8. CASE UNCHANGED vars
  BY <1>1, <1>8, StillStream, Zenon DEF vars, queueVars, connVars
<1> QED
  BY <1>2, <1>3, <1>4, <1>5, <1>6, <1>7, <1>8, Steps, Zenon

\* The stream is laid out as the messages were sent, in every state.
LEMMA StreamInvariance == Spec => []StreamInv
<1>1. Init => StreamInv
  BY InitStream
<1>2. StreamInv /\ [Next]_vars => StreamInv'
  BY StreamStep
<1> QED
  BY <1>1, <1>2, PTL DEF Spec

-----------------------------------------------------------------------------

\* A step of the connection is a step of the channel, or the channel does not
\* notice it.
LEMMA ChannelStep ==
    StreamInv /\ [Next]_vars => [C!Next]_<<sent, arrived, connected>>
<1> SUFFICES ASSUME StreamInv, [Next]_vars
             PROVE  C!Next \/ UNCHANGED <<sent, arrived, connected>>
  BY Zenon
<1>1. CASE \E m \in Messages : ControllerSends(m)
  <2>1. C!Send
    BY <1>1, Zenon DEF ControllerSends, queueVars, C!Send
  <2> QED
    BY <2>1, Zenon DEF C!Next
<1>2. CASE \E n \in 1..Len(wire) : DataReceived(n)
  BY <1>2, Zenon DEF DataReceived, queueVars
<1>3. CASE ParseNext
  <2>1. connected
    BY <1>3, Zenon DEF StreamInv, StreamTypes, ParseNext
  <2>2. /\ arrived' = Append(arrived, sent[Len(arrived) + 1])
        /\ sent' = sent /\ connected' = connected
    BY <1>3, ParseFinds, Zenon DEF ParseNext, Put
  <2>3. Len(arrived) < Len(sent)
    <3>1. Len(arrived) + 1 \in 1..Len(sent)
      BY <1>3, ParseFinds, Zenon
    <3>2. Len(arrived) \in Nat /\ Len(sent) \in Nat
      BY LenIsNat, Zenon DEF StreamInv, StreamTypes
    <3> QED
      BY <3>1, <3>2
  <2>4. C!Receive
    BY <2>1, <2>2, <2>3, Zenon DEF C!Receive
  <2> QED
    BY <2>4, Zenon DEF C!Next
<1>4. CASE ParseStops
  BY <1>4, Zenon DEF ParseStops, queueVars
<1>5. CASE ConnectionLost
  <2>1. C!Break
    BY <1>5, Zenon DEF ConnectionLost, queueVars, C!Break
  <2> QED
    BY <2>1, Zenon DEF C!Next
<1>6. CASE Reads
  BY <1>6, ReadsKeep, Zenon
<1>7. CASE UNCHANGED vars
  BY <1>7, Zenon DEF vars, queueVars, connVars
<1> QED
  BY <1>1, <1>2, <1>3, <1>4, <1>5, <1>6, <1>7, Steps, Zenon

\* Cutting and buffering are invisible, for any messages of any lengths and
\* however TCP cuts the stream: dataReceived() puts the controller's messages
\* whole, once, in order and without gaps.
THEOREM ConnectionIsChannel == Spec => ImplementsChannel
<1>1. Init => C!Init
  BY Zenon DEF Init, QueueInit, C!Init
<1>2. StreamInv /\ [Next]_vars => [C!Next]_<<sent, arrived, connected>>
  BY ChannelStep
<1> QED
  BY <1>1, <1>2, StreamInvariance, PTL DEF Spec, ImplementsChannel, C!Spec

\* A step of the connection is a step of the queue, or leaves it alone; the
\* message that it puts was not put before.
LEMMA QueueStep == StreamInv /\ [Next]_vars => [QueueNext]_queueVars
<1> SUFFICES ASSUME StreamInv, [Next]_vars
             PROVE  QueueNext \/ UNCHANGED queueVars
  BY Zenon
<1>1. CASE \E m \in Messages : ControllerSends(m)
  BY <1>1, Zenon DEF ControllerSends
<1>2. CASE \E n \in 1..Len(wire) : DataReceived(n)
  BY <1>2, Zenon DEF DataReceived
<1>3. CASE ParseNext
  <2>1. PICK n : n = Len(arrived) + 1
    BY Zenon
  <2>2. n \in 1..Len(sent) /\ read_buffer[1][1] = sent[n]
    BY <1>3, <2>1, ParseFinds, Zenon
  <2>3. Put(sent[n])
    BY <1>3, <2>2, Zenon DEF ParseNext
  <2>4. sent \in Seq(Messages) /\ Len(arrived) \in Nat /\ Len(sent) \in Nat
    BY LenIsNat, Zenon DEF StreamInv, StreamTypes
  <2>5. sent[n] \in Messages
    BY <2>2, <2>4
  <2>6. \A i \in 1..Len(arrived) : i \in 1..Len(sent) /\ i # n
    BY <2>1, <2>2, <2>4
  <2>7. Fresh(sent[n])
    BY <2>2, <2>6, Zenon DEF Fresh, Ranks, StreamInv, Prefix, Distinct
  <2> QED
    BY <2>3, <2>5, <2>7, Zenon DEF QueueNext
<1>4. CASE ParseStops \/ ConnectionLost
  BY <1>4, Zenon DEF ParseStops, ConnectionLost
<1>5. CASE Reads
  BY <1>5, Zenon DEF Reads, Recv, CancelRecv, ResetRx, ResetGoesOn, QueueNext
<1>6. CASE UNCHANGED vars
  BY <1>6, Zenon DEF vars
<1> QED
  BY <1>1, <1>2, <1>3, <1>4, <1>5, <1>6, Steps, Zenon

\* The connection uses the queue as the queue expects, so that everything
\* proved of put(), get(), cancel and reset() is true of recv() and its kind:
\* dataReceived() puts each message once.
THEOREM ConnectionFeedsQueue == Spec => QueueSpec
<1>1. Init => QueueInit
  BY Zenon DEF Init
<1>2. StreamInv /\ [Next]_vars => [QueueNext]_queueVars
  BY QueueStep
<1> QED
  BY <1>1, <1>2, StreamInvariance, PTL DEF Spec, QueueSpec

\* Of the readers of a connection: a message and a reader that wants it never
\* wait side by side, nothing is lost, and who came first is served first.
COROLLARY ConnectionServes ==
    Spec => [](NoMissedMatch /\ NothingLost /\ FirstComeFirstServed)
  BY ConnectionFeedsQueue, QueueMatches, QueueLosesNothing, QueueIsFair, PTL

=============================================================================
