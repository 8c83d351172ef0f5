---------------------------- MODULE ProtocolProofs ----------------------------
(***************************************************************************)
(* Theorems about the protocol of the workers: its framing (FrameStream)   *)
(* and the codec of its payloads (WireCodec).                              *)
(***************************************************************************)
EXTENDS Integers, FrameStream, WireCodec, SequenceTheorems, TLAPS

-----------------------------------------------------------------------------
(* FrameStream.  The framing implements the channel of whole frames, for   *)
(* every base, maximum, capacity of the pipe and number of frames.         *)
(*                                                                         *)
(* The bytes in flight are those the reader holds of its frame, those in   *)
(* the pipe and those the sender has still to write.  Reads and writes     *)
(* move bytes between them and leave the whole as it is: the frames that   *)
(* were begun and not returned, one after the other, and behind them what  *)
(* the sender is about to send.                                            *)

Good == {p \in Sends : Sendable(p)}

(* u32::to_be_bytes and from_be_bytes invert each other. *)
LEMMA Digits ==
    ASSUME NEW b \in Nat \ {0}, NEW x \in Nat
    PROVE  x \div b \in Nat /\ x % b \in 0..(b - 1) /\ x = (x \div b) * b + (x % b)
  BY Z3

LEMMA Divided ==
    ASSUME NEW b \in Nat \ {0}, NEW x \in Nat, NEW m \in Nat, x < m * b
    PROVE  x \div b < m
<1> DEFINE q == x \div b
<1>1. q \in Nat /\ q * b <= x
  BY Digits
<1> HIDE DEF q
<1>2. SUFFICES ASSUME m <= q PROVE FALSE
  BY <1>1 DEF q
<1>3. PICK d \in Nat : q = m + d
  BY <1>1, <1>2
<1>4. q * b = m * b + d * b /\ d * b \in Nat /\ m * b \in Nat
  BY <1>3
<1> QED BY <1>1, <1>4

LEMMA LengthEncoded ==
    ASSUME FrameAssumption, NEW n \in Lengths
    PROVE  /\ to_be_bytes(n) \in Seq(Bytes) /\ Len(to_be_bytes(n)) = HeaderBytes
           /\ from_be_bytes(to_be_bytes(n)) = n
<1> DEFINE a == n \div Base
           b == a \div Base
           c == b \div Base
<1>1. Base \in Nat \ {0, 1} /\ n \in Nat /\ n < ((Base * Base) * Base) * Base
  BY DEF FrameAssumption, Lengths
<1>2. a \in Nat /\ n % Base \in Bytes /\ n = a * Base + (n % Base)
  BY <1>1, Digits DEF Bytes
<1>3. b \in Nat /\ a % Base \in Bytes /\ a = b * Base + (a % Base)
  BY <1>1, <1>2, Digits DEF Bytes
<1>4. c \in Nat /\ b % Base \in Bytes /\ b = c * Base + (b % Base)
  BY <1>1, <1>3, Digits DEF Bytes
<1>m. Base * Base \in Nat /\ (Base * Base) * Base \in Nat
  BY <1>1
<1>5. a < (Base * Base) * Base
  BY <1>1, <1>m, Divided, Zenon
<1> DEFINE m == Base * Base
<1>6. b < m
  <2> HIDE DEF m, a
  <2>1. m \in Nat /\ a < m * Base
    BY <1>m, <1>5 DEF m
  <2> QED BY <1>1, <1>2, <2>1, Divided, Zenon
<1>7. c < Base
  BY <1>1, <1>3, <1>6, Divided
<1>8. c % Base = c /\ c \in Bytes
  BY <1>1, <1>4, <1>7 DEF Bytes
<1>9. to_be_bytes(n) = <<c, b % Base, a % Base, n % Base>>
  BY <1>8 DEF to_be_bytes
<1> HIDE DEF a, b, c
<1>10. from_be_bytes(to_be_bytes(n)) = ((c * Base + (b % Base)) * Base + (a % Base)) * Base + (n % Base)
  BY <1>9 DEF from_be_bytes
<1>11. @ = n
  BY <1>2, <1>3, <1>4, Zenon
<1>12. to_be_bytes(n) \in Seq(Bytes) /\ Len(to_be_bytes(n)) = 4
  BY <1>2, <1>3, <1>4, <1>8, <1>9
<1> QED BY <1>10, <1>11, <1>12 DEF HeaderBytes

-----------------------------------------------------------------------------
(* Sequences of bytes. *)
LEMMA Joined ==
    ASSUME NEW x \in Seq(Bytes), NEW y \in Seq(Bytes)
    PROVE  /\ x \o y \in Seq(Bytes) /\ Len(x \o y) = Len(x) + Len(y)
           /\ \A i \in 1..Len(x) : (x \o y)[i] = x[i]
           /\ \A i \in 1..Len(y) : (x \o y)[Len(x) + i] = y[i]
<1> DEFINE z == x \o y
<1>1. /\ z \in Seq(Bytes) /\ Len(z) = Len(x) + Len(y)
      /\ \A i \in 1..Len(x) + Len(y) : z[i] = IF i <= Len(x) THEN x[i] ELSE y[i - Len(x)]
  BY ConcatProperties, Zenon
<1>2. Len(x) \in Nat /\ Len(y) \in Nat
  BY LenProperties
<1> HIDE DEF z
<1>3. \A i \in 1..Len(x) : z[i] = x[i]
  BY <1>1, <1>2
<1>4. \A i \in 1..Len(y) : z[Len(x) + i] = y[i]
  BY <1>1, <1>2
<1> QED BY <1>1, <1>3, <1>4 DEF z

LEMMA Regrouped ==
    ASSUME NEW x \in Seq(Bytes), NEW y \in Seq(Bytes), NEW z \in Seq(Bytes)
    PROVE  (x \o y) \o z = x \o (y \o z)
  BY ConcatAssociative

(* A read or a write moves the first k bytes of y to the end of x. *)
LEMMA Moved ==
    ASSUME NEW x \in Seq(Bytes), NEW y \in Seq(Bytes), NEW k \in 1..Len(y)
    PROVE  /\ SubSeq(y, 1, k) \in Seq(Bytes) /\ Len(SubSeq(y, 1, k)) = k
           /\ SubSeq(y, k + 1, Len(y)) \in Seq(Bytes) /\ Len(SubSeq(y, k + 1, Len(y))) = Len(y) - k
           /\ (x \o SubSeq(y, 1, k)) \o SubSeq(y, k + 1, Len(y)) = x \o y
<1> DEFINE l == SubSeq(y, 1, k)
           r == SubSeq(y, k + 1, Len(y))
<1>1. Len(y) \in Nat /\ \A i \in 1..Len(y) : y[i] \in Bytes
  BY LenProperties, ElementOfSeq
<1>2. l \in Seq(Bytes) /\ Len(l) = k
  BY <1>1, SubSeqProperties
<1>3. r \in Seq(Bytes) /\ Len(r) = Len(y) - k
  BY <1>1, SubSeqProperties
<1>4. l \o r = y
  <2>1. l \o r = SubSeq(y, 1, Len(y))
    <3>1. 1 \in 1..(Len(y) + 1) /\ k \in (1 - 1)..Len(y) /\ Len(y) \in k..Len(y)
      BY <1>1
    <3> QED BY <3>1, ConcatAdjacentSubSeq, Zenon
  <2> QED BY <2>1, SubSeqFull, Zenon
<1>5. (x \o l) \o r = x \o y
  <2> HIDE DEF l, r
  <2>1. (x \o l) \o r = x \o (l \o r)
    <3>1. x \in Seq(Bytes) /\ l \in Seq(Bytes) /\ r \in Seq(Bytes)
      BY <1>2, <1>3
    <3> QED BY <3>1, Regrouped, Zenon
  <2> QED BY <1>4, <2>1, Zenon
<1> QED BY <1>2, <1>3, <1>5, Zenon

-----------------------------------------------------------------------------
(* The inductive invariant. *)
Typed ==
    /\ StreamTypeOK /\ broken \in BOOLEAN
    /\ frame \in Good \cup {<< >>} /\ sent \in Seq(Good) /\ got \in Seq(Good)

Ordered == Len(got) <= Len(sent) /\ \A i \in 1..Len(got) : got[i] = sent[i]

Foreign == Lengths \ 1..Maximum

Framed(f) == to_be_bytes(Len(f)) \o f

(* The sender has a whole frame to write, or a part of the last it began.  *)
WriterInv ==
    /\ closed => rest = << >>
    /\ rest # << >> /\ ~begun =>
          /\ ~broken
          /\ \/ frame # << >> /\ rest = Framed(frame)
             \/ frame = << >> /\ \E n \in Foreign :
                    Len(rest) >= 4 /\ \A j \in 1..4 : rest[j] = to_be_bytes(n)[j]
    /\ rest # << >> /\ begun =>
          IF frame = << >> THEN broken
          ELSE Len(sent) > 0 /\ Len(rest) < 4 + Len(sent[Len(sent)])

ReaderInv ==
    /\ (stage = "done") <=> (result # "none")
    /\ stage = "header" => body = << >> /\ Len(header) < 4
    /\ stage = "length" => body = << >> /\ Len(header) = 4
    /\ stage = "body" => /\ Len(header) = 4 /\ from_be_bytes(header) \in 1..Maximum
                         /\ Len(body) <= from_be_bytes(header)
    /\ stage = "eof" => once /\ header = << >> /\ body = << >> /\ Len(got) = 1
    /\ once /\ stage \in {"header", "length", "body"} => got = << >>

(* The bytes in flight. *)
Flow == ((header \o body) \o pipe) \o rest

(* Of the frames q that were begun g have been returned.  Frame i of the  *)
(* others comes after cut[i] of the bytes u in flight.                     *)
CutAt(cut, g, q) ==
    /\ cut \in [Nat -> Nat] /\ cut[g + 1] = 0
    /\ \A i \in (g + 1)..Len(q) : cut[i + 1] = cut[i] + 4 + Len(q[i])
    /\ \A i, j \in (g + 1)..(Len(q) + 1) : i <= j => cut[i] <= cut[j]

BytesAt(cut, g, q, u) ==
    \A i \in (g + 1)..Len(q) : \A j \in 1..(4 + Len(q[i])) :
        cut[i] + j <= Len(u) => u[cut[i] + j] = Framed(q[i])[j]

(* What follows them: the frame the sender has not begun, or nothing; or,  *)
(* when it ended within the last frame, a gap; or what is no frame.        *)
Whole(end, u, ahead) == Len(u) = end + ahead

Gap(last, end, u) == last < Len(u) /\ Len(u) < end

Strange(end, u, l) ==
    /\ end + l < Len(u)
    /\ \E n \in Foreign : \A j \in 1..4 : end + j <= Len(u) => u[end + j] = to_be_bytes(n)[j]

EndsAt(last, end) ==
    \/ ~broken /\ Whole(end, Flow, IF begun THEN 0 ELSE Len(rest))
    \/ broken /\ rest = << >> /\ Len(got) < Len(sent) /\ Gap(last, end, Flow)
    \/ broken /\ Strange(end, Flow, Len(rest))

Layout(cut) ==
    /\ CutAt(cut, Len(got), sent) /\ BytesAt(cut, Len(got), sent, Flow)
    /\ EndsAt(cut[Len(sent)], cut[Len(sent) + 1])

StreamInv ==
    /\ Typed /\ Ordered /\ WriterInv /\ ReaderInv
    /\ result = "none" => \E cut \in [Nat -> Nat] : Layout(cut)

-----------------------------------------------------------------------------
(* Frames and the bytes in flight. *)
LEMMA FramedIs ==
    ASSUME FrameAssumption, NEW f \in Good
    PROVE  /\ f \in Seq(Bytes) /\ Len(f) \in 1..Maximum /\ Len(f) \in Lengths
           /\ Framed(f) \in Seq(Bytes) /\ Len(Framed(f)) = 4 + Len(f)
           /\ \A j \in 1..4 : Framed(f)[j] = to_be_bytes(Len(f))[j]
           /\ \A j \in 1..Len(f) : Framed(f)[4 + j] = f[j]
<1>1. f \in Seq(Bytes) /\ f # << >> /\ Len(f) <= Maximum
  BY DEF Good, Sendable, FrameAssumption
<1>2. Len(f) \in Nat /\ Len(f) # 0
  BY <1>1, EmptySeq, LenProperties
<1>3. Len(f) \in 1..Maximum /\ Len(f) \in Lengths
  BY <1>1, <1>2 DEF Lengths, FrameAssumption
<1> DEFINE h == to_be_bytes(Len(f))
<1>4. h \in Seq(Bytes) /\ Len(h) = 4
  BY <1>3, LengthEncoded DEF HeaderBytes
<1> HIDE DEF h
<1>5. /\ h \o f \in Seq(Bytes) /\ Len(h \o f) = 4 + Len(f)
      /\ \A j \in 1..4 : (h \o f)[j] = h[j]
      /\ \A j \in 1..Len(f) : (h \o f)[4 + j] = f[j]
  <2>1. /\ h \o f \in Seq(Bytes) /\ Len(h \o f) = Len(h) + Len(f)
        /\ \A j \in 1..Len(h) : (h \o f)[j] = h[j]
        /\ \A j \in 1..Len(f) : (h \o f)[Len(h) + j] = f[j]
    BY <1>1, <1>4, Joined, Zenon
  <2> QED BY <1>4, <2>1, Zenon
<1>6. Framed(f) = h \o f
  BY DEF Framed, h
<1> QED BY <1>1, <1>3, <1>5, <1>6, Zenon DEF h

LEMMA FlowOf ==
    ASSUME NEW h \in Seq(Bytes), NEW b \in Seq(Bytes), NEW p \in Seq(Bytes), NEW r \in Seq(Bytes),
           NEW u, u = ((h \o b) \o p) \o r
    PROVE  /\ Len(h) \in Nat /\ Len(b) \in Nat /\ Len(p) \in Nat /\ Len(r) \in Nat
           /\ u \in Seq(Bytes) /\ Len(u) = Len(h) + Len(b) + Len(p) + Len(r)
           /\ \A i \in 1..Len(h) : u[i] = h[i]
           /\ \A i \in 1..Len(b) : u[Len(h) + i] = b[i]
           /\ \A i \in 1..Len(p) : u[Len(h) + Len(b) + i] = p[i]
           /\ \A i \in 1..Len(r) : u[Len(h) + Len(b) + Len(p) + i] = r[i]
<1> DEFINE x == h \o b
           y == x \o p
<1>0. Len(h) \in Nat /\ Len(b) \in Nat /\ Len(p) \in Nat /\ Len(r) \in Nat
  BY LenProperties
<1>1. /\ x \in Seq(Bytes) /\ Len(x) = Len(h) + Len(b)
      /\ \A i \in 1..Len(h) : x[i] = h[i]
      /\ \A i \in 1..Len(b) : x[Len(h) + i] = b[i]
  BY Joined, Zenon
<1> HIDE DEF x
<1>2. /\ y \in Seq(Bytes) /\ Len(y) = Len(x) + Len(p)
      /\ \A i \in 1..Len(x) : y[i] = x[i]
      /\ \A i \in 1..Len(p) : y[Len(x) + i] = p[i]
  BY <1>1, Joined, Zenon
<1>u. u = y \o r
  BY DEF x
<1> HIDE DEF y
<1>3. /\ u \in Seq(Bytes) /\ Len(u) = Len(y) + Len(r)
      /\ \A i \in 1..Len(y) : u[i] = y[i]
      /\ \A i \in 1..Len(r) : u[Len(y) + i] = r[i]
  <2>1. /\ y \o r \in Seq(Bytes) /\ Len(y \o r) = Len(y) + Len(r)
        /\ \A i \in 1..Len(y) : (y \o r)[i] = y[i]
        /\ \A i \in 1..Len(r) : (y \o r)[Len(y) + i] = r[i]
    BY <1>2, Joined, Zenon
  <2> QED BY <1>u, <2>1, Zenon
<1>4. Len(u) = Len(h) + Len(b) + Len(p) + Len(r)
  BY <1>0, <1>1, <1>2, <1>3
<1>5. \A i \in 1..Len(h) : u[i] = h[i]
  <2> TAKE i \in 1..Len(h)
  <2>1. i \in 1..Len(x) /\ i \in 1..Len(y)
    BY <1>0, <1>1, <1>2
  <2> QED BY <1>1, <1>2, <1>3, <2>1, Zenon
<1>6. \A i \in 1..Len(b) : u[Len(h) + i] = b[i]
  <2> TAKE i \in 1..Len(b)
  <2>1. Len(h) + i \in 1..Len(x) /\ Len(h) + i \in 1..Len(y)
    BY <1>0, <1>1, <1>2
  <2> QED BY <1>1, <1>2, <1>3, <2>1, Zenon
<1>7. \A i \in 1..Len(p) : u[Len(h) + Len(b) + i] = p[i]
  <2> TAKE i \in 1..Len(p)
  <2>1. Len(x) + i \in 1..Len(y) /\ Len(x) + i = Len(h) + Len(b) + i
    BY <1>0, <1>1, <1>2
  <2> QED BY <1>2, <1>3, <2>1, Zenon
<1>8. \A i \in 1..Len(r) : u[Len(h) + Len(b) + Len(p) + i] = r[i]
  <2> TAKE i \in 1..Len(r)
  <2>1. Len(y) + i = Len(h) + Len(b) + Len(p) + i
    BY <1>0, <1>1, <1>2
  <2> QED BY <1>3, <2>1, Zenon
<1> QED BY <1>0, <1>3, <1>4, <1>5, <1>6, <1>7, <1>8, Zenon

-----------------------------------------------------------------------------
(* How the layout changes. *)

LEMMA CutIs ==
    ASSUME NEW cut, NEW g, NEW q, CutAt(cut, g, q)
    PROVE  cut \in [Nat -> Nat] /\ cut[g + 1] = 0 /\ \A i \in Nat : cut[i] \in Nat
<1>1. cut \in [Nat -> Nat] /\ cut[g + 1] = 0
  BY Zenon DEF CutAt
<1> QED BY <1>1

LEMMA FrameLength ==
    ASSUME FrameAssumption, NEW q \in Seq(Good), NEW i \in 1..Len(q)
    PROVE  q[i] \in Good /\ Len(q[i]) \in Nat /\ Len(q[i]) > 0
<1>1. q[i] \in Good
  BY ElementOfSeq
<1>2. Len(q[i]) \in 1..Maximum /\ Maximum \in Nat
  BY <1>1, FramedIs DEF FrameAssumption, Lengths
<1> QED BY <1>1, <1>2

StandsAt(end, u, f) == \A j \in 1..(4 + Len(f)) : u[end + j] = Framed(f)[j]

(* The sender begins a frame: it stands behind the others. *)
LEMMA Begun ==
    ASSUME FrameAssumption, NEW cut, NEW g \in Nat, NEW q \in Seq(Good), g <= Len(q), NEW u, NEW f \in Good,
           CutAt(cut, g, q), BytesAt(cut, g, q, u), StandsAt(cut[Len(q) + 1], u, f)
    PROVE  \E c \in [Nat -> Nat] :
               /\ CutAt(c, g, Append(q, f)) /\ BytesAt(c, g, Append(q, f), u)
               /\ c[Len(q) + 2] = cut[Len(q) + 1] + 4 + Len(f)
<1> DEFINE n == Len(q)
           p == Append(q, f)
           e == cut[n + 1] + 4 + Len(f)
           c == [cut EXCEPT ![n + 2] = e]
<1>1. n \in Nat /\ p \in Seq(Good) /\ Len(p) = n + 1 /\ p[n + 1] = f /\ \A i \in 1..n : p[i] = q[i]
  BY AppendProperties, LenProperties
<1>2. Len(f) \in Nat
  BY FramedIs
<1>3. cut \in [Nat -> Nat] /\ n + 1 \in Nat /\ n + 2 \in Nat /\ cut[n + 1] \in Nat /\ e \in Nat
      /\ \A i \in Nat : cut[i] \in Nat
  <2>1. n + 1 \in Nat /\ n + 2 \in Nat
    BY <1>1
  <2>2. cut \in [Nat -> Nat] /\ \A i \in Nat : cut[i] \in Nat
    BY CutIs, Zenon
  <2>3. cut[n + 1] \in Nat
    BY <2>1, <2>2, Zenon
  <2>4. e \in Nat
    <3> DEFINE x == cut[n + 1]
               l == Len(f)
    <3>1. x \in Nat /\ l \in Nat
      BY <1>2, <2>3, Zenon
    <3> HIDE DEF x, l
    <3>2. x + 4 + l \in Nat
      BY <3>1
    <3> QED BY <3>2, Zenon DEF x, l
  <2> QED BY <2>1, <2>2, <2>3, <2>4, Zenon
<1>4. c \in [Nat -> Nat] /\ c[n + 2] = e /\ \A i \in Nat : i # n + 2 => c[i] = cut[i]
  BY <1>3
<1> HIDE DEF n, p, c, e
<1>5. CutAt(c, g, p)
  <2>1. c[g + 1] = 0
    BY <1>1, <1>4 DEF CutAt, n
  <2>2. \A i \in (g + 1)..(n + 1) : c[i + 1] = c[i] + 4 + Len(p[i])
    <3> TAKE i \in (g + 1)..(n + 1)
    <3>1. CASE i = n + 1
      BY <1>1, <1>3, <1>4, <3>1 DEF e
    <3>2. CASE i # n + 1
      <4>1. i \in 1..n /\ i \in (g + 1)..n /\ i \in Nat /\ i + 1 \in Nat /\ i # n + 2 /\ i + 1 # n + 2
        BY <1>1, <3>2
      <4>2. cut[i + 1] = cut[i] + 4 + Len(q[i])
        BY <4>1, Zenon DEF CutAt, n
      <4> QED BY <1>1, <1>4, <4>1, <4>2, Zenon
    <3> QED BY <3>1, <3>2
  <2>3. \A i, j \in (g + 1)..(n + 2) : i <= j => c[i] <= c[j]
    <3>1. SUFFICES ASSUME NEW i \in (g + 1)..(n + 2), NEW j \in (g + 1)..(n + 2), i <= j
                   PROVE  c[i] <= c[j]
      OBVIOUS
    <3>2. i \in Nat /\ j \in Nat /\ cut[i] \in Nat /\ cut[j] \in Nat
      <4>1. i \in Nat /\ j \in Nat
        BY <1>1
      <4> QED BY <1>3, <4>1, Zenon
    <3>3. CASE j # n + 2
      <4>1. i \in (g + 1)..(n + 1) /\ j \in (g + 1)..(n + 1) /\ i # n + 2
        BY <1>1, <3>1, <3>3
      <4>2. cut[i] <= cut[j]
        BY <3>1, <4>1, Zenon DEF CutAt, n
      <4> QED BY <1>4, <3>2, <3>3, <4>1, <4>2, Zenon
    <3>4. CASE j = n + 2 /\ i # n + 2
      <4>1. i \in (g + 1)..(n + 1) /\ n + 1 \in (g + 1)..(n + 1) /\ i <= n + 1
        BY <1>1, <3>4 DEF n
      <4>2. cut[i] <= cut[n + 1]
        BY <4>1, Zenon DEF CutAt, n
      <4>3. c[i] = cut[i] /\ c[j] = e
        BY <1>4, <3>2, <3>4
      <4>4. cut[i] \in Nat /\ cut[n + 1] \in Nat /\ e = cut[n + 1] + 4 + Len(f)
        BY <1>3, <3>2, Zenon DEF e
      <4> DEFINE x == cut[i]
                 y == cut[n + 1]
                 l == Len(f)
      <4>5. x \in Nat /\ y \in Nat /\ l \in Nat /\ e = y + 4 + l /\ x <= y
        BY <1>2, <4>2, <4>4, Zenon
      <4> HIDE DEF x, y, l
      <4>6. x <= e
        BY <4>5
      <4> QED BY <4>3, <4>6, Zenon DEF x
    <3>5. CASE i = n + 2 /\ j = n + 2
      BY <1>3, <1>4, <3>5
    <3> QED BY <3>1, <3>2, <3>3, <3>4, <3>5
  <2>4. Len(p) + 1 = n + 2
    BY <1>1
  <2> QED BY <1>1, <1>4, <2>1, <2>2, <2>3, <2>4, Zenon DEF CutAt
<1>6. BytesAt(c, g, p, u)
  <2>1. SUFFICES ASSUME NEW i \in (g + 1)..(n + 1), NEW j \in 1..(4 + Len(p[i])), c[i] + j <= Len(u)
                 PROVE  u[c[i] + j] = Framed(p[i])[j]
    BY <1>1 DEF BytesAt
  <2>2. i \in Nat /\ i # n + 2
    BY <1>1
  <2>3. CASE i = n + 1
    <3>1. p[i] = f /\ c[i] = cut[n + 1]
      BY <1>1, <1>4, <2>2, <2>3, Zenon
    <3> QED BY <2>1, <3>1, Zenon DEF n, StandsAt
  <2>4. CASE i # n + 1
    <3>1. i \in 1..n /\ i \in (g + 1)..n
      BY <1>1, <2>4
    <3>2. p[i] = q[i] /\ c[i] = cut[i]
      BY <1>1, <1>4, <2>2, <3>1, Zenon
    <3> QED BY <2>1, <3>1, <3>2, Zenon DEF BytesAt, n
  <2> QED BY <2>3, <2>4
<1> QED BY <1>4, <1>5, <1>6, Zenon DEF n, p, e

Behind(d, u, v) ==
    Len(u) \in Nat /\ Len(v) \in Nat /\ Len(u) = d + Len(v) /\ \A k \in 1..Len(v) : v[k] = u[d + k]

Shift(d, e, end, lu, lv) ==
    d \in Nat /\ e \in Nat /\ lv \in Nat /\ e + d = end /\ lu = d + lv

LEMMA Shifted ==
    ASSUME NEW d, NEW e, NEW end, NEW lu, NEW lv, Shift(d, e, end, lu, lv)
    PROVE  \A a \in Nat : (lu = end + a => lv = e + a) /\ (end + a < lu => e + a < lv)
  BY DEF Shift

LEMMA ShiftedBytes ==
    ASSUME NEW d, NEW e, NEW end, NEW lu, NEW lv, Shift(d, e, end, lu, lv)
    PROVE  \A j \in 1..4 : e + j <= lv => e + j \in 1..lv /\ d + (e + j) = end + j /\ end + j <= lu
  BY DEF Shift

BackBy(d, cut, c, first, last) == \A i \in first..last : c[i] + d = cut[i]

(* The reader returns the first frame: the others move to the front. *)
LEMMA Returned ==
    ASSUME FrameAssumption, NEW cut, NEW g \in Nat, NEW q \in Seq(Good), g < Len(q), NEW u, NEW v,
           CutAt(cut, g, q), BytesAt(cut, g, q, u), Behind(cut[g + 2], u, v)
    PROVE  \E c \in [Nat -> Nat] :
               /\ CutAt(c, g + 1, q) /\ BytesAt(c, g + 1, q, v)
               /\ BackBy(cut[g + 2], cut, c, g + 2, Len(q) + 1)
<1> DEFINE n == Len(q)
           d == cut[g + 2]
           c == [i \in Nat |-> IF i \in (g + 2)..(n + 1) THEN cut[i] - d ELSE 0]
<1>0. /\ Len(u) \in Nat /\ Len(v) \in Nat /\ Len(u) = cut[g + 2] + Len(v)
      /\ \A k \in 1..Len(v) : v[k] = u[cut[g + 2] + k]
  BY Zenon DEF Behind
<1>1. n \in Nat /\ cut \in [Nat -> Nat] /\ d \in Nat /\ g + 2 \in (g + 1)..(n + 1)
      /\ \A i \in Nat : cut[i] \in Nat
  <2>1. cut \in [Nat -> Nat] /\ \A i \in Nat : cut[i] \in Nat
    BY CutIs, Zenon
  <2>2. n \in Nat
    BY LenProperties
  <2>3. g + 2 \in Nat
    OBVIOUS
  <2>4. g + 2 \in (g + 1)..(n + 1)
    BY <2>2
  <2> QED BY <2>1, <2>2, <2>3, <2>4, Zenon
<1>2. \A i \in (g + 2)..(n + 1) : cut[i] \in Nat /\ d <= cut[i]
  <2> TAKE i \in (g + 2)..(n + 1)
  <2>1. i \in (g + 1)..(n + 1) /\ g + 2 <= i /\ i \in Nat
    BY <1>1
  <2> QED BY <1>1, <2>1, Zenon DEF CutAt
<1>3. c \in [Nat -> Nat] /\ \A i \in (g + 2)..(n + 1) : c[i] = cut[i] - d /\ c[i] \in Nat
  <2> HIDE DEF n, d
  <2>1. \A i \in (g + 2)..(n + 1) : i \in Nat /\ cut[i] - d \in Nat
    <3> TAKE i \in (g + 2)..(n + 1)
    <3> DEFINE x == cut[i]
    <3>1. x \in Nat /\ d \in Nat /\ d <= x
      BY <1>1, <1>2, Zenon
    <3> HIDE DEF x
    <3>2. i \in Nat /\ x - d \in Nat
      BY <1>1, <3>1
    <3> QED BY <3>2, Zenon DEF x
  <2>2. \A i \in Nat : (IF i \in (g + 2)..(n + 1) THEN cut[i] - d ELSE 0) \in Nat
    BY <2>1
  <2>3. c \in [Nat -> Nat]
    BY <2>2, Zenon
  <2>4. \A i \in (g + 2)..(n + 1) : c[i] = cut[i] - d
    BY <2>1, Zenon
  <2> QED BY <2>1, <2>3, <2>4, Zenon
<1> HIDE DEF n, d, c
<1>4. \A i \in (g + 2)..(n + 1) : c[i] + d = cut[i]
  <2> TAKE i \in (g + 2)..(n + 1)
  <2> DEFINE x == cut[i]
  <2>1. x \in Nat /\ d \in Nat /\ c[i] = x - d
    BY <1>1, <1>2, <1>3, Zenon
  <2> HIDE DEF x
  <2>2. (x - d) + d = x
    BY <2>1
  <2> QED BY <2>1, <2>2, Zenon DEF x
<1>5. CutAt(c, g + 1, q)
  <2>1. c[(g + 1) + 1] = 0
    <3>1. g + 2 \in (g + 2)..(n + 1) /\ (g + 1) + 1 = g + 2
      BY <1>1
    <3>2. c[g + 2] = d - d
      BY <1>3, <3>1, Zenon DEF d
    <3>3. d - d = 0
      BY <1>1
    <3> QED BY <3>1, <3>2, <3>3, Zenon
  <2>2. \A i \in ((g + 1) + 1)..n : c[i + 1] = c[i] + 4 + Len(q[i])
    <3> TAKE i \in ((g + 1) + 1)..n
    <3>1. i \in (g + 2)..(n + 1) /\ i + 1 \in (g + 2)..(n + 1) /\ i \in (g + 1)..n /\ i \in 1..n
      BY <1>1
    <3>2. cut[i + 1] = cut[i] + 4 + Len(q[i])
      BY <3>1, Zenon DEF CutAt, n
    <3>3. q[i] \in Good
      BY <3>1, ElementOfSeq DEF n
    <3>4. c[i] = cut[i] - d /\ c[i + 1] = cut[i + 1] - d /\ cut[i] \in Nat /\ cut[i + 1] \in Nat
      BY <1>2, <1>3, <3>1, Zenon
    <3> DEFINE l == Len(q[i])
               a == cut[i]
               b == cut[i + 1]
    <3>5. a \in Nat /\ b \in Nat /\ b = a + 4 + l /\ c[i] = a - d /\ c[i + 1] = b - d
      BY <3>2, <3>4, Zenon
    <3>6. l \in Nat
      BY <3>1, FrameLength, Zenon DEF n
    <3> HIDE DEF a, b, l
    <3>7. b - d = (a - d) + 4 + l
      BY <1>1, <3>5, <3>6
    <3> QED BY <3>5, <3>7 DEF l
  <2>3. \A i, j \in ((g + 1) + 1)..(n + 1) : i <= j => c[i] <= c[j]
    <3>1. SUFFICES ASSUME NEW i \in ((g + 1) + 1)..(n + 1), NEW j \in ((g + 1) + 1)..(n + 1), i <= j
                   PROVE  c[i] <= c[j]
      OBVIOUS
    <3>2. /\ i \in (g + 2)..(n + 1) /\ j \in (g + 2)..(n + 1)
          /\ i \in (g + 1)..(n + 1) /\ j \in (g + 1)..(n + 1)
      BY <1>1
    <3>3. cut[i] <= cut[j]
      BY <3>1, <3>2, Zenon DEF CutAt, n
    <3>4. cut[i] \in Nat /\ cut[j] \in Nat /\ c[i] = cut[i] - d /\ c[j] = cut[j] - d
      BY <1>2, <1>3, <3>2, Zenon
    <3> DEFINE x == cut[i]
               y == cut[j]
    <3>5. x \in Nat /\ y \in Nat /\ x <= y /\ d \in Nat /\ c[i] = x - d /\ c[j] = y - d
      BY <1>1, <3>3, <3>4, Zenon
    <3> HIDE DEF x, y
    <3>6. x - d <= y - d
      BY <3>5
    <3> QED BY <3>5, <3>6, Zenon
  <2> QED BY <1>3, <2>1, <2>2, <2>3, Zenon DEF CutAt, n
<1>6. BytesAt(c, g + 1, q, v)
  <2>1. SUFFICES ASSUME NEW i \in ((g + 1) + 1)..n, NEW j \in 1..(4 + Len(q[i])), c[i] + j <= Len(v)
                 PROVE  v[c[i] + j] = Framed(q[i])[j]
    BY DEF BytesAt, n
  <2>2. i \in (g + 2)..(n + 1) /\ i \in (g + 1)..n /\ i \in 1..n
    BY <1>1
  <2>3. c[i] + d = cut[i] /\ c[i] \in Nat /\ cut[i] \in Nat
    BY <1>2, <1>3, <1>4, <2>2, Zenon
  <2>4. j \in Nat \ {0}
    <3>1. Len(q[i]) \in Nat
      BY <2>2, FrameLength, Zenon DEF n
    <3> QED BY <3>1
  <2>5. c[i] + j \in 1..Len(v) /\ d + (c[i] + j) = cut[i] + j /\ cut[i] + j <= Len(u)
    <3> DEFINE x == c[i]
               y == cut[i]
               lv == Len(v)
               lu == Len(u)
    <3>1. x \in Nat /\ y \in Nat /\ x + d = y /\ lv \in Nat /\ lu = d + lv /\ x + j <= lv
      BY <1>0, <2>1, <2>3, Zenon DEF d
    <3> HIDE DEF x, y, lv, lu
    <3>2. x + j \in 1..lv /\ d + (x + j) = y + j /\ y + j <= lu
      BY <1>1, <2>4, <3>1
    <3> QED BY <3>2, Zenon DEF x, y, lv, lu
  <2>6. v[c[i] + j] = u[d + (c[i] + j)]
    BY <1>0, <2>5, Zenon DEF d
  <2>7. u[cut[i] + j] = Framed(q[i])[j]
    BY <2>1, <2>2, <2>5, Zenon DEF BytesAt, n
  <2> QED BY <2>5, <2>6, <2>7, Zenon
<1>7. BackBy(d, cut, c, g + 2, n + 1)
  BY <1>4, Zenon DEF BackBy
<1> QED BY <1>3, <1>5, <1>6, <1>7, Zenon DEF n, d

(* More bytes behind the last frame, or fewer of them. *)
LEMMA Grown ==
    ASSUME FrameAssumption, NEW cut, NEW g \in Nat, NEW q \in Seq(Good), NEW u, NEW v, CutAt(cut, g, q), BytesAt(cut, g, q, u),
           Len(u) \in Nat, Len(v) \in Nat, cut[Len(q) + 1] <= Len(u), \A k \in 1..Len(u) : v[k] = u[k]
    PROVE  BytesAt(cut, g, q, v)
<1>1. SUFFICES ASSUME NEW i \in (g + 1)..Len(q), NEW j \in 1..(4 + Len(q[i])), cut[i] + j <= Len(v)
               PROVE  v[cut[i] + j] = Framed(q[i])[j]
  BY DEF BytesAt
<1> DEFINE n == Len(q)
           l == Len(q[i])
<1>2. n \in Nat /\ i \in 1..n /\ i + 1 \in (g + 1)..(n + 1) /\ n + 1 \in (g + 1)..(n + 1) /\ i + 1 <= n + 1
      /\ i \in Nat /\ n + 1 \in Nat
  BY LenProperties
<1>3. l \in Nat
  BY <1>2, FrameLength, Zenon
<1>4. cut[i] \in Nat /\ cut[n + 1] \in Nat /\ cut[i + 1] = cut[i] + 4 + l
  BY <1>2, CutIs, Zenon DEF CutAt
<1>5. cut[i + 1] <= cut[n + 1]
  BY <1>2, Zenon DEF CutAt
<1>6. cut[i] + j <= Len(u) /\ cut[i] + j \in 1..Len(u)
  <2> DEFINE x == cut[i]
             y == cut[n + 1]
             lu == Len(u)
  <2>1. x \in Nat /\ y \in Nat /\ x + 4 + l <= y /\ y <= lu /\ lu \in Nat
    BY <1>4, <1>5, Zenon
  <2>2. j \in 1..(4 + l)
    OBVIOUS
  <2> HIDE DEF x, y, lu, l
  <2>3. x + j <= lu /\ x + j \in 1..lu
    BY <1>3, <2>1, <2>2
  <2> QED BY <2>3, Zenon DEF x, lu
<1> QED BY <1>6, Zenon DEF BytesAt

LEMMA Shrunk ==
    ASSUME FrameAssumption, NEW cut, NEW g \in Nat, NEW q \in Seq(Good), NEW u, NEW v, CutAt(cut, g, q), BytesAt(cut, g, q, u),
           Len(u) \in Nat, Len(v) \in Nat, Len(v) <= Len(u), \A k \in 1..Len(v) : v[k] = u[k]
    PROVE  BytesAt(cut, g, q, v)
<1>1. SUFFICES ASSUME NEW i \in (g + 1)..Len(q), NEW j \in 1..(4 + Len(q[i])), cut[i] + j <= Len(v)
               PROVE  v[cut[i] + j] = Framed(q[i])[j]
  BY DEF BytesAt
<1>2. Len(q) \in Nat /\ i \in 1..Len(q) /\ i \in Nat
  BY LenProperties
<1>3. Len(q[i]) \in Nat
  BY <1>2, FrameLength, Zenon
<1>4. cut[i] \in Nat
  BY <1>2, CutIs, Zenon
<1>5. cut[i] + j <= Len(u) /\ cut[i] + j \in 1..Len(v)
  BY <1>1, <1>3, <1>4
<1> QED BY <1>5, Zenon DEF BytesAt

-----------------------------------------------------------------------------
(* The steps keep the invariant. *)
LEMMA FlowIs ==
    ASSUME header \in Seq(Bytes), body \in Seq(Bytes), pipe \in Seq(Bytes), rest \in Seq(Bytes)
    PROVE  /\ Len(header) \in Nat /\ Len(body) \in Nat /\ Len(pipe) \in Nat /\ Len(rest) \in Nat
           /\ Flow \in Seq(Bytes) /\ Len(Flow) = Len(header) + Len(body) + Len(pipe) + Len(rest)
           /\ \A i \in 1..Len(header) : Flow[i] = header[i]
           /\ \A i \in 1..Len(body) : Flow[Len(header) + i] = body[i]
           /\ \A i \in 1..Len(pipe) : Flow[Len(header) + Len(body) + i] = pipe[i]
           /\ \A i \in 1..Len(rest) : Flow[Len(header) + Len(body) + Len(pipe) + i] = rest[i]
  BY FlowOf DEF Flow

LEMMA TypedIs ==
    ASSUME Typed
    PROVE  /\ header \in Seq(Bytes) /\ body \in Seq(Bytes) /\ pipe \in Seq(Bytes) /\ rest \in Seq(Bytes)
           /\ sent \in Seq(Good) /\ got \in Seq(Good) /\ Len(sent) \in Nat /\ Len(got) \in Nat
  BY LenProperties DEF Typed, StreamTypeOK

LEMMA StreamStarts ==
    ASSUME FrameAssumption, StreamInit
    PROVE  StreamInv
<1>1. Typed
  <2>1. << >> \in Seq(Bytes) /\ << >> \in Seq(Good) /\ Len(<< >>) = 0
    OBVIOUS
  <2>2. 0 <= Capacity /\ 0 <= HeaderBytes /\ 0 <= Maximum /\ 0 \in 0..MaxFrames
    BY DEF FrameAssumption, Lengths, HeaderBytes
  <2> QED BY <2>1, <2>2, Zenon DEF StreamInit, Typed, StreamTypeOK
<1>2. Ordered /\ WriterInv /\ ReaderInv
  BY DEF StreamInit, Ordered, WriterInv, ReaderInv
<1> DEFINE cut == [i \in Nat |-> 0]
<1>3. Len(sent) = 0 /\ Len(got) = 0 /\ Len(rest) = 0
  BY DEF StreamInit
<1>4. Len(Flow) = 0
  <2>1. Len(header) = 0 /\ Len(body) = 0 /\ Len(pipe) = 0
    BY DEF StreamInit
  <2> QED BY <1>1, <1>3, <2>1, TypedIs, FlowIs
<1>5. CutAt(cut, Len(got), sent) /\ BytesAt(cut, Len(got), sent, Flow)
  BY <1>3 DEF CutAt, BytesAt
<1>6. EndsAt(cut[Len(sent)], cut[Len(sent) + 1])
  BY <1>3, <1>4 DEF EndsAt, Whole, StreamInit
<1>7. cut \in [Nat -> Nat]
  OBVIOUS
<1> HIDE DEF cut
<1> QED BY <1>1, <1>2, <1>5, <1>6, <1>7, Zenon DEF StreamInv, Layout

(* Bytes move within what is in flight. *)
LEMMA LayoutKept ==
    ASSUME StreamInv, result = "none", Flow' = Flow, UNCHANGED <<got, sent, broken, begun, rest>>
    PROVE  \E cut \in [Nat -> Nat] : Layout(cut)'
<1>1. PICK cut \in [Nat -> Nat] : Layout(cut)
  BY Zenon DEF StreamInv
<1>2. Layout(cut)'
  BY <1>1, Zenon DEF Layout, EndsAt
<1> QED BY <1>2, Zenon

(* The reader returns an error or the end. *)
LEMMA ReaderStops ==
    ASSUME StreamInv, NEW r \in {"end", "Io", "EmptyFrame", "FrameTooLarge", "TrailingData"}, Returns(r),
           pipe' \in Seq(Bytes), Len(pipe') <= Capacity,
           UNCHANGED <<writerVars, once, header, body, got, sent, broken>>
    PROVE  StreamInv'
<1>1. Typed'
  BY DEF StreamInv, Typed, StreamTypeOK, Returns, writerVars
<1>2. Ordered' /\ WriterInv'
  BY Zenon DEF StreamInv, Ordered, WriterInv, writerVars
<1>3. ReaderInv' /\ result' # "none"
  BY DEF StreamInv, ReaderInv, Returns
<1> QED BY <1>1, <1>2, <1>3, Zenon DEF StreamInv

LEMMA ReadHeaderKeeps ==
    ASSUME FrameAssumption, StreamInv, ReadHeader
    PROVE  StreamInv'
<1>1. /\ stage = "header" /\ result = "none" /\ body = << >> /\ Len(header) < 4
      /\ UNCHANGED <<writerVars, once, body, got, sent, broken>>
  BY Zenon DEF ReadHeader, StreamInv, ReaderInv
<1>2. /\ header \in Seq(Bytes) /\ body \in Seq(Bytes) /\ pipe \in Seq(Bytes) /\ rest \in Seq(Bytes)
      /\ Len(header) \in Nat /\ Len(pipe) \in Nat
  BY TypedIs, FlowIs, Zenon DEF StreamInv
<1>3. CASE /\ Eof /\ Returns(IF header # << >> \/ once THEN "Io" ELSE "end")
           /\ UNCHANGED <<pipe, header>>
  <2>1. Len(pipe) <= Capacity
    BY DEF StreamInv, Typed, StreamTypeOK
  <2> QED BY <1>1, <1>2, <1>3, <2>1, ReaderStops
<1>4. CASE /\ Taken(HeaderBytes - Len(header), header, header')
           /\ stage' = (IF Len(header') = HeaderBytes THEN "length" ELSE "header")
           /\ UNCHANGED result
  <2>1. PICK k \in 1..(4 - Len(header)) :
            /\ k <= Len(pipe)
            /\ header' = header \o SubSeq(pipe, 1, k) /\ pipe' = SubSeq(pipe, k + 1, Len(pipe))
    BY <1>4 DEF Taken, HeaderBytes
  <2>2. k \in 1..Len(pipe)
    BY <1>2, <2>1
  <2> DEFINE l == SubSeq(pipe, 1, k)
  <2>3. /\ l \in Seq(Bytes) /\ Len(l) = k /\ pipe' \in Seq(Bytes) /\ Len(pipe') = Len(pipe) - k
        /\ (header \o l) \o pipe' = header \o pipe
    BY <1>2, <2>1, <2>2, Moved, Zenon
  <2> HIDE DEF l
  <2>4. header' = header \o l /\ header' \in Seq(Bytes) /\ Len(header') = Len(header) + k
    <3>1. header' = header \o l
      BY <2>1, Zenon DEF l
    <3>2. header \o l \in Seq(Bytes) /\ Len(header \o l) = Len(header) + Len(l)
      BY <1>2, <2>3, Joined, Zenon
    <3> QED BY <2>3, <3>1, <3>2, Zenon
  <2>5. Len(header') <= 4 /\ Len(pipe') <= Len(pipe) /\ Len(header') \in Nat
    BY <1>1, <1>2, <2>1, <2>3, <2>4
  <2>6. Typed'
    <3>1. Len(pipe') <= Capacity
      BY <1>2, <2>2, <2>3 DEF StreamInv, Typed, StreamTypeOK, FrameAssumption
    <3> QED BY <1>1, <1>4, <2>3, <2>4, <2>5, <3>1 DEF StreamInv, Typed, StreamTypeOK, writerVars, HeaderBytes
  <2>7. Ordered' /\ WriterInv'
    BY <1>1, Zenon DEF StreamInv, Ordered, WriterInv, writerVars
  <2>8. ReaderInv'
    <3>1. \/ stage' = "length" /\ Len(header') = 4
          \/ stage' = "header" /\ Len(header') < 4
      <4> DEFINE n == Len(header')
      <4>1. n \in Nat /\ n <= 4
        BY <2>5, Zenon
      <4>2. stage' = IF n = 4 THEN "length" ELSE "header"
        BY <1>4, Zenon DEF HeaderBytes
      <4> HIDE DEF n
      <4>3. n = 4 \/ n < 4
        BY <4>1
      <4>4. n < 4 => n # 4
        BY <4>1
      <4> QED BY <4>2, <4>3, <4>4, Zenon DEF n
    <3> QED BY <1>1, <1>4, <3>1, Zenon DEF StreamInv, ReaderInv
  <2>9. Flow' = Flow
    <3>1. header \o body = header /\ header' \o body' = header'
      BY <1>1, <1>2, <2>4, ConcatEmptySeq
    <3>2. header' \o pipe' = header \o pipe
      BY <2>3, <2>4, Zenon
    <3>3. rest' = rest
      BY <1>1 DEF writerVars
    <3> QED BY <3>1, <3>2, <3>3, Zenon DEF Flow
  <2>10. \E cut \in [Nat -> Nat] : Layout(cut)'
    BY <1>1, <2>9, LayoutKept, Zenon DEF writerVars
  <2> QED BY <2>6, <2>7, <2>8, <2>10, Zenon DEF StreamInv
<1> QED BY <1>3, <1>4, Zenon DEF ReadHeader

LEMMA HeaderValue ==
    ASSUME FrameAssumption, NEW h \in Seq(Bytes), Len(h) = 4
    PROVE  from_be_bytes(h) \in Nat
<1>1. h[1] \in Nat /\ h[2] \in Nat /\ h[3] \in Nat /\ h[4] \in Nat /\ Base \in Nat
  <2>1. Base \in Nat /\ Bytes \subseteq Nat
    BY DEF Bytes, FrameAssumption
  <2>2. \A i \in 1..4 : h[i] \in Bytes
    BY ElementOfSeq
  <2>3. 1 \in 1..4 /\ 2 \in 1..4 /\ 3 \in 1..4 /\ 4 \in 1..4
    OBVIOUS
  <2> QED BY <2>1, <2>2, <2>3, Zenon
<1>2. h[1] * Base + h[2] \in Nat
  BY <1>1
<1>3. (h[1] * Base + h[2]) * Base + h[3] \in Nat
  <2> DEFINE x == h[1] * Base + h[2]
  <2>1. x \in Nat
    BY <1>2
  <2> HIDE DEF x
  <2>2. x * Base + h[3] \in Nat
    BY <1>1, <2>1
  <2> QED BY <2>2, Zenon DEF x
<1>4. ((h[1] * Base + h[2]) * Base + h[3]) * Base + h[4] \in Nat
  <2> DEFINE x == (h[1] * Base + h[2]) * Base + h[3]
  <2>1. x \in Nat
    BY <1>3
  <2> HIDE DEF x
  <2>2. x * Base + h[4] \in Nat
    BY <1>1, <2>1
  <2> QED BY <2>2, Zenon DEF x
<1> QED BY <1>4, Zenon DEF from_be_bytes

LEMMA CheckLengthKeeps ==
    ASSUME FrameAssumption, StreamInv, CheckLength
    PROVE  StreamInv'
<1>1. /\ stage = "length" /\ result = "none" /\ body = << >> /\ Len(header) = 4
      /\ UNCHANGED <<pipe, writerVars, once, header, body, got, sent, broken>>
  BY Zenon DEF CheckLength, StreamInv, ReaderInv
<1>2. /\ header \in Seq(Bytes) /\ body \in Seq(Bytes) /\ pipe \in Seq(Bytes) /\ rest \in Seq(Bytes)
      /\ Len(pipe) <= Capacity
  BY DEF StreamInv, Typed, StreamTypeOK
<1> DEFINE length == from_be_bytes(header)
<1>3. ASSUME NEW r \in {"EmptyFrame", "FrameTooLarge"}, Returns(r)
      PROVE  StreamInv'
  BY <1>1, <1>2, <1>3, ReaderStops
<1>4. CASE length # 0 /\ ~(length > Maximum) /\ stage' = "body" /\ UNCHANGED result
  <2>1. Typed'
    BY <1>1, <1>4, Zenon DEF StreamInv, Typed, StreamTypeOK, writerVars
  <2>2. Ordered' /\ WriterInv'
    BY <1>1, Zenon DEF StreamInv, Ordered, WriterInv, writerVars
  <2>3. length \in 1..Maximum /\ Len(body) = 0 /\ length \in Nat
    <3>1. length \in Nat
      BY <1>1, <1>2, HeaderValue
    <3> QED BY <1>1, <1>4, <3>1 DEF FrameAssumption, Lengths
  <2>4. ReaderInv'
    BY <1>1, <1>4, <2>3 DEF StreamInv, ReaderInv
  <2>5. \E cut \in [Nat -> Nat] : Layout(cut)'
    BY <1>1, LayoutKept, Zenon DEF writerVars, Flow
  <2> QED BY <2>1, <2>2, <2>4, <2>5, Zenon DEF StreamInv
<1>5. \/ length = 0 /\ Returns("EmptyFrame")
      \/ length > Maximum /\ Returns("FrameTooLarge")
      \/ length # 0 /\ ~(length > Maximum) /\ stage' = "body" /\ UNCHANGED result
  BY Zenon DEF CheckLength
<1> QED BY <1>3, <1>4, <1>5, Zenon

LEMMA ReadBodyKeeps ==
    ASSUME FrameAssumption, StreamInv, ReadBody
    PROVE  StreamInv'
<1> DEFINE length == from_be_bytes(header)
<1>1. /\ stage = "body" /\ result = "none" /\ Len(header) = 4 /\ length \in 1..Maximum /\ Len(body) < length
      /\ UNCHANGED <<writerVars, once, header, got, sent, broken>>
  BY Zenon DEF ReadBody, StreamInv, ReaderInv
<1>2. /\ header \in Seq(Bytes) /\ body \in Seq(Bytes) /\ pipe \in Seq(Bytes) /\ rest \in Seq(Bytes)
      /\ Len(body) \in Nat /\ Len(pipe) \in Nat
  BY TypedIs, FlowIs, Zenon DEF StreamInv
<1>3. CASE Eof /\ Returns("Io") /\ UNCHANGED <<pipe, body>>
  <2>1. Len(pipe) <= Capacity
    BY DEF StreamInv, Typed, StreamTypeOK
  <2> QED BY <1>1, <1>2, <1>3, <2>1, ReaderStops
<1>4. CASE Taken(length - Len(body), body, body') /\ UNCHANGED <<stage, result>>
  <2>1. PICK k \in 1..(length - Len(body)) :
            /\ k <= Len(pipe)
            /\ body' = body \o SubSeq(pipe, 1, k) /\ pipe' = SubSeq(pipe, k + 1, Len(pipe))
    BY <1>4, Zenon DEF Taken
  <2> HIDE DEF length
  <2>m. length \in Nat /\ length <= Maximum /\ Maximum \in Nat /\ length \in 1..Maximum
    BY <1>1 DEF FrameAssumption, Lengths
  <2>2. k \in 1..Len(pipe)
    BY <1>1, <1>2, <2>1, <2>m
  <2> DEFINE l == SubSeq(pipe, 1, k)
  <2>3. /\ l \in Seq(Bytes) /\ Len(l) = k /\ pipe' \in Seq(Bytes) /\ Len(pipe') = Len(pipe) - k
        /\ ((header \o body) \o l) \o pipe' = (header \o body) \o pipe
    <3>1. header \o body \in Seq(Bytes)
      BY <1>2, Joined, Zenon
    <3> QED BY <1>2, <2>1, <2>2, <3>1, Moved, Zenon
  <2> HIDE DEF l
  <2>4. body' = body \o l /\ body' \in Seq(Bytes) /\ Len(body') = Len(body) + k
    <3>1. body' = body \o l
      BY <2>1, Zenon DEF l
    <3>2. body \o l \in Seq(Bytes) /\ Len(body \o l) = Len(body) + Len(l)
      BY <1>2, <2>3, Joined, Zenon
    <3> QED BY <2>3, <3>1, <3>2, Zenon
  <2>5. Len(body') <= length /\ Len(body') <= Maximum /\ Len(pipe') <= Len(pipe)
    BY <1>1, <1>2, <2>1, <2>3, <2>4, <2>m
  <2>6. Typed'
    <3>1. Len(pipe') <= Capacity
      BY <1>2, <2>2, <2>3 DEF StreamInv, Typed, StreamTypeOK, FrameAssumption
    <3> QED BY <1>1, <1>4, <2>3, <2>4, <2>5, <3>1, Zenon DEF StreamInv, Typed, StreamTypeOK, writerVars
  <2>7. Ordered' /\ WriterInv'
    BY <1>1, Zenon DEF StreamInv, Ordered, WriterInv, writerVars
  <2>8. ReaderInv'
    BY <1>1, <1>4, <2>5, <2>m, Zenon DEF StreamInv, ReaderInv, length
  <2>9. Flow' = Flow
    <3>1. header' \o body' = (header \o body) \o l
      <4>1. (header \o body) \o l = header \o (body \o l)
        <5>1. header \in Seq(Bytes) /\ body \in Seq(Bytes) /\ l \in Seq(Bytes)
          BY <1>2, <2>3, Zenon
        <5> QED BY <5>1, Regrouped, Zenon
      <4>2. header' = header /\ body' = body \o l
        BY <1>1, <2>4, Zenon
      <4> QED BY <4>1, <4>2, Zenon
    <3>3. rest' = rest
      BY <1>1 DEF writerVars
    <3> QED BY <2>3, <3>1, <3>3, Zenon DEF Flow
  <2>10. \E cut \in [Nat -> Nat] : Layout(cut)'
    BY <1>1, <2>9, LayoutKept, Zenon DEF writerVars
  <2> QED BY <2>6, <2>7, <2>8, <2>10, Zenon DEF StreamInv
<1> QED BY <1>3, <1>4, Zenon DEF ReadBody

LEMMA RequireEofKeeps ==
    ASSUME FrameAssumption, StreamInv, require_eof
    PROVE  StreamInv'
<1>1. pipe \in Seq(Bytes) /\ Len(pipe) <= Capacity /\ Len(pipe) \in Nat /\ Capacity \in Nat
  BY LenProperties DEF StreamInv, Typed, StreamTypeOK, FrameAssumption
<1>2. CASE Eof /\ Returns("end") /\ UNCHANGED pipe
  BY <1>1, <1>2, ReaderStops DEF require_eof
<1>3. CASE pipe # << >> /\ Returns("TrailingData") /\ pipe' = Tail(pipe)
  <2>1. pipe' \in Seq(Bytes) /\ Len(pipe') = Len(pipe) - 1
    BY <1>1, <1>3, HeadTailProperties, Zenon
  <2>2. Len(pipe') <= Capacity
    BY <1>1, <2>1
  <2> QED BY <1>3, <2>1, <2>2, ReaderStops DEF require_eof
<1> QED BY <1>2, <1>3, Zenon DEF require_eof

LEMMA SameHeader ==
    ASSUME FrameAssumption, NEW h \in Seq(Bytes), Len(h) = 4, NEW n \in Lengths,
           \A j \in 1..4 : h[j] = to_be_bytes(n)[j]
    PROVE  from_be_bytes(h) = n
<1> DEFINE b == to_be_bytes(n)
<1>1. 1 \in 1..4 /\ 2 \in 1..4 /\ 3 \in 1..4 /\ 4 \in 1..4
  OBVIOUS
<1>2. h[1] = b[1] /\ h[2] = b[2] /\ h[3] = b[3] /\ h[4] = b[4]
  BY <1>1, Zenon
<1>3. from_be_bytes(b) = n
  BY LengthEncoded, Zenon
<1> HIDE DEF b
<1> QED BY <1>2, <1>3, Zenon DEF from_be_bytes

(* The frame at the front of what is in flight is the one the reader reads. *)
LEMMA FrontIs ==
    ASSUME FrameAssumption, StreamInv, NEW cut \in [Nat -> Nat], Layout(cut), Len(got) < Len(sent)
    PROVE  LET f == sent[Len(got) + 1]
               n == Len(sent) + 1
           IN  /\ f \in Good /\ Len(f) \in 1..Maximum /\ cut[Len(got) + 2] = 4 + Len(f)
               /\ cut[Len(got) + 2] <= cut[n] /\ cut[n] \in Nat
               /\ \A j \in 1..(4 + Len(f)) : j <= Len(Flow) => Flow[j] = Framed(f)[j]
               /\ Len(header) = 4 => from_be_bytes(header) = Len(f)
<1> DEFINE g == Len(got)
           f == sent[g + 1]
           n == Len(sent) + 1
<1>1. /\ header \in Seq(Bytes) /\ body \in Seq(Bytes) /\ pipe \in Seq(Bytes) /\ rest \in Seq(Bytes)
      /\ sent \in Seq(Good) /\ g \in Nat /\ Len(sent) \in Nat /\ g < Len(sent)
  BY TypedIs, Zenon DEF StreamInv
<1>2. CutAt(cut, g, sent) /\ BytesAt(cut, g, sent, Flow)
  BY Zenon DEF Layout
<1> HIDE DEF g
<1>3. /\ g + 1 \in 1..Len(sent) /\ g + 1 \in (g + 1)..Len(sent) /\ g + 2 \in (g + 1)..n /\ n \in (g + 1)..n
      /\ g + 2 <= n /\ n \in Nat /\ (g + 1) + 1 = g + 2
  <2> DEFINE m == Len(sent)
  <2>1. g \in Nat /\ m \in Nat /\ g < m
    BY <1>1, Zenon
  <2> HIDE DEF m
  <2>2. /\ g + 1 \in 1..m /\ g + 1 \in (g + 1)..m /\ g + 2 \in (g + 1)..(m + 1) /\ m + 1 \in (g + 1)..(m + 1)
        /\ g + 2 <= m + 1 /\ m + 1 \in Nat /\ (g + 1) + 1 = g + 2
    BY <2>1
  <2> QED BY <2>2, Zenon DEF m
<1>4. f \in Good /\ Len(f) \in 1..Maximum /\ Len(f) \in Nat
  <2>1. f \in Good /\ Len(f) \in Nat
    BY <1>1, <1>3, FrameLength, Zenon
  <2> QED BY <2>1, FramedIs, Zenon
<1>5. cut[g + 1] = 0 /\ cut[g + 2] = cut[g + 1] + 4 + Len(f)
  BY <1>2, <1>3, Zenon DEF CutAt
<1>6. cut[g + 2] <= cut[n]
  BY <1>2, <1>3, Zenon DEF CutAt
<1>7. cut[n] \in Nat
  BY <1>2, <1>3, CutIs, Zenon
<1>8. \A j \in 1..(4 + Len(f)) : j <= Len(Flow) => Flow[j] = Framed(f)[j]
  <2> TAKE j \in 1..(4 + Len(f))
  <2>1. j \in Nat /\ 0 + j = j
    BY <1>4
  <2>2. cut[g + 1] + j <= Len(Flow) => Flow[cut[g + 1] + j] = Framed(f)[j]
    BY <1>2, <1>3, Zenon DEF BytesAt
  <2> QED BY <1>5, <2>1, <2>2, Zenon
<1>9. ASSUME Len(header) = 4
      PROVE  from_be_bytes(header) = Len(f)
  <2>1. \A j \in 1..4 : Flow[j] = header[j]
    BY <1>1, <1>9, FlowIs, Zenon
  <2>2. \A j \in 1..4 : j <= Len(Flow) /\ j \in 1..(4 + Len(f))
    <3>1. /\ Len(body) \in Nat /\ Len(pipe) \in Nat /\ Len(rest) \in Nat
          /\ Len(Flow) = 4 + Len(body) + Len(pipe) + Len(rest)
      BY <1>1, <1>9, FlowIs, Zenon
    <3> DEFINE u == Len(Flow)
               l == Len(f)
               x == Len(body)
               y == Len(pipe)
               z == Len(rest)
    <3>2. x \in Nat /\ y \in Nat /\ z \in Nat /\ l \in Nat /\ u = 4 + x + y + z
      BY <1>4, <3>1, Zenon
    <3> HIDE DEF u, l, x, y, z
    <3>3. \A j \in 1..4 : j <= u /\ j \in 1..(4 + l)
      BY <3>2
    <3> QED BY <3>3, Zenon DEF u, l
  <2>3. \A j \in 1..4 : Framed(f)[j] = to_be_bytes(Len(f))[j]
    BY <1>4, FramedIs, Zenon
  <2>4. \A j \in 1..4 : header[j] = to_be_bytes(Len(f))[j]
    BY <1>8, <2>1, <2>2, <2>3, Zenon
  <2> QED BY <1>1, <1>4, <1>9, <2>4, FramedIs, SameHeader
<1>10. cut[g + 2] = 4 + Len(f)
  BY <1>4, <1>5
<1> QED BY <1>4, <1>6, <1>7, <1>8, <1>9, <1>10, Zenon DEF g

(* Whoever has a whole header has that of a frame that was sent, or one no *)
(* reader here accepts.                                                    *)
LEMMA HeaderIs ==
    ASSUME FrameAssumption, StreamInv, NEW cut \in [Nat -> Nat], Layout(cut), Len(header) = 4
    PROVE  \/ Len(got) < Len(sent)
           \/ broken /\ Len(got) = Len(sent) /\ from_be_bytes(header) \in Foreign
<1>1. /\ header \in Seq(Bytes) /\ body \in Seq(Bytes) /\ pipe \in Seq(Bytes) /\ rest \in Seq(Bytes)
      /\ Len(got) \in Nat /\ Len(sent) \in Nat /\ Len(got) <= Len(sent)
  BY TypedIs, Zenon DEF StreamInv, Ordered
<1>2. SUFFICES ASSUME Len(got) = Len(sent)
               PROVE  broken /\ from_be_bytes(header) \in Foreign
  <2> DEFINE g == Len(got)
             m == Len(sent)
  <2>1. g \in Nat /\ m \in Nat /\ g <= m
    BY <1>1, Zenon
  <2> HIDE DEF g, m
  <2>2. g < m \/ g = m
    BY <2>1
  <2> QED BY <2>2, Zenon DEF g, m
<1>3. cut[Len(sent) + 1] = 0
  BY <1>2, CutIs, Zenon DEF Layout
<1>4. /\ Len(body) \in Nat /\ Len(pipe) \in Nat /\ Len(rest) \in Nat
      /\ Len(Flow) = 4 + Len(body) + Len(pipe) + Len(rest)
      /\ \A j \in 1..4 : Flow[j] = header[j]
  BY <1>1, FlowIs, Zenon
<1>5. 4 <= Len(Flow) /\ 0 + Len(rest) < Len(Flow) /\ Len(Flow) # 0 /\ Len(Flow) \in Nat
  <2> DEFINE u == Len(Flow)
             x == Len(body)
             y == Len(pipe)
             z == Len(rest)
  <2>1. x \in Nat /\ y \in Nat /\ z \in Nat /\ u = 4 + x + y + z
    BY <1>4, Zenon
  <2> HIDE DEF u, x, y, z
  <2>2. 4 <= u /\ 0 + z < u /\ u # 0 /\ u \in Nat
    BY <2>1
  <2> QED BY <2>2, Zenon DEF u, z
<1>6. EndsAt(cut[Len(sent)], 0)
  BY <1>3, Zenon DEF Layout
<1>7. ~Whole(0, Flow, IF begun THEN 0 ELSE Len(rest))
  <2> DEFINE u == Len(Flow)
             z == Len(rest)
  <2>1. u \in Nat /\ z \in Nat /\ 0 + z < u /\ u # 0
    BY <1>4, <1>5, Zenon
  <2> HIDE DEF u, z
  <2>2. u # 0 + z /\ u # 0 + 0
    BY <2>1
  <2> QED BY <2>2, Zenon DEF u, z, Whole
<1>8. ~(Len(got) < Len(sent))
  BY <1>1, <1>2
<1>9. broken /\ Strange(0, Flow, Len(rest))
  BY <1>6, <1>7, <1>8, Zenon DEF EndsAt
<1>10. PICK n \in Foreign : \A j \in 1..4 : 0 + j <= Len(Flow) => Flow[0 + j] = to_be_bytes(n)[j]
  BY <1>9, Zenon DEF Strange
<1>11. \A j \in 1..4 : 0 + j = j /\ j <= Len(Flow)
  <2> DEFINE u == Len(Flow)
  <2>1. u \in Nat /\ 4 <= u
    BY <1>5, Zenon
  <2> HIDE DEF u
  <2>2. \A j \in 1..4 : 0 + j = j /\ j <= u
    BY <2>1
  <2> QED BY <2>2, Zenon DEF u
<1>12. \A j \in 1..4 : header[j] = to_be_bytes(n)[j]
  BY <1>4, <1>10, <1>11, Zenon
<1>13. n \in Lengths
  BY DEF Foreign
<1> QED BY <1>1, <1>9, <1>12, <1>13, SameHeader, Zenon

(* What is returned is the frame. *)
LEMMA BodyIs ==
    ASSUME FrameAssumption, StreamInv, NEW cut \in [Nat -> Nat], Layout(cut),
           stage = "body", Len(body) = from_be_bytes(header)
    PROVE  Len(got) < Len(sent) /\ body = sent[Len(got) + 1]
<1> DEFINE f == sent[Len(got) + 1]
           h == from_be_bytes(header)
<1>1. Len(header) = 4 /\ h \in 1..Maximum
  BY Zenon DEF StreamInv, ReaderInv
<1>2. h \notin Foreign
  BY <1>1, Zenon DEF Foreign
<1>3. Len(got) < Len(sent)
  BY <1>1, <1>2, HeaderIs, Zenon
<1>4. /\ f \in Good /\ Len(f) \in 1..Maximum /\ h = Len(f)
      /\ \A j \in 1..(4 + Len(f)) : j <= Len(Flow) => Flow[j] = Framed(f)[j]
  BY <1>1, <1>3, FrontIs, Zenon
<1>5. f \in Seq(Bytes) /\ \A j \in 1..Len(f) : Framed(f)[4 + j] = f[j]
  BY <1>4, FramedIs, Zenon
<1>6. /\ header \in Seq(Bytes) /\ body \in Seq(Bytes) /\ pipe \in Seq(Bytes) /\ rest \in Seq(Bytes)
  BY TypedIs, Zenon DEF StreamInv
<1>7. /\ Len(body) \in Nat /\ Len(pipe) \in Nat /\ Len(rest) \in Nat
      /\ Len(Flow) = 4 + Len(body) + Len(pipe) + Len(rest)
      /\ \A j \in 1..Len(body) : Flow[4 + j] = body[j]
  BY <1>1, <1>6, FlowIs, Zenon
<1>8. Len(body) = Len(f)
  BY <1>4, Zenon
<1> HIDE DEF f
<1>9. \A j \in 1..Len(f) : 4 + j \in 1..(4 + Len(f)) /\ 4 + j <= Len(Flow)
  <2> DEFINE u == Len(Flow)
             l == Len(f)
             y == Len(pipe)
             z == Len(rest)
  <2>1. l \in Nat /\ y \in Nat /\ z \in Nat /\ u = 4 + l + y + z
    BY <1>7, <1>8, Zenon
  <2> HIDE DEF u, l, y, z
  <2>2. \A j \in 1..l : 4 + j \in 1..(4 + l) /\ 4 + j <= u
    BY <2>1
  <2> QED BY <2>2, Zenon DEF u, l
<1>10. \A j \in 1..Len(body) : body[j] = f[j]
  BY <1>4, <1>5, <1>7, <1>8, <1>9, Zenon
<1>11. body = f
  BY <1>5, <1>6, <1>8, <1>10, SeqEqual, Zenon
<1> QED BY <1>3, <1>11, Zenon DEF f

LEMMA ReturnFrameLayout ==
    ASSUME FrameAssumption, StreamInv, ReturnFrame, NEW cut \in [Nat -> Nat], Layout(cut)
    PROVE  \E c \in [Nat -> Nat] : Layout(c)'
<1> DEFINE g == Len(got)
           m == Len(sent)
           d == cut[g + 2]
           u == Flow
           v == pipe \o rest
<1>0. Len(got) < Len(sent) /\ body = sent[Len(got) + 1] /\ got \in Seq(Good) /\ body \in Good
  <2>1. Len(got) < Len(sent) /\ body = sent[Len(got) + 1]
    BY BodyIs, Zenon DEF ReturnFrame
  <2>2. sent[Len(got) + 1] \in Good
    BY <2>1, FrontIs, Zenon
  <2> QED BY <2>1, <2>2, TypedIs, Zenon DEF StreamInv
<1>1. /\ header \in Seq(Bytes) /\ body \in Seq(Bytes) /\ pipe \in Seq(Bytes) /\ rest \in Seq(Bytes)
      /\ sent \in Seq(Good) /\ g \in Nat /\ m \in Nat /\ g < m /\ Len(header) = 4
      /\ stage = "body"
  BY <1>0, TypedIs, Zenon DEF StreamInv, ReaderInv, ReturnFrame
<1>2. CutAt(cut, g, sent) /\ BytesAt(cut, g, sent, u) /\ EndsAt(cut[m], cut[m + 1])
  BY Zenon DEF Layout
<1>3. d = 4 + Len(body) /\ d <= cut[m + 1] /\ cut[m + 1] \in Nat
  BY <1>0, FrontIs, Zenon
<1>4. header \o body \in Seq(Bytes) /\ Len(header \o body) = d /\ v \in Seq(Bytes)
  <2>1. /\ header \o body \in Seq(Bytes) /\ Len(header \o body) = Len(header) + Len(body)
        /\ pipe \o rest \in Seq(Bytes)
    BY <1>1, Joined, Zenon
  <2> HIDE DEF d
  <2> QED BY <1>1, <1>3, <2>1, Zenon
<1>5. /\ u \in Seq(Bytes) /\ Len(u) = d + Len(v) /\ \A k \in 1..Len(v) : u[d + k] = v[k]
  <2> DEFINE x == header \o body
  <2>2. x \in Seq(Bytes) /\ Len(x) = d
    BY <1>4, Zenon
  <2>1. u = (x \o pipe) \o rest
    BY Zenon DEF Flow
  <2>3. u = x \o v
    <3> HIDE DEF x, u
    <3>1. (x \o pipe) \o rest = x \o (pipe \o rest)
      BY <1>1, <2>2, Regrouped
    <3> QED BY <2>1, <3>1, Zenon
  <2> HIDE DEF x, v, u
  <2>4. /\ x \o v \in Seq(Bytes) /\ Len(x \o v) = Len(x) + Len(v)
        /\ \A k \in 1..Len(v) : (x \o v)[Len(x) + k] = v[k]
    BY <1>4, <2>2, Joined, Zenon
  <2> QED BY <2>2, <2>3, <2>4, Zenon
<1>6. Len(u) \in Nat /\ Len(v) \in Nat /\ d \in Nat /\ Len(rest) \in Nat
  <2>1. Len(u) \in Nat /\ Len(v) \in Nat /\ Len(rest) \in Nat
    BY <1>1, <1>4, <1>5, LenProperties, Zenon
  <2>2. g + 2 \in Nat
    BY <1>1
  <2>3. d \in Nat
    BY <1>2, <2>2, CutIs, Zenon
  <2> QED BY <2>1, <2>3, Zenon
<1>7. Flow' = v
  <2>1. header' = << >> /\ body' = << >> /\ pipe' = pipe /\ rest' = rest
    BY DEF ReturnFrame, writerVars
  <2>2. << >> \o << >> = << >> /\ << >> \o pipe = pipe
    BY <1>1, ConcatEmptySeq, EmptySeq
  <2> QED BY <2>1, <2>2, Zenon DEF Flow
<1>8. /\ got' = Append(got, body) /\ Len(got') = g + 1
      /\ UNCHANGED <<sent, broken, begun, rest>>
  <2>1. got' = Append(got, body) /\ UNCHANGED <<sent, broken, begun, rest>>
    BY DEF ReturnFrame, writerVars
  <2>2. Len(Append(got, body)) = Len(got) + 1
    BY <1>0, AppendProperties, Zenon
  <2> QED BY <2>1, <2>2, Zenon
<1> HIDE DEF u, v, d, g, m
<1>9. PICK c \in [Nat -> Nat] :
          /\ CutAt(c, g + 1, sent) /\ BytesAt(c, g + 1, sent, v)
          /\ \A i \in (g + 2)..(m + 1) : c[i] + d = cut[i]
  <2>1. \A k \in 1..Len(v) : v[k] = u[d + k]
    BY <1>5, Zenon
  <2>2. Behind(cut[g + 2], u, v)
    BY <1>5, <1>6, <2>1, Zenon DEF d, Behind
  <2>3. g < Len(sent)
    BY <1>1, Zenon DEF m
  <2>4. \E c \in [Nat -> Nat] :
          /\ CutAt(c, g + 1, sent) /\ BytesAt(c, g + 1, sent, v)
          /\ BackBy(cut[g + 2], cut, c, g + 2, Len(sent) + 1)
    <3>1. g \in Nat /\ sent \in Seq(Good) /\ CutAt(cut, g, sent) /\ BytesAt(cut, g, sent, u)
      BY <1>1, <1>2, Zenon
    <3> QED BY <2>2, <2>3, <3>1, Returned, Zenon
  <2> QED BY <2>4, Zenon DEF d, m, BackBy
<1> DEFINE e == c[m + 1]
           E == cut[m + 1]
           lu == Len(u)
           lv == Len(v)
           z == Len(rest)
<1>10. e \in Nat /\ E \in Nat /\ e + d = E
  <2>1. m + 1 \in (g + 2)..(m + 1) /\ m + 1 \in Nat
    BY <1>1
  <2>2. c[m + 1] \in Nat /\ c[m + 1] + d = cut[m + 1]
    BY <1>9, <2>1, CutIs, Zenon
  <2> QED BY <1>3, <2>2, Zenon
<1>11. lu \in Nat /\ lv \in Nat /\ lu = d + lv /\ z \in Nat /\ d \in Nat
  BY <1>5, <1>6, Zenon
<1>l. c[m] \in Nat /\ cut[m] \in Nat
  BY <1>1, <1>2, <1>9, CutIs, Zenon
<1>s. /\ \A a \in Nat : (lu = E + a => lv = e + a) /\ (E + a < lu => e + a < lv)
      /\ \A j \in 1..4 : e + j <= lv => e + j \in 1..lv /\ d + (e + j) = E + j /\ E + j <= lu
  <2> HIDE DEF e, E, lu, lv, z
  <2>1. Shift(d, e, E, lu, lv)
    BY <1>10, <1>11, Zenon DEF Shift
  <2>2. \A a \in Nat : (lu = E + a => lv = e + a) /\ (E + a < lu => e + a < lv)
    BY <2>1, Shifted, Zenon
  <2>3. \A j \in 1..4 : e + j <= lv => e + j \in 1..lv /\ d + (e + j) = E + j /\ E + j <= lu
    BY <2>1, ShiftedBytes, Zenon
  <2> QED BY <2>2, <2>3, Zenon
<1>12. \/ ~broken /\ Whole(e, v, IF begun THEN 0 ELSE Len(rest))
       \/ broken /\ rest = << >> /\ g + 1 < m /\ Gap(c[m], e, v)
       \/ broken /\ Strange(e, v, z)
  <2>1. ASSUME NEW a \in Nat, Whole(E, u, a)
        PROVE  Whole(e, v, a)
    <3>1. lu = E + a
      BY <2>1, Zenon DEF Whole
    <3> HIDE DEF e, E, lu, lv
    <3>2. lv = e + a
      BY <1>s, <2>1, <3>1, Zenon
    <3> QED BY <3>2, Zenon DEF Whole, lv
  <2>2. ASSUME Gap(cut[m], E, u)
        PROVE  g + 1 < m /\ Gap(c[m], e, v)
    <3> DEFINE x == cut[m]
               y == c[m]
    <3>1. x < lu /\ lu < E /\ x \in Nat /\ y \in Nat
      BY <1>l, <2>2, Zenon DEF Gap
    <3>2. g + 1 # m
      <4>1. SUFFICES ASSUME g + 1 = m PROVE FALSE
        OBVIOUS
      <4>2. m + 1 = g + 2
        BY <1>1, <4>1
      <4>3. E = d
        BY <4>2, Zenon DEF d
      <4> HIDE DEF E, lu, lv
      <4> QED BY <1>11, <3>1, <4>3
    <3>3. g + 1 < m /\ m \in (g + 2)..(m + 1)
      BY <1>1, <3>2
    <3>4. y + d = x
      BY <1>9, <3>3, Zenon
    <3> HIDE DEF x, y, e, E, lu, lv
    <3>5. y < lv /\ lv < e
      BY <1>10, <1>11, <3>1, <3>4
    <3> QED BY <3>3, <3>5, Zenon DEF y, lv, Gap
  <2>3. ASSUME Strange(E, u, z)
        PROVE  Strange(e, v, z)
    <3>1. E + z < lu
      BY <2>3, Zenon DEF Strange
    <3>2. PICK n \in Foreign : \A j \in 1..4 : E + j <= lu => u[E + j] = to_be_bytes(n)[j]
      BY <2>3, Zenon DEF Strange
    <3> HIDE DEF e, E, lu, lv, z
    <3>3. e + z < lv
      BY <1>10, <1>11, <3>1
    <3>4. ASSUME NEW j \in 1..4, e + j <= lv
          PROVE  v[e + j] = to_be_bytes(n)[j]
      <4>1. e + j \in 1..lv /\ d + (e + j) = E + j /\ E + j <= lu
        BY <1>s, <3>4, Zenon
      <4>2. v[e + j] = u[d + (e + j)]
        BY <1>5, <4>1, Zenon DEF lv
      <4> QED BY <3>2, <4>1, <4>2, Zenon
    <3> QED BY <3>3, <3>4, Zenon DEF Strange, lv
  <2>4. (IF begun THEN 0 ELSE Len(rest)) \in Nat
    BY <1>11
  <2>5. EndsAt(cut[m], E)
    BY <1>2, Zenon
  <2>6. EndsAt(cut[m], E) = \/ ~broken /\ Whole(E, u, IF begun THEN 0 ELSE Len(rest))
                            \/ broken /\ rest = << >> /\ Len(got) < Len(sent) /\ Gap(cut[m], E, u)
                            \/ broken /\ Strange(E, u, z)
    BY Zenon DEF EndsAt, u
  <2> HIDE DEF e, E, z
  <2> QED BY <2>1, <2>2, <2>3, <2>4, <2>5, <2>6, Zenon
<1>13. Layout(c)'
  <2>1. Len(sent') = m /\ sent' = sent /\ Len(got') = g + 1
    BY <1>8, Zenon DEF m
  <2>2. CutAt(c, Len(got'), sent') /\ BytesAt(c, Len(got'), sent', Flow')
    BY <1>7, <1>9, <2>1, Zenon
  <2>3. \/ ~broken' /\ Whole(c[Len(sent') + 1], Flow', IF begun' THEN 0 ELSE Len(rest'))
        \/ broken' /\ rest' = << >> /\ Len(got') < Len(sent') /\ Gap(c[Len(sent')], c[Len(sent') + 1], Flow')
        \/ broken' /\ Strange(c[Len(sent') + 1], Flow', Len(rest'))
    <3>1. begun' = begun /\ broken' = broken /\ rest' = rest
      BY <1>8, Zenon
    <3> QED BY <1>7, <1>12, <2>1, <3>1, Zenon
  <2> QED BY <2>2, <2>3, Zenon DEF Layout, EndsAt
<1> QED BY <1>13, Zenon

LEMMA ReturnFrameKeeps ==
    ASSUME FrameAssumption, StreamInv, ReturnFrame
    PROVE  StreamInv'
<1>1. /\ stage = "body" /\ result = "none" /\ got' = Append(got, body)
      /\ header' = << >> /\ body' = << >> /\ stage' = (IF once THEN "eof" ELSE "header")
      /\ UNCHANGED <<pipe, writerVars, once, result, sent, broken>>
  BY Zenon DEF ReturnFrame, StreamInv, ReaderInv
<1>2. PICK cut \in [Nat -> Nat] : Layout(cut)
  BY <1>1, Zenon DEF StreamInv
<1>3. Len(got) < Len(sent) /\ body = sent[Len(got) + 1] /\ body \in Good
  <2>1. Len(got) < Len(sent) /\ body = sent[Len(got) + 1]
    BY <1>2, BodyIs, Zenon DEF ReturnFrame
  <2>2. sent[Len(got) + 1] \in Good
    BY <1>2, <2>1, FrontIs, Zenon
  <2> QED BY <2>1, <2>2, Zenon
<1>4. /\ got' \in Seq(Good) /\ Len(got') = Len(got) + 1
      /\ \A i \in 1..Len(got) : got'[i] = got[i]
      /\ got'[Len(got) + 1] = body
  <2>1. got \in Seq(Good)
    BY Zenon DEF StreamInv, Typed
  <2> QED BY <1>1, <1>3, <2>1, AppendProperties
<1>5. Typed'
  <2>1. << >> \in Seq(Bytes) /\ Len(<< >>) = 0 /\ 0 <= HeaderBytes /\ 0 <= Maximum
    BY DEF FrameAssumption, Lengths, HeaderBytes
  <2>2. stage' \in {"header", "length", "body", "eof", "done"}
    BY <1>1, Zenon
  <2> QED BY <1>1, <1>4, <2>1, <2>2, Zenon DEF StreamInv, Typed, StreamTypeOK, writerVars
<1>6. Ordered'
  <2>1. Len(got) \in Nat /\ Len(sent) \in Nat /\ \A i \in 1..Len(got) : got[i] = sent[i]
    BY TypedIs, Zenon DEF StreamInv, Ordered
  <2>2. Len(got) + 1 <= Len(sent) /\ \A i \in 1..(Len(got) + 1) : i \in 1..Len(got) \/ i = Len(got) + 1
    <3> DEFINE g == Len(got)
               m == Len(sent)
    <3>1. g \in Nat /\ m \in Nat /\ g < m
      BY <1>3, <2>1, Zenon
    <3> HIDE DEF g, m
    <3>2. g + 1 <= m /\ \A i \in 1..(g + 1) : i \in 1..g \/ i = g + 1
      BY <3>1
    <3> QED BY <3>2, Zenon DEF g, m
  <2>3. sent' = sent
    BY <1>1
  <2>4. \A i \in 1..(Len(got) + 1) : got'[i] = sent[i]
    BY <1>3, <1>4, <2>1, <2>2, Zenon
  <2> QED BY <1>4, <2>2, <2>3, <2>4, Zenon DEF Ordered
<1>7. WriterInv'
  BY <1>1, Zenon DEF StreamInv, WriterInv, writerVars
<1>8. ReaderInv'
  <2>1. CASE once
    <3>1. got = << >>
      BY <1>1, <2>1 DEF StreamInv, ReaderInv
    <3>2. Len(got') = 1
      BY <1>4, <3>1
    <3> QED BY <1>1, <2>1, <3>2, Zenon DEF ReaderInv, StreamInv
  <2>2. CASE ~once
    <3>1. Len(<< >>) < 4
      OBVIOUS
    <3> QED BY <1>1, <2>2, <3>1, Zenon DEF ReaderInv, StreamInv
  <2> QED BY <2>1, <2>2, Zenon
<1>9. \E c \in [Nat -> Nat] : Layout(c)'
  BY <1>2, ReturnFrameLayout, Zenon
<1> QED BY <1>5, <1>6, <1>7, <1>8, <1>9, Zenon DEF StreamInv

(* The sender makes up its next frame. *)
LEMMA AheadLayout ==
    ASSUME FrameAssumption, StreamInv, result = "none", rest = << >>, ~broken, begun' = FALSE,
           rest' \in Seq(Bytes), UNCHANGED <<pipe, header, body, got, sent, broken>>
    PROVE  \E cut \in [Nat -> Nat] : Layout(cut)'
<1>1. PICK cut \in [Nat -> Nat] : Layout(cut)
  BY Zenon DEF StreamInv
<1>2. /\ header \in Seq(Bytes) /\ body \in Seq(Bytes) /\ pipe \in Seq(Bytes) /\ rest \in Seq(Bytes)
      /\ sent \in Seq(Good) /\ Len(got) \in Nat
  BY TypedIs, Zenon DEF StreamInv
<1> DEFINE u == Flow
           end == cut[Len(sent) + 1]
           x == (header \o body) \o pipe
<1>3. x \in Seq(Bytes) /\ u = x /\ Flow' = x \o rest'
  <2>1. header \o body \in Seq(Bytes)
    BY <1>2, Joined, Zenon
  <2>2. x \in Seq(Bytes)
    BY <1>2, <2>1, Joined, Zenon
  <2>3. x \o << >> = x
    BY <2>2, ConcatEmptySeq, Zenon
  <2> QED BY <2>2, <2>3, Zenon DEF Flow
<1>4. Len(u) = end /\ CutAt(cut, Len(got), sent) /\ BytesAt(cut, Len(got), sent, u)
  <2>1. Whole(end, u, IF begun THEN 0 ELSE Len(rest)) /\ CutAt(cut, Len(got), sent)
        /\ BytesAt(cut, Len(got), sent, u)
    BY <1>1, Zenon DEF Layout, EndsAt
  <2>2. Len(rest) = 0 /\ Len(u) \in Nat
    BY <1>2, FlowIs
  <2>3. Len(u) = end + 0
    BY <2>1, <2>2, Zenon DEF Whole
  <2>4. end \in Nat
    <3>1. Len(sent) + 1 \in Nat
      BY <1>2
    <3> QED BY <2>1, <3>1, CutIs, Zenon
  <2> HIDE DEF end, u
  <2>5. end + 0 = end
    BY <2>4
  <2> QED BY <2>1, <2>3, <2>5, Zenon
<1> HIDE DEF u, x, end
<1>5. /\ Flow' \in Seq(Bytes) /\ Len(Flow') = end + Len(rest')
      /\ \A k \in 1..Len(u) : Flow'[k] = u[k]
  <2>1. /\ x \o rest' \in Seq(Bytes) /\ Len(x \o rest') = Len(x) + Len(rest')
        /\ \A k \in 1..Len(x) : (x \o rest')[k] = x[k]
    BY <1>3, Joined, Zenon
  <2> QED BY <1>3, <1>4, <2>1, Zenon
<1>6. BytesAt(cut, Len(got), sent, Flow')
  <2>1. Len(u) \in Nat /\ Len(Flow') \in Nat
    BY <1>3, <1>5, LenProperties, Zenon
  <2>2. cut[Len(sent) + 1] <= Len(u)
    <3>1. end <= Len(u)
      BY <1>4, <2>1
    <3> QED BY <3>1, Zenon DEF end
  <2> QED BY <1>2, <1>4, <1>5, <2>1, <2>2, Grown, Zenon
<1>7. Layout(cut)'
  <2>1. sent' = sent /\ Len(got') = Len(got)
    OBVIOUS
  <2>4. ~broken'
    BY Zenon
  <2>2. Whole(cut[Len(sent') + 1], Flow', IF begun' THEN 0 ELSE Len(rest'))
    BY <1>5, <2>1, Zenon DEF Whole, end
  <2>3. CutAt(cut, Len(got'), sent') /\ BytesAt(cut, Len(got'), sent', Flow')
    BY <1>4, <1>6, <2>1, Zenon
  <2> QED BY <2>2, <2>3, <2>4, Zenon DEF Layout, EndsAt
<1> QED BY <1>7, Zenon

LEMMA WriteFrameKeeps ==
    ASSUME FrameAssumption, StreamInv, write_frame
    PROVE  StreamInv'
<1>1. /\ ~closed /\ rest = << >> /\ ~broken /\ calls < MaxFrames /\ calls' = calls + 1 /\ begun' = FALSE
      /\ UNCHANGED <<pipe, closed, readerVars, sent, broken>>
  BY Zenon DEF write_frame
<1>2. \/ frame' \in Good /\ rest' = Framed(frame')
      \/ UNCHANGED <<frame, rest>>
  <2>1. PICK p \in Sends : IF Sendable(p) THEN frame' = p /\ rest' = to_be_bytes(Len(p)) \o p
                           ELSE UNCHANGED <<frame, rest>>
    BY Zenon DEF write_frame
  <2> QED BY <2>1, Zenon DEF Framed, Good
<1>3. rest' \in Seq(Bytes) /\ frame' \in Good \cup {<< >>}
  <2>1. CASE frame' \in Good /\ rest' = Framed(frame')
    BY <2>1, FramedIs, Zenon
  <2>2. CASE UNCHANGED <<frame, rest>>
    BY <2>2, Zenon DEF StreamInv, Typed, StreamTypeOK
  <2> QED BY <1>2, <2>1, <2>2, Zenon
<1>4. Typed'
  <2>1. calls' \in 0..MaxFrames
    BY <1>1 DEF StreamInv, Typed, StreamTypeOK, FrameAssumption
  <2> QED BY <1>1, <1>3, <2>1, Zenon DEF StreamInv, Typed, StreamTypeOK, readerVars
<1>5. Ordered' /\ ReaderInv'
  BY <1>1, Zenon DEF StreamInv, Ordered, ReaderInv, readerVars
<1>6. WriterInv'
  <2>1. ~closed' /\ ~broken' /\ ~begun'
    BY <1>1, Zenon
  <2>2. rest' = << >> \/ (frame' # << >> /\ rest' = Framed(frame'))
    <3>1. << >> \notin Good
      BY Zenon DEF Good, Sendable
    <3> QED BY <1>1, <1>2, <3>1, Zenon
  <2> QED BY <2>1, <2>2, Zenon DEF WriterInv
<1>7. result' = "none" => \E cut \in [Nat -> Nat] : Layout(cut)'
  BY <1>1, <1>3, AheadLayout, Zenon DEF readerVars
<1> QED BY <1>4, <1>5, <1>6, <1>7, Zenon DEF StreamInv

LEMMA ForeignHeaderKeeps ==
    ASSUME FrameAssumption, StreamInv, ForeignHeader
    PROVE  StreamInv'
<1>1. /\ ~closed /\ rest = << >> /\ ~broken /\ calls < MaxFrames /\ calls' = calls + 1 /\ begun' = FALSE
      /\ frame' = << >> /\ UNCHANGED <<pipe, closed, readerVars, sent, broken>>
  BY Zenon DEF ForeignHeader
<1>2. PICK n \in Foreign : rest' = to_be_bytes(n) \o [i \in 1..n |-> 0]
  BY Zenon DEF ForeignHeader, Foreign
<1> DEFINE h == to_be_bytes(n)
           z == [i \in 1..n |-> 0]
<1>3. n \in Lengths /\ n \in Nat /\ h \in Seq(Bytes) /\ Len(h) = 4
  BY LengthEncoded DEF Foreign, HeaderBytes, Lengths
<1>4. z \in Seq(Bytes)
  <2>1. 0 \in Bytes
    BY DEF Bytes, FrameAssumption
  <2> QED BY <1>3, <2>1
<1> HIDE DEF h, z
<1>5. rest' \in Seq(Bytes) /\ Len(rest') >= 4 /\ \A j \in 1..4 : rest'[j] = h[j]
  <2>1. /\ h \o z \in Seq(Bytes) /\ Len(h \o z) = Len(h) + Len(z) /\ \A j \in 1..Len(h) : (h \o z)[j] = h[j]
    BY <1>3, <1>4, Joined, Zenon
  <2>2. rest' = h \o z
    BY <1>2, Zenon DEF h, z
  <2>3. /\ rest' \in Seq(Bytes) /\ Len(rest') = 4 + Len(z) /\ \A j \in 1..4 : rest'[j] = h[j]
    BY <1>3, <2>1, <2>2, Zenon
  <2>4. Len(z) \in Nat
    BY <1>4, LenProperties
  <2>5. 4 + Len(z) >= 4
    BY <2>4
  <2> QED BY <2>3, <2>5, Zenon
<1>6. Typed'
  <2>1. calls' \in 0..MaxFrames
    BY <1>1 DEF StreamInv, Typed, StreamTypeOK, FrameAssumption
  <2> QED BY <1>1, <1>5, <2>1, Zenon DEF StreamInv, Typed, StreamTypeOK, readerVars
<1>7. Ordered' /\ ReaderInv'
  BY <1>1, Zenon DEF StreamInv, Ordered, ReaderInv, readerVars
<1>8. WriterInv'
  <2>1. ~closed' /\ ~broken' /\ ~begun' /\ frame' = << >>
    BY <1>1, Zenon
  <2>2. \E k \in Foreign : Len(rest') >= 4 /\ \A j \in 1..4 : rest'[j] = to_be_bytes(k)[j]
    BY <1>5, Zenon DEF h
  <2> QED BY <2>1, <2>2, Zenon DEF WriterInv
<1>9. result' = "none" => \E cut \in [Nat -> Nat] : Layout(cut)'
  BY <1>1, <1>5, AheadLayout, Zenon DEF readerVars
<1> QED BY <1>6, <1>7, <1>8, <1>9, Zenon DEF StreamInv

(* A write moves bytes from what is left of the frame to the pipe. *)
LEMMA WriteMoves ==
    ASSUME FrameAssumption, StreamInv, Write
    PROVE  /\ rest # << >> /\ ~closed /\ Flow' = Flow
           /\ pipe' \in Seq(Bytes) /\ Len(pipe') <= Capacity /\ rest' \in Seq(Bytes)
           /\ Len(rest') \in Nat /\ Len(rest') < Len(rest)
<1>1. PICK n \in 1..Len(rest) :
          /\ Len(pipe) + n <= Capacity
          /\ pipe' = pipe \o SubSeq(rest, 1, n) /\ rest' = SubSeq(rest, n + 1, Len(rest))
  BY Zenon DEF Write
<1>2. /\ header \in Seq(Bytes) /\ body \in Seq(Bytes) /\ pipe \in Seq(Bytes) /\ rest \in Seq(Bytes)
      /\ Len(rest) \in Nat
  BY TypedIs, FlowIs, Zenon DEF StreamInv
<1> DEFINE l == SubSeq(rest, 1, n)
           x == header \o body
<1>3. x \in Seq(Bytes) /\ x \o pipe \in Seq(Bytes)
  <2>1. x \in Seq(Bytes)
    BY <1>2, Joined, Zenon
  <2> HIDE DEF x
  <2>2. x \o pipe \in Seq(Bytes)
    BY <1>2, <2>1, Joined, Zenon
  <2> QED BY <2>1, <2>2, Zenon
<1> HIDE DEF x
<1>4. /\ l \in Seq(Bytes) /\ Len(l) = n /\ rest' \in Seq(Bytes) /\ Len(rest') = Len(rest) - n
      /\ ((x \o pipe) \o l) \o rest' = (x \o pipe) \o rest
  BY <1>1, <1>2, <1>3, Moved, Zenon
<1>5. pipe' = pipe \o l
  BY <1>1, Zenon
<1> HIDE DEF l
<1>6. pipe' \in Seq(Bytes) /\ Len(pipe') = Len(pipe) + n
  <2>1. pipe \o l \in Seq(Bytes) /\ Len(pipe \o l) = Len(pipe) + Len(l)
    BY <1>2, <1>4, Joined, Zenon
  <2> QED BY <1>4, <1>5, <2>1, Zenon
<1>7. Flow' = Flow
  <2>1. (x \o pipe) \o l = x \o (pipe \o l)
    <3>1. x \in Seq(Bytes) /\ pipe \in Seq(Bytes) /\ l \in Seq(Bytes)
      BY <1>2, <1>3, <1>4, Zenon
    <3> QED BY <3>1, Regrouped
  <2>2. header' = header /\ body' = body
    BY DEF Write, readerVars
  <2>3. Flow = (x \o pipe) \o rest /\ Flow' = (x \o pipe') \o rest'
    BY <2>2, Zenon DEF Flow, x
  <2> QED BY <1>4, <1>5, <2>1, <2>3, Zenon
<1>8. Len(rest') \in Nat /\ Len(rest') < Len(rest)
  BY <1>1, <1>2, <1>4
<1>9. rest # << >>
  <2>1. Len(rest) # 0
    BY <1>1
  <2> QED BY <2>1
<1>10. ~closed
  BY <1>9, Zenon DEF StreamInv, WriterInv
<1> QED BY <1>1, <1>4, <1>6, <1>7, <1>8, <1>9, <1>10, Zenon

(* More of a frame that was begun. *)
LEMMA WriteOn ==
    ASSUME FrameAssumption, StreamInv, Write, begun
    PROVE  StreamInv'
<1>1. /\ rest # << >> /\ ~closed /\ Flow' = Flow
      /\ pipe' \in Seq(Bytes) /\ Len(pipe') <= Capacity /\ rest' \in Seq(Bytes)
      /\ Len(rest') \in Nat /\ Len(rest') < Len(rest)
  BY WriteMoves, Zenon
<1>2. begun' = TRUE /\ sent' = sent /\ UNCHANGED <<closed, frame, calls, readerVars>>
  BY Zenon DEF Write
<1>3. broken' = broken
  <2>1. frame = << >> => broken
    BY <1>1, Zenon DEF StreamInv, WriterInv
  <2>2. broken \in BOOLEAN /\ broken' = (broken \/ frame = << >>)
    BY Zenon DEF StreamInv, Typed, Write
  <2> QED BY <2>1, <2>2
<1>4. Typed'
  BY <1>1, <1>2, <1>3 DEF StreamInv, Typed, StreamTypeOK, readerVars
<1>5. Ordered' /\ ReaderInv'
  BY <1>2, Zenon DEF StreamInv, Ordered, ReaderInv, readerVars
<1>6. WriterInv'
  <2>1. ASSUME frame # << >>
        PROVE  Len(sent) > 0 /\ Len(rest') < 4 + Len(sent[Len(sent)])
    <3>1. Len(sent) > 0 /\ Len(rest) < 4 + Len(sent[Len(sent)])
      BY <1>1, <2>1, Zenon DEF StreamInv, WriterInv
    <3>2. sent \in Seq(Good) /\ Len(sent) \in Nat /\ Len(rest) \in Nat
      BY TypedIs, FlowIs, Zenon DEF StreamInv
    <3>3. Len(sent) \in 1..Len(sent)
      BY <3>1, <3>2
    <3>4. Len(sent[Len(sent)]) \in Nat
      BY <3>2, <3>3, FrameLength, Zenon
    <3> DEFINE a == Len(rest')
               b == Len(rest)
               l == Len(sent[Len(sent)])
    <3>5. a \in Nat /\ b \in Nat /\ l \in Nat /\ a < b /\ b < 4 + l
      BY <1>1, <3>1, <3>2, <3>4, Zenon
    <3> HIDE DEF a, b, l
    <3>6. a < 4 + l
      BY <3>5
    <3> QED BY <3>1, <3>6, Zenon DEF a, l
  <2>2. frame = << >> => broken
    BY <1>1, Zenon DEF StreamInv, WriterInv
  <2> QED BY <1>1, <1>2, <1>3, <2>1, <2>2, Zenon DEF WriterInv
<1>7. ASSUME result = "none"
      PROVE  \E cut \in [Nat -> Nat] : Layout(cut)'
  <2>1. PICK cut \in [Nat -> Nat] : Layout(cut)
    BY <1>7, Zenon DEF StreamInv
  <2> DEFINE last == cut[Len(sent)]
             end == cut[Len(sent) + 1]
  <2>2. ASSUME Strange(end, Flow, Len(rest))
        PROVE  Strange(end, Flow, Len(rest'))
    <3>1. end + Len(rest) < Len(Flow)
      BY <2>2, Zenon DEF Strange
    <3>2. end \in Nat /\ Len(Flow) \in Nat /\ Len(rest) \in Nat
      <4>1. Len(sent) \in Nat /\ Len(Flow) \in Nat /\ Len(rest) \in Nat
        BY TypedIs, FlowIs, LenProperties DEF StreamInv
      <4>2. Len(sent) + 1 \in Nat
        BY <4>1
      <4>3. CutAt(cut, Len(got), sent)
        BY <2>1, Zenon DEF Layout
      <4>4. end \in Nat
        BY <4>2, <4>3, CutIs, Zenon
      <4> QED BY <4>1, <4>4, Zenon
    <3>3. end + Len(rest') < Len(Flow)
      <4> DEFINE a == Len(rest')
                 b == Len(rest)
                 w == Len(Flow)
      <4>1. a \in Nat /\ b \in Nat /\ w \in Nat /\ end \in Nat /\ a < b /\ end + b < w
        BY <1>1, <3>1, <3>2, Zenon
      <4> HIDE DEF a, b, w, end
      <4>2. end + a < w
        BY <4>1
      <4> QED BY <4>2, Zenon DEF a, w
    <3> QED BY <2>2, <3>3, Zenon DEF Strange
  <2>3. EndsAt(last, end) /\ CutAt(cut, Len(got), sent) /\ BytesAt(cut, Len(got), sent, Flow)
    BY <2>1, Zenon DEF Layout
  <2>4. \/ ~broken' /\ Whole(end, Flow', 0)
        \/ broken' /\ Strange(end, Flow', Len(rest'))
    <3> HIDE DEF last, end
    <3> QED BY <1>1, <1>3, <2>2, <2>3, Zenon DEF EndsAt
  <2>5. got' = got
    BY <1>2 DEF readerVars
  <2>6. CutAt(cut, Len(got'), sent') /\ BytesAt(cut, Len(got'), sent', Flow')
    BY <1>1, <1>2, <2>3, <2>5, Zenon
  <2>7. \/ ~broken' /\ Whole(cut[Len(sent') + 1], Flow', IF begun' THEN 0 ELSE Len(rest'))
        \/ broken' /\ Strange(cut[Len(sent') + 1], Flow', Len(rest'))
    BY <1>2, <2>4, Zenon
  <2> QED BY <2>6, <2>7, Zenon DEF Layout, EndsAt
<1>8. result' = result
  BY <1>2 DEF readerVars
<1> QED BY <1>4, <1>5, <1>6, <1>7, <1>8, Zenon DEF StreamInv

(* The first bytes of something no reader here accepts. *)
LEMMA WriteForeign ==
    ASSUME FrameAssumption, StreamInv, Write, ~begun, frame = << >>
    PROVE  StreamInv'
<1>1. /\ rest # << >> /\ ~closed /\ Flow' = Flow
      /\ pipe' \in Seq(Bytes) /\ Len(pipe') <= Capacity /\ rest' \in Seq(Bytes)
      /\ Len(rest') \in Nat /\ Len(rest') < Len(rest)
  BY WriteMoves, Zenon
<1>2. begun' = TRUE /\ sent' = sent /\ broken' = TRUE /\ UNCHANGED <<closed, frame, calls, readerVars>>
  BY DEF Write
<1>3. ~broken /\ \E n \in Foreign : Len(rest) >= 4 /\ \A j \in 1..4 : rest[j] = to_be_bytes(n)[j]
  BY <1>1, Zenon DEF StreamInv, WriterInv
<1>4. Typed'
  BY <1>1, <1>2, Zenon DEF StreamInv, Typed, StreamTypeOK, readerVars
<1>5. Ordered' /\ ReaderInv' /\ WriterInv'
  <2>1. Ordered' /\ ReaderInv'
    BY <1>2, Zenon DEF StreamInv, Ordered, ReaderInv, readerVars
  <2> QED BY <1>1, <1>2, <2>1, Zenon DEF WriterInv
<1>6. ASSUME result = "none"
      PROVE  \E cut \in [Nat -> Nat] : Layout(cut)'
  <2>1. PICK cut \in [Nat -> Nat] : Layout(cut)
    BY <1>6, Zenon DEF StreamInv
  <2> DEFINE end == cut[Len(sent) + 1]
  <2>2. CutAt(cut, Len(got), sent) /\ BytesAt(cut, Len(got), sent, Flow) /\ Whole(end, Flow, Len(rest))
    BY <1>3, <2>1, Zenon DEF Layout, EndsAt
  <2> DEFINE w == Len(Flow)
             a == Len(header)
             b == Len(body)
             k == Len(pipe)
             r == Len(rest)
  <2>3. a \in Nat /\ b \in Nat /\ k \in Nat /\ r \in Nat /\ w = a + b + k + r
    BY TypedIs, FlowIs, Zenon DEF StreamInv
  <2>f. \A j \in 1..r : Flow[a + b + k + j] = rest[j]
    BY TypedIs, FlowIs, Zenon DEF StreamInv
  <2>4. end \in Nat /\ w = end + r
    <3>1. Len(sent) \in Nat
      BY TypedIs, Zenon DEF StreamInv
    <3>2. Len(sent) + 1 \in Nat
      BY <3>1
    <3>3. end \in Nat
      BY <2>2, <3>2, CutIs, Zenon
    <3> QED BY <2>2, <3>3, Zenon DEF Whole
  <2>5. Len(rest') \in Nat /\ Len(rest') < r
    BY <1>1, Zenon
  <2> HIDE DEF w, a, b, k, r, end
  <2>6. a + b + k = end
    BY <2>3, <2>4
  <2>7. end + Len(rest') < w
    <3> DEFINE q == Len(rest')
    <3>1. q \in Nat /\ q < r
      BY <2>5, Zenon
    <3> HIDE DEF q
    <3>2. end + q < w
      BY <2>3, <2>4, <3>1
    <3> QED BY <3>2, Zenon DEF q
  <2>8. PICK n \in Foreign : r >= 4 /\ \A j \in 1..4 : rest[j] = to_be_bytes(n)[j]
    BY <1>3, Zenon DEF r
  <2>r. r \in Nat /\ r >= 4
    BY <2>3, <2>8, Zenon
  <2>9. \A j \in 1..4 : j \in 1..r
    BY <2>r
  <2>10. \A j \in 1..4 : Flow[end + j] = to_be_bytes(n)[j]
    BY <2>f, <2>6, <2>8, <2>9, Zenon
  <2>11. Strange(end, Flow, Len(rest'))
    BY <2>7, <2>10, Zenon DEF Strange, w
  <2>12. got' = got
    BY <1>2 DEF readerVars
  <2>13. CutAt(cut, Len(got'), sent') /\ BytesAt(cut, Len(got'), sent', Flow')
    BY <1>1, <1>2, <2>2, <2>12, Zenon
  <2>14. broken' /\ Strange(cut[Len(sent') + 1], Flow', Len(rest'))
    BY <1>1, <1>2, <2>11, Zenon DEF end
  <2> QED BY <2>13, <2>14, Zenon DEF Layout, EndsAt
<1>7. result' = result
  BY <1>2 DEF readerVars
<1> QED BY <1>4, <1>5, <1>6, <1>7, Zenon DEF StreamInv

(* The first bytes of a frame. *)
LEMMA WriteFirst ==
    ASSUME FrameAssumption, StreamInv, Write, ~begun, frame # << >>
    PROVE  StreamInv'
<1>1. /\ rest # << >> /\ ~closed /\ Flow' = Flow
      /\ pipe' \in Seq(Bytes) /\ Len(pipe') <= Capacity /\ rest' \in Seq(Bytes)
      /\ Len(rest') \in Nat /\ Len(rest') < Len(rest)
  BY WriteMoves, Zenon
<1>2. /\ begun' = TRUE /\ sent' = Append(sent, frame) /\ broken' = broken
      /\ UNCHANGED <<closed, frame, calls, readerVars>>
  <2>1. broken \in BOOLEAN
    BY Zenon DEF StreamInv, Typed
  <2> QED BY <2>1 DEF Write
<1>3. ~broken /\ rest = Framed(frame) /\ frame \in Good
  BY <1>1, Zenon DEF StreamInv, WriterInv, Typed
<1>4. /\ Len(frame) \in Nat /\ Len(rest) = 4 + Len(frame)
  BY <1>3, FramedIs
<1>5. sent \in Seq(Good) /\ got \in Seq(Good) /\ Len(sent) \in Nat /\ Len(got) \in Nat /\ Len(got) <= Len(sent)
  BY TypedIs, Zenon DEF StreamInv, Ordered
<1>6. /\ sent' \in Seq(Good) /\ Len(sent') = Len(sent) + 1 /\ sent'[Len(sent) + 1] = frame
      /\ \A i \in 1..Len(sent) : sent'[i] = sent[i]
  BY <1>2, <1>3, <1>5, AppendProperties
<1>g. got' = got /\ result' = result
  BY <1>2 DEF readerVars
<1>7. Typed'
  BY <1>1, <1>2, <1>6, Zenon DEF StreamInv, Typed, StreamTypeOK, readerVars
<1>8. Ordered'
  <2>1. Len(got) <= Len(sent) + 1 /\ \A i \in 1..Len(got) : i \in 1..Len(sent)
    <3> DEFINE g == Len(got)
               m == Len(sent)
    <3>1. g \in Nat /\ m \in Nat /\ g <= m
      BY <1>5, Zenon
    <3> HIDE DEF g, m
    <3>2. g <= m + 1 /\ \A i \in 1..g : i \in 1..m
      BY <3>1
    <3> QED BY <3>2, Zenon DEF g, m
  <2> QED BY <1>6, <1>g, <2>1, Zenon DEF StreamInv, Ordered
<1>9. ReaderInv'
  BY <1>2, Zenon DEF StreamInv, ReaderInv, readerVars
<1>10. WriterInv'
  <2>1. Len(sent') > 0
    BY <1>5, <1>6
  <2>2. Len(rest') < 4 + Len(sent'[Len(sent')])
    BY <1>1, <1>4, <1>6, Zenon
  <2>3. ~closed' /\ begun' /\ frame' # << >>
    BY <1>1, <1>2, Zenon
  <2> QED BY <2>1, <2>2, <2>3, Zenon DEF WriterInv
<1>11. ASSUME result = "none"
       PROVE  \E c \in [Nat -> Nat] : Layout(c)'
  <2>1. PICK cut \in [Nat -> Nat] : Layout(cut)
    BY <1>11, Zenon DEF StreamInv
  <2> DEFINE end == cut[Len(sent) + 1]
  <2>2. CutAt(cut, Len(got), sent) /\ BytesAt(cut, Len(got), sent, Flow) /\ Whole(end, Flow, Len(rest))
    BY <1>3, <2>1, Zenon DEF Layout, EndsAt
  <2> DEFINE w == Len(Flow)
             a == Len(header)
             b == Len(body)
             k == Len(pipe)
             r == Len(rest)
             l == Len(frame)
  <2>3. /\ a \in Nat /\ b \in Nat /\ k \in Nat /\ r \in Nat /\ w = a + b + k + r
        /\ \A j \in 1..r : Flow[a + b + k + j] = rest[j]
    BY TypedIs, FlowIs, Zenon DEF StreamInv
  <2>4. end \in Nat /\ w = end + r
    <3>1. Len(sent) + 1 \in Nat
      BY <1>5
    <3>2. end \in Nat
      BY <2>2, <3>1, CutIs, Zenon
    <3> QED BY <2>2, <3>2, Zenon DEF Whole
  <2>5. r = 4 + l /\ l \in Nat
    BY <1>4, Zenon
  <2> HIDE DEF w, a, b, k, r, end, l
  <2>6. a + b + k = end /\ w = (end + 4 + l) + 0
    BY <2>3, <2>4, <2>5
  <2>7. \A j \in 1..(4 + l) : Flow[end + j] = Framed(frame)[j]
    BY <1>3, <2>3, <2>5, <2>6, Zenon
  <2>8. PICK c \in [Nat -> Nat] :
            /\ CutAt(c, Len(got), Append(sent, frame)) /\ BytesAt(c, Len(got), Append(sent, frame), Flow)
            /\ c[Len(sent) + 2] = end + 4 + l
    <3>1. StandsAt(cut[Len(sent) + 1], Flow, frame)
      BY <2>7, Zenon DEF end, l, StandsAt
    <3>3. frame \in Good /\ sent \in Seq(Good) /\ Len(got) \in Nat /\ Len(got) <= Len(sent)
      BY <1>3, <1>5, Zenon
    <3>4. CutAt(cut, Len(got), sent) /\ BytesAt(cut, Len(got), sent, Flow)
      BY <2>2, Zenon
    <3>2. \E c \in [Nat -> Nat] :
            /\ CutAt(c, Len(got), Append(sent, frame)) /\ BytesAt(c, Len(got), Append(sent, frame), Flow)
            /\ c[Len(sent) + 2] = cut[Len(sent) + 1] + 4 + Len(frame)
      BY <3>1, <3>3, <3>4, Begun, Zenon
    <3> QED BY <3>2, Zenon DEF end, l
  <2>9. CutAt(c, Len(got'), sent') /\ BytesAt(c, Len(got'), sent', Flow')
    BY <1>1, <1>2, <1>g, <2>8, Zenon
  <2>10. Len(sent') + 1 = Len(sent) + 2
    BY <1>5, <1>6
  <2>11. ~broken' /\ Whole(c[Len(sent') + 1], Flow', IF begun' THEN 0 ELSE Len(rest'))
    <3>1. Len(Flow') = c[Len(sent') + 1] + 0
      BY <1>1, <2>6, <2>8, <2>10, Zenon DEF w
    <3> QED BY <1>2, <1>3, <3>1, Zenon DEF Whole
  <2> QED BY <2>9, <2>11, Zenon DEF Layout, EndsAt
<1> QED BY <1>7, <1>8, <1>9, <1>10, <1>11, <1>g, Zenon DEF StreamInv

(* What is left of a sender that ends within its last frame: a gap. *)
LEMMA CutShort ==
    ASSUME NEW w \in Nat, NEW v \in Nat, NEW r \in Nat, NEW l \in Nat, NEW last \in Nat, NEW end \in Nat,
           w = v + r, w = end, r > 0, r < 4 + l, end = last + 4 + l
    PROVE  last < v /\ v < end
  OBVIOUS

LEMMA CloseLayout ==
    ASSUME FrameAssumption, StreamInv, Close, NEW cut \in [Nat -> Nat], Layout(cut)
    PROVE  Layout(cut)'
<1>1. ~closed /\ rest' = << >> /\ UNCHANGED <<pipe, frame, begun, calls, readerVars, sent>>
  BY Zenon DEF Close
<1>2. /\ header \in Seq(Bytes) /\ body \in Seq(Bytes) /\ pipe \in Seq(Bytes) /\ rest \in Seq(Bytes)
      /\ sent \in Seq(Good) /\ got \in Seq(Good) /\ Len(sent) \in Nat /\ Len(got) \in Nat
      /\ Len(got) <= Len(sent)
  BY TypedIs, Zenon DEF StreamInv, Ordered
<1>3. got' = got /\ sent' = sent /\ begun' = begun /\ Len(rest') = 0
  BY <1>1 DEF readerVars
<1> DEFINE x == (header \o body) \o pipe
           u == Flow
           w == Len(u)
           v == Len(x)
           r == Len(rest)
           g == Len(got)
           m == Len(sent)
           last == cut[m]
           end == cut[m + 1]
<1>4. x \in Seq(Bytes) /\ u = x \o rest /\ Flow' = x
  <2>1. header \o body \in Seq(Bytes)
    BY <1>2, Joined, Zenon
  <2>2. x \in Seq(Bytes)
    BY <1>2, <2>1, Joined, Zenon
  <2>3. x \o << >> = x
    BY <2>2, ConcatEmptySeq, Zenon
  <2>4. header' = header /\ body' = body /\ pipe' = pipe
    BY <1>1 DEF readerVars
  <2> QED BY <1>1, <2>2, <2>3, <2>4, Zenon DEF Flow
<1>5. CutAt(cut, g, sent) /\ BytesAt(cut, g, sent, u) /\ EndsAt(last, end)
  BY Zenon DEF Layout
<1> HIDE DEF x, u
<1>6. w = v + r /\ \A k \in 1..v : x[k] = u[k]
  <2>1. Len(x \o rest) = Len(x) + Len(rest) /\ \A k \in 1..Len(x) : (x \o rest)[k] = x[k]
    BY <1>2, <1>4, Joined, Zenon
  <2> QED BY <1>4, <2>1, Zenon
<1>7. w \in Nat /\ v \in Nat /\ r \in Nat /\ w = v + r /\ v <= w
  <2>1. v \in Nat /\ r \in Nat /\ w = v + r
    BY <1>2, <1>4, <1>6, LenProperties, Zenon
  <2> HIDE DEF w, v, r
  <2>2. w \in Nat /\ v <= w
    BY <2>1
  <2> QED BY <2>1, <2>2, Zenon
<1>8. end \in Nat /\ last \in Nat
  <2>1. m \in Nat /\ m + 1 \in Nat
    BY <1>2
  <2> QED BY <1>5, <2>1, CutIs, Zenon
<1>9. BytesAt(cut, g, sent, x)
  <2>1. Len(u) \in Nat /\ Len(x) \in Nat /\ Len(x) <= Len(u) /\ \A k \in 1..Len(x) : x[k] = u[k]
    BY <1>6, <1>7, Zenon
  <2>2. sent \in Seq(Good) /\ g \in Nat
    BY <1>2, Zenon
  <2>3. CutAt(cut, g, sent) /\ BytesAt(cut, g, sent, u)
    BY <1>5, Zenon
  <2> HIDE DEF g
  <2> QED BY <2>1, <2>2, <2>3, Shrunk, Zenon
<1>10. CASE ~broken /\ (rest = << >> \/ ~begun)
  <2>1. ~broken'
    BY <1>10, Zenon DEF Close
  <2>2. Whole(end, u, r)
    <3>1. rest = << >> => r = 0
      OBVIOUS
    <3> QED BY <1>5, <1>10, <3>1, Zenon DEF EndsAt, u
  <2>3. w = end + r
    BY <2>2, Zenon DEF Whole
  <2> HIDE DEF w, v, r, end
  <2>4. v = end + 0
    BY <1>7, <1>8, <2>3
  <2>5. Whole(end, x, 0)
    BY <2>4, Zenon DEF Whole, v
  <2>6. Whole(cut[Len(sent') + 1], Flow', IF begun' THEN 0 ELSE Len(rest'))
    BY <1>3, <1>4, <2>5, Zenon DEF end
  <2>7. CutAt(cut, Len(got'), sent') /\ BytesAt(cut, Len(got'), sent', Flow')
    BY <1>3, <1>4, <1>5, <1>9, Zenon
  <2> QED BY <2>1, <2>6, <2>7, Zenon DEF Layout, EndsAt
<1>11. CASE ~broken /\ rest # << >> /\ begun
  <2>1. broken'
    BY <1>11, Zenon DEF Close
  <2>2. Whole(end, u, 0)
    BY <1>5, <1>11, Zenon DEF EndsAt, u
  <2>3. w = end + 0 /\ w = end
    <3>1. w = end + 0
      BY <2>2, Zenon DEF Whole
    <3> HIDE DEF end
    <3>2. end + 0 = end
      BY <1>8
    <3> QED BY <3>1, <3>2, Zenon
  <2>4. r > 0
    <3>1. r # 0
      BY <1>2, <1>11, EmptySeq
    <3> HIDE DEF r
    <3> QED BY <1>7, <3>1
  <2>5. m > 0 /\ r < 4 + Len(sent[m])
    BY <1>11, Zenon DEF StreamInv, WriterInv
  <2>6. g < m
    <3>1. SUFFICES ASSUME g = m PROVE FALSE
      <4>1. g \in Nat /\ m \in Nat /\ g <= m
        BY <1>2, Zenon
      <4> HIDE DEF g, m
      <4>2. g < m \/ g = m
        BY <4>1
      <4> QED BY <4>2, Zenon
    <3>2. end = 0
      BY <1>5, <3>1, CutIs, Zenon
    <3> HIDE DEF w, v, r, end
    <3> QED BY <1>7, <2>3, <2>4, <3>2
  <2>7. m \in 1..m /\ m \in (g + 1)..m
    <3>1. m \in Nat /\ g \in Nat
      BY <1>2, Zenon
    <3> HIDE DEF m, g
    <3> QED BY <2>6, <3>1
  <2>8. Len(sent[m]) \in Nat /\ end = last + 4 + Len(sent[m])
    <3>1. Len(sent[m]) \in Nat
      BY <1>2, <2>7, FrameLength, Zenon
    <3>2. cut[m + 1] = cut[m] + 4 + Len(sent[m])
      BY <1>5, <2>7, Zenon DEF CutAt
    <3> QED BY <3>1, <3>2, Zenon
  <2>9. last < v /\ v < end
    <3> DEFINE l == Len(sent[m])
    <3>1. l \in Nat /\ end = last + 4 + l /\ r < 4 + l
      BY <2>5, <2>8, Zenon
    <3> HIDE DEF w, v, r, end, last, l
    <3> QED BY <1>7, <1>8, <2>3, <2>4, <3>1, CutShort
  <2>10. Gap(cut[Len(sent')], cut[Len(sent') + 1], Flow') /\ Len(got') < Len(sent')
    BY <1>3, <1>4, <2>6, <2>9, Zenon DEF Gap
  <2>11. CutAt(cut, Len(got'), sent') /\ BytesAt(cut, Len(got'), sent', Flow')
    BY <1>3, <1>4, <1>5, <1>9, Zenon
  <2> QED BY <1>1, <2>1, <2>10, <2>11, Zenon DEF Layout, EndsAt
<1>12. CASE broken
  <2>1. broken'
    BY <1>12, Zenon DEF Close
  <2>2. CutAt(cut, Len(got'), sent') /\ BytesAt(cut, Len(got'), sent', Flow')
    BY <1>3, <1>4, <1>5, <1>9, Zenon
  <2>3. CASE rest = << >> /\ g < m /\ Gap(last, end, u)
    <3>1. u = x
      BY <1>4, <2>3, ConcatEmptySeq, Zenon
    <3>2. Gap(cut[Len(sent')], cut[Len(sent') + 1], Flow') /\ Len(got') < Len(sent')
      BY <1>3, <1>4, <2>3, <3>1, Zenon
    <3> QED BY <1>1, <2>1, <2>2, <3>2, Zenon DEF Layout, EndsAt
  <2>4. CASE Strange(end, u, r)
    <3>1. end + r < w
      BY <2>4, Zenon DEF Strange
    <3>2. PICK n \in Foreign : \A j \in 1..4 : end + j <= w => u[end + j] = to_be_bytes(n)[j]
      BY <2>4, Zenon DEF Strange
    <3>3. end + 0 < v /\ \A j \in 1..4 : end + j <= v => end + j <= w /\ end + j \in 1..v
      <4> HIDE DEF end, w, v, r
      <4>1. end + 0 < v
        BY <1>7, <1>8, <3>1
      <4>2. \A j \in 1..4 : end + j <= v => end + j <= w /\ end + j \in 1..v
        BY <1>7, <1>8
      <4> QED BY <4>1, <4>2, Zenon
    <3>4. \A j \in 1..4 : end + j <= v => x[end + j] = to_be_bytes(n)[j]
      BY <1>6, <3>2, <3>3, Zenon
    <3>5. Strange(end, x, 0)
      BY <3>3, <3>4, Zenon DEF Strange
    <3>6. Strange(cut[Len(sent') + 1], Flow', Len(rest'))
      BY <1>3, <1>4, <3>5, Zenon
    <3> QED BY <2>1, <2>2, <3>6, Zenon DEF Layout, EndsAt
  <2> QED BY <1>5, <1>12, <2>3, <2>4, Zenon DEF EndsAt, u
<1> QED BY <1>10, <1>11, <1>12, Zenon

LEMMA CloseKeeps ==
    ASSUME FrameAssumption, StreamInv, Close
    PROVE  StreamInv'
<1>1. /\ ~closed /\ closed' = TRUE /\ rest' = << >> /\ broken' = (broken \/ (rest # << >> /\ begun))
      /\ UNCHANGED <<pipe, frame, begun, calls, readerVars, sent>>
  BY Zenon DEF Close
<1>2. Typed'
  <2>1. << >> \in Seq(Bytes) /\ broken' \in BOOLEAN
    BY <1>1
  <2> QED BY <1>1, <2>1, Zenon DEF StreamInv, Typed, StreamTypeOK, readerVars
<1>3. Ordered' /\ ReaderInv' /\ WriterInv'
  BY <1>1, Zenon DEF StreamInv, Ordered, ReaderInv, WriterInv, readerVars
<1>4. result' = "none" => \E cut \in [Nat -> Nat] : Layout(cut)'
  <2>1. SUFFICES ASSUME result = "none" PROVE \E cut \in [Nat -> Nat] : Layout(cut)'
    BY <1>1 DEF readerVars
  <2>2. PICK cut \in [Nat -> Nat] : Layout(cut)
    BY <2>1, Zenon DEF StreamInv
  <2> QED BY <2>2, CloseLayout, Zenon
<1> QED BY <1>2, <1>3, <1>4, Zenon DEF StreamInv

LEMMA StreamStays ==
    ASSUME StreamInv, UNCHANGED streamVars
    PROVE  StreamInv'
<1>1. /\ UNCHANGED <<pipe, closed, rest, frame, begun, calls, once, stage, header, body, result, got>>
      /\ UNCHANGED <<sent, broken>>
  BY Zenon DEF streamVars, writerVars, readerVars
<1>2. Typed' /\ Ordered' /\ WriterInv' /\ ReaderInv'
  <2>1. Typed'
    BY <1>1, Zenon DEF StreamInv, Typed, StreamTypeOK
  <2>2. Ordered'
    BY <1>1, Zenon DEF StreamInv, Ordered
  <2>3. WriterInv'
    BY <1>1, Zenon DEF StreamInv, WriterInv
  <2>4. ReaderInv'
    BY <1>1, Zenon DEF StreamInv, ReaderInv
  <2> QED BY <2>1, <2>2, <2>3, <2>4, Zenon
<1>3. result' = "none" => \E cut \in [Nat -> Nat] : Layout(cut)'
  <2>1. Flow' = Flow
    BY <1>1, Zenon DEF Flow
  <2> QED BY <1>1, <2>1, LayoutKept, Zenon
<1> QED BY <1>2, <1>3, Zenon DEF StreamInv

LEMMA StreamKept ==
    ASSUME FrameAssumption, StreamInv, [StreamNext]_streamVars
    PROVE  StreamInv'
<1>1. CASE write_frame
  BY <1>1, WriteFrameKeeps
<1>2. CASE ForeignHeader
  BY <1>2, ForeignHeaderKeeps
<1>3. CASE Write
  BY <1>3, WriteOn, WriteForeign, WriteFirst, Zenon
<1>4. CASE Close
  BY <1>4, CloseKeeps
<1>5. CASE ReadHeader
  BY <1>5, ReadHeaderKeeps
<1>6. CASE CheckLength
  BY <1>6, CheckLengthKeeps
<1>7. CASE ReadBody
  BY <1>7, ReadBodyKeeps
<1>8. CASE ReturnFrame
  BY <1>8, ReturnFrameKeeps
<1>9. CASE require_eof
  BY <1>9, RequireEofKeeps
<1>10. CASE UNCHANGED streamVars
  BY <1>10, StreamStays
<1> QED BY <1>1, <1>2, <1>3, <1>4, <1>5, <1>6, <1>7, <1>8, <1>9, <1>10, Zenon DEF StreamNext, Reader

(* The bytes in flight are the frames that were begun and not returned and *)
(* what the sender is about to write, however write_frame, read_frame and  *)
(* the sender's end cut them up.                                           *)
THEOREM StreamInvariant ==
    ASSUME FrameAssumption
    PROVE  StreamSpec => []StreamInv
<1>1. StreamInit => StreamInv
  BY StreamStarts
<1>2. StreamInv /\ [StreamNext]_streamVars => StreamInv'
  BY StreamKept
<1> QED BY <1>1, <1>2, PTL DEF StreamSpec

-----------------------------------------------------------------------------
(* What the reader may conclude. *)

(* Between frames, at the end of what was sent. *)
LEMMA AtEnd ==
    ASSUME FrameAssumption, StreamInv, NEW cut \in [Nat -> Nat], Layout(cut), Eof,
           body = << >>, Len(header) < 4
    PROVE  /\ header # << >> => broken
           /\ header = << >> => ~broken /\ got = sent
<1>1. /\ header \in Seq(Bytes) /\ body \in Seq(Bytes) /\ pipe \in Seq(Bytes) /\ rest \in Seq(Bytes)
      /\ sent \in Seq(Good) /\ got \in Seq(Good) /\ Len(sent) \in Nat /\ Len(got) \in Nat
      /\ Len(got) <= Len(sent) /\ \A i \in 1..Len(got) : got[i] = sent[i]
  BY TypedIs, Zenon DEF StreamInv, Ordered
<1>2. rest = << >> /\ pipe = << >>
  BY Zenon DEF Eof, StreamInv, WriterInv
<1> DEFINE w == Len(Flow)
           h == Len(header)
           g == Len(got)
           m == Len(sent)
           last == cut[m]
           end == cut[m + 1]
<1>3. h \in Nat /\ w = h /\ h < 4
  <2>1. Len(body) = 0 /\ Len(pipe) = 0 /\ Len(rest) = 0
    BY <1>2
  <2>2. h \in Nat /\ w = h + Len(body) + Len(pipe) + Len(rest)
    BY <1>1, FlowIs, Zenon
  <2>3. w = h + 0 + 0 + 0
    BY <2>1, <2>2, Zenon
  <2> HIDE DEF w
  <2>4. h + 0 + 0 + 0 = h
    BY <2>2
  <2> QED BY <2>2, <2>3, <2>4, Zenon
<1>4. CutAt(cut, g, sent) /\ EndsAt(last, end)
  BY Zenon DEF Layout
<1>5. last \in Nat /\ end \in Nat
  <2>1. m \in Nat /\ m + 1 \in Nat
    BY <1>1
  <2> QED BY <1>4, <2>1, CutIs, Zenon
<1>6. g = m => end = 0
  BY <1>4, CutIs, Zenon
<1>7. g # m => end > 4
  <2>1. SUFFICES ASSUME g # m PROVE end > 4
    OBVIOUS
  <2>2. g < m
    <3>1. g \in Nat /\ m \in Nat /\ g <= m
      BY <1>1, Zenon
    <3> HIDE DEF g, m
    <3> QED BY <2>1, <3>1
  <2> DEFINE l == Len(sent[g + 1])
             d == cut[g + 2]
  <2>3. l \in 1..Maximum /\ d = 4 + l /\ d <= end
    BY <2>2, FrontIs, Zenon
  <2> HIDE DEF l, d, end
  <2> QED BY <1>5, <2>3 DEF FrameAssumption, Lengths
<1>8. ~broken => w = end
  <2>1. ~broken => Whole(end, Flow, IF begun THEN 0 ELSE Len(rest))
    BY <1>4, Zenon DEF EndsAt
  <2>2. (IF begun THEN 0 ELSE Len(rest)) = 0
    BY <1>2
  <2>3. ~broken => w = end + 0
    BY <2>1, <2>2, Zenon DEF Whole
  <2> HIDE DEF end
  <2>4. end + 0 = end
    BY <1>5
  <2> QED BY <2>3, <2>4, Zenon
<1>9. broken => 0 < w
  <2>1. ASSUME Gap(last, end, Flow) PROVE 0 < w
    <3>1. last < w
      BY <2>1, Zenon DEF Gap
    <3> HIDE DEF last, w, h
    <3> QED BY <1>3, <1>5, <3>1
  <2>2. ASSUME Strange(end, Flow, Len(rest)) PROVE 0 < w
    <3>1. end + 0 < w
      <4>1. Len(rest) = 0
        BY <1>2
      <4> QED BY <2>2, <4>1, Zenon DEF Strange
    <3> HIDE DEF end, w, h
    <3> QED BY <1>3, <1>5, <3>1
  <2> HIDE DEF last, end, w
  <2> QED BY <1>4, <2>1, <2>2, Zenon DEF EndsAt
<1>10. header = << >> <=> h = 0
  BY <1>1, EmptySeq
<1>11. ASSUME header # << >> PROVE broken
  <2>1. SUFFICES ASSUME ~broken PROVE FALSE
    OBVIOUS
  <2>2. w = end /\ h # 0
    BY <1>8, <1>10, <1>11, <2>1, Zenon
  <2> HIDE DEF w, h, end
  <2>3. end < 4 /\ end # 0 /\ ~(end > 4)
    BY <1>3, <1>5, <2>2
  <2> QED BY <1>6, <1>7, <2>3, Zenon
<1>12. ASSUME header = << >> PROVE ~broken /\ got = sent
  <2>1. w = 0 /\ ~(0 < w)
    <3>1. w = 0
      BY <1>3, <1>10, <1>12, Zenon
    <3> HIDE DEF w
    <3> QED BY <3>1
  <2>2. ~broken
    BY <1>9, <2>1, Zenon
  <2>3. end = 0 /\ ~(end > 4)
    <3>1. end = 0
      BY <1>8, <2>1, <2>2, Zenon
    <3> HIDE DEF end
    <3> QED BY <3>1
  <2>4. Len(got) = Len(sent)
    BY <1>7, <2>3, Zenon
  <2>5. got = sent
    BY <1>1, <2>4, SeqEqual, Zenon
  <2> QED BY <2>2, <2>5, Zenon
<1> QED BY <1>11, <1>12, Zenon

(* At the end of what was sent, within a payload. *)
LEMMA WithinBody ==
    ASSUME FrameAssumption, StreamInv, NEW cut \in [Nat -> Nat], Layout(cut), Eof,
           stage = "body", Len(body) < from_be_bytes(header)
    PROVE  broken
<1>1. SUFFICES ASSUME ~broken PROVE FALSE
  OBVIOUS
<1> DEFINE f == sent[Len(got) + 1]
           t == from_be_bytes(header)
           d == cut[Len(got) + 2]
           end == cut[Len(sent) + 1]
           w == Len(Flow)
           b == Len(body)
<1>2. Len(header) = 4 /\ t \in 1..Maximum /\ b < t
  BY Zenon DEF StreamInv, ReaderInv
<1>3. t \notin Foreign
  BY <1>2, Zenon DEF Foreign
<1>4. Len(got) < Len(sent)
  BY <1>2, <1>3, HeaderIs, Zenon
<1>5. t = Len(f) /\ d = 4 + Len(f) /\ d <= end /\ end \in Nat
  BY <1>2, <1>4, FrontIs, Zenon
<1>6. rest = << >> /\ pipe = << >>
  BY Zenon DEF Eof, StreamInv, WriterInv
<1>7. Len(pipe) = 0 /\ Len(rest) = 0 /\ (IF begun THEN 0 ELSE Len(rest)) = 0
  BY <1>6
<1>8. b \in Nat /\ w = 4 + b + 0 + 0
  <2>1. b \in Nat /\ w = Len(header) + b + Len(pipe) + Len(rest)
    BY TypedIs, FlowIs, Zenon DEF StreamInv
  <2> QED BY <1>2, <1>7, <2>1, Zenon
<1>9. w = end + 0
  <2>1. Whole(end, Flow, IF begun THEN 0 ELSE Len(rest))
    BY <1>1, Zenon DEF Layout, EndsAt
  <2> QED BY <1>7, <2>1, Zenon DEF Whole
<1>10. 4 + t <= end
  BY <1>5, Zenon
<1> HIDE DEF t, end, w, b
<1>11. t \in Nat
  BY <1>2 DEF FrameAssumption, Lengths
<1>12. end \in Nat
  BY <1>5, Zenon
<1> QED BY <1>2, <1>8, <1>9, <1>10, <1>11, <1>12

(* A header that is refused is no frame's. *)
LEMMA RefusedHeader ==
    ASSUME FrameAssumption, StreamInv, NEW cut \in [Nat -> Nat], Layout(cut), Len(header) = 4,
           from_be_bytes(header) = 0 \/ from_be_bytes(header) > Maximum
    PROVE  broken
<1> DEFINE t == from_be_bytes(header)
<1>1. t \notin 1..Maximum
  <2>1. t = 0 \/ t > Maximum
    OBVIOUS
  <2>2. Maximum \in Nat
    BY DEF FrameAssumption, Lengths
  <2> HIDE DEF t
  <2> QED BY <2>1, <2>2
<1>2. ASSUME Len(got) < Len(sent) PROVE FALSE
  <2>1. t \in 1..Maximum
    BY <1>2, FrontIs, Zenon
  <2> QED BY <1>1, <2>1, Zenon
<1> QED BY <1>2, HeaderIs, Zenon

(* Bytes after the one frame that was asked for. *)
LEMMA Trailing ==
    ASSUME FrameAssumption, StreamInv, NEW cut \in [Nat -> Nat], Layout(cut), pipe # << >>, Len(got) = 1
    PROVE  broken \/ Len(sent) > 1
<1>1. SUFFICES ASSUME ~broken, ~(Len(sent) > 1) PROVE FALSE
  OBVIOUS
<1>2. Len(sent) = Len(got)
  <2>1. Len(sent) \in Nat /\ Len(got) \in Nat /\ Len(got) <= Len(sent)
    BY TypedIs, Zenon DEF StreamInv, Ordered
  <2> DEFINE m == Len(sent)
  <2>2. m \in Nat /\ 1 <= m /\ ~(m > 1)
    BY <1>1, <2>1, Zenon
  <2> HIDE DEF m
  <2>3. m = 1
    BY <2>2
  <2> QED BY <2>3, Zenon DEF m
<1> DEFINE end == cut[Len(sent) + 1]
           w == Len(Flow)
           h == Len(header)
           b == Len(body)
           k == Len(pipe)
           r == Len(rest)
           s == IF begun THEN 0 ELSE Len(rest)
<1>3. end = 0
  BY <1>2, CutIs, Zenon DEF Layout
<1>4. w = end + s
  BY <1>1, Zenon DEF Layout, EndsAt, Whole
<1>5. h \in Nat /\ b \in Nat /\ k \in Nat /\ r \in Nat /\ w = h + b + k + r
  BY TypedIs, FlowIs, Zenon DEF StreamInv
<1>6. k # 0
  <2>1. pipe \in Seq(Bytes)
    BY TypedIs, Zenon DEF StreamInv
  <2> QED BY <2>1, EmptySeq
<1>7. s = 0 \/ s = r
  BY Zenon
<1> HIDE DEF end, w, h, b, k, r, s
<1> QED BY <1>3, <1>4, <1>5, <1>6, <1>7

-----------------------------------------------------------------------------
(* The refinement. *)
LEMMA Ends ==
    ASSUME result = "none", UNCHANGED <<once, sent, got, closed, broken>>,
           \/ result' = "end" /\ closed /\ got = sent /\ ~Channel!Wrong
           \/ result' \in {"Io", "EmptyFrame", "FrameTooLarge", "TrailingData"} /\ Channel!Wrong
    PROVE  Channel!ChannelNext
  BY DEF Channel!ChannelNext, Channel!End

LEMMA ReaderRefines ==
    ASSUME FrameAssumption, StreamInv, Reader
    PROVE  Channel!ChannelNext \/ UNCHANGED Channel!channelVars
<1>1. result = "none" /\ UNCHANGED <<once, sent, closed, broken>>
  BY Zenon DEF Reader, ReadHeader, CheckLength, ReadBody, ReturnFrame, require_eof, writerVars,
              StreamInv, ReaderInv
<1>2. PICK cut \in [Nat -> Nat] : Layout(cut)
  BY <1>1, Zenon DEF StreamInv
<1>3. ASSUME UNCHANGED <<result, got>>
      PROVE  UNCHANGED Channel!channelVars
  BY <1>1, <1>3 DEF Channel!channelVars
<1>4. CASE ReadHeader
  <2>1. CASE /\ Eof /\ Returns(IF header # << >> \/ once THEN "Io" ELSE "end") /\ UNCHANGED got
    <3>1. (header # << >> => broken) /\ (header = << >> => ~broken /\ got = sent)
      BY <1>2, <1>4, <2>1, AtEnd, Zenon DEF ReadHeader, StreamInv, ReaderInv
    <3>2. once => got = << >>
      BY <1>4, Zenon DEF ReadHeader, StreamInv, ReaderInv
    <3>3. closed
      BY <2>1, Zenon DEF Eof
    <3>4. CASE header # << >>
      <4>1. result' = "Io" /\ Channel!Wrong
        BY <2>1, <3>1, <3>4, Zenon DEF Returns, Channel!Wrong
      <4> QED BY <1>1, <2>1, <4>1, Ends
    <3>5. CASE header = << >> /\ once
      <4>1. result' = "Io" /\ Channel!Wrong
        BY <2>1, <3>1, <3>2, <3>3, <3>5, Zenon DEF Returns, Channel!Wrong
      <4> QED BY <1>1, <2>1, <4>1, Ends
    <3>6. CASE header = << >> /\ ~once
      <4>1. result' = "end" /\ got = sent /\ ~Channel!Wrong
        BY <2>1, <3>1, <3>6, Zenon DEF Returns, Channel!Wrong
      <4> QED BY <1>1, <2>1, <3>3, <4>1, Ends
    <3> QED BY <3>4, <3>5, <3>6, Zenon
  <2> QED BY <1>3, <1>4, <2>1, Zenon DEF ReadHeader
<1>5. CASE CheckLength
  <2>1. CASE /\ from_be_bytes(header) = 0 \/ from_be_bytes(header) > Maximum
             /\ result' \in {"EmptyFrame", "FrameTooLarge"} /\ UNCHANGED got
    <3>1. Len(header) = 4
      BY <1>5, Zenon DEF CheckLength, StreamInv, ReaderInv
    <3>2. broken
      BY <1>2, <2>1, <3>1, RefusedHeader, Zenon
    <3>3. Channel!Wrong
      BY <3>2, Zenon DEF Channel!Wrong
    <3> QED BY <1>1, <2>1, <3>3, Ends
  <2> QED BY <1>3, <1>5, <2>1, Zenon DEF CheckLength, Returns
<1>6. CASE ReadBody
  <2>1. CASE Eof /\ Returns("Io") /\ UNCHANGED got
    <3>1. broken
      BY <1>2, <1>6, <2>1, WithinBody, Zenon DEF ReadBody
    <3>2. Channel!Wrong /\ result' = "Io"
      BY <2>1, <3>1, Zenon DEF Channel!Wrong, Returns
    <3> QED BY <1>1, <2>1, <3>2, Ends
  <2> QED BY <1>3, <1>6, <2>1, Zenon DEF ReadBody
<1>7. CASE ReturnFrame
  <2>1. Len(got) < Len(sent) /\ body = sent[Len(got) + 1]
    BY <1>2, <1>7, BodyIs, Zenon DEF ReturnFrame
  <2>2. got' = Append(got, body) /\ result' = result
    BY <1>7, Zenon DEF ReturnFrame
  <2> QED BY <1>1, <2>1, <2>2 DEF Channel!ChannelNext, Channel!Deliver
<1>8. CASE require_eof
  <2>1. once /\ header = << >> /\ body = << >> /\ Len(got) = 1 /\ UNCHANGED got
    BY <1>8, Zenon DEF require_eof, StreamInv, ReaderInv
  <2>2. CASE Eof /\ Returns("end")
    <3>1. Len(header) < 4
      BY <2>1
    <3>2. ~broken /\ got = sent
      BY <1>2, <2>1, <2>2, <3>1, AtEnd, Zenon
    <3>3. sent # << >> /\ ~(Len(sent) > 1)
      <4>1. Len(sent) = 1 /\ Len(<< >>) = 0 /\ ~(1 > 1) /\ 1 # 0
        <5>1. Len(sent) = 1
          BY <2>1, <3>2, Zenon
        <5> QED BY <5>1
      <4> QED BY <4>1, Zenon
    <3>4. ~Channel!Wrong
      BY <3>2, <3>3, Zenon DEF Channel!Wrong
    <3>5. result' = "end" /\ closed
      BY <2>2, Zenon DEF Returns, Eof
    <3> QED BY <1>1, <2>1, <3>2, <3>4, <3>5, Ends
  <2>3. CASE pipe # << >> /\ Returns("TrailingData")
    <3>1. broken \/ Len(sent) > 1
      BY <1>2, <2>1, <2>3, Trailing, Zenon
    <3>2. Channel!Wrong /\ result' = "TrailingData"
      BY <2>1, <2>3, <3>1, Zenon DEF Channel!Wrong, Returns
    <3> QED BY <1>1, <2>1, <3>2, Ends
  <2> QED BY <1>8, <2>2, <2>3, Zenon DEF require_eof
<1> QED BY <1>4, <1>5, <1>6, <1>7, <1>8, Zenon DEF Reader

LEMMA WriterRefines ==
    ASSUME StreamInv, write_frame \/ ForeignHeader \/ Write \/ Close \/ UNCHANGED streamVars
    PROVE  Channel!ChannelNext \/ UNCHANGED Channel!channelVars
<1>1. broken \in BOOLEAN
  BY Zenon DEF StreamInv, Typed
<1>2. CASE write_frame \/ ForeignHeader \/ UNCHANGED streamVars
  BY <1>2 DEF write_frame, ForeignHeader, streamVars, writerVars, readerVars, Channel!channelVars
<1>3. CASE Close
  <2>1. /\ ~closed /\ closed' = TRUE /\ broken' \in {broken, TRUE} /\ UNCHANGED <<once, sent, got, result>>
    BY <1>1, <1>3 DEF Close, readerVars
  <2> QED BY <2>1 DEF Channel!ChannelNext, Channel!HangUp
<1>4. CASE Write
  <2>1. rest # << >>
    <3>1. PICK n \in 1..Len(rest) : TRUE
      BY <1>4, Zenon DEF Write
    <3> QED BY <3>1
  <2>2. ~closed
    BY <2>1, Zenon DEF StreamInv, WriterInv
  <2>3. UNCHANGED <<once, got, result, closed>>
    BY <1>4 DEF Write, readerVars
  <2>4. CASE begun
    <3>1. frame = << >> => broken
      BY <2>1, <2>4, Zenon DEF StreamInv, WriterInv
    <3>2. broken' = broken /\ sent' = sent
      BY <1>1, <1>4, <2>4, <3>1 DEF Write
    <3> QED BY <2>3, <3>2 DEF Channel!channelVars
  <2>5. CASE ~begun /\ frame = << >>
    <3>1. broken' = TRUE /\ sent' = sent
      BY <1>4, <2>5 DEF Write
    <3> QED BY <2>2, <2>3, <3>1 DEF Channel!ChannelNext, Channel!Spoil
  <2>6. CASE ~begun /\ frame # << >>
    <3>1. ~broken /\ frame \in Good
      BY <2>1, <2>6, Zenon DEF StreamInv, WriterInv, Typed
    <3>2. broken' = broken /\ sent' = Append(sent, frame)
      BY <1>1, <1>4, <2>6 DEF Write
    <3> QED BY <2>2, <2>3, <3>1, <3>2 DEF Channel!ChannelNext, Channel!Send, Good
  <2> QED BY <2>4, <2>5, <2>6, Zenon
<1> QED BY <1>2, <1>3, <1>4, Zenon

(* write_frame, read_frame, read_frame_or_eof and require_eof implement    *)
(* the channel: however the bytes are split over writes and reads and      *)
(* wherever the sender ends, whole frames arrive in the order they were    *)
(* sent, the reader ends well only after a whole frame, reports an error   *)
(* only for a reason, and in the one-request mode takes one frame and no   *)
(* byte more.                                                              *)
THEOREM ChannelImplemented ==
    ASSUME FrameAssumption
    PROVE  StreamSpec => ImplementsChannel
<1>1. StreamInit => Channel!ChannelInit
  BY DEF StreamInit, Channel!ChannelInit
<1>2. StreamInv /\ [StreamNext]_streamVars => [Channel!ChannelNext]_(Channel!channelVars)
  BY ReaderRefines, WriterRefines, Zenon DEF StreamNext
<1>3. StreamSpec => []StreamInv
  BY StreamInvariant
<1> QED BY <1>1, <1>2, <1>3, PTL DEF StreamSpec, ImplementsChannel, Channel!ChannelSpec

-----------------------------------------------------------------------------
(* WireCodec.  A payload that is not refused is the encoding of what it    *)
(* decodes to, for every payload; and the messages of the engine are what  *)
(* their own bytes decode to.                                              *)

Octets == 0..255

(* Two neighbouring parts of a payload are one part. *)
LEMMA Glue ==
    ASSUME NEW S, NEW p \in Seq(S), NEW a \in Nat, NEW b \in Nat, NEW c \in Nat,
           1 <= a, a <= b, b < c, c <= Len(p)
    PROVE  SubSeq(p, a, b) \o SubSeq(p, b + 1, c) = SubSeq(p, a, c)
<1> DEFINE s == SubSeq(p, a, b)
           t == SubSeq(p, b + 1, c)
           u == SubSeq(p, a, c)
<1>1. s \in Seq(S) /\ Len(s) = b - a + 1
  OBVIOUS
<1>2. \A i \in 1..(b - a + 1) : s[i] = p[a + i - 1]
  OBVIOUS
<1>3. t \in Seq(S) /\ Len(t) = c - b
  OBVIOUS
<1>4. \A i \in 1..(c - b) : t[i] = p[b + i]
  OBVIOUS
<1>5. u \in Seq(S) /\ Len(u) = c - a + 1
  OBVIOUS
<1>6. \A i \in 1..(c - a + 1) : u[i] = p[a + i - 1]
  OBVIOUS
<1> HIDE DEF s, t, u
<1>7. s \o t \in Seq(S) /\ Len(s \o t) = c - a + 1
  <2>1. s \o t \in Seq(S) /\ Len(s \o t) = Len(s) + Len(t)
    BY <1>1, <1>3, ConcatProperties, Zenon
  <2>2. (b - a + 1) + (c - b) = c - a + 1
    OBVIOUS
  <2> QED BY <1>1, <1>3, <2>1, <2>2, Zenon
<1>8. \A i \in 1..(c - a + 1) : (s \o t)[i] = u[i]
  <2> SUFFICES ASSUME NEW i \in 1..(c - a + 1) PROVE (s \o t)[i] = u[i]
    OBVIOUS
  <2>1. \A k \in 1..(Len(s) + Len(t)) : (s \o t)[k] = IF k <= Len(s) THEN s[k] ELSE t[k - Len(s)]
    BY <1>1, <1>3, ConcatProperties, Zenon
  <2>2. i \in 1..((b - a + 1) + (c - b))
    OBVIOUS
  <2>3. (s \o t)[i] = IF i <= b - a + 1 THEN s[i] ELSE t[i - (b - a + 1)]
    BY <1>1, <1>3, <2>1, <2>2, Zenon
  <2>4. u[i] = p[a + i - 1]
    BY <1>6
  <2>5. CASE i <= b - a + 1
    <3>1. i \in 1..(b - a + 1)
      BY <2>5
    <3> QED BY <1>2, <2>3, <2>4, <2>5, <3>1, Zenon
  <2>6. CASE ~(i <= b - a + 1)
    <3> DEFINE j == i - (b - a + 1)
    <3>1. j \in 1..(c - b) /\ b + j = a + i - 1
      BY <2>6
    <3>2. t[j] = p[a + i - 1]
      BY <1>4, <3>1, Zenon
    <3> QED BY <2>3, <2>4, <2>6, <3>2, Zenon
  <2> QED BY <2>5, <2>6, Zenon
<1>9. s \o t = u
  <2> DEFINE v == s \o t
             n == c - a + 1
  <2>1. v \in Seq(S) /\ Len(v) = n /\ \A i \in 1..n : v[i] = u[i]
    BY <1>7, <1>8, Zenon
  <2>2. u \in Seq(S) /\ Len(u) = n
    BY <1>5
  <2> HIDE DEF v, n
  <2>3. v = u
    BY <2>1, <2>2
  <2> QED BY <2>3 DEF v
<1> QED BY <1>9 DEF s, t, u

LEMMA Join ==
    ASSUME NEW p \in Seq(Octets), NEW a \in Nat, NEW b \in Nat, NEW d \in Nat, NEW c \in Nat,
           1 <= a, a <= b, b < c, c <= Len(p), d = b + 1
    PROVE  SubSeq(p, a, b) \o SubSeq(p, d, c) = SubSeq(p, a, c)
<1>1. SubSeq(p, a, b) \o SubSeq(p, b + 1, c) = SubSeq(p, a, c)
  BY Glue
<1> QED BY <1>1, Zenon

(* Two bytes of a payload, and the number they spell. *)
LEMMA Pair ==
    ASSUME NEW p \in Seq(Octets), NEW a \in Nat, 1 <= a, a < Len(p)
    PROVE  /\ <<p[a], p[a + 1]>> = SubSeq(p, a, a + 1)
           /\ U16(u16_from_be_bytes(p, a)) = SubSeq(p, a, a + 1)
<1> DEFINE s == SubSeq(p, a, a + 1)
<1>1. s \in Seq(Octets) /\ Len(s) = 2 /\ s[1] = p[a] /\ s[2] = p[a + 1]
  <2>1. \A S : p \in Seq(S) => s \in Seq(S)
    OBVIOUS
  <2>2. Len(s) = 2
    OBVIOUS
  <2>3. s[1] = p[a] /\ s[2] = p[a + 1]
    OBVIOUS
  <2> HIDE DEF s
  <2> QED BY <2>1, <2>2, <2>3, Zenon
<1>2. p[a] \in Octets /\ p[a + 1] \in Octets
  OBVIOUS
<1> HIDE DEF s
<1>3. <<p[a], p[a + 1]>> = s
  BY <1>1
<1>4. U16(u16_from_be_bytes(p, a)) = <<p[a], p[a + 1]>>
  <2> DEFINE x == p[a]
             y == p[a + 1]
  <2>1. x \in 0..255 /\ y \in 0..255
    BY <1>2 DEF Octets
  <2> HIDE DEF x, y
  <2>2. (x * 256 + y) \div 256 = x /\ (x * 256 + y) % 256 = y
    BY <2>1
  <2> QED BY <2>2 DEF U16, u16_from_be_bytes, x, y
<1> QED BY <1>3, <1>4 DEF s

LEMMA PairIs ==
    ASSUME NEW p \in Seq(Octets), NEW a \in Nat, NEW b, b = a + 1, 1 <= a, b <= Len(p)
    PROVE  <<p[a], p[b]>> = SubSeq(p, a, b)
<1>1. a < Len(p)
  OBVIOUS
<1>2. <<p[a], p[a + 1]>> = SubSeq(p, a, a + 1)
  BY <1>1, Pair, Zenon
<1> QED BY <1>2, Zenon

LEMMA SupportsDiffer ==
    \A i, j \in 1..14 : Supports[i] = Supports[j] => i = j
  BY DEF Supports

(* The support bytes of a payload, decoded and encoded again. *)
LEMMA SupportBytes ==
    ASSUME NEW p \in Seq(Octets), NEW a \in Nat, 1 <= a, a + 13 <= Len(p), from_wire(p, a)
    PROVE  support_bytes(decode_support(p, a)) = SubSeq(p, a, a + 13)
<1> DEFINE s == SubSeq(p, a, a + 13)
           D == decode_support(p, a)
<1>1. s \in Seq(Octets) /\ Len(s) = 14 /\ \A i \in 1..14 : s[i] = p[a + i - 1]
  OBVIOUS
<1>2. \A i \in 1..14 : p[a + i - 1] \in {0, 1}
  BY DEF from_wire
<1>3. \A i \in 1..14 : Supports[i] \in D <=> p[a + i - 1] = 1
  BY SupportsDiffer, Zenon DEF decode_support
<1> HIDE DEF s, D
<1>4. \A i \in 1..14 : s[i] = IF Supports[i] \in D THEN 1 ELSE 0
  BY <1>1, <1>2, <1>3
<1>5. DOMAIN s = 1..14
  BY <1>1
<1>6. s = [i \in 1..14 |-> s[i]]
  BY <1>1, <1>5
<1>7. support_bytes(D) = s
  BY <1>4, <1>6 DEF support_bytes
<1> QED BY <1>7 DEF s, D

LEMMA SupportIs ==
    ASSUME NEW p \in Seq(Octets), NEW a \in Nat, NEW b, b = a + 13, 1 <= a, b <= Len(p),
           from_wire(p, a)
    PROVE  support_bytes(decode_support(p, a)) = SubSeq(p, a, b)
<1>1. a + 13 <= Len(p)
  OBVIOUS
<1>2. support_bytes(decode_support(p, a)) = SubSeq(p, a, a + 13)
  BY <1>1, SupportBytes
<1> QED BY <1>2

-----------------------------------------------------------------------------
LEMMA WholePayload ==
    ASSUME NEW p \in Seq(Octets), NEW n \in Nat, Len(p) = n, 1 <= n
    PROVE  SubSeq(p, 1, n) = p
  OBVIOUS

LEMMA Triple ==
    ASSUME NEW p \in Seq(Octets), 5 <= Len(p)
    PROVE  <<p[3], p[4], p[5]>> = SubSeq(p, 3, 5)
<1> DEFINE s == SubSeq(p, 3, 5)
<1>1. s \in Seq(Octets)
  OBVIOUS
<1>2. Len(s) = 3
  OBVIOUS
<1>3. s[1] = p[3] /\ s[2] = p[4] /\ s[3] = p[5]
  OBVIOUS
<1> HIDE DEF s
<1>4. <<p[3], p[4], p[5]>> = s
  BY <1>1, <1>2, <1>3
<1> QED BY <1>4 DEF s

(* What a payload that is not refused is known to be. *)
LEMMA VersionFine ==
    ASSUME NEW p \in Seq(Octets), 4 <= Len(p), validate_version(p) = "ok"
    PROVE  U16(PROTOCOL_VERSION) = SubSeq(p, 1, 2)
<1>1. u16_from_be_bytes(p, 1) = PROTOCOL_VERSION
  BY DEF validate_version
<1>2. U16(u16_from_be_bytes(p, 1)) = SubSeq(p, 1, 1 + 1)
  <2>1. 1 \in Nat /\ 1 <= 1 /\ 1 < Len(p)
    OBVIOUS
  <2> QED BY <2>1, Pair, Zenon
<1> QED BY <1>1, <1>2

LEMMA Refusals ==
    ASSUME NEW p, NEW maximum
    PROVE  /\ validate_payload(p, maximum) \in {"ok"} \cup Failures
           /\ validate_version(p) \in {"ok"} \cup Failures
           /\ "ok" \notin Failures /\ InvalidPayload.type \in Failures
  BY DEF validate_payload, validate_version, Failures, InvalidPayload

LEMMA RequestCanonical ==
    ASSUME NEW p \in Seq(Octets), decode_request(p).type \notin Failures
    PROVE  encode_request(decode_request(p)) = p
<1> DEFINE bounds == validate_payload(p, MAX_REQUEST_BYTES)
           version == validate_version(p)
<1>1. /\ bounds = "ok" /\ Len(p) = 4 /\ p[4] = 0 /\ version = "ok"
      /\ \/ p[3] = 1 /\ decode_request(p) = [type |-> "Capabilities?"]
         \/ p[3] = 2 /\ decode_request(p) = [type |-> "Status?"]
  <2>1. bounds \in {"ok"} \cup Failures /\ version \in {"ok"} \cup Failures
    BY Refusals
  <2>2. InvalidPayload.type \in Failures
    BY Refusals
  <2> HIDE DEF bounds, version
  <2>3. decode_request(p) =
            IF bounds # "ok" THEN [type |-> bounds]
            ELSE IF Len(p) # 4 \/ p[4] # 0 THEN InvalidPayload
            ELSE IF version # "ok" THEN [type |-> version]
            ELSE IF p[3] = 1 THEN [type |-> "Capabilities?"]
            ELSE IF p[3] = 2 THEN [type |-> "Status?"] ELSE InvalidPayload
    BY DEF decode_request, bounds, version
  <2> QED BY <2>1, <2>2, <2>3
<1>2. <<IF decode_request(p).type = "Capabilities?" THEN 1 ELSE 2, 0>> = <<p[3], p[3 + 1]>>
  BY <1>1
<1>3. <<p[3], p[3 + 1]>> = SubSeq(p, 3, 3 + 1)
  <2>1. 3 \in Nat /\ 1 <= 3 /\ 3 < Len(p)
    BY <1>1
  <2> QED BY <2>1, Pair, Zenon
<1>4. U16(PROTOCOL_VERSION) = SubSeq(p, 1, 2)
  <2>1. 4 <= Len(p)
    BY <1>1
  <2> QED BY <1>1, <2>1, VersionFine, Zenon
<1>5. SubSeq(p, 1, 2) \o SubSeq(p, 2 + 1, 4) = SubSeq(p, 1, 4)
  BY <1>1, Glue
<1>6. SubSeq(p, 1, 4) = p
  BY <1>1, WholePayload
<1>7. SubSeq(p, 3, 3 + 1) = SubSeq(p, 2 + 1, 4)
  OBVIOUS
<1> QED BY <1>2, <1>3, <1>4, <1>5, <1>6, <1>7, Zenon DEF encode_request

LEMMA ResponseKinds ==
    ASSUME NEW p \in Seq(Octets), decode_response(p).type \notin Failures
    PROVE  /\ 5 <= Len(p) /\ p[4] = 0 /\ validate_version(p) = "ok"
           /\ \/ /\ p[3] = 129 /\ Len(p) = 34 /\ p[33] = 0 /\ p[34] = 0 /\ from_wire(p, 19)
                 /\ decode_response(p) = decode_capabilities(p)
              \/ /\ p[3] = 130 /\ Len(p) = 19 /\ p[5] = 2 /\ from_wire(p, 6)
                 /\ decode_response(p) = decode_status(p)
              \/ /\ p[3] = 255 /\ Len(p) = 5 /\ p[5] \in 1..3
                 /\ decode_response(p) = [type |-> "Error", code |-> ErrorCode[p[5]]]
<1> DEFINE bounds == validate_payload(p, MAX_RESPONSE_BYTES)
           version == validate_version(p)
<1>1. bounds \in {"ok"} \cup Failures /\ version \in {"ok"} \cup Failures
  BY Refusals
<1>2. InvalidPayload.type \in Failures
  BY Refusals
<1> HIDE DEF bounds, version
<1>3. decode_response(p) =
          IF bounds # "ok" THEN [type |-> bounds]
          ELSE IF Len(p) < 5 \/ p[4] # 0 THEN InvalidPayload
          ELSE IF version # "ok" THEN [type |-> version]
          ELSE IF p[3] = 129 THEN decode_capabilities(p)
          ELSE IF p[3] = 130 THEN decode_status(p)
          ELSE IF p[3] = 255 /\ Len(p) = 5 /\ p[5] \in 1..3
          THEN [type |-> "Error", code |-> ErrorCode[p[5]]] ELSE InvalidPayload
  BY DEF decode_response, bounds, version
<1>4. bounds = "ok" /\ 5 <= Len(p) /\ p[4] = 0 /\ version = "ok"
  BY <1>1, <1>2, <1>3
<1>5. decode_capabilities(p) # InvalidPayload =>
         Len(p) = 34 /\ p[33] = 0 /\ p[34] = 0 /\ from_wire(p, 19)
  BY Zenon DEF decode_capabilities
<1>6. decode_status(p) # InvalidPayload => Len(p) = 19 /\ p[5] = 2 /\ from_wire(p, 6)
  BY Zenon DEF decode_status
<1>7. decode_response(p) # InvalidPayload
  BY <1>2
<1>8. \/ p[3] = 129 /\ decode_response(p) = decode_capabilities(p)
      \/ p[3] = 130 /\ decode_response(p) = decode_status(p)
      \/ /\ p[3] = 255 /\ Len(p) = 5 /\ p[5] \in 1..3
         /\ decode_response(p) = [type |-> "Error", code |-> ErrorCode[p[5]]]
  <2>1. decode_response(p) =
          IF p[3] = 129 THEN decode_capabilities(p)
          ELSE IF p[3] = 130 THEN decode_status(p)
          ELSE IF p[3] = 255 /\ Len(p) = 5 /\ p[5] \in 1..3
          THEN [type |-> "Error", code |-> ErrorCode[p[5]]] ELSE InvalidPayload
    <3>1. ~(Len(p) < 5)
      BY <1>4
    <3> QED BY <1>3, <1>4, <3>1, Zenon
  <2> DEFINE A == p[3] = 129
             C == p[3] = 130
             E == p[3] = 255 /\ Len(p) = 5 /\ p[5] \in 1..3
             e == [type |-> "Error", code |-> ErrorCode[p[5]]]
  <2>2. decode_response(p) = IF A THEN decode_capabilities(p) ELSE IF C THEN decode_status(p)
                             ELSE IF E THEN e ELSE InvalidPayload
    BY <2>1, Zenon
  <2> HIDE DEF A, C, E, e
  <2>3. \/ A /\ decode_response(p) = decode_capabilities(p)
        \/ C /\ decode_response(p) = decode_status(p)
        \/ E /\ decode_response(p) = e
    BY <1>7, <2>2, Zenon
  <2> QED BY <2>3, Zenon DEF A, C, E, e
<1>9. CASE p[3] = 129 /\ decode_response(p) = decode_capabilities(p)
  <2>1. Len(p) = 34 /\ p[33] = 0 /\ p[34] = 0 /\ from_wire(p, 19)
    BY <1>5, <1>7, <1>9, Zenon
  <2> QED BY <1>4, <1>9, <2>1, Zenon DEF version
<1>10. CASE p[3] = 130 /\ decode_response(p) = decode_status(p)
  <2>1. Len(p) = 19 /\ p[5] = 2 /\ from_wire(p, 6)
    BY <1>6, <1>7, <1>10, Zenon
  <2> QED BY <1>4, <1>10, <2>1, Zenon DEF version
<1>11. CASE /\ p[3] = 255 /\ Len(p) = 5 /\ p[5] \in 1..3
            /\ decode_response(p) = [type |-> "Error", code |-> ErrorCode[p[5]]]
  BY <1>4, <1>11, Zenon DEF version
<1> QED BY <1>8, <1>9, <1>10, <1>11, Zenon

LEMMA ErrorCanonical ==
    ASSUME NEW p \in Seq(Octets), Len(p) = 5, p[3] = 255, p[4] = 0, p[5] \in 1..3,
           validate_version(p) = "ok"
    PROVE  encode_response([type |-> "Error", code |-> ErrorCode[p[5]]]) = p
<1> DEFINE m == [type |-> "Error", code |-> ErrorCode[p[5]]]
           c == CHOOSE i \in 1..3 : ErrorCode[i] = m.code
<1>1. encode_response(m) = U16(PROTOCOL_VERSION) \o <<255, 0, c>>
  BY DEF encode_response
<1>2. c = p[5]
  <2>1. \A i \in 1..3 : ErrorCode[i] = ErrorCode[p[5]] => i = p[5]
    BY DEF ErrorCode
  <2>2. m.code = ErrorCode[p[5]]
    OBVIOUS
  <2> HIDE DEF m
  <2> QED BY <2>1, <2>2
<1>3. U16(PROTOCOL_VERSION) = SubSeq(p, 1, 2)
  <2>1. 4 <= Len(p)
    OBVIOUS
  <2> QED BY <2>1, VersionFine, Zenon
<1>4. <<255, 0, p[5]>> = SubSeq(p, 3, 5)
  <2>1. <<p[3], p[4], p[5]>> = SubSeq(p, 3, 5)
    BY Triple
  <2> QED BY <2>1, Zenon
<1>5. SubSeq(p, 1, 2) \o SubSeq(p, 2 + 1, 5) = SubSeq(p, 1, 5)
  BY Glue
<1>6. SubSeq(p, 1, 5) = p
  BY WholePayload
<1>7. SubSeq(p, 2 + 1, 5) = SubSeq(p, 3, 5)
  OBVIOUS
<1> HIDE DEF m, c
<1>8. SubSeq(p, 1, 2) \o SubSeq(p, 3, 5) = p
  BY <1>5, <1>6, <1>7, Zenon
<1>9. <<255, 0, c>> = SubSeq(p, 3, 5)
  BY <1>2, <1>4, Zenon
<1>10. encode_response(m) = p
  BY <1>1, <1>3, <1>8, <1>9, Zenon
<1> QED BY <1>10 DEF m

StatusShape(p) == Len(p) = 19 /\ p[3] = 130 /\ p[4] = 0 /\ p[5] = 2

CapabilitiesShape(p) ==
    Len(p) = 34 /\ p[3] = 129 /\ p[4] = 0 /\ p[33] = 0 /\ p[34] = 0

LEMMA StatusCanonical ==
    ASSUME NEW p \in Seq(Octets), StatusShape(p), from_wire(p, 6), validate_version(p) = "ok"
    PROVE  encode_response(decode_status(p)) = p
<1> DEFINE m == [type |-> "Status", supported |-> decode_support(p, 6)]
<1>1. decode_status(p) = m
  BY DEF decode_status, StatusShape
<1>2. encode_response(m) = U16(PROTOCOL_VERSION) \o <<130, 0, 2>> \o support_bytes(decode_support(p, 6))
  BY DEF encode_response
<1>3. U16(PROTOCOL_VERSION) = SubSeq(p, 1, 2)
  <2>1. 4 <= Len(p)
    BY DEF StatusShape
  <2> QED BY <2>1, VersionFine, Zenon
<1>4. <<130, 0, 2>> = SubSeq(p, 3, 5)
  <2>1. <<p[3], p[4], p[5]>> = SubSeq(p, 3, 5)
    BY Triple DEF StatusShape
  <2> QED BY <2>1 DEF StatusShape
<1>5. support_bytes(decode_support(p, 6)) = SubSeq(p, 6, 19)
  <2>1. 6 \in Nat /\ 19 = 6 + 13 /\ 1 <= 6 /\ 19 <= Len(p)
    BY DEF StatusShape
  <2> QED BY <2>1, SupportIs, Zenon
<1>6. SubSeq(p, 1, 2) \o SubSeq(p, 3, 5) = SubSeq(p, 1, 5)
  <2>1. SubSeq(p, 1, 2) \o SubSeq(p, 2 + 1, 5) = SubSeq(p, 1, 5)
    BY Glue DEF StatusShape
  <2>2. 2 + 1 = 3
    OBVIOUS
  <2> QED BY <2>1, <2>2, Zenon
<1>7. SubSeq(p, 1, 5) \o SubSeq(p, 6, 19) = SubSeq(p, 1, 19)
  <2>1. SubSeq(p, 1, 5) \o SubSeq(p, 5 + 1, 19) = SubSeq(p, 1, 19)
    BY Glue DEF StatusShape
  <2>2. 5 + 1 = 6
    OBVIOUS
  <2> QED BY <2>1, <2>2, Zenon
<1>8. SubSeq(p, 1, 19) = p
  BY WholePayload DEF StatusShape
<1> HIDE DEF m
<1> QED BY <1>1, <1>2, <1>3, <1>4, <1>5, <1>6, <1>7, <1>8, Zenon

LEMMA CapabilitiesCanonical ==
    ASSUME NEW p \in Seq(Octets), CapabilitiesShape(p), from_wire(p, 19),
           validate_version(p) = "ok"
    PROVE  encode_response(decode_capabilities(p)) = p
<1> DEFINE B(i) == u16_from_be_bytes(p, i)
           Part(a, b) == SubSeq(p, a, b)
           m == [type |-> "Capabilities", protocol_min |-> B(5), protocol_max |-> B(7),
                 max_request_bytes |-> <<B(9), B(11)>>, max_response_bytes |-> <<B(13), B(15)>>,
                 operations |-> B(17), supported |-> decode_support(p, 19)]
<1>1. decode_capabilities(p) = m
  BY DEF decode_capabilities, CapabilitiesShape
<1>2. /\ m.type = "Capabilities" /\ m.protocol_min = B(5) /\ m.protocol_max = B(7)
      /\ m.max_request_bytes = <<B(9), B(11)>> /\ m.max_response_bytes = <<B(13), B(15)>>
      /\ m.operations = B(17) /\ m.supported = decode_support(p, 19)
  BY Zenon
<1> HIDE DEF m, B
<1>3. encode_response(m) =
         U16(PROTOCOL_VERSION) \o <<129, 0>> \o U16(B(5)) \o U16(B(7))
         \o U32(<<B(9), B(11)>>) \o U32(<<B(13), B(15)>>) \o U16(B(17))
         \o support_bytes(decode_support(p, 19)) \o <<0, 0>>
  BY <1>2 DEF encode_response
<1>4. U32(<<B(9), B(11)>>) = U16(B(9)) \o U16(B(11))
  BY DEF U32
<1>5. U32(<<B(13), B(15)>>) = U16(B(13)) \o U16(B(15))
  BY DEF U32
<1>6. \A i \in {5, 7, 9, 11, 13, 15, 17} : U16(B(i)) = Part(i, i + 1)
  <2> SUFFICES ASSUME NEW i \in {5, 7, 9, 11, 13, 15, 17} PROVE U16(B(i)) = Part(i, i + 1)
    OBVIOUS
  <2>1. i \in Nat /\ 1 <= i /\ i < Len(p)
    BY DEF CapabilitiesShape
  <2> QED BY <2>1, Pair, Zenon DEF B
<1>7. /\ U16(B(5)) = Part(5, 6) /\ U16(B(7)) = Part(7, 8) /\ U16(B(9)) = Part(9, 10)
      /\ U16(B(11)) = Part(11, 12) /\ U16(B(13)) = Part(13, 14) /\ U16(B(15)) = Part(15, 16)
      /\ U16(B(17)) = Part(17, 18)
  <2> HIDE DEF Part
  <2> QED BY <1>6
<1>8. U16(PROTOCOL_VERSION) = Part(1, 2)
  <2>1. 4 <= Len(p)
    BY DEF CapabilitiesShape
  <2> QED BY <2>1, VersionFine, Zenon
<1>9. <<129, 0>> = Part(3, 4)
  <2>1. 3 \in Nat /\ 4 = 3 + 1 /\ 1 <= 3 /\ 4 <= Len(p)
    BY DEF CapabilitiesShape
  <2>2. <<p[3], p[4]>> = SubSeq(p, 3, 4)
    BY <2>1, PairIs, Zenon
  <2> QED BY <2>2 DEF CapabilitiesShape
<1>10. <<0, 0>> = Part(33, 34)
  <2>1. 33 \in Nat /\ 34 = 33 + 1 /\ 1 <= 33 /\ 34 <= Len(p)
    BY DEF CapabilitiesShape
  <2>2. <<p[33], p[34]>> = SubSeq(p, 33, 34)
    BY <2>1, PairIs, Zenon
  <2> QED BY <2>2 DEF CapabilitiesShape
<1>11. support_bytes(decode_support(p, 19)) = Part(19, 32)
  <2>1. 19 \in Nat /\ 32 = 19 + 13 /\ 1 <= 19 /\ 32 <= Len(p)
    BY DEF CapabilitiesShape
  <2> QED BY <2>1, SupportIs, Zenon
<1> DEFINE Joins(a, b, d, c) == Part(a, b) \o Part(d, c) = Part(a, c)
<1>12. \A a, b, d, c \in Nat :
          1 <= a /\ a <= b /\ b < c /\ c <= 34 /\ d = b + 1 => Joins(a, b, d, c)
  BY Join DEF CapabilitiesShape
<1>13. Part(1, 34) = p
  BY WholePayload DEF CapabilitiesShape
<1> HIDE DEF Part, Joins
<1>14. /\ Joins(1, 2, 3, 4) /\ Joins(1, 4, 5, 6) /\ Joins(1, 6, 7, 8) /\ Joins(9, 10, 11, 12)
       /\ Joins(1, 8, 9, 12) /\ Joins(13, 14, 15, 16) /\ Joins(1, 12, 13, 16)
       /\ Joins(1, 16, 17, 18) /\ Joins(1, 18, 19, 32) /\ Joins(1, 32, 33, 34)
  BY <1>12
<1>15. U16(PROTOCOL_VERSION) \o <<129, 0>> \o U16(B(5)) \o U16(B(7)) = Part(1, 8)
  <2>1. U16(PROTOCOL_VERSION) \o <<129, 0>> = Part(1, 4)
    BY <1>8, <1>9, <1>14, Zenon DEF Joins
  <2>2. Part(1, 4) \o U16(B(5)) = Part(1, 6)
    BY <1>7, <1>14, Zenon DEF Joins
  <2>3. Part(1, 6) \o U16(B(7)) = Part(1, 8)
    BY <1>7, <1>14, Zenon DEF Joins
  <2> QED BY <2>1, <2>2, <2>3, Zenon
<1>16. U32(<<B(9), B(11)>>) = Part(9, 12) /\ U32(<<B(13), B(15)>>) = Part(13, 16)
  BY <1>4, <1>5, <1>7, <1>14, Zenon DEF Joins
<1>17. U16(PROTOCOL_VERSION) \o <<129, 0>> \o U16(B(5)) \o U16(B(7))
          \o U32(<<B(9), B(11)>>) \o U32(<<B(13), B(15)>>) = Part(1, 16)
  <2>1. Part(1, 8) \o Part(9, 12) = Part(1, 12) /\ Part(1, 12) \o Part(13, 16) = Part(1, 16)
    BY <1>14, Zenon DEF Joins
  <2> QED BY <1>15, <1>16, <2>1, Zenon
<1>18. encode_response(m) = Part(1, 16) \o U16(B(17)) \o support_bytes(decode_support(p, 19)) \o <<0, 0>>
  BY <1>3, <1>17, Zenon
<1>19. Part(1, 16) \o U16(B(17)) \o support_bytes(decode_support(p, 19)) = Part(1, 32)
  <2>1. Part(1, 16) \o Part(17, 18) = Part(1, 18) /\ Part(1, 18) \o Part(19, 32) = Part(1, 32)
    BY <1>14, Zenon DEF Joins
  <2>2. Part(1, 16) \o U16(B(17)) = Part(1, 18)
    BY <1>7, <2>1, Zenon
  <2> QED BY <1>11, <2>1, <2>2, Zenon
<1>20. encode_response(m) = p
  BY <1>10, <1>13, <1>14, <1>18, <1>19, Zenon DEF Joins
<1> QED BY <1>1, <1>20, Zenon

(* For every payload: it is refused, or it is the encoding of what it      *)
(* decodes to.                                                             *)
LEMMA ResponseCanonical ==
    ASSUME NEW p \in Seq(Octets), decode_response(p).type \notin Failures
    PROVE  encode_response(decode_response(p)) = p
<1> DEFINE IsCapabilities ==
               /\ p[3] = 129 /\ Len(p) = 34 /\ p[33] = 0 /\ p[34] = 0 /\ from_wire(p, 19)
               /\ decode_response(p) = decode_capabilities(p)
           IsStatus ==
               /\ p[3] = 130 /\ Len(p) = 19 /\ p[5] = 2 /\ from_wire(p, 6)
               /\ decode_response(p) = decode_status(p)
           IsError ==
               /\ p[3] = 255 /\ Len(p) = 5 /\ p[5] \in 1..3
               /\ decode_response(p) = [type |-> "Error", code |-> ErrorCode[p[5]]]
<1>1. p[4] = 0 /\ validate_version(p) = "ok"
  BY ResponseKinds, Zenon
<1>2. CASE IsCapabilities
  <2>1. CapabilitiesShape(p)
    BY <1>1, <1>2 DEF CapabilitiesShape
  <2>2. from_wire(p, 19) /\ decode_response(p) = decode_capabilities(p)
    BY <1>2
  <2> HIDE DEF IsCapabilities
  <2>3. encode_response(decode_capabilities(p)) = p
    BY <1>1, <2>1, <2>2, CapabilitiesCanonical
  <2> QED BY <2>2, <2>3, Zenon
<1>3. CASE IsStatus
  <2>1. StatusShape(p)
    BY <1>1, <1>3 DEF StatusShape
  <2>2. from_wire(p, 6) /\ decode_response(p) = decode_status(p)
    BY <1>3
  <2> HIDE DEF IsStatus
  <2>3. encode_response(decode_status(p)) = p
    BY <1>1, <2>1, <2>2, StatusCanonical
  <2> QED BY <2>2, <2>3, Zenon
<1>4. CASE IsError
  BY <1>1, <1>4, ErrorCanonical, Zenon
<1>5. IsCapabilities \/ IsStatus \/ IsError
  BY ResponseKinds
<1> HIDE DEF IsCapabilities, IsStatus, IsError
<1> QED BY <1>2, <1>3, <1>4, <1>5, Zenon

-----------------------------------------------------------------------------
(* The messages of the engine, as bytes: what these bytes decode to has    *)
(* them as its encoding.                                                   *)
LEMMA RequestRoundTrip ==
    ASSUME NEW m \in EngineRequests
    PROVE  /\ encode_request(m) \in Seq(Octets)
           /\ decode_request(encode_request(m)) = m
           /\ decode_response(encode_request(m)).type \in Failures
<1> DEFINE k == IF m.type = "Capabilities?" THEN 1 ELSE 2
           p == <<0, 2, k, 0>>
<1>1. k \in {1, 2} /\ m = [type |-> IF k = 1 THEN "Capabilities?" ELSE "Status?"]
  BY DEF EngineRequests
<1> HIDE DEF k
<1>2. p \in Seq(Octets)
  BY <1>1 DEF Octets
<1>3. Len(p) = 4 /\ p[1] = 0 /\ p[2] = 2 /\ p[3] = k /\ p[4] = 0 /\ p # << >>
  OBVIOUS
<1> HIDE DEF p
<1>4. validate_payload(p, MAX_REQUEST_BYTES) = "ok" /\ validate_version(p) = "ok"
  BY <1>3 DEF validate_payload, MAX_REQUEST_BYTES, validate_version, u16_from_be_bytes, PROTOCOL_VERSION
<1>5. decode_request(p) = m
  BY <1>1, <1>3, <1>4 DEF decode_request
<1>6. encode_request(m) = p
  <2>1. m.type \notin Failures
    BY <1>1 DEF Failures
  <2> QED BY <1>2, <1>5, <2>1, RequestCanonical, Zenon
<1>7. decode_response(p).type \in Failures
  <2>1. decode_response(p) \in {InvalidPayload, [type |-> validate_payload(p, MAX_RESPONSE_BYTES)]}
    BY <1>3 DEF decode_response
  <2>2. validate_payload(p, MAX_RESPONSE_BYTES) = "ok" => decode_response(p) = InvalidPayload
    BY <1>3 DEF decode_response
  <2> QED BY <2>1, <2>2, Refusals
<1> QED BY <1>2, <1>5, <1>6, <1>7, Zenon

(* A response is longer than every request. *)
LEMMA NoRequest ==
    ASSUME NEW p \in Seq(Octets), Len(p) # 4
    PROVE  decode_request(p).type \in Failures
<1>1. decode_request(p) \in {InvalidPayload, [type |-> validate_payload(p, MAX_REQUEST_BYTES)]}
  BY DEF decode_request
<1>2. validate_payload(p, MAX_REQUEST_BYTES) = "ok" => decode_request(p) = InvalidPayload
  BY DEF decode_request
<1> QED BY <1>1, <1>2, Refusals

LEMMA ResponseVersion ==
    ASSUME NEW p \in Seq(Octets), Len(p) \in 5..34, p[1] = 0, p[2] = 2
    PROVE  validate_payload(p, MAX_RESPONSE_BYTES) = "ok" /\ validate_version(p) = "ok"
<1>1. p # << >>
  OBVIOUS
<1>2. ~(Len(p) > MAX_RESPONSE_BYTES) /\ ~(Len(p) < 2)
  <2> DEFINE n == Len(p)
  <2>1. n \in 5..34
    OBVIOUS
  <2> HIDE DEF n
  <2>2. ~(n > MAX_RESPONSE_BYTES) /\ ~(n < 2)
    BY <2>1 DEF MAX_RESPONSE_BYTES
  <2> QED BY <2>2 DEF n
<1>3. u16_from_be_bytes(p, 1) = PROTOCOL_VERSION
  BY DEF u16_from_be_bytes, PROTOCOL_VERSION
<1> QED BY <1>1, <1>2, <1>3, Zenon DEF validate_payload, validate_version

LEMMA ErrorRoundTrip ==
    ASSUME NEW i \in 1..3
    PROVE  LET m == [type |-> "Error", code |-> ErrorCode[i]]
           IN  /\ encode_response(m) \in Seq(Octets)
               /\ decode_response(encode_response(m)) = m
               /\ decode_request(encode_response(m)).type \in Failures
<1> DEFINE m == [type |-> "Error", code |-> ErrorCode[i]]
           p == <<0, 2, 255, 0, i>>
<1>1. p \in Seq(Octets)
  BY DEF Octets
<1>2. Len(p) = 5 /\ p[1] = 0 /\ p[2] = 2 /\ p[3] = 255 /\ p[4] = 0 /\ p[5] = i
  OBVIOUS
<1> HIDE DEF p
<1>3. validate_payload(p, MAX_RESPONSE_BYTES) = "ok" /\ validate_version(p) = "ok"
  BY <1>1, <1>2, ResponseVersion
<1>4. decode_response(p) = m
  BY <1>2, <1>3 DEF decode_response
<1>5. encode_response(m) = p
  <2>1. m.type \notin Failures
    BY DEF Failures
  <2> HIDE DEF m
  <2> QED BY <1>1, <1>4, <2>1, ResponseCanonical, Zenon
<1>6. decode_request(p).type \in Failures
  <2>1. Len(p) # 4
    BY <1>2
  <2> QED BY <1>1, <2>1, NoRequest, Zenon
<1> HIDE DEF m
<1> QED BY <1>1, <1>4, <1>5, <1>6, Zenon DEF m

(* The 14 bytes that say what the engine supports. *)
SupportedBytes == <<1, 1, 1, 1, 1, 1, 0, 0, 0, 0, 0, 1, 0, 0>>

LEMMA SupportedDecoded ==
    ASSUME NEW p, NEW a \in Nat, \A i \in 1..14 : p[a + i - 1] = SupportedBytes[i]
    PROVE  from_wire(p, a) /\ decode_support(p, a) = Supported
<1>1. \A i \in 1..14 : SupportedBytes[i] \in {0, 1}
  BY DEF SupportedBytes
<1>2. from_wire(p, a)
  BY <1>1 DEF from_wire
<1>3. decode_support(p, a) = {Supports[i] : i \in {j \in 1..14 : SupportedBytes[j] = 1}}
  BY DEF decode_support
<1>4. {j \in 1..14 : SupportedBytes[j] = 1} = {1, 2, 3, 4, 5, 6, 12}
  BY DEF SupportedBytes
<1>5. {Supports[i] : i \in {1, 2, 3, 4, 5, 6, 12}} = Supported
  BY DEF Supports, Supported
<1> QED BY <1>2, <1>3, <1>4, <1>5

LEMMA StatusRoundTrip ==
    LET m == StatusLocalIdentity
    IN  /\ encode_response(m) \in Seq(Octets)
        /\ decode_response(encode_response(m)) = m
        /\ decode_request(encode_response(m)).type \in Failures
<1> DEFINE m == StatusLocalIdentity
           p == <<0, 2, 130, 0, 2, 1, 1, 1, 1, 1, 1, 0, 0, 0, 0, 0, 1, 0, 0>>
<1>1. p \in Seq(Octets)
  BY DEF Octets
<1>2. Len(p) = 19 /\ p[1] = 0 /\ p[2] = 2 /\ p[3] = 130 /\ p[4] = 0 /\ p[5] = 2
  OBVIOUS
<1>3. \A i \in 1..14 : p[6 + i - 1] = SupportedBytes[i]
  BY DEF SupportedBytes
<1> HIDE DEF p
<1>4. validate_payload(p, MAX_RESPONSE_BYTES) = "ok" /\ validate_version(p) = "ok"
  BY <1>1, <1>2, ResponseVersion
<1>5. from_wire(p, 6) /\ decode_support(p, 6) = Supported
  BY <1>3, SupportedDecoded
<1>6. decode_status(p) = m
  BY <1>2, <1>5 DEF decode_status, StatusLocalIdentity
<1>7. decode_response(p) = decode_status(p)
  BY <1>2, <1>4 DEF decode_response
<1>8. encode_response(m) = p
  <2>1. m.type \notin Failures
    BY DEF Failures, StatusLocalIdentity
  <2> HIDE DEF m
  <2> QED BY <1>1, <1>6, <1>7, <2>1, ResponseCanonical, Zenon
<1>9. decode_request(p).type \in Failures
  <2>1. Len(p) # 4
    BY <1>2
  <2> QED BY <1>1, <2>1, NoRequest, Zenon
<1> HIDE DEF m
<1> QED BY <1>1, <1>6, <1>7, <1>8, <1>9, Zenon DEF m

LEMMA CapabilitiesRoundTrip ==
    LET m == CapabilitiesLocalIdentity
    IN  /\ encode_response(m) \in Seq(Octets)
        /\ decode_response(encode_response(m)) = m
        /\ decode_request(encode_response(m)).type \in Failures
<1> DEFINE m == CapabilitiesLocalIdentity
           p == <<0, 2, 129, 0, 0, 2, 0, 2, 0, 0, 16, 0, 0, 0, 64, 0, 0, 3,
                  1, 1, 1, 1, 1, 1, 0, 0, 0, 0, 0, 1, 0, 0, 0, 0>>
<1>1. p \in Seq(Octets)
  BY DEF Octets
<1>2. Len(p) = 34 /\ p[1] = 0 /\ p[2] = 2 /\ p[3] = 129 /\ p[4] = 0 /\ p[33] = 0 /\ p[34] = 0
  OBVIOUS
<1>3. /\ p[5] = 0 /\ p[6] = 2 /\ p[7] = 0 /\ p[8] = 2 /\ p[9] = 0 /\ p[10] = 0 /\ p[11] = 16
      /\ p[12] = 0 /\ p[13] = 0 /\ p[14] = 0 /\ p[15] = 64 /\ p[16] = 0 /\ p[17] = 0 /\ p[18] = 3
  OBVIOUS
<1>4. \A i \in 1..14 : p[19 + i - 1] = SupportedBytes[i]
  BY DEF SupportedBytes
<1> HIDE DEF p
<1>5. validate_payload(p, MAX_RESPONSE_BYTES) = "ok" /\ validate_version(p) = "ok"
  BY <1>1, <1>2, ResponseVersion
<1>6. from_wire(p, 19) /\ decode_support(p, 19) = Supported
  BY <1>4, SupportedDecoded
<1>7. /\ u16_from_be_bytes(p, 5) = 2 /\ u16_from_be_bytes(p, 7) = 2
      /\ u16_from_be_bytes(p, 9) = 0 /\ u16_from_be_bytes(p, 11) = 4096
      /\ u16_from_be_bytes(p, 13) = 0 /\ u16_from_be_bytes(p, 15) = 16384
      /\ u16_from_be_bytes(p, 17) = 3
  BY <1>3 DEF u16_from_be_bytes
<1>8. decode_capabilities(p) = m
  <2>1. MAX_REQUEST_BYTES = 4096 /\ MAX_RESPONSE_BYTES = 16384 /\ PROTOCOL_VERSION = 2
    BY DEF MAX_REQUEST_BYTES, MAX_RESPONSE_BYTES, PROTOCOL_VERSION
  <2>2. decode_capabilities(p) =
           [type |-> "Capabilities",
            protocol_min |-> u16_from_be_bytes(p, 5), protocol_max |-> u16_from_be_bytes(p, 7),
            max_request_bytes |-> <<u16_from_be_bytes(p, 9), u16_from_be_bytes(p, 11)>>,
            max_response_bytes |-> <<u16_from_be_bytes(p, 13), u16_from_be_bytes(p, 15)>>,
            operations |-> u16_from_be_bytes(p, 17), supported |-> decode_support(p, 19)]
    BY <1>2, <1>6 DEF decode_capabilities
  <2>3. m = [type |-> "Capabilities", protocol_min |-> 2, protocol_max |-> 2,
             max_request_bytes |-> <<0, 4096>>, max_response_bytes |-> <<0, 16384>>,
             operations |-> 3, supported |-> Supported]
    BY <2>1 DEF CapabilitiesLocalIdentity
  <2> HIDE DEF m
  <2> QED BY <1>6, <1>7, <2>2, <2>3
<1>9. decode_response(p) = decode_capabilities(p)
  BY <1>2, <1>5 DEF decode_response
<1>10. encode_response(m) = p
  <2>1. m.type \notin Failures
    BY DEF Failures, CapabilitiesLocalIdentity
  <2> HIDE DEF m
  <2> QED BY <1>1, <1>8, <1>9, <2>1, ResponseCanonical, Zenon
<1>11. decode_request(p).type \in Failures
  <2>1. Len(p) # 4
    BY <1>2
  <2> QED BY <1>1, <2>1, NoRequest, Zenon
<1> HIDE DEF m
<1> QED BY <1>1, <1>8, <1>9, <1>10, <1>11, Zenon DEF m

-----------------------------------------------------------------------------
CodecInv ==
    /\ message \in EngineMessages /\ payload \in Seq(Octets) /\ edits \in 0..MaxEdits
    /\ edits = 0 => payload = encode(message)

LEMMA NoResponseIsRequest ==
    ASSUME NEW m \in EngineMessages, m \notin EngineRequests
    PROVE  \/ m = CapabilitiesLocalIdentity \/ m = StatusLocalIdentity
           \/ \E i \in 1..3 : m = [type |-> "Error", code |-> ErrorCode[i]]
  BY DEF EngineMessages

LEMMA EncodeDecode ==
    ASSUME NEW m \in EngineMessages
    PROVE  /\ encode(m) \in Seq(Octets)
           /\ IF m \in EngineRequests
              THEN decode_request(encode(m)) = m /\ decode_response(encode(m)).type \in Failures
              ELSE decode_response(encode(m)) = m /\ decode_request(encode(m)).type \in Failures
<1>1. CASE m \in EngineRequests
  BY <1>1, RequestRoundTrip, Zenon DEF encode
<1>2. CASE m \notin EngineRequests
  <2>1. encode(m) = encode_response(m)
    BY <1>2, Zenon DEF encode
  <2>2. CASE m = CapabilitiesLocalIdentity
    BY <1>2, <2>1, <2>2, CapabilitiesRoundTrip, Zenon
  <2>3. CASE m = StatusLocalIdentity
    BY <1>2, <2>1, <2>3, StatusRoundTrip, Zenon
  <2>4. CASE \E i \in 1..3 : m = [type |-> "Error", code |-> ErrorCode[i]]
    BY <1>2, <2>1, <2>4, ErrorRoundTrip, Zenon
  <2> QED BY <1>2, <2>2, <2>3, <2>4, NoResponseIsRequest, Zenon
<1> QED BY <1>1, <1>2, Zenon

(* decode_request and decode_response against encode_request and           *)
(* encode_response, on every payload a channel that edits bytes may make   *)
(* of a message: what was not touched decodes to what was encoded, and a   *)
(* payload is refused or is the one encoding of what it decodes to.        *)
THEOREM ParsersHold ==
    ASSUME CodecAssumption
    PROVE  CodecSpec => []ParsersExact
<1>1. ASSUME CodecInit PROVE CodecInv
  BY <1>1, EncodeDecode DEF CodecInit, CodecInv, CodecAssumption
<1>2. ASSUME CodecInv, [CodecNext]_codecVars PROVE CodecInv'
  <2>1. CASE UNCHANGED codecVars
    BY <1>2, <2>1 DEF CodecInv, codecVars
  <2>2. ASSUME Replace \/ Cut \/ Add, payload' \in Seq(Octets)
        PROVE  CodecInv'
    <3>1. /\ edits < MaxEdits /\ edits' = edits + 1 /\ message' = message
      BY <2>2 DEF Replace, Cut, Add
    <3> QED BY <1>2, <2>2, <3>1 DEF CodecInv, CodecAssumption
  <2>3. payload \in Seq(Octets) /\ EditBytes \subseteq Octets
    BY <1>2 DEF CodecInv, CodecAssumption, Octets
  <2>4. CASE Replace
    <3>1. PICK i \in 1..Len(payload), b \in EditBytes : payload' = [payload EXCEPT ![i] = b]
      BY <2>4 DEF Replace
    <3>2. payload' \in Seq(Octets)
      BY <2>3, <3>1
    <3> QED BY <2>2, <2>4, <3>2, Zenon
  <2>5. CASE Cut
    <3>1. payload' \in Seq(Octets)
      BY <2>3, <2>5 DEF Cut
    <3> QED BY <2>2, <2>5, <3>1, Zenon
  <2>6. CASE Add
    <3>1. payload' \in Seq(Octets)
      BY <2>3, <2>6 DEF Add
    <3> QED BY <2>2, <2>6, <3>1, Zenon
  <2> QED BY <1>2, <2>1, <2>4, <2>5, <2>6 DEF CodecNext
<1>3. ASSUME CodecInv PROVE ParsersExact
  <2>1. payload \in Seq(Octets) /\ message \in EngineMessages /\ (edits = 0 => payload = encode(message))
    BY <1>3 DEF CodecInv
  <2>2. RoundTrip
    BY <2>1, EncodeDecode, Zenon DEF RoundTrip
  <2>3. Canonical
    BY <2>1, RequestCanonical, ResponseCanonical, Zenon DEF Canonical
  <2> QED BY <2>2, <2>3 DEF ParsersExact
<1> QED BY <1>1, <1>2, <1>3, PTL DEF CodecSpec
====
