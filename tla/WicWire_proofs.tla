--------------------------- MODULE WicWire_proofs ---------------------------
(***************************************************************************)
(* Proofs about the numbers of the wire: the header of every frame, the    *)
(* base64 encoding of every text, the SHA-1 blocks of every message, and   *)
(* the table of utf8_parse.                                                *)
(***************************************************************************)
EXTENDS WicWire, SequenceTheorems, Induction_proofs, TLAPS

----------------------------------------------------------------------------
(* Sequences of numbers.                                                   *)

\* What a concatenation has at each place.
LEMMA ConcatNat ==
    ASSUME NEW a \in Seq(Nat), NEW b \in Seq(Nat)
    PROVE  /\ a \o b \in Seq(Nat) /\ Len(a) \in Nat /\ Len(b) \in Nat
           /\ Len(a \o b) = Len(a) + Len(b)
           /\ \A j \in 1 .. Len(a) : (a \o b)[j] = a[j]
           /\ \A j \in 1 .. Len(b) : (a \o b)[Len(a) + j] = b[j]
<1>1. /\ a \o b \in Seq(Nat) /\ Len(a) \in Nat /\ Len(b) \in Nat
      /\ Len(a \o b) = Len(a) + Len(b)
      /\ \A i \in 1 .. Len(a) + Len(b) :
            (a \o b)[i] = IF i <= Len(a) THEN a[i] ELSE b[i - Len(a)]
  BY ConcatProperties
<1> DEFINE c == a \o b
           n == Len(a)
           m == Len(b)
<1>2. n \in Nat /\ m \in Nat
  BY <1>1
<1>3. \A i \in 1 .. n + m : c[i] = IF i <= n THEN a[i] ELSE b[i - n]
  BY <1>1
<1> HIDE DEF c, n, m
<1>4. \A j \in 1 .. n : c[j] = a[j]
  BY <1>2, <1>3
<1>5. ASSUME NEW j \in 1 .. m PROVE c[n + j] = b[j]
  <2>1. n + j \in 1 .. n + m /\ ~(n + j <= n) /\ (n + j) - n = j
    BY <1>2
  <2> QED
    BY <1>3, <2>1
<1> QED
  BY <1>1, <1>4, <1>5 DEF c, n, m

\* Three sequences in a row.
LEMMA ThreeInARow ==
    ASSUME NEW a \in Seq(Nat), NEW b \in Seq(Nat), NEW c \in Seq(Nat)
    PROVE  (a \o b) \o c = a \o (b \o c)
  BY ONLY ConcatAssociative, a \in Seq(Nat), b \in Seq(Nat), c \in Seq(Nat)

\* The type of a concatenation.
LEMMA TwoInARow ==
    ASSUME NEW a \in Seq(Nat), NEW b \in Seq(Nat)
    PROVE  a \o b \in Seq(Nat)
  OBVIOUS

\* What a sequence with one more in front has at each place.
LEMMA ConsNat ==
    ASSUME NEW a \in Nat, NEW m \in Seq(Nat)
    PROVE  /\ <<a>> \o m \in Seq(Nat) /\ Len(<<a>> \o m) = 1 + Len(m)
           /\ (<<a>> \o m)[1] = a
           /\ \A j \in 1 .. Len(m) : (<<a>> \o m)[1 + j] = m[j]
<1> DEFINE b == <<a>>
<1>1. b \in Seq(Nat) /\ Len(b) = 1 /\ b[1] = a
  OBVIOUS
<1> HIDE DEF b
<1>2. 1 \in 1 .. Len(b)
  BY <1>1
<1> QED
  BY <1>1, <1>2, ConcatNat DEF b

\* A sequence with one more at its end.
LEMMA AppendIs ==
    ASSUME NEW s \in Seq(Nat), NEW u \in Seq(Nat), NEW n \in Nat, NEW x \in Nat,
           Len(s) = n, Len(u) = n + 1, u[n + 1] = x,
           \A j \in 1 .. n : u[j] = s[j]
    PROVE  Append(s, x) = u
<1> DEFINE a == Append(s, x)
<1>1. /\ a \in Seq(Nat) /\ Len(a) = n + 1
      /\ \A j \in 1 .. n : a[j] = s[j]
      /\ a[n + 1] = x
  BY AppendProperties
<1> HIDE DEF a
<1>2. PICK m \in Nat : m = n + 1
  OBVIOUS
<1>3. a[m] = u[m] /\ \A j \in 1 .. m : j \in 1 .. n \/ j = m
  BY <1>1, <1>2
<1>4. \A j \in 1 .. m : u[j] = a[j]
  BY <1>1, <1>3
<1> QED
  BY <1>1, <1>2, <1>4, SeqEqual DEF a

----------------------------------------------------------------------------
(* The bytes of a size.                                                    *)

\* The function that Shifted defines exists, and has numbers.
LEMMA ShiftedIs ==
    ASSUME NEW n \in Nat
    PROVE  /\ Shifted(n)[0] = n
           /\ \A k \in 0 .. 8 : Shifted(n)[k] \in Nat
           /\ \A k \in 1 .. 8 : Shifted(n)[k] = Shifted(n)[k - 1] \div 256
<1> DEFINE Is(s) == s = [k \in 0 .. 8 |-> IF k = 0 THEN n ELSE s[k - 1] \div 256]
           d1 == n \div 256
           d2 == d1 \div 256
           d3 == d2 \div 256
           d4 == d3 \div 256
           d5 == d4 \div 256
           d6 == d5 \div 256
           d7 == d6 \div 256
           t == [k \in 0 .. 8 |->
                   CASE k = 0 -> n [] k = 1 -> d1 [] k = 2 -> d2 [] k = 3 -> d3
                     [] k = 4 -> d4 [] k = 5 -> d5 [] k = 6 -> d6 [] k = 7 -> d7
                     [] OTHER -> d7 \div 256]
           s == CHOOSE f : Is(f)
<1>1. Is(t)
  <2>1. ASSUME NEW k \in 0 .. 8
        PROVE  t[k] = IF k = 0 THEN n ELSE t[k - 1] \div 256
    <3>1. /\ t[0] = n /\ t[1] = n \div 256 /\ t[2] = d1 \div 256
          /\ t[3] = d2 \div 256 /\ t[4] = d3 \div 256 /\ t[5] = d4 \div 256
          /\ t[6] = d5 \div 256 /\ t[7] = d6 \div 256 /\ t[8] = d7 \div 256
          /\ t[1] = d1 /\ t[2] = d2 /\ t[3] = d3 /\ t[4] = d4 /\ t[5] = d5
          /\ t[6] = d6 /\ t[7] = d7
      OBVIOUS
    <3> HIDE DEF d1, d2, d3, d4, d5, d6, d7, t
    <3>2. /\ t[1] = t[0] \div 256 /\ t[2] = t[1] \div 256 /\ t[3] = t[2] \div 256
          /\ t[4] = t[3] \div 256 /\ t[5] = t[4] \div 256 /\ t[6] = t[5] \div 256
          /\ t[7] = t[6] \div 256 /\ t[8] = t[7] \div 256
      BY <3>1
    <3>3. CASE k = 0
      BY <3>1, <3>3
    <3>4. ASSUME NEW i \in 0 .. 7, k = i + 1, t[i + 1] = t[i] \div 256
          PROVE  t[k] = IF k = 0 THEN n ELSE t[k - 1] \div 256
      <4>1. k # 0 /\ k - 1 = i
        BY <3>4
      <4> QED
        BY <3>4, <4>1
    <3>5. \A i \in 0 .. 7 : t[i + 1] = t[i] \div 256
      <4> SUFFICES ASSUME NEW i \in 0 .. 7 PROVE t[i + 1] = t[i] \div 256
        OBVIOUS
      <4>1. CASE i = 0
        <5>1. i + 1 = 1
          BY <4>1
        <5> QED
          BY <3>2, <4>1, <5>1
      <4>2. CASE i = 1
        <5>1. i + 1 = 2
          BY <4>2
        <5> QED
          BY <3>2, <4>2, <5>1
      <4>3. CASE i = 2
        <5>1. i + 1 = 3
          BY <4>3
        <5> QED
          BY <3>2, <4>3, <5>1
      <4>4. CASE i = 3
        <5>1. i + 1 = 4
          BY <4>4
        <5> QED
          BY <3>2, <4>4, <5>1
      <4>5. CASE i = 4
        <5>1. i + 1 = 5
          BY <4>5
        <5> QED
          BY <3>2, <4>5, <5>1
      <4>6. CASE i = 5
        <5>1. i + 1 = 6
          BY <4>6
        <5> QED
          BY <3>2, <4>6, <5>1
      <4>7. CASE i = 6
        <5>1. i + 1 = 7
          BY <4>7
        <5> QED
          BY <3>2, <4>7, <5>1
      <4>8. CASE i = 7
        <5>1. i + 1 = 8
          BY <4>8
        <5> QED
          BY <3>2, <4>8, <5>1
      <4> QED
        BY <4>1, <4>2, <4>3, <4>4, <4>5, <4>6, <4>7, <4>8
    <3>6. k = 0 \/ \E i \in 0 .. 7 : k = i + 1
      <4>1. k = 0 \/ (k - 1 \in 0 .. 7 /\ k = (k - 1) + 1)
        OBVIOUS
      <4> QED
        BY <4>1
    <3> QED
      BY <3>3, <3>4, <3>5, <3>6
  <2>2. DOMAIN t = 0 .. 8 /\ t = [k \in 0 .. 8 |-> t[k]]
    OBVIOUS
  <2> HIDE DEF t
  <2> QED
    BY <2>1, <2>2
<1>2. Is(s)
  <2> HIDE DEF Is
  <2> QED
    BY <1>1
<1>3. Shifted(n) = s
  BY DEF Shifted
<1> HIDE DEF s, t
<1>4. s[0] = n /\ \A k \in 1 .. 8 : s[k] = s[k - 1] \div 256
  BY <1>2
<1>5. s[0] \in Nat
  BY <1>4
<1>6. ASSUME NEW k \in 0 .. 7, s[k] \in Nat PROVE s[k + 1] \in Nat
  BY <1>4, <1>6
<1>7. \A k \in 0 .. 8 : s[k] \in Nat
  BY <1>5, <1>6
<1> QED
  BY <1>3, <1>4, <1>7

\* The bytes of a number.
LEMMA BigEndianIs ==
    ASSUME NEW n \in Nat, NEW j \in 0 .. 8
    PROVE  /\ BigEndian(n, j) \in Seq(Nat) /\ Len(BigEndian(n, j)) = j
           /\ BigEndian(n, j) = [i \in 1 .. j |-> Shifted(n)[j - i] % 256]
<1> DEFINE S == Shifted(n)
           f == [i \in 1 .. j |-> S[j - i] % 256]
<1>1. \A k \in 0 .. 8 : S[k] \in Nat
  BY ShiftedIs
<1>2. BigEndian(n, j) = f
  BY DEF BigEndian
<1> HIDE DEF S
<1>3. ASSUME NEW i \in 1 .. j PROVE f[i] \in Nat
  <2>1. j - i \in 0 .. 8
    OBVIOUS
  <2>2. PICK x \in Nat : S[j - i] = x
    BY ONLY <1>1, <2>1
  <2>3. x % 256 \in Nat
    OBVIOUS
  <2> QED
    BY ONLY <2>2, <2>3, i \in 1 .. j
<1>4. DOMAIN f = 1 .. j /\ f = [i \in 1 .. j |-> f[i]] /\ j \in Nat
  OBVIOUS
<1>5. f \in Seq(Nat) /\ Len(f) = j
  <2> HIDE DEF f
  <2>1. f \in [1 .. j -> Nat]
    BY ONLY <1>3, <1>4
  <2> QED
    BY ONLY <1>4, <2>1
<1> HIDE DEF f
<1> QED
  BY ONLY <1>2, <1>5 DEF f, S

\* Without a byte of it there is nothing in front.
LEMMA BigEndianNone ==
    ASSUME NEW n \in Nat, NEW m \in Seq(Nat)
    PROVE  BigEndian(n, 0) \o m = m
<1>1. BigEndian(n, 0) = <<>>
  BY BigEndianIs, 0 \in 0 .. 8
<1> QED
  BY ONLY <1>1, m \in Seq(Nat), ConcatEmptySeq

\* The first byte of a number, and the others.
FirstByte(n, m, j) ==
    BigEndian(n, j) \o m = <<Shifted(n)[j - 1] % 256>> \o (BigEndian(n, j - 1) \o m)

LEMMA BigEndianNext ==
    ASSUME NEW n \in Nat, NEW m \in Seq(Nat), NEW j \in 1 .. 8
    PROVE  FirstByte(n, m, j)
<1> DEFINE S == Shifted(n)
<1>1. \A k \in 0 .. 8 : S[k] \in Nat
  BY ShiftedIs
<1> HIDE DEF S
<1>2. \A k \in 0 .. 8 : BigEndian(n, k) = [i \in 1 .. k |-> S[k - i] % 256]
  BY BigEndianIs DEF S
<1>3. ASSUME NEW k \in 0 .. 8
      PROVE  BigEndian(n, k) \in Seq(Nat) /\ Len(BigEndian(n, k)) = k
  BY ONLY n \in Nat, k \in 0 .. 8, BigEndianIs
<1>5. BigEndian(n, j) \o m = <<S[j - 1] % 256>> \o (BigEndian(n, j - 1) \o m)
  <2> DEFINE a == BigEndian(n, j)
             b == <<S[j - 1] % 256>>
             c == BigEndian(n, j - 1)
  <2>1. S[j - 1] \in Nat /\ j - 1 \in 0 .. 8 /\ j \in 0 .. 8
    BY <1>1
  <2>2. b \in Seq(Nat) /\ Len(b) = 1 /\ b[1] = S[j - 1] % 256
    BY <2>1
  <2>3. a \in Seq(Nat) /\ Len(a) = j /\ c \in Seq(Nat) /\ Len(c) = j - 1
    BY <1>3, <2>1
  <2>4. /\ \A i \in 1 .. j : a[i] = S[j - i] % 256
        /\ \A i \in 1 .. j - 1 : c[i] = S[j - 1 - i] % 256
    <3>1. a = [i \in 1 .. j |-> S[j - i] % 256]
      BY <1>2, <2>1
    <3>2. c = [i \in 1 .. j - 1 |-> S[j - 1 - i] % 256]
      BY <1>2, <2>1
    <3> HIDE DEF a, b, c
    <3> QED
      BY <3>1, <3>2
  <2> HIDE DEF a, b, c
  <2>5. a = b \o c
    <3> DEFINE d == b \o c
    <3>1. d \in Seq(Nat) /\ Len(d) = j
      <4>1. d \in Seq(Nat) /\ Len(d) = Len(b) + Len(c)
        BY <2>2, <2>3, ConcatNat
      <4> HIDE DEF d
      <4> QED
        BY <2>2, <2>3, <4>1
    <3>2. d[1] = S[j - 1] % 256
      <4>1. 1 \in 1 .. Len(b)
        BY <2>2
      <4>2. \A i \in 1 .. Len(b) : d[i] = b[i]
        <5>1. b \in Seq(Nat) /\ c \in Seq(Nat)
          BY <2>2, <2>3
        <5> QED
          BY ONLY <5>1, ConcatNat
      <4> HIDE DEF d
      <4> QED
        BY ONLY <2>2, <4>1, <4>2
    <3>3. \A i \in 1 .. j - 1 : d[1 + i] = c[i]
      <4>1. \A i \in 1 .. Len(c) : d[Len(b) + i] = c[i]
        <5>1. b \in Seq(Nat) /\ c \in Seq(Nat)
          BY <2>2, <2>3
        <5> QED
          BY ONLY <5>1, ConcatNat
      <4> HIDE DEF d
      <4> QED
        BY <2>2, <2>3, <4>1
    <3> HIDE DEF d
    <3>4. ASSUME NEW i \in 1 .. j PROVE a[i] = d[i]
      <4>1. CASE i = 1
        BY <2>4, <3>2, <4>1
      <4>2. CASE i # 1
        <5> DEFINE h == i - 1
        <5>1. h \in 1 .. j - 1 /\ i = 1 + h /\ j - 1 - h = j - i
          BY <4>2
        <5> HIDE DEF h
        <5>2. d[i] = c[h] /\ c[h] = S[j - 1 - h] % 256
          BY <2>4, <3>3, <5>1
        <5> QED
          BY <2>4, <5>1, <5>2
      <4> QED
        BY <4>1, <4>2
    <3>5. Len(a) = Len(d)
      BY <2>3, <3>1
    <3>6. \A i \in 1 .. Len(a) : a[i] = d[i]
      BY <2>3, <3>4
    <3>7. a = d
      BY <2>3, <3>1, <3>5, <3>6, SeqEqual
    <3> QED
      BY <3>7 DEF d
  <2>6. (b \o c) \o m = b \o (c \o m)
    <3>1. b \in Seq(Nat) /\ c \in Seq(Nat) /\ m \in Seq(Nat)
      BY <2>2, <2>3
    <3> QED
      BY ONLY <3>1, ThreeInARow, Zenon
  <2> QED
    BY <2>5, <2>6 DEF a, b, c
<1> QED
  BY ONLY <1>5, Zenon DEF S, FirstByte

\* A byte that is taken off the wire.
LEMMA ConsIs ==
    ASSUME NEW a \in Nat, NEW m \in Seq(Nat)
    PROVE  LET c == <<a>> \o m
           IN  c \in Seq(Nat) /\ c # <<>> /\ Head(c) = a /\ Tail(c) = m
<1> DEFINE c == <<a>> \o m
<1>1. /\ c \in Seq(Nat) /\ Len(c) = 1 + Len(m) /\ c[1] = a
      /\ \A i \in 1 .. Len(m) : c[1 + i] = m[i]
  OBVIOUS
<1> HIDE DEF c
<1>2. c # <<>> /\ Head(c) = a /\ Tail(c) \in Seq(Nat) /\ Len(Tail(c)) = Len(m)
      /\ \A i \in 1 .. Len(m) : Tail(c)[i] = c[1 + i]
  BY <1>1
<1>3. Tail(c) = m
  BY <1>1, <1>2, SeqEqual
<1> QED
  BY <1>1, <1>2, <1>3 DEF c

----------------------------------------------------------------------------
(* The frames.                                                             *)

\* A frame that is sent.
IsFrame(f) ==
    /\ f.fin \in BOOLEAN /\ f.opcode \in DOMAIN Opcodes /\ f.size \in Nat
    /\ f.masked \in BOOLEAN /\ f.mask = IF f.masked THEN Mask ELSE <<>>
    /\ f.by = "wic" => f.masked

\* The sizes that have two bytes.
Word == 0 .. 256 * 256 - 1

\* A size that ext bytes are written for.
Extends(f, ext) ==
    LET n == PayloadSize(f)
    IN  /\ IF ext = 0 THEN n < 126 ELSE Shifted(n)[ext] = 0
        /\ f.by = "wic" => n \in Word /\ ext = IF n <= 125 THEN 0 ELSE 2

\* The header's bytes: all of them, and those after the first.
SizeCode(n, ext) == IF ext = 0 THEN n ELSE IF ext = 2 THEN 126 ELSE 127
AfterOpcode(f, ext) ==
    <<Flag(f.masked) + SizeCode(PayloadSize(f), ext)>>
    \o (BigEndian(PayloadSize(f), ext) \o f.mask)
Header(f, ext) == <<Flag(f.fin) + Opcodes[f.opcode]>> \o AfterOpcode(f, ext)

\* The state in which j bytes of the size are left.
SizeLeft(ext, j) == IF ext = 2 THEN SizeState[3 - j] ELSE SizeState[11 - j]

KeyRead(i) == [k \in 1 .. i - 1 |-> Mask[k]]
KeyLeft(i) == [k \in 1 .. 5 - i |-> Mask[k + i - 1]]

Reading(f, state, size, masked, mask) ==
    [state |-> state, fin |-> f.fin, opcode |-> Opcodes[f.opcode],
     size |-> size, masked |-> masked, mask |-> mask]

\* What was read of a header, and what is left of it, after its first byte,
\* after i bytes of its size, and after those of its key.
AtSize(f, ext, r, w) ==
    r = Reading(f, "SIZE", 0, FALSE, <<>>) /\ w = AfterOpcode(f, ext)
AtExtended(f, ext, r, w) ==
    \E j \in 1 .. ext :
        /\ r = Reading(f, SizeLeft(ext, j), Shifted(PayloadSize(f))[j], f.masked, <<>>)
        /\ w = BigEndian(PayloadSize(f), j) \o f.mask
AtMask(f, r, w) ==
    /\ f.masked
    /\ \E i \in 1 .. 4 :
          /\ r = Reading(f, MaskState[i], PayloadSize(f), TRUE, KeyRead(i))
          /\ w = KeyLeft(i)
AtData(f, r, w) ==
    r = Reading(f, "DATA", PayloadSize(f), f.masked, f.mask) /\ w = <<>>

Stage(f, ext, r, w) ==
    \/ r = RxZero /\ w = Header(f, ext)
    \/ AtSize(f, ext, r, w)
    \/ AtExtended(f, ext, r, w)
    \/ AtMask(f, r, w)
    \/ AtData(f, r, w)

\* A header is on its way, and what was read is what its bytes said.
FrameInv ==
    /\ bench # "frame" => frame = NoFrame /\ wire = <<>> /\ rx = RxZero
    /\ bench = "frame" =>
          /\ IsFrame(frame)
          /\ \E ext \in {0, 2, 8} : Extends(frame, ext) /\ Stage(frame, ext, rx, wire)

\* The first two bytes hold a flag and a number each.
LEMMA FlagAndNumber ==
    ASSUME NEW b \in BOOLEAN, NEW x \in 0 .. 127
    PROVE  /\ Flag(b) + x \in Nat
           /\ (Flag(b) + x >= 128) = b
           /\ (Flag(b) + x) % 128 = x
           /\ x < 16 => OpcodeOf(Flag(b) + x) = x
BY DEF Flag, OpcodeOf

\* What is known of a frame that is sent.
LEMMA FrameFacts ==
    ASSUME NEW f, IsFrame(f), NEW ext \in {0, 2, 8}, Extends(f, ext)
    PROVE  /\ PayloadSize(f) \in Nat
           /\ Opcodes[f.opcode] \in 0 .. 15
           /\ f.mask \in Seq(Nat)
           /\ SizeCode(PayloadSize(f), ext) \in 0 .. 127
           /\ BigEndian(PayloadSize(f), ext) \o f.mask \in Seq(Nat)
           /\ AfterOpcode(f, ext) \in Seq(Nat)
<1>1. PayloadSize(f) \in Nat
  BY DEF IsFrame, PayloadSize
<1>2. Opcodes[f.opcode] \in 0 .. 15
  BY DEF IsFrame, Opcodes
<1>3. f.mask \in Seq(Nat)
  BY DEF IsFrame, Mask
<1>4. SizeCode(PayloadSize(f), ext) \in 0 .. 127
  BY <1>1 DEF SizeCode, Extends
<1>5. BigEndian(PayloadSize(f), ext) \in Seq(Nat)
  BY ONLY <1>1, BigEndianIs, ext \in 0 .. 8
<1>6. BigEndian(PayloadSize(f), ext) \o f.mask \in Seq(Nat)
  BY <1>3, <1>5, ConcatNat
<1>7. Flag(f.masked) + SizeCode(PayloadSize(f), ext) \in Nat
  BY <1>4, FlagAndNumber DEF IsFrame
<1> QED
  BY <1>1, <1>2, <1>3, <1>4, <1>6, <1>7, ConsNat DEF AfterOpcode

\* No two of the parser's states are the same.
LEMMA StatesDiffer ==
    /\ Len(SizeState) = 10 /\ DOMAIN SizeState = 1 .. 10
    /\ \A i \in 1 .. 10 : SizeState[i] \notin {"OPCODE", "SIZE", "DATA"}
    /\ \A i, j \in 1 .. 10 : SizeState[i] = SizeState[j] => i = j
    /\ DOMAIN MaskState = 1 .. 5
    /\ \A i \in 1 .. 4 : MaskState[i] \notin {"OPCODE", "SIZE", "DATA"}
    /\ \A i, j \in 1 .. 5 : MaskState[i] = MaskState[j] => i = j
    /\ \A i \in 1 .. 10, j \in 1 .. 5 : SizeState[i] # MaskState[j]
    /\ MaskState[1] = "MASK_0" /\ MaskState[5] = "DATA"
BY DEF SizeState, MaskState

\* The states in which the size is read.
LEMMA SizeLeftIs ==
    /\ SizeLeft(2, 2) = "SIZE_0" /\ SizeLeft(8, 8) = "SIZE_2"
    /\ \A ext \in {2, 8} : \A j \in 1 .. ext :
          /\ SizeLeft(ext, j) \in Range(SizeState)
          /\ SizeLeft(ext, j) \in {"SIZE_1", "SIZE_9"} <=> j = 1
          /\ j > 1 => \E h \in 1 .. 10 : /\ SizeLeft(ext, j) = SizeState[h]
                                         /\ SizeLeft(ext, j - 1) = SizeState[h + 1]
<1>1. SizeLeft(2, 2) = "SIZE_0" /\ SizeLeft(8, 8) = "SIZE_2"
  BY DEF SizeLeft, SizeState
<1>2. SizeState[2] = "SIZE_1" /\ SizeState[10] = "SIZE_9"
  BY DEF SizeState
<1>3. ASSUME NEW ext \in {2, 8}, NEW j \in 1 .. ext
      PROVE  /\ SizeLeft(ext, j) \in Range(SizeState)
             /\ SizeLeft(ext, j) \in {"SIZE_1", "SIZE_9"} <=> j = 1
             /\ j > 1 => \E h \in 1 .. 10 : /\ SizeLeft(ext, j) = SizeState[h]
                                            /\ SizeLeft(ext, j - 1) = SizeState[h + 1]
  <2> DEFINE h == IF ext = 2 THEN 3 - j ELSE 11 - j
  <2>1. h \in 1 .. 10 /\ SizeLeft(ext, j) = SizeState[h]
    BY DEF SizeLeft
  <2>2. h \in {2, 10} <=> j = 1
    OBVIOUS
  <2>3. j > 1 => SizeLeft(ext, j - 1) = SizeState[h + 1]
    <3> SUFFICES ASSUME j > 1 PROVE SizeLeft(ext, j - 1) = SizeState[h + 1]
      OBVIOUS
    <3>1. 3 - (j - 1) = (3 - j) + 1 /\ 11 - (j - 1) = (11 - j) + 1
      OBVIOUS
    <3> QED
      BY <3>1 DEF SizeLeft
  <2>4. SizeState[h] \in Range(SizeState)
    BY <2>1, StatesDiffer DEF Range
  <2>5. SizeState[h] \in {"SIZE_1", "SIZE_9"} <=> h \in {2, 10}
    <3> HIDE DEF h
    <3> QED
      BY <1>2, <2>1, StatesDiffer
  <2> HIDE DEF h
  <2> QED
    BY <2>1, <2>2, <2>3, <2>4, <2>5
<1> QED
  BY <1>1, <1>3

\* The key's bytes that were read, and those that were not.
LEMMA KeyIs ==
    /\ KeyRead(1) = <<>> /\ KeyLeft(1) = Mask /\ KeyRead(5) = Mask /\ KeyLeft(5) = <<>>
    /\ \A i \in 1 .. 4 : /\ Append(KeyRead(i), Head(KeyLeft(i))) = KeyRead(i + 1)
                        /\ Tail(KeyLeft(i)) = KeyLeft(i + 1)
<1>1. /\ KeyRead(1) = <<>> /\ KeyRead(2) = <<17>> /\ KeyRead(3) = <<17, 34>>
      /\ KeyRead(4) = <<17, 34, 51>> /\ KeyRead(5) = Mask
  BY DEF KeyRead, Mask
<1>2. /\ KeyLeft(1) = Mask /\ KeyLeft(2) = <<34, 51, 68>> /\ KeyLeft(3) = <<51, 68>>
      /\ KeyLeft(4) = <<68>> /\ KeyLeft(5) = <<>>
  BY DEF KeyLeft, Mask
<1>3. ASSUME NEW i \in 1 .. 4
      PROVE  /\ Append(KeyRead(i), Head(KeyLeft(i))) = KeyRead(i + 1)
             /\ Tail(KeyLeft(i)) = KeyLeft(i + 1)
  <2> DEFINE n == i - 1
             s == KeyRead(i)
             u == KeyRead(i + 1)
             x == Mask[i]
  <2>1. n \in Nat /\ i + 1 - 1 = n + 1 /\ i = n + 1 /\ x \in Nat
    BY DEF Mask
  <2>2. /\ s \in Seq(Nat) /\ u \in Seq(Nat) /\ Len(s) = n /\ Len(u) = n + 1
        /\ \A j \in 1 .. n : u[j] = s[j]
        /\ u[n + 1] = x
    <3>1. \A k \in 1 .. n + 1 : Mask[k] \in Nat
      BY DEF Mask
    <3> QED
      BY <2>1, <3>1 DEF KeyRead
  <2>3. Head(KeyLeft(i)) = x
    <3>1. i = 1 \/ i = 2 \/ i = 3 \/ i = 4
      OBVIOUS
    <3> QED
      BY <1>2, <3>1 DEF Mask
  <2>4. Tail(KeyLeft(i)) = KeyLeft(i + 1)
    <3>1. /\ Tail(KeyLeft(1)) = KeyLeft(2) /\ Tail(KeyLeft(2)) = KeyLeft(3)
          /\ Tail(KeyLeft(3)) = KeyLeft(4) /\ Tail(KeyLeft(4)) = KeyLeft(5)
      <4>1. /\ Tail(<<17, 34, 51, 68>>) = <<34, 51, 68>> /\ Tail(<<68>>) = <<>>
            /\ Tail(<<34, 51, 68>>) = <<51, 68>> /\ Tail(<<51, 68>>) = <<68>>
        OBVIOUS
      <4> QED
        BY <1>2, <4>1, Zenon DEF Mask
    <3>2. \/ i = 1 /\ i + 1 = 2
          \/ i = 2 /\ i + 1 = 3
          \/ i = 3 /\ i + 1 = 4
          \/ i = 4 /\ i + 1 = 5
      OBVIOUS
    <3> QED
      BY <3>1, <3>2
  <2> HIDE DEF n, s, u, x
  <2>5. Append(s, x) = u
    BY <2>1, <2>2, AppendIs
  <2> QED
    BY <2>3, <2>4, <2>5 DEF s, u
<1> QED
  BY <1>1, <1>2, <1>3

\* The state says what was read.
LEMMA StageOf ==
    ASSUME NEW f, NEW ext \in {0, 2, 8}, NEW r, NEW w, Stage(f, ext, r, w)
    PROVE  /\ r.state = "OPCODE" => r = RxZero /\ w = Header(f, ext)
           /\ r.state = "SIZE" => AtSize(f, ext, r, w)
           /\ r.state \in Range(SizeState) => AtExtended(f, ext, r, w)
           /\ r.state \in Range(MaskState) \ {"DATA"} => AtMask(f, r, w)
           /\ r.state = "DATA" => AtData(f, r, w)
<1>1. r = RxZero => r.state = "OPCODE"
  BY DEF RxZero
<1>2. AtSize(f, ext, r, w) => r.state = "SIZE"
  BY DEF AtSize, Reading
<1>3. AtExtended(f, ext, r, w) => r.state \in Range(SizeState)
  <2> SUFFICES ASSUME AtExtended(f, ext, r, w) PROVE r.state \in Range(SizeState)
    OBVIOUS
  <2>1. PICK j \in 1 .. ext : r.state = SizeLeft(ext, j)
    BY DEF AtExtended, Reading
  <2>2. ext \in {2, 8}
    OBVIOUS
  <2> QED
    BY <2>1, <2>2, SizeLeftIs
<1>4. AtMask(f, r, w) => r.state \in Range(MaskState) \ {"DATA"}
  <2>1. \A i \in 1 .. 4 : MaskState[i] \in Range(MaskState) \ {"DATA"}
    BY StatesDiffer DEF Range
  <2> QED
    BY <2>1 DEF AtMask, Reading
<1>5. AtData(f, r, w) => r.state = "DATA"
  BY DEF AtData, Reading
<1>6. /\ \A s \in Range(SizeState) : s \notin {"OPCODE", "SIZE", "DATA"} \cup Range(MaskState)
      /\ \A s \in Range(MaskState) \ {"DATA"} : s \notin {"OPCODE", "SIZE", "DATA"}
  <2>1. \A s \in Range(SizeState) : \E i \in 1 .. 10 : s = SizeState[i]
    BY StatesDiffer DEF Range
  <2>2. \A s \in Range(MaskState) : \E i \in 1 .. 5 : s = MaskState[i]
    BY StatesDiffer DEF Range
  <2>3. \A s \in Range(MaskState) \ {"DATA"} : \E i \in 1 .. 4 : s = MaskState[i]
    BY <2>2, StatesDiffer
  <2> QED
    BY <2>1, <2>2, <2>3, StatesDiffer
<1>7. "OPCODE" # "SIZE" /\ "OPCODE" # "DATA" /\ "SIZE" # "DATA"
  OBVIOUS
<1> QED
  BY <1>1, <1>2, <1>3, <1>4, <1>5, <1>6, <1>7 DEF Stage

\* What the first byte changes.
LEMMA ReadingStarts ==
    ASSUME NEW f, NEW fin, NEW opcode, f.fin = fin, Opcodes[f.opcode] = opcode,
           NEW r, r = RxZero,
           NEW q, q = [r EXCEPT !.fin = fin, !.opcode = opcode, !.state = "SIZE"]
    PROVE  q = Reading(f, "SIZE", 0, FALSE, <<>>)
BY DEF Reading, RxZero

\* The first byte is read.
LEMMA OpcodeRead ==
    ASSUME NEW f, IsFrame(f), NEW ext \in {0, 2, 8}, Extends(f, ext),
           NEW r, r = RxZero, NEW w, w = Header(f, ext),
           NEW fin, fin = (Head(w) >= 128)
    PROVE  AtSize(f, ext,
                  [r EXCEPT !.fin = fin,
                            !.opcode = OpcodeOf(Head(w)), !.state = "SIZE"],
                  Tail(w))
<1> DEFINE x == Opcodes[f.opcode]
           b == f.fin
           a == Flag(b) + x
           m == AfterOpcode(f, ext)
<1>1. x \in 0 .. 15 /\ m \in Seq(Nat) /\ b \in BOOLEAN
  BY FrameFacts DEF IsFrame
<1>2. w = <<a>> \o m
  BY DEF Header
<1> HIDE DEF x, b, m
<1>3. x \in 0 .. 127 /\ x < 16 /\ b \in BOOLEAN
  BY ONLY <1>1
<1>4. a \in Nat /\ (a >= 128) = b /\ OpcodeOf(a) = x
  BY ONLY <1>3, FlagAndNumber
<1> HIDE DEF a
<1>5. Head(w) = a /\ Tail(w) = m
  BY <1>1, <1>2, <1>4, ConsIs
<1>6. fin = b
  BY <1>4, <1>5
<1>7. [RxZero EXCEPT !.fin = fin, !.opcode = x, !.state = "SIZE"]
         = Reading(f, "SIZE", 0, FALSE, <<>>)
  <2>1. f.fin = fin /\ Opcodes[f.opcode] = x
    BY ONLY <1>6 DEF b, x
  <2> QED
    BY ONLY <2>1, ReadingStarts
<1> QED
  BY <1>4, <1>5, <1>7 DEF AtSize, m

\* What comes after the size: the key, or nothing.
LEMMA SizeRead ==
    ASSUME NEW f, IsFrame(f), NEW r, NEW w, w = f.mask,
           r = Reading(f, AfterSize(f.masked), PayloadSize(f), f.masked, <<>>)
    PROVE  AtMask(f, r, w) \/ AtData(f, r, w)
<1>1. CASE f.masked
  <2>1. r = Reading(f, MaskState[1], PayloadSize(f), TRUE, KeyRead(1)) /\ w = KeyLeft(1)
    BY <1>1, KeyIs, StatesDiffer DEF IsFrame, AfterSize
  <2> QED
    BY <1>1, <2>1, 1 \in 1 .. 4 DEF AtMask
<1>2. CASE ~f.masked
  BY <1>2 DEF AtData, IsFrame, AfterSize
<1> QED
  BY <1>1, <1>2

\* The second byte.
LEMMA SizeByte ==
    ASSUME NEW f, IsFrame(f), NEW ext \in {0, 2, 8}, Extends(f, ext),
           NEW r, NEW w, AtSize(f, ext, r, w)
    PROVE  /\ Head(w) = Flag(f.masked) + SizeCode(PayloadSize(f), ext)
           /\ Tail(w) = BigEndian(PayloadSize(f), ext) \o f.mask
<1> DEFINE x == SizeCode(PayloadSize(f), ext)
           b == f.masked
           a == Flag(b) + x
           m == BigEndian(PayloadSize(f), ext) \o f.mask
<1>1. x \in 0 .. 127 /\ m \in Seq(Nat) /\ b \in BOOLEAN
  BY FrameFacts DEF IsFrame
<1>2. w = <<a>> \o m
  BY DEF AtSize, AfterOpcode
<1> HIDE DEF x, b, m
<1>3. a \in Nat
  BY <1>1, FlagAndNumber
<1> HIDE DEF a
<1>4. Head(w) = a /\ Tail(w) = m
  BY <1>1, <1>2, <1>3, ConsIs
<1> QED
  BY <1>4 DEF a, b, x, m

\* The second byte is read.
LEMMA SizeCodeRead ==
    ASSUME NEW f, IsFrame(f), NEW ext \in {0, 2, 8}, Extends(f, ext),
           NEW size, NEW state,
           SizeCode(PayloadSize(f), ext) = 127 => size = 0 /\ state = "SIZE_2",
           SizeCode(PayloadSize(f), ext) = 126 => size = 0 /\ state = "SIZE_0",
           SizeCode(PayloadSize(f), ext) < 126 =>
              /\ size = SizeCode(PayloadSize(f), ext)
              /\ state = AfterSize(f.masked)
    PROVE  Stage(f, ext, Reading(f, state, size, f.masked, <<>>),
                 BigEndian(PayloadSize(f), ext) \o f.mask)
<1> DEFINE n == PayloadSize(f)
           m == BigEndian(n, ext) \o f.mask
           q == Reading(f, state, size, f.masked, <<>>)
<1>1. n \in Nat /\ f.mask \in Seq(Nat)
  BY FrameFacts
<1>3. BigEndian(n, 0) \o f.mask = f.mask
  BY ONLY <1>1, BigEndianNone
<1>4. ext = 0 => m = f.mask /\ n < 126
  BY <1>3 DEF Extends
<1>5. ext # 0 => Shifted(n)[ext] = 0
  BY DEF Extends
<1>7. q = Reading(f, state, size, f.masked, <<>>)
  OBVIOUS
<1> SUFFICES Stage(f, ext, q, m)
  OBVIOUS
<1> HIDE DEF m, n, q
<1>8. CASE ext = 0
  <2>1. SizeCode(n, ext) = n /\ n < 126
    BY <1>4, <1>8 DEF SizeCode, n
  <2>2. size = n /\ state = AfterSize(f.masked)
    BY <2>1 DEF n
  <2>3. q = Reading(f, AfterSize(f.masked), n, f.masked, <<>>)
    BY <1>7, <2>2
  <2>4. m = f.mask
    BY <1>4, <1>8
  <2>5. AtMask(f, q, m) \/ AtData(f, q, m)
    BY <2>3, <2>4, SizeRead DEF n
  <2> QED
    BY <2>5 DEF Stage
<1>9. ASSUME ext \in {2, 8}, q = Reading(f, SizeLeft(ext, ext), 0, f.masked, <<>>)
      PROVE  Stage(f, ext, q, m)
  <2>1. /\ q = Reading(f, SizeLeft(ext, ext), Shifted(PayloadSize(f))[ext],
                       f.masked, <<>>)
        /\ m = BigEndian(PayloadSize(f), ext) \o f.mask
        /\ ext \in 1 .. ext
    BY <1>5, <1>9 DEF m, n
  <2>2. AtExtended(f, ext, q, m)
    BY <2>1 DEF AtExtended
  <2> QED
    BY <2>2 DEF Stage
<1>10. CASE ext = 2
  <2>1. size = 0 /\ state = "SIZE_0"
    BY <1>10 DEF SizeCode
  <2>2. q = Reading(f, "SIZE_0", 0, f.masked, <<>>)
    BY <1>7, <2>1
  <2> QED
    BY <1>9, <1>10, <2>2, SizeLeftIs
<1>11. CASE ext = 8
  <2>1. size = 0 /\ state = "SIZE_2"
    BY <1>11 DEF SizeCode
  <2>2. q = Reading(f, "SIZE_2", 0, f.masked, <<>>)
    BY <1>7, <2>1
  <2> QED
    BY <1>9, <1>11, <2>2, SizeLeftIs
<1> QED
  BY <1>8, <1>10, <1>11

\* A byte of the size is read.
LEMMA ExtendedRead ==
    ASSUME NEW f, IsFrame(f), NEW ext \in {0, 2, 8}, Extends(f, ext),
           NEW r, NEW w, AtExtended(f, ext, r, w),
           NEW size, size = r.size * 256 + Head(w),
           NEW state,
           r.state \in {"SIZE_1", "SIZE_9"} => state = AfterSize(r.masked),
           r.state \notin {"SIZE_1", "SIZE_9"} =>
              \A i \in DOMAIN SizeState : SizeState[i] = r.state => state = SizeState[i + 1],
           NEW q, q = [r EXCEPT !.size = size, !.state = state]
    PROVE  Stage(f, ext, q, Tail(w))
<1> DEFINE n == PayloadSize(f)
           S == Shifted(n)
           k == f.mask
<1>1. n \in Nat /\ k \in Seq(Nat)
  BY FrameFacts
<1>2. PICK j \in 1 .. ext :
        /\ r = Reading(f, SizeLeft(ext, j), S[j], f.masked, <<>>)
        /\ w = BigEndian(n, j) \o k
  BY DEF AtExtended
<1>3. j \in 1 .. 8 /\ ext \in {2, 8} /\ j - 1 \in 0 .. 8
  BY <1>2
<1> HIDE DEF n
<1>4. /\ S[0] = n /\ S[j - 1] \in Nat /\ S[j] = S[j - 1] \div 256
  <2>1. /\ S[0] = n
        /\ \A h \in 0 .. 8 : S[h] \in Nat
        /\ \A h \in 1 .. 8 : S[h] = S[h - 1] \div 256
    BY ONLY <1>1, ShiftedIs
  <2> HIDE DEF S
  <2> QED
    BY ONLY <1>3, <2>1
<1> DEFINE a == S[j - 1] % 256
           m == BigEndian(n, j - 1) \o k
<1>5. w = <<a>> \o m /\ m \in Seq(Nat) /\ a \in Nat
  <2>1. BigEndian(n, j - 1) \in Seq(Nat)
    BY ONLY <1>1, <1>3, BigEndianIs
  <2>2. m \in Seq(Nat)
    BY ONLY <1>1, <2>1, TwoInARow
  <2>3. BigEndian(n, j) \o k = <<a>> \o m
    <3>1. n \in Nat /\ k \in Seq(Nat) /\ j \in 1 .. 8
      BY ONLY <1>1, <1>3
    <3> HIDE DEF k
    <3>2. FirstByte(n, k, j)
      BY ONLY <3>1, BigEndianNext
    <3> QED
      BY ONLY <3>2, Zenon DEF FirstByte
  <2>4. a \in Nat
    BY <1>4
  <2> QED
    BY <1>2, <2>2, <2>3, <2>4
<1> HIDE DEF m, S
<1>6. Head(w) = a /\ Tail(w) = m
  BY <1>5, ConsIs
<1>7. r.size = S[j] /\ r.state = SizeLeft(ext, j) /\ r.masked = f.masked
  BY <1>2 DEF Reading
<1>8. size = S[j - 1]
  BY <1>4, <1>6, <1>7
<1>9. q = Reading(f, state, S[j - 1], f.masked, <<>>)
  <2>1. r = Reading(f, SizeLeft(ext, j), S[j], f.masked, <<>>)
    BY <1>2
  <2>2. q = [r EXCEPT !.size = size, !.state = state]
    OBVIOUS
  <2> HIDE DEF S
  <2>3. q = Reading(f, state, size, f.masked, <<>>)
    BY ONLY <2>1, <2>2 DEF Reading
  <2> QED
    BY <1>8, <2>3
<1>10. CASE j = 1
  <2>1. state = AfterSize(f.masked)
    BY <1>3, <1>7, <1>10, SizeLeftIs
  <2>2. j - 1 = 0 /\ S[j - 1] = n
    BY <1>4, <1>10
  <2>3. Tail(w) = k
    <3>1. BigEndian(n, 0) \o k = k
      BY ONLY <1>1, BigEndianNone
    <3> QED
      BY <1>6, <2>2, <3>1 DEF m
  <2>4. AtMask(f, q, Tail(w)) \/ AtData(f, q, Tail(w))
    <3>1. q = Reading(f, AfterSize(f.masked), PayloadSize(f), f.masked, <<>>)
      BY <1>9, <2>1, <2>2 DEF n
    <3> QED
      BY <2>3, <3>1, SizeRead
  <2> QED
    BY <2>4 DEF Stage
<1>11. CASE j # 1
  <2>1. state = SizeLeft(ext, j - 1)
    <3>1. j > 1 /\ r.state \notin {"SIZE_1", "SIZE_9"}
      BY <1>3, <1>7, <1>11, SizeLeftIs
    <3>3. PICK h \in 1 .. 10 : /\ r.state = SizeState[h]
                               /\ SizeLeft(ext, j - 1) = SizeState[h + 1]
      BY <1>3, <1>7, <3>1, SizeLeftIs
    <3>4. h \in DOMAIN SizeState /\ SizeState[h] = r.state
      BY <3>3, StatesDiffer
    <3> QED
      BY <3>1, <3>3, <3>4
  <2>2. j - 1 \in 1 .. ext
    BY <1>11
  <2>3. AtExtended(f, ext, q, Tail(w))
    <3>1. /\ q = Reading(f, SizeLeft(ext, j - 1), Shifted(PayloadSize(f))[j - 1],
                         f.masked, <<>>)
          /\ Tail(w) = BigEndian(PayloadSize(f), j - 1) \o f.mask
      BY <1>6, <1>9, <2>1 DEF m, n, S
    <3> QED
      BY <2>2, <3>1 DEF AtExtended
  <2> QED
    BY <2>3 DEF Stage
<1> QED
  BY <1>10, <1>11

\* A byte of the key is read.
LEMMA MaskRead ==
    ASSUME NEW f, IsFrame(f), NEW ext, NEW r, NEW w, AtMask(f, r, w),
           NEW mask, mask = Append(r.mask, Head(w)),
           NEW state,
           \A i \in DOMAIN MaskState : MaskState[i] = r.state => state = MaskState[i + 1],
           NEW q, q = [r EXCEPT !.mask = mask, !.state = state]
    PROVE  Stage(f, ext, q, Tail(w))
<1> DEFINE n == PayloadSize(f)
<1>1. PICK i \in 1 .. 4 : /\ r = Reading(f, MaskState[i], n, TRUE, KeyRead(i))
                          /\ w = KeyLeft(i)
  BY DEF AtMask
<1>2. r.mask = KeyRead(i) /\ r.state = MaskState[i] /\ f.masked
  BY <1>1 DEF Reading, AtMask
<1>3. mask = KeyRead(i + 1) /\ Tail(w) = KeyLeft(i + 1)
  BY <1>1, <1>2, KeyIs
<1>4. state = MaskState[i + 1]
  BY <1>2, StatesDiffer
<1>5. q = Reading(f, state, n, TRUE, mask)
  <2>1. r = Reading(f, MaskState[i], n, TRUE, KeyRead(i))
    BY <1>1
  <2>2. q = [r EXCEPT !.mask = mask, !.state = state]
    OBVIOUS
  <2> HIDE DEF n
  <2> QED
    BY ONLY <2>1, <2>2 DEF Reading
<1>6. CASE i = 4
  <2>1. i + 1 = 5
    BY <1>6
  <2>2. mask = Mask /\ Tail(w) = <<>> /\ state = "DATA"
    BY <1>3, <1>4, <2>1, KeyIs, StatesDiffer
  <2>3. f.mask = Mask /\ f.masked = TRUE
    BY <1>2 DEF IsFrame
  <2>4. AtData(f, q, Tail(w))
    BY <1>5, <2>2, <2>3 DEF AtData
  <2> QED
    BY <2>4 DEF Stage
<1>7. CASE i # 4
  <2>1. i + 1 \in 1 .. 4
    BY <1>7
  <2>2. AtMask(f, q, Tail(w))
    BY <1>2, <1>3, <1>4, <1>5, <2>1 DEF AtMask
  <2> QED
    BY <2>2 DEF Stage
<1> QED
  BY <1>6, <1>7

\* A size of two bytes, and the first of them.
LEMMA WordIs ==
    ASSUME NEW n \in Word
    PROVE  n \in Nat /\ n \div 256 \in 0 .. 255
<1> DEFINE q == n \div 256
           r == n % 256
<1>1. n \in Nat /\ n < 256 * 256
  <2> DEFINE k == 256 * 256
  <2>1. k \in Int
    BY ONLY SMT
  <2>2. Word = 0 .. k - 1
    BY ONLY Zenon DEF Word
  <2> HIDE DEF k
  <2>3. n \in 0 .. k - 1
    BY ONLY n \in Word, <2>2, Zenon
  <2>4. n \in Nat /\ n < k
    BY ONLY <2>1, <2>3
  <2> QED
    BY ONLY <2>4, Zenon DEF k
<1>2. n = 256 * q + r /\ q \in Nat /\ r \in 0 .. 255
  BY <1>1, SMT
<1> HIDE DEF q, r
<1>3. q < 256
  BY <1>1, <1>2, SMT
<1>4. q \in 0 .. 255
  BY <1>2, <1>3, SMT
<1> QED
  BY <1>1, <1>4 DEF q

\* The bytes of a small size, as the sender writes them.
LEMMA TwoBytes ==
    ASSUME NEW n \in Word
    PROVE  /\ Shifted(n)[2] = 0
           /\ BigEndian(n, 0) = <<>>
           /\ BigEndian(n, 2) = <<(n \div 256) % 256, n % 256>>
<1>0. n \in Nat /\ n \div 256 \in 0 .. 255
  BY WordIs
<1>1. Shifted(n)[0] = n /\ Shifted(n)[1] = n \div 256
  <2>1. Shifted(n)[0] = n /\ \A k \in 1 .. 8 : Shifted(n)[k] = Shifted(n)[k - 1] \div 256
    BY <1>0, ShiftedIs
  <2>2. 1 - 1 = 0 /\ 1 \in 1 .. 8
    OBVIOUS
  <2> QED
    BY <2>1, <2>2
<1>2. Shifted(n)[2] = (n \div 256) \div 256
  <2>1. \A k \in 1 .. 8 : Shifted(n)[k] = Shifted(n)[k - 1] \div 256
    BY <1>0, ShiftedIs
  <2>2. 2 - 1 = 1 /\ 2 \in 1 .. 8
    OBVIOUS
  <2> QED
    BY <1>1, <2>1, <2>2
<1>3. (n \div 256) \div 256 = 0
  <2>1. PICK q \in 0 .. 255 : q = n \div 256
    BY ONLY <1>0
  <2>2. q \div 256 = 0
    OBVIOUS
  <2> QED
    BY ONLY <2>1, <2>2
<1>4. BigEndian(n, 0) = <<>>
  BY DEF BigEndian
<1> DEFINE b == BigEndian(n, 2)
           c == <<(n \div 256) % 256, n % 256>>
<1>5. b \in Seq(Nat) /\ Len(b) = 2
  BY ONLY <1>0, BigEndianIs, 2 \in 0 .. 8
<1>6. c \in Seq(Nat) /\ Len(c) = 2 /\ c[1] = (n \div 256) % 256 /\ c[2] = n % 256
  <2> DEFINE x == (n \div 256) % 256
             y == n % 256
  <2>1. x \in Nat /\ y \in Nat /\ c = <<x, y>>
    BY <1>0
  <2> HIDE DEF x, y, c
  <2>2. c \in Seq(Nat) /\ Len(c) = 2 /\ c[1] = x /\ c[2] = y
    BY <2>1
  <2> QED
    BY <2>2 DEF x, y
<1>7. b[1] = Shifted(n)[1] % 256 /\ b[2] = Shifted(n)[0] % 256
  <2>1. 2 - 1 = 1 /\ 2 - 2 = 0
    OBVIOUS
  <2> QED
    BY <2>1 DEF BigEndian
<1> HIDE DEF b, c
<1>8. \A i \in 1 .. 2 : b[i] = c[i]
  <2>1. b[1] = c[1] /\ b[2] = c[2]
    BY <1>1, <1>6, <1>7
  <2>2. \A i \in 1 .. 2 : i = 1 \/ i = 2
    OBVIOUS
  <2> QED
    BY <2>1, <2>2
<1>9. b = c
  <2>1. /\ b \in Seq(Nat) /\ c \in Seq(Nat) /\ Len(b) = Len(c)
        /\ \A i \in 1 .. Len(b) : b[i] = c[i]
    BY ONLY <1>5, <1>6, <1>8
  <2> QED
    BY ONLY <2>1, SeqEqual
<1> QED
  BY ONLY <1>2, <1>3, <1>4, <1>9 DEF b, c

\* What stream_put_frame writes is a header.
LEMMA PutHeaderIs ==
    ASSUME NEW f, IsFrame(f), f.masked, PayloadSize(f) \in Word,
           NEW ext, ext = IF PayloadSize(f) <= 125 THEN 0 ELSE 2
    PROVE  /\ Extends(f, ext)
           /\ PutHeader(f) = Header(f, ext)
<1> DEFINE n == PayloadSize(f)
           a == Flag(f.fin) + Opcodes[f.opcode]
           k == f.mask
<1>1. Extends(f, ext)
  <2>1. n \in Nat /\ Shifted(n)[2] = 0
    BY TwoBytes, WordIs
  <2> HIDE DEF n
  <2>2. IF ext = 0 THEN n < 126 ELSE Shifted(n)[ext] = 0
    BY <2>1 DEF n
  <2> QED
    BY <2>2 DEF Extends, n
<1>0. ext \in {0, 2, 8} /\ n \in Nat
  BY WordIs
<1>2. k \in Seq(Nat) /\ Opcodes[f.opcode] \in 0 .. 127 /\ f.fin \in BOOLEAN
  <2>1. k \in Seq(Nat) /\ Opcodes[f.opcode] \in 0 .. 15
    BY <1>0, <1>1, FrameFacts
  <2> QED
    BY <2>1 DEF IsFrame
<1>3. a \in Nat
  <2> DEFINE x == Opcodes[f.opcode]
             b == f.fin
  <2>1. x \in 0 .. 127 /\ b \in BOOLEAN
    BY <1>2
  <2> HIDE DEF x, b
  <2>2. Flag(b) + x \in Nat
    BY <2>1, FlagAndNumber
  <2> QED
    BY <2>2 DEF x, b
<1> DEFINE c == Flag(TRUE) + SizeCode(n, ext)
           e == BigEndian(n, ext)
<1>4. c \in Nat /\ e \in Seq(Nat)
  <2>1. c \in Nat
    BY <1>0 DEF Flag, SizeCode
  <2>2. ext \in 0 .. 8
    BY <1>0
  <2> HIDE DEF n
  <2>3. e \in Seq(Nat)
    BY ONLY <1>0, <2>2, BigEndianIs
  <2> QED
    BY <2>1, <2>3
<1>5. SizeBytes(n) = <<c>> \o e
  <2>1. CASE n <= 125
    <3>1. e = <<>> /\ c = Flag(TRUE) + n
      BY <2>1, TwoBytes DEF SizeCode
    <3>2. SizeBytes(n) = <<c>>
      <4> HIDE DEF c, n
      <4> QED
        BY <2>1, <3>1 DEF SizeBytes
    <3> HIDE DEF c, e
    <3>3. <<c>> \in Seq(Nat)
      BY <1>4
    <3> QED
      BY <3>1, <3>2, <3>3, ConcatEmptySeq
  <2>2. CASE ~(n <= 125)
    <3> DEFINE x == (n \div 256) % 256
               y == n % 256
               z == <<c, x, y>>
    <3>1. e = <<x, y>> /\ c = Flag(TRUE) + 126 /\ x \in Nat /\ y \in Nat
      <4>1. e = <<x, y>> /\ c = Flag(TRUE) + 126
        BY <2>2, TwoBytes DEF SizeCode
      <4>2. x \in Nat /\ y \in Nat
        <5> HIDE DEF n
        <5> QED
          BY <1>0
      <4> QED
        BY <4>1, <4>2
    <3>2. SizeBytes(n) = z
      <4> HIDE DEF c, n
      <4> QED
        BY <2>2, <3>1 DEF SizeBytes
    <3> HIDE DEF c, x, y, e
    <3>3. /\ z \in Seq(Nat) /\ Len(z) = 3 /\ z[1] = c /\ z[2] = x /\ z[3] = y
          /\ e \in Seq(Nat) /\ Len(e) = 2 /\ e[1] = x /\ e[2] = y
      <4>1. z \in Seq(Nat) /\ Len(z) = 3 /\ z[1] = c /\ z[2] = x /\ z[3] = y
        <5>1. c \in Nat /\ x \in Nat /\ y \in Nat
          BY <1>4, <3>1
        <5> QED
          BY ONLY <5>1
      <4>2. Len(e) = 2 /\ e[1] = x /\ e[2] = y
        BY <3>1
      <4> QED
        BY <1>4, <4>1, <4>2
    <3> DEFINE d == <<c>> \o e
    <3> HIDE DEF z
    <3>4. /\ d \in Seq(Nat) /\ Len(d) = 3 /\ d[1] = c
          /\ d[1 + 1] = x /\ d[1 + 2] = y
      <4>1. 1 \in 1 .. 2 /\ 2 \in 1 .. 2 /\ 1 + 2 = 3
        OBVIOUS
      <4>2. /\ d \in Seq(Nat) /\ Len(d) = 1 + Len(e) /\ d[1] = c
            /\ \A i \in 1 .. Len(e) : d[1 + i] = e[i]
        BY <1>4, ConsNat
      <4> HIDE DEF d
      <4> QED
        BY <3>3, <4>1, <4>2
    <3> HIDE DEF d
    <3>5. d[2] = x /\ d[3] = y
      BY <3>4, 1 + 1 = 2, 1 + 2 = 3
    <3>6. \A i \in 1 .. 3 : i = 1 \/ i = 2 \/ i = 3
      OBVIOUS
    <3>7. \A i \in 1 .. 3 : z[i] = d[i]
      BY <3>3, <3>4, <3>5, <3>6
    <3>8. z = d
      <4>1. /\ z \in Seq(Nat) /\ d \in Seq(Nat) /\ Len(z) = Len(d)
            /\ \A i \in 1 .. Len(z) : z[i] = d[i]
        BY ONLY <3>3, <3>4, <3>7
      <4> QED
        BY ONLY <4>1, SeqEqual
    <3> QED
      BY <3>2, <3>8 DEF d
  <2> QED
    BY <2>1, <2>2
<1>6. PutHeader(f) = (<<a>> \o (<<c>> \o e)) \o k
  BY <1>5 DEF PutHeader
<1>7. Header(f, ext) = <<a>> \o (<<c>> \o (e \o k))
  BY DEF Header, AfterOpcode
<1> HIDE DEF a, c, e, k
<1>8. <<a>> \in Seq(Nat) /\ <<c>> \in Seq(Nat) /\ <<c>> \o e \in Seq(Nat)
  BY <1>3, <1>4, ConsNat
<1>9. /\ (<<a>> \o (<<c>> \o e)) \o k = <<a>> \o ((<<c>> \o e) \o k)
      /\ (<<c>> \o e) \o k = <<c>> \o (e \o k)
  <2> DEFINE g == <<a>>
             h == <<c>>
  <2>1. /\ g \in Seq(Nat) /\ h \in Seq(Nat) /\ h \o e \in Seq(Nat)
        /\ e \in Seq(Nat) /\ k \in Seq(Nat)
    BY ONLY <1>2, <1>4, <1>8
  <2> HIDE DEF g, h
  <2>2. (g \o (h \o e)) \o k = g \o ((h \o e) \o k)
    <3>1. g \in Seq(Nat) /\ h \o e \in Seq(Nat) /\ k \in Seq(Nat)
      BY ONLY <2>1
    <3> QED
      BY ONLY <3>1, ThreeInARow
  <2>3. (h \o e) \o k = h \o (e \o k)
    <3>1. h \in Seq(Nat) /\ e \in Seq(Nat) /\ k \in Seq(Nat)
      BY ONLY <2>1
    <3> QED
      BY ONLY <3>1, ThreeInARow
  <2> QED
    BY ONLY <2>2, <2>3 DEF g, h
<1> QED
  BY <1>1, <1>6, <1>7, <1>9

\* A payload is masked with the key's bytes in turn, from its first byte.
LEMMA BodyIs ==
    ASSUME NEW f, f.size \in Nat
    PROVE  /\ Len(Body(f)) = PayloadSize(f)
           /\ Body(f) = [i \in 1 .. PayloadSize(f) |-> (i - 1) % 4]
<1> DEFINE n == f.size
           m == PayloadSize(f)
           g == [i \in 1 .. m |-> (i - 1) % 4]
<1>1. CASE f.opcode = "CLOSE"
  <2> DEFINE c == <<0, 1>>
             d == [i \in 1 .. n |-> (i - 1 + 2) % 4]
             b == c \o d
  <2>1. m = n + 2 /\ m \in Nat /\ Body(f) = b
    BY <1>1 DEF PayloadSize, Body
  <2>2. /\ c \in Seq(Nat) /\ Len(c) = 2 /\ c[1] = 0 /\ c[2] = 1
        /\ d \in Seq(Nat) /\ Len(d) = n /\ \A i \in 1 .. n : d[i] = (i - 1 + 2) % 4
    <3>1. c \in Seq(Nat) /\ Len(c) = 2 /\ c[1] = 0 /\ c[2] = 1
      OBVIOUS
    <3>2. n \in Nat
      OBVIOUS
    <3> HIDE DEF n
    <3>3. \A i \in 1 .. n : (i - 1 + 2) % 4 \in Nat
      BY ONLY <3>2
    <3>4. d \in Seq(Nat) /\ Len(d) = n /\ \A i \in 1 .. n : d[i] = (i - 1 + 2) % 4
      BY ONLY <3>2, <3>3
    <3> QED
      BY ONLY <3>1, <3>4
  <2>3. g \in Seq(Nat) /\ Len(g) = m /\ \A i \in 1 .. m : g[i] = (i - 1) % 4
    <3>1. m \in Nat
      BY <2>1
    <3> HIDE DEF m
    <3>2. \A i \in 1 .. m : (i - 1) % 4 \in Nat
      BY ONLY <3>1
    <3> QED
      BY ONLY <3>1, <3>2
  <2> HIDE DEF c, d, m, n, g
  <2>4. /\ b \in Seq(Nat) /\ Len(b) = Len(c) + Len(d)
        /\ \A i \in 1 .. Len(c) : b[i] = c[i]
        /\ \A i \in 1 .. Len(d) : b[Len(c) + i] = d[i]
    BY <2>2, ConcatNat
  <2> HIDE DEF b
  <2>5. Len(b) = m /\ b[1] = 0 /\ b[2] = 1
    BY <2>1, <2>2, <2>4
  <2>6. ASSUME NEW i \in 1 .. m PROVE b[i] = g[i]
    <3>1. g[i] = (i - 1) % 4
      BY <2>3
    <3>2. CASE i = 1 \/ i = 2
      BY <2>5, <3>1, <3>2
    <3>3. CASE i # 1 /\ i # 2
      <4> DEFINE j == i - 2
      <4>1. j \in 1 .. n /\ i = 2 + j /\ j - 1 + 2 = i - 1
        <5>1. m = n + 2 /\ n \in Nat
          BY <2>1 DEF n
        <5> HIDE DEF n, m
        <5> QED
          BY <3>3, <5>1
      <4> HIDE DEF j
      <4>2. b[i] = d[j] /\ d[j] = (j - 1 + 2) % 4
        BY <2>2, <2>4, <4>1
      <4> QED
        BY <3>1, <4>1, <4>2
    <3> QED
      BY <3>2, <3>3
  <2>7. b = g
    BY <2>3, <2>4, <2>5, <2>6, SeqEqual
  <2> QED
    BY <2>1, <2>5, <2>7 DEF g, m
<1>2. CASE f.opcode # "CLOSE"
  <2>1. m = n
    BY <1>2 DEF PayloadSize
  <2>2. Body(f) = [i \in 1 .. n |-> (i - 1) % 4]
    BY <1>2 DEF Body
  <2> QED
    BY <2>1, <2>2
<1> QED
  BY <1>1, <1>2

\* Every size that is sent, with the code of a close frame, has two bytes.
LEMMA SizesAreWords ==
    /\ \A n \in DataSizes : n \in Word
    /\ \A n \in ControlSizes : n \in Word /\ n + 2 \in Word
    /\ PeerLengths \subseteq Nat
<1>1. DataSizes \subseteq Word
  BY ONLY WireAssumption, Zenon DEF WireAssumption, Word
<1>2. ControlSizes \subseteq 0 .. 256 * 256 - 3
  BY WireAssumption DEF WireAssumption
<1>3. PeerLengths \subseteq Nat
  BY WireAssumption DEF WireAssumption
<1>4. \A n \in 0 .. 256 * 256 - 3 : n \in Word /\ n + 2 \in Word
  <2> DEFINE k == 256 * 256
  <2>1. k \in Int
    OBVIOUS
  <2>2. Word = 0 .. k - 1
    BY DEF Word
  <2> HIDE DEF k
  <2>3. \A n \in 0 .. k - 3 : n \in 0 .. k - 1 /\ n + 2 \in 0 .. k - 1
    BY <2>1
  <2> QED
    BY <2>2, <2>3 DEF k
<1> QED
  BY <1>1, <1>2, <1>3, <1>4

\* A frame is put on the wire, by the sender and by the peer.
LEMMA PutFrameKeeps ==
    ASSUME PutFrame, FrameInv
    PROVE  FrameInv'
<1>1. PICK fin \in BOOLEAN, opcode \in DOMAIN Opcodes :
        \E size \in IF opcode \in Control THEN ControlSizes ELSE DataSizes :
          /\ opcode \in Control => fin
          /\ frame' = [by |-> "wic", fin |-> fin, opcode |-> opcode, size |-> size,
                       masked |-> TRUE, mask |-> Mask]
  BY DEF PutFrame
<1>2. PICK size \in IF opcode \in Control THEN ControlSizes ELSE DataSizes :
          frame' = [by |-> "wic", fin |-> fin, opcode |-> opcode, size |-> size,
                    masked |-> TRUE, mask |-> Mask]
  BY <1>1
<1>3. /\ bench = "idle" /\ bench' = "frame" /\ wire' = PutHeader(frame') /\ rx' = rx
  BY DEF PutFrame
<1> DEFINE f == frame'
           ext == IF PayloadSize(f) <= 125 THEN 0 ELSE 2
<1>4. PayloadSize(f) \in Word /\ size \in Word
  <2>1. f.size = size /\ f.opcode = opcode
    BY <1>2
  <2>2. size \in Word /\ (opcode = "CLOSE" => size + 2 \in Word)
    BY SizesAreWords DEF Control
  <2>3. size \in Nat
    BY <2>2, WordIs
  <2> HIDE DEF f
  <2>4. size + 0 = size
    BY <2>3
  <2> QED
    BY <2>1, <2>2, <2>4 DEF PayloadSize
<1>5. IsFrame(f) /\ f.masked
  <2>1. size \in Nat
    BY <1>4, WordIs
  <2> QED
    BY <1>2, <2>1 DEF IsFrame
<1>6. rx' = RxZero
  BY <1>3 DEF FrameInv
<1> HIDE DEF f
<1>7. Extends(f, ext) /\ PutHeader(f) = Header(f, ext)
  BY <1>4, <1>5, PutHeaderIs
<1>8. wire' = PutHeader(f) /\ ext \in {0, 2, 8}
  BY <1>3 DEF f
<1> HIDE DEF ext
<1>9. Stage(f, ext, rx', wire')
  BY <1>6, <1>7, <1>8 DEF Stage
<1> QED
  BY <1>3, <1>5, <1>7, <1>8, <1>9 DEF FrameInv, f

\* A frame of the peer begins with its whole header.
LEMMA PeerFrameKeeps ==
    ASSUME PeerFrame, FrameInv
    PROVE  FrameInv'
<1>1. PICK n \in PeerLengths, masked \in BOOLEAN, ext \in {0, 2, 8} :
          /\ IF ext = 0 THEN n < 126 ELSE Shifted(n)[ext] = 0
          /\ frame' = [by |-> "peer", fin |-> TRUE, opcode |-> "BINARY",
                       size |-> n, masked |-> masked,
                       mask |-> IF masked THEN Mask ELSE <<>>]
          /\ wire' = <<130, Flag(masked) + CASE ext = 0 -> n [] ext = 2 -> 126
                                             [] ext = 8 -> 127>>
                     \o BigEndian(n, ext) \o frame'.mask
  BY DEF PeerFrame
<1>2. bench = "idle" /\ bench' = "frame" /\ rx' = rx /\ n \in Nat
  BY SizesAreWords DEF PeerFrame
<1> DEFINE f == frame'
           k == f.mask
           c == Flag(masked) + SizeCode(n, ext)
           e == BigEndian(n, ext)
<1>3. /\ IsFrame(f) /\ f.masked = masked /\ f.fin = TRUE /\ f.opcode = "BINARY"
      /\ f.size = n /\ f.by = "peer"
  BY <1>1, <1>2 DEF IsFrame, Opcodes
<1>4. wire' = <<130, c>> \o e \o k
  <2>1. SizeCode(n, ext) = CASE ext = 0 -> n [] ext = 2 -> 126 [] ext = 8 -> 127
    <3>1. ext = 0 \/ ext = 2 \/ ext = 8
      OBVIOUS
    <3> QED
      BY <3>1 DEF SizeCode
  <2> QED
    BY <1>1, <2>1
<1> HIDE DEF f
<1>5. PayloadSize(f) = n
  BY <1>2, <1>3 DEF PayloadSize
<1>6. Extends(f, ext)
  <2>1. f.by # "wic"
    BY <1>3
  <2> QED
    BY <1>1, <1>5, <2>1 DEF Extends
<1>7. k \in Seq(Nat) /\ SizeCode(n, ext) \in 0 .. 127 /\ e \in Seq(Nat)
  <2>1. k \in Seq(Nat) /\ SizeCode(n, ext) \in 0 .. 127
    BY <1>3, <1>5, <1>6, FrameFacts
  <2> QED
    BY ONLY <1>2, <2>1, BigEndianIs, ext \in 0 .. 8
<1>8. c \in Nat
  BY <1>7, FlagAndNumber
<1>9. Header(f, ext) = <<130>> \o (<<c>> \o (e \o k))
  <2>1. Flag(f.fin) + Opcodes[f.opcode] = 130
    BY <1>3 DEF Flag, Opcodes
  <2> QED
    BY <1>3, <1>5, <2>1 DEF Header, AfterOpcode
<1> HIDE DEF c, e, k
<1>10. <<130, c>> = <<130>> \o <<c>>
  BY <1>8
<1>12. /\ <<130>> \in Seq(Nat) /\ <<c>> \in Seq(Nat) /\ <<c>> \o e \in Seq(Nat)
       /\ e \in Seq(Nat) /\ k \in Seq(Nat)
  BY ONLY <1>7, <1>8, ConsNat
<1>13. wire' = Header(f, ext)
  <2> DEFINE g == <<130>>
             h == <<c>>
  <2>1. /\ g \in Seq(Nat) /\ h \in Seq(Nat) /\ h \o e \in Seq(Nat)
        /\ e \in Seq(Nat) /\ k \in Seq(Nat)
    BY ONLY <1>12
  <2>2. wire' = ((g \o h) \o e) \o k /\ Header(f, ext) = g \o (h \o (e \o k))
    BY ONLY <1>4, <1>9, <1>10
  <2> HIDE DEF g, h
  <2>3. (g \o h) \o e = g \o (h \o e)
    <3>1. g \in Seq(Nat) /\ h \in Seq(Nat) /\ e \in Seq(Nat)
      BY ONLY <2>1
    <3> QED
      BY ONLY <3>1, ThreeInARow
  <2>4. (g \o (h \o e)) \o k = g \o ((h \o e) \o k)
    <3>1. g \in Seq(Nat) /\ h \o e \in Seq(Nat) /\ k \in Seq(Nat)
      BY ONLY <2>1
    <3> QED
      BY ONLY <3>1, ThreeInARow
  <2>5. (h \o e) \o k = h \o (e \o k)
    <3>1. h \in Seq(Nat) /\ e \in Seq(Nat) /\ k \in Seq(Nat)
      BY ONLY <2>1
    <3> QED
      BY ONLY <3>1, ThreeInARow
  <2> QED
    BY ONLY <2>2, <2>3, <2>4, <2>5
<1>14. Stage(f, ext, rx', wire')
  BY <1>2, <1>13 DEF Stage, FrameInv
<1> QED
  BY <1>2, <1>3, <1>6, <1>14 DEF FrameInv, f

\* The stage that a frame is at.
LEMMA FrameStage ==
    ASSUME FrameInv, bench = "frame"
    PROVE  IsFrame(frame) /\ \E ext \in {0, 2, 8} :
               Extends(frame, ext) /\ Stage(frame, ext, rx, wire)
BY DEF FrameInv

\* A byte is read: the frame stays, and so does what is known of it.
LEMMA ReadKeeps ==
    ASSUME FrameInv, bench = "frame", bench' = "frame", frame' = frame,
           NEW ext \in {0, 2, 8}, Extends(frame, ext), Stage(frame, ext, rx', wire')
    PROVE  FrameInv'
<1>1. IsFrame(frame)
  BY FrameStage
<1> QED
  BY <1>1 DEF FrameInv

\* Every step keeps it.
LEMMA FrameInvStep ==
    FrameInv /\ [Next]_vars => FrameInv'
<1> SUFFICES ASSUME FrameInv, [Next]_vars PROVE FrameInv'
  OBVIOUS
<1>1. CASE PutFrame
  BY <1>1, PutFrameKeeps
<1>2. CASE PeerFrame
  BY <1>2, PeerFrameKeeps
<1>3. CASE ParseOpcode
  <2>1. bench = "frame" /\ bench' = "frame" /\ frame' = frame /\ rx.state = "OPCODE"
        /\ wire' = Tail(wire)
    BY <1>3 DEF ParseOpcode, Reads
  <2>2. PICK ext \in {0, 2, 8} : Extends(frame, ext) /\ Stage(frame, ext, rx, wire)
    BY <2>1, FrameStage
  <2>3. rx = RxZero /\ wire = Header(frame, ext)
    BY <2>1, <2>2, StageOf
  <2> DEFINE fin == Head(wire) >= 128
  <2>4. rx' = [rx EXCEPT !.fin = fin, !.opcode = OpcodeOf(Head(wire)), !.state = "SIZE"]
    BY <1>3 DEF ParseOpcode
  <2>5. fin = (Head(wire) >= 128)
    OBVIOUS
  <2> HIDE DEF fin
  <2>6. AtSize(frame, ext, rx', wire')
    BY <2>1, <2>2, <2>3, <2>4, <2>5, FrameStage, OpcodeRead
  <2>7. Stage(frame, ext, rx', wire')
    BY <2>6 DEF Stage
  <2> QED
    BY <2>1, <2>2, <2>7, ReadKeeps
<1>4. CASE ParseSize
  <2>1. bench = "frame" /\ bench' = "frame" /\ frame' = frame /\ rx.state = "SIZE"
        /\ wire' = Tail(wire)
    BY <1>4 DEF ParseSize, Reads
  <2>2. PICK ext \in {0, 2, 8} : Extends(frame, ext) /\ Stage(frame, ext, rx, wire)
    BY <2>1, FrameStage
  <2>3. AtSize(frame, ext, rx, wire)
    BY <2>1, <2>2, StageOf
  <2> DEFINE masked == Head(wire) >= 128
             code == Head(wire) % 128
             size == IF code > 125 THEN 0 ELSE code
             state == CASE code = 127 -> "SIZE_2" [] code = 126 -> "SIZE_0"
                        [] OTHER -> AfterSize(masked)
             r == rx
             q == rx'
  <2>4. q = [r EXCEPT !.masked = masked, !.size = size, !.state = state]
    BY <1>4 DEF ParseSize
  <2>5. IsFrame(frame) /\ Extends(frame, ext) /\ AtSize(frame, ext, r, wire)
    BY <2>1, <2>2, <2>3, FrameStage
  <2> DEFINE n == PayloadSize(frame)
  <2>6. SizeCode(n, ext) \in 0 .. 127
    BY <2>5, FrameFacts
  <2>7. masked = frame.masked /\ code = SizeCode(n, ext)
        /\ Tail(wire) = BigEndian(n, ext) \o frame.mask
    <3> HIDE DEF r
    <3>1. /\ Head(wire) = Flag(frame.masked) + SizeCode(PayloadSize(frame), ext)
          /\ Tail(wire) = BigEndian(PayloadSize(frame), ext) \o frame.mask
      BY <2>5, SizeByte
    <3> DEFINE x == SizeCode(PayloadSize(frame), ext)
               b == frame.masked
               h == Head(wire)
    <3>2. x \in 0 .. 127 /\ b \in BOOLEAN /\ h = Flag(b) + x
      BY <2>5, <2>6, <3>1 DEF IsFrame
    <3> HIDE DEF x, b, h
    <3>3. (h >= 128) = b /\ h % 128 = x
      BY <3>2, FlagAndNumber
    <3> QED
      BY <3>1, <3>3, Zenon DEF x, b, h
  <2> HIDE DEF masked, code
  <2>8. /\ code = 127 => size = 0 /\ state = "SIZE_2"
        /\ code = 126 => size = 0 /\ state = "SIZE_0"
        /\ code < 126 => size = code /\ state = AfterSize(masked)
    <3> HIDE DEF n
    <3>1. code \in 0 .. 127
      BY <2>6, <2>7
    <3>2. CASE code = 127
      BY <3>2
    <3>3. CASE code = 126
      BY <3>3
    <3>4. CASE code < 126
      <4>1. ~(code > 125) /\ code # 126 /\ code # 127
        BY <3>1, <3>4
      <4> QED
        BY <4>1
    <3> QED
      BY <3>1, <3>2, <3>3, <3>4
  <2> HIDE DEF size, state
  <2>10. q = Reading(frame, state, size, frame.masked, <<>>)
    <3>1. r = Reading(frame, "SIZE", 0, FALSE, <<>>)
      BY <2>5 DEF AtSize
    <3> HIDE DEF r, q
    <3>2. q = Reading(frame, state, size, masked, <<>>)
      BY ONLY <2>4, <3>1 DEF Reading
    <3> QED
      BY <2>7, <3>2
  <2> HIDE DEF r, q
  <2>11. Stage(frame, ext, q, Tail(wire))
    <3>1. Stage(frame, ext, Reading(frame, state, size, frame.masked, <<>>),
                BigEndian(PayloadSize(frame), ext) \o frame.mask)
      <4>1. /\ SizeCode(PayloadSize(frame), ext) = 127 => size = 0 /\ state = "SIZE_2"
            /\ SizeCode(PayloadSize(frame), ext) = 126 => size = 0 /\ state = "SIZE_0"
            /\ SizeCode(PayloadSize(frame), ext) < 126 =>
                  /\ size = SizeCode(PayloadSize(frame), ext)
                  /\ state = AfterSize(frame.masked)
        BY <2>7, <2>8
      <4> QED
        BY <2>5, <4>1, SizeCodeRead
    <3> QED
      BY <2>7, <2>10, <3>1
  <2>9. Stage(frame, ext, rx', wire')
    BY <2>1, <2>11 DEF q
  <2> QED
    BY <2>1, <2>2, <2>9, ReadKeeps
<1>5. CASE ParseExtendedSize
  <2>1. bench = "frame" /\ bench' = "frame" /\ frame' = frame
        /\ rx.state \in Range(SizeState) /\ wire' = Tail(wire)
    BY <1>5 DEF ParseExtendedSize, Reads
  <2>2. PICK ext \in {0, 2, 8} : Extends(frame, ext) /\ Stage(frame, ext, rx, wire)
    BY <2>1, FrameStage
  <2>3. AtExtended(frame, ext, rx, wire)
    BY <2>1, <2>2, StageOf
  <2> DEFINE r == rx
             q == rx'
             size == r.size * 256 + Head(wire)
             state == IF r.state \in {"SIZE_1", "SIZE_9"} THEN AfterSize(r.masked)
                      ELSE LET i == CHOOSE i \in DOMAIN SizeState :
                                       SizeState[i] = r.state
                           IN  SizeState[i + 1]
  <2>4. rx' = [rx EXCEPT !.size = size, !.state = state]
    BY <1>5 DEF ParseExtendedSize
  <2>5. r.state \notin {"SIZE_1", "SIZE_9"} =>
           \A i \in DOMAIN SizeState : SizeState[i] = r.state => state = SizeState[i + 1]
    <3> SUFFICES ASSUME r.state \notin {"SIZE_1", "SIZE_9"},
                        NEW i \in DOMAIN SizeState, SizeState[i] = r.state
                 PROVE  state = SizeState[i + 1]
      OBVIOUS
    <3> DEFINE h == CHOOSE j \in DOMAIN SizeState : SizeState[j] = r.state
    <3>1. h \in DOMAIN SizeState /\ SizeState[h] = r.state
      OBVIOUS
    <3>2. state = SizeState[h + 1]
      OBVIOUS
    <3> HIDE DEF h, state
    <3>3. h = i
      BY <3>1, StatesDiffer
    <3> QED
      BY <3>2, <3>3
  <2>6. r.state \in {"SIZE_1", "SIZE_9"} => state = AfterSize(r.masked)
    OBVIOUS
  <2>7. size = r.size * 256 + Head(wire) /\ AtExtended(frame, ext, r, wire)
        /\ q = [r EXCEPT !.size = size, !.state = state]
    BY <2>3, <2>4
  <2> HIDE DEF size, state, r, q
  <2>8. Stage(frame, ext, q, Tail(wire))
    BY <2>1, <2>2, <2>5, <2>6, <2>7, FrameStage, ExtendedRead
  <2>9. Stage(frame, ext, rx', wire')
    BY <2>1, <2>8 DEF q
  <2> QED
    BY <2>1, <2>2, <2>9, ReadKeeps
<1>6. CASE ParseMask
  <2>1. bench = "frame" /\ bench' = "frame" /\ frame' = frame
        /\ rx.state \in Range(MaskState) \ {"DATA"} /\ wire' = Tail(wire)
    BY <1>6 DEF ParseMask, Reads
  <2>2. PICK ext \in {0, 2, 8} : Extends(frame, ext) /\ Stage(frame, ext, rx, wire)
    BY <2>1, FrameStage
  <2>3. AtMask(frame, rx, wire)
    BY <2>1, <2>2, StageOf
  <2> DEFINE r == rx
             q == rx'
             mask == Append(r.mask, Head(wire))
             state == LET i == CHOOSE i \in DOMAIN MaskState : MaskState[i] = r.state
                      IN  MaskState[i + 1]
  <2>4. rx' = [rx EXCEPT !.mask = mask, !.state = state]
    BY <1>6 DEF ParseMask
  <2>5. \A i \in DOMAIN MaskState : MaskState[i] = r.state => state = MaskState[i + 1]
    <3> SUFFICES ASSUME NEW i \in DOMAIN MaskState, MaskState[i] = r.state
                 PROVE  state = MaskState[i + 1]
      OBVIOUS
    <3> DEFINE h == CHOOSE j \in DOMAIN MaskState : MaskState[j] = r.state
    <3>1. h \in DOMAIN MaskState /\ MaskState[h] = r.state
      OBVIOUS
    <3>2. state = MaskState[h + 1]
      OBVIOUS
    <3> HIDE DEF h, state
    <3>3. h = i
      BY <3>1, StatesDiffer
    <3> QED
      BY <3>2, <3>3
  <2>6. mask = Append(r.mask, Head(wire)) /\ AtMask(frame, r, wire)
        /\ q = [r EXCEPT !.mask = mask, !.state = state]
    BY <2>3, <2>4
  <2> HIDE DEF mask, state, r, q
  <2>7. Stage(frame, ext, q, Tail(wire))
    BY <2>1, <2>5, <2>6, FrameStage, MaskRead
  <2>8. Stage(frame, ext, rx', wire')
    BY <2>1, <2>7 DEF q
  <2> QED
    BY <2>1, <2>2, <2>8, ReadKeeps
<1>7. CASE EndFrame
  BY <1>7 DEF EndFrame, FrameInv
<1>8. CASE UNCHANGED vars
  BY <1>8 DEF FrameInv, vars
<1>9. ASSUME UNCHANGED frame_vars, bench # "frame", bench' # "frame"
      PROVE  FrameInv'
  BY <1>9 DEF FrameInv, frame_vars
<1>10. CASE (\E b \in Byte : NextByte(b)) \/ EndUtf8
  BY <1>9, <1>10 DEF NextByte, EndUtf8
<1>11. CASE TextGrows \/ EndBase64
  BY <1>9, <1>11 DEF TextGrows, EndBase64
<1>12. CASE (\E n \in Chunks : Sha1Update(n)) \/ Sha1Finish \/ Sha1Init
  <2>1. UNCHANGED frame_vars /\ bench # "frame" /\ bench' # "frame"
    BY <1>12, Zenon DEF Sha1Update, Sha1Finish, Sha1Init
  <2> QED
    BY <1>9, <2>1
<1> QED
  BY <1>1, <1>2, <1>3, <1>4, <1>5, <1>6, <1>7, <1>8, <1>10, <1>11, <1>12 DEF Next

\* What was read of a header, and what was not, are the header that was written.
THEOREM FrameInvHolds == Spec => []FrameInv
<1>1. Init => FrameInv
  BY DEF Init, FrameInv
<1>2. FrameInv /\ [Next]_vars => FrameInv'
  BY FrameInvStep
<1> QED
  BY <1>1, <1>2, PTL DEF Spec

\* The header that the parser has read is the one that was sent, whatever the
\* size is and however it is written, and the payload is unmasked with the
\* bytes of the key that it was masked with.
THEOREM HeaderRightHolds == Spec => []HeaderRight
<1>1. FrameInv => HeaderRight
  <2> SUFFICES ASSUME FrameInv, rx.state = "DATA" PROVE HeaderRight
    BY DEF HeaderRight
  <2>1. bench = "frame"
    BY DEF FrameInv, RxZero
  <2>2. PICK ext \in {0, 2, 8} : Extends(frame, ext) /\ Stage(frame, ext, rx, wire)
    BY <2>1, FrameStage
  <2>3. IsFrame(frame)
    BY <2>1, FrameStage
  <2>4. rx = Reading(frame, "DATA", PayloadSize(frame), frame.masked, frame.mask)
        /\ wire = <<>>
    BY <2>2, StageOf DEF AtData
  <2>5. /\ rx.fin = frame.fin /\ rx.opcode = Opcodes[frame.opcode]
        /\ rx.masked = frame.masked /\ rx.mask = frame.mask
        /\ rx.size = PayloadSize(frame)
    BY <2>4 DEF Reading
  <2>6. Body(frame) = [i \in 1 .. PayloadSize(frame) |-> (i - 1) % 4]
    BY <2>3, BodyIs DEF IsFrame
  <2> QED
    BY <2>4, <2>5, <2>6 DEF HeaderRight
<1> QED
  BY <1>1, FrameInvHolds, PTL

\* The frame has the size that was asked for before it was written, whatever
\* its payload.
THEOREM SizeRightHolds == Spec => []SizeRight
<1>1. FrameInv => SizeRight
  <2> SUFFICES ASSUME FrameInv, frame.by = "wic", rx = RxZero
               PROVE  Len(wire) + Len(Body(frame)) = MinFrameSize(frame)
    BY DEF SizeRight
  <2>1. bench = "frame"
    BY DEF FrameInv, NoFrame
  <2>2. PICK ext \in {0, 2, 8} : Extends(frame, ext) /\ Stage(frame, ext, rx, wire)
    BY <2>1, FrameStage
  <2>3. IsFrame(frame)
    BY <2>1, FrameStage
  <2> DEFINE n == PayloadSize(frame)
             b == BigEndian(n, ext)
             m == b \o Mask
             a == Flag(frame.masked) + SizeCode(n, ext)
             c == Flag(frame.fin) + Opcodes[frame.opcode]
             t == <<a>> \o m
  <2>4. frame.masked /\ frame.mask = Mask /\ n \in Nat
        /\ ext = IF n <= 125 THEN 0 ELSE 2
    BY <2>2, <2>3, FrameFacts DEF IsFrame, Extends
  <2>5. wire = <<c>> \o t
    <3>1. rx.state = "OPCODE"
      BY DEF RxZero
    <3>2. wire = Header(frame, ext)
      BY <2>2, <3>1, StageOf
    <3> QED
      BY <2>4, <3>2 DEF Header, AfterOpcode
  <2>6. b \in Seq(Nat) /\ Len(b) = ext
    <3>1. n \in Nat /\ ext \in 0 .. 8
      BY <2>4
    <3> HIDE DEF n
    <3> QED
      BY ONLY <3>1, BigEndianIs
  <2>7. Mask \in Seq(Nat) /\ Len(Mask) = 4
    BY DEF Mask
  <2>8. m \in Seq(Nat) /\ Len(m) = Len(b) + 4
    <3>1. m \in Seq(Nat) /\ Len(m) = Len(b) + Len(Mask)
      <4> HIDE DEF b
      <4> QED
        BY <2>6, <2>7, ConcatNat
    <3> QED
      BY <2>7, <3>1
  <2>9. a \in Nat
    <3> DEFINE x == SizeCode(n, ext)
               y == frame.masked
    <3>1. x \in 0 .. 127 /\ y \in BOOLEAN
      BY <2>2, <2>3, FrameFacts DEF IsFrame
    <3> HIDE DEF x, y
    <3>2. Flag(y) + x \in Nat
      BY <3>1, FlagAndNumber
    <3> QED
      BY <3>2 DEF x, y
  <2>10. c \in Nat
    <3> DEFINE x == Opcodes[frame.opcode]
               y == frame.fin
    <3>1. x \in 0 .. 15 /\ y \in BOOLEAN
      BY <2>2, <2>3, FrameFacts DEF IsFrame
    <3> HIDE DEF x, y
    <3>2. x \in 0 .. 127
      BY <3>1
    <3>3. Flag(y) + x \in Nat
      BY <3>1, <3>2, FlagAndNumber
    <3> QED
      BY <3>3 DEF x, y
  <2>11. Len(Body(frame)) = n
    BY <2>3, BodyIs DEF IsFrame
  <2>12. MinFrameSize(frame) = n + 2 + 4 + IF n > 125 THEN 2 ELSE 0
    BY DEF MinFrameSize
  <2> HIDE DEF a, c, m, b, n
  <2>13. t \in Seq(Nat) /\ Len(t) = 1 + Len(m)
    BY <2>8, <2>9, ConsNat
  <2> HIDE DEF t
  <2>14. Len(wire) = 1 + Len(t)
    BY <2>5, <2>10, <2>13, ConsNat
  <2>15. Len(wire) = 6 + ext
    BY <2>6, <2>8, <2>13, <2>14
  <2> QED
    BY <2>4, <2>11, <2>12, <2>15
<1> QED
  BY <1>1, FrameInvHolds, PTL

----------------------------------------------------------------------------
(* The blocks.                                                             *)

\* A block of bytes.
Filling == [Block -> Nat]

\* The blocks that were processed and the buffer hold n bytes of the message.
Hashed(n, buffer, done) ==
    /\ n \in Nat /\ buffer \in Filling /\ done \in Seq(Filling)
    /\ 64 * Len(done) <= n /\ n < 64 * Len(done) + 64
    /\ \A k \in 1 .. Len(done) : \A i \in Block :
          done[k][i] = 256 + 64 * (k - 1) + i
    /\ \A i \in Block : i < n - 64 * Len(done) =>
          buffer[i] = 256 + 64 * Len(done) + i

\* The blocks and the buffer are the message so far, until it is padded.
ShaInv ==
    /\ sha = [total |-> sha.total, buffer |-> sha.buffer, done |-> sha.done]
    /\ sha.done \in BOOLEAN
    /\ IF sha.done THEN BlocksRight ELSE Hashed(sha.total, sha.buffer, blocks)

\* What a concatenation of blocks has at each place.
LEMMA ConcatBlocks ==
    ASSUME NEW S, NEW a \in Seq(S), NEW b \in Seq(S)
    PROVE  /\ a \o b \in Seq(S) /\ Len(a) \in Nat /\ Len(b) \in Nat
           /\ Len(a \o b) = Len(a) + Len(b)
           /\ \A j \in 1 .. Len(a) : (a \o b)[j] = a[j]
           /\ \A j \in 1 .. Len(b) : (a \o b)[Len(a) + j] = b[j]
<1>1. /\ a \o b \in Seq(S) /\ Len(a) \in Nat /\ Len(b) \in Nat
      /\ Len(a \o b) = Len(a) + Len(b)
      /\ \A i \in 1 .. Len(a) + Len(b) :
            (a \o b)[i] = IF i <= Len(a) THEN a[i] ELSE b[i - Len(a)]
  BY ConcatProperties
<1> DEFINE c == a \o b
           n == Len(a)
           m == Len(b)
<1>2. n \in Nat /\ m \in Nat
  BY <1>1
<1>3. \A i \in 1 .. n + m : c[i] = IF i <= n THEN a[i] ELSE b[i - n]
  BY <1>1
<1> HIDE DEF c, n, m
<1>4. \A j \in 1 .. n : c[j] = a[j]
  BY <1>2, <1>3
<1>5. ASSUME NEW j \in 1 .. m PROVE c[n + j] = b[j]
  <2>1. n + j \in 1 .. n + m /\ ~(n + j <= n) /\ (n + j) - n = j
    BY <1>2
  <2> QED
    BY <1>3, <2>1
<1> QED
  BY <1>1, <1>4, <1>5 DEF c, n, m

\* The bytes of the message from n on as q blocks.
Cut(f, n, q) ==
    /\ f \in Seq(Filling) /\ Len(f) = q
    /\ \A k \in 1 .. q : \A i \in Block : f[k][i] = 256 + n + 64 * (k - 1) + i

\* The whole blocks of a piece are processed after the others.
LEMMA WholeHashed ==
    ASSUME NEW n, NEW buffer, NEW done, Hashed(n, buffer, done),
           NEW whole \in Nat, NEW f, Cut(f, n, whole),
           n = 64 * Len(done), NEW b \in Filling
    PROVE  Hashed(n + 64 * whole, b, done \o f)
<1> DEFINE d == done \o f
           L == Len(done)
<1>0. /\ f \in Seq(Filling) /\ Len(f) = whole
      /\ \A k \in 1 .. whole : \A i \in Block :
            f[k][i] = 256 + n + 64 * (k - 1) + i
  BY DEF Cut
<1>1. done \in Seq(Filling) /\ n \in Nat
  BY DEF Hashed
<1>2. /\ d \in Seq(Filling) /\ L \in Nat /\ Len(d) = L + whole
      /\ \A j \in 1 .. L : d[j] = done[j]
      /\ \A j \in 1 .. whole : d[L + j] = f[j]
  <2> HIDE DEF Filling
  <2>1. /\ d \in Seq(Filling) /\ L \in Nat /\ Len(d) = L + Len(f)
        /\ \A j \in 1 .. L : d[j] = done[j]
        /\ \A j \in 1 .. Len(f) : d[L + j] = f[j]
    <3>1. done \in Seq(Filling) /\ f \in Seq(Filling)
      BY <1>0, <1>1
    <3> QED
      BY ONLY <3>1, ConcatBlocks
  <2> HIDE DEF d, L
  <2> QED
    BY <1>0, <2>1
<1>3. \A k \in 1 .. L : \A i \in Block : done[k][i] = 256 + 64 * (k - 1) + i
  BY DEF Hashed
<1>4. n = 64 * L
  OBVIOUS
<1> HIDE DEF d, L, Filling, Block
<1>5. Block \subseteq Int
  BY DEF Block
<1>6. ASSUME NEW k \in 1 .. L + whole, NEW i \in Block
      PROVE  d[k][i] = 256 + 64 * (k - 1) + i
  <2>1. CASE k <= L
    BY <1>2, <1>3, <2>1
  <2>2. CASE ~(k <= L)
    <3>1. PICK j \in 1 .. whole : k = L + j
      <4>1. k - L \in 1 .. whole /\ k = L + (k - L)
        BY <1>2, <2>2
      <4> QED
        BY <4>1
    <3>2. d[k] = f[j] /\ f[j][i] = 256 + n + 64 * (j - 1) + i
      BY <1>0, <1>2, <3>1
    <3>3. 256 + n + 64 * (j - 1) + i = 256 + 64 * (k - 1) + i
      <4>1. L \in Int /\ j \in Int /\ i \in Int /\ n = 64 * L /\ k = L + j
        <5>1. L \in Int
          BY <1>2
        <5>2. j \in Int
          BY ONLY j \in 1 .. whole, whole \in Nat
        <5>3. i \in Int
          BY ONLY i \in Block, <1>5
        <5> QED
          BY ONLY <1>4, <3>1, <5>1, <5>2, <5>3
      <4> QED
        BY ONLY <4>1
    <3> QED
      BY <3>2, <3>3
  <2> QED
    BY <2>1, <2>2
<1>7. /\ n + 64 * whole = 64 * Len(d) /\ n + 64 * whole \in Nat
  <2>1. L \in Nat /\ whole \in Nat /\ n = 64 * L /\ Len(d) = L + whole
    BY <1>2, <1>4
  <2> QED
    BY ONLY <2>1
<1>8. \A i \in Block : ~(i < n + 64 * whole - 64 * Len(d))
  BY <1>7 DEF Block
<1>9. Len(d) \in Nat /\ 64 * Len(d) <= n + 64 * whole
      /\ n + 64 * whole < 64 * Len(d) + 64
  BY <1>2, <1>7
<1> DEFINE N == n + 64 * whole
<1> HIDE DEF N
<1>10. Hashed(N, b, d)
  BY <1>2, <1>6, <1>7, <1>8, <1>9 DEF Hashed, N
<1> QED
  BY <1>10 DEF N, d

\* The bytes of the message from n on as r bytes at a place of the buffer.
Copied(c, b, at, from, r) ==
    /\ c \in Filling
    /\ \A i \in Block : c[i] = IF at <= i /\ i < at + r
                               THEN 256 + from + (i - at) ELSE b[i]

\* What is left of a piece goes behind what is in the buffer.
LEMMA RestHashed ==
    ASSUME NEW n, NEW buffer, NEW done, Hashed(n, buffer, done),
           NEW rest \in Nat, NEW at, at = n - 64 * Len(done), at + rest < 64,
           NEW b, Copied(b, buffer, at, n, rest)
    PROVE  Hashed(n + rest, b, done)
<1> DEFINE L == Len(done)
<1>0. /\ b \in Filling
      /\ \A i \in Block : b[i] = IF at <= i /\ i < at + rest
                                 THEN 256 + n + (i - at) ELSE buffer[i]
  BY DEF Copied
<1>1. n \in Nat /\ L \in Nat /\ done \in Seq(Filling) /\ 64 * L <= n /\ n < 64 * L + 64
  BY DEF Hashed
<1>2. \A i \in Block : i < at => buffer[i] = 256 + 64 * L + i
  BY DEF Hashed
<1>3. at = n - 64 * L
  OBVIOUS
<1> HIDE DEF L
<1>4. n + rest \in Nat /\ 64 * L <= n + rest /\ n + rest < 64 * L + 64
      /\ n + rest - 64 * L = at + rest /\ at \in Nat
  BY <1>1, <1>3
<1>5. ASSUME NEW i \in Block, i < at + rest
      PROVE  b[i] = 256 + 64 * L + i
  <2>1. i \in Int
    BY DEF Block
  <2>2. CASE i < at
    <3>1. ~(at <= i)
      BY <1>4, <2>1, <2>2
    <3> QED
      BY <1>0, <1>2, <2>2, <3>1
  <2>3. CASE ~(i < at)
    <3>1. at <= i /\ 256 + n + (i - at) = 256 + 64 * L + i
      BY <1>1, <1>3, <1>4, <2>1, <2>3
    <3> QED
      BY <1>0, <1>5, <3>1
  <2> QED
    BY <2>2, <2>3
<1> DEFINE N == n + rest
<1>6. N \in Nat /\ 64 * L <= N /\ N < 64 * L + 64 /\ N - 64 * L = at + rest
  <2>1. L \in Int /\ rest \in Int /\ n \in Int
    BY <1>1
  <2> QED
    BY ONLY <1>4, <2>1
<1> HIDE DEF N
<1>7. \A k \in 1 .. L : \A i \in Block : done[k][i] = 256 + 64 * (k - 1) + i
  BY DEF Hashed, L
<1>8. \A i \in Block : i < N - 64 * L => b[i] = 256 + 64 * L + i
  BY <1>5, <1>6
<1>9. Hashed(N, b, done)
  BY <1>0, <1>1, <1>6, <1>7, <1>8 DEF Hashed, L
<1> QED
  BY <1>9 DEF N

\* Whatever is copied, the buffer has it where it was put.
LEMMA CopyIs ==
    ASSUME NEW b \in Filling, NEW at \in Nat, NEW from \in Nat, NEW r \in Nat
    PROVE  Copied(CopyTo(b, at, Message(from, r), r), b, at, from, r)
<1> DEFINE d == Message(from, r)
           c == CopyTo(b, at, d, r)
<1>1. \A j \in 0 .. r - 1 : d[j] = 256 + from + j
  BY DEF Message
<1> HIDE DEF d
<1>2. \A i \in Block : i \in Nat
  BY DEF Block
<1>3. \A i \in Block : c[i] = IF i \in at .. at + r - 1 THEN d[i - at] ELSE b[i]
  BY DEF CopyTo
<1>4. c = [i \in Block |-> c[i]]
  BY DEF CopyTo
<1> HIDE DEF c
<1>5. ASSUME NEW i \in Block
      PROVE  c[i] = IF at <= i /\ i < at + r THEN 256 + from + (i - at) ELSE b[i]
  <2>1. CASE at <= i /\ i < at + r
    <3>1. i \in at .. at + r - 1 /\ i - at \in 0 .. r - 1
      BY <1>2, <2>1
    <3> QED
      BY <1>1, <1>3, <2>1, <3>1
  <2>2. CASE ~(at <= i /\ i < at + r)
    <3>1. i \notin at .. at + r - 1
      BY <1>2, <2>2
    <3> QED
      BY <1>3, <2>2, <3>1
  <2> QED
    BY <2>1, <2>2
<1>6. \A i \in Block : c[i] \in Nat
  <2>1. \A i \in Block : b[i] \in Nat
    BY DEF Filling
  <2> QED
    BY <1>2, <1>5, <2>1
<1>7. c \in Filling
  BY <1>4, <1>6 DEF Filling
<1>8. Copied(c, b, at, from, r)
  BY ONLY <1>5, <1>7 DEF Copied
<1> QED
  BY ONLY <1>8 DEF c, d

\* How many blocks there are, and what is left of the last.
LEMMA LeftIs ==
    ASSUME NEW n \in Nat, NEW L \in Nat, 64 * L <= n, n < 64 * L + 64
    PROVE  n % 64 = n - 64 * L /\ n \div 64 = L
<1> DEFINE q == n \div 64
           r == n % 64
<1>1. q \in Nat /\ r \in 0 .. 63 /\ n = 64 * q + r
  OBVIOUS
<1> HIDE DEF q, r
<1>2. q = L
  BY <1>1
<1> QED
  BY <1>1, <1>2 DEF q, r

\* A piece that starts with a block.
LEMMA AlignedUpdate ==
    ASSUME NEW n, NEW b, NEW done, Hashed(n, b, done), n = 64 * Len(done),
           NEW m \in Nat, NEW q, q = m \div 64, NEW r, r = m % 64,
           NEW f, Cut(f, n, q), NEW c, NEW from, from = n + m - r,
           Copied(c, b, 0, from, r)
    PROVE  Hashed(n + m, c, done \o f)
<1> DEFINE N == n + 64 * q
           d == done \o f
<1>1. q \in Nat /\ r \in 0 .. 63 /\ m = 64 * q + r
  OBVIOUS
<1>2. n \in Nat /\ b \in Filling /\ done \in Seq(Filling)
  BY DEF Hashed
<1>3. /\ \A k \in 1 .. q : \A i \in Block : f[k][i] = 256 + n + 64 * (k - 1) + i
      /\ Len(f) = q /\ f \in Seq(Filling)
  BY DEF Cut
<1>4. N \in Nat /\ n + m - r = N /\ n + m = N + r
  <2> QED
    BY ONLY <1>1, n \in Nat, <1>2
<1>5. Copied(c, b, 0, N, r)
  <2>1. from = N
    BY <1>4
  <2> HIDE DEF N
  <2> QED
    BY ONLY <2>1, Copied(c, b, 0, from, r)
<1>6. Hashed(N, b, d)
  <2>1. q \in Nat /\ b \in Filling /\ f \in Seq(Filling) /\ Len(f) = q
        /\ Hashed(n, b, done) /\ n = 64 * Len(done)
    BY <1>1, <1>2, <1>3
  <2> HIDE DEF Filling
  <2> QED
    BY ONLY Cut(f, n, q), <2>1, WholeHashed
<1>7. Len(d) = Len(done) + q /\ Len(done) \in Nat
  <2> HIDE DEF Filling
  <2>1. Len(d) = Len(done) + Len(f) /\ Len(done) \in Nat
    <3>1. done \in Seq(Filling) /\ f \in Seq(Filling)
      BY <1>2, <1>3
    <3> QED
      BY ONLY <3>1, ConcatBlocks
  <2> QED
    BY <1>3, <2>1
<1> HIDE DEF d
<1>8. 0 = N - 64 * Len(d)
  <2> DEFINE L == Len(done)
  <2>1. L \in Nat /\ Len(d) = L + q /\ n = 64 * L /\ q \in Nat
    BY <1>1, <1>7
  <2> HIDE DEF L
  <2> QED
    BY <2>1
<1> HIDE DEF N
<1>9. r \in Nat /\ 0 + r < 64
  BY ONLY <1>1
<1>10. Hashed(N + r, c, d)
  BY ONLY <1>5, <1>6, <1>8, <1>9, RestHashed
<1> QED
  BY ONLY <1>4, <1>10 DEF d

\* The whole blocks of a piece, as they lie in it.
LEMMA MessagesAre ==
    ASSUME NEW n \in Nat, NEW whole \in Nat
    PROVE  Cut([k \in 1 .. whole |-> Message(n + (k - 1) * 64, 64)], n, whole)
<1> DEFINE f == [k \in 1 .. whole |-> Message(n + (k - 1) * 64, 64)]
<1>1. ASSUME NEW k \in 1 .. whole
      PROVE  /\ f[k] \in Filling
             /\ \A i \in Block : f[k][i] = 256 + n + 64 * (k - 1) + i
  <2> DEFINE from == n + (k - 1) * 64
  <2>1. from \in Nat /\ 64 * (k - 1) \in Nat /\ from = n + 64 * (k - 1)
    <3>1. k - 1 \in Nat
      OBVIOUS
    <3> DEFINE h == k - 1
    <3> HIDE DEF h
    <3>2. h \in Nat
      BY <3>1 DEF h
    <3>3. n + h * 64 \in Nat /\ 64 * h \in Nat /\ n + h * 64 = n + 64 * h
      BY <3>2
    <3> QED
      BY <3>3 DEF h
  <2>2. f[k] = Message(from, 64)
    OBVIOUS
  <2> HIDE DEF from, f
  <2>3. Message(from, 64) = [i \in Block |-> 256 + from + i]
    <3>1. 64 - 1 = 63
      OBVIOUS
    <3> QED
      BY <3>1 DEF Message, Block
  <2>4. \A i \in Block : 256 + from + i \in Nat /\ f[k][i] = 256 + from + i
    BY <2>1, <2>2, <2>3 DEF Block
  <2>5. f[k] \in Filling
    BY <2>2, <2>3, <2>4 DEF Filling
  <2>6. \A i \in Block : 256 + from + i = 256 + n + 64 * (k - 1) + i
    BY <2>1 DEF Block
  <2> QED
    BY <2>4, <2>5, <2>6
<1>2. f = [k \in 1 .. whole |-> f[k]]
  OBVIOUS
<1> HIDE DEF f
<1>3. f \in [1 .. whole -> Filling]
  BY <1>1, <1>2
<1>4. f \in Seq(Filling) /\ Len(f) = whole
  <2> HIDE DEF Filling
  <2> QED
    BY <1>2, <1>3
<1>5. Cut(f, n, whole)
  BY ONLY <1>1, <1>4 DEF Cut
<1> QED
  BY ONLY <1>5 DEF f

\* The next piece of the message goes into the blocks and the buffer.
LEMMA UpdateKeeps ==
    ASSUME ShaInv, NEW m \in Nat, Sha1Update(m)
    PROVE  ShaInv'
<1> DEFINE n == sha.total
           left == n % 64
           fill == 64 - left
           filled == left > 0 /\ m >= fill
           first == IF filled THEN CopyTo(sha.buffer, left, Message(n, fill), fill)
                    ELSE sha.buffer
           used == IF filled THEN fill ELSE 0
           whole == (m - used) \div 64
           rest == (m - used) % 64
           at == RestAt(left, filled)
           head == IF filled THEN <<first>> ELSE <<>>
           f == [k \in 1 .. whole |-> Message(n + used + (k - 1) * 64, 64)]
           c == CopyTo(first, at, Message(n + m - rest, rest), rest)
           L == Len(blocks)
<1>1. /\ ~sha.done
      /\ blocks' = blocks \o head \o f
      /\ sha' = [sha EXCEPT !.total = n + m, !.buffer = c]
  BY DEF Sha1Update
<1>2. Hashed(n, sha.buffer, blocks)
      /\ sha = [total |-> sha.total, buffer |-> sha.buffer, done |-> sha.done]
  BY <1>1 DEF ShaInv
<1>3. sha' = [total |-> n + m, buffer |-> c, done |-> FALSE]
  <2> HIDE DEF n, c
  <2> QED
    BY <1>1, <1>2 DEF ShaInv
<1>4. n \in Nat /\ sha.buffer \in Filling /\ blocks \in Seq(Filling) /\ L \in Nat
      /\ 64 * L <= n /\ n < 64 * L + 64
  BY <1>2 DEF Hashed
<1>5. left = n - 64 * L /\ left \in 0 .. 63
  <2> HIDE DEF L, n
  <2>1. n % 64 = n - 64 * L
    BY <1>4, LeftIs
  <2> QED
    BY <1>4, <2>1
<1>6. fill \in 1 .. 64 /\ fill = 64 - left /\ left + fill = 64
  <2>1. left \in 0 .. 63
    BY <1>5
  <2> HIDE DEF left
  <2> QED
    BY <2>1
<1>7. used \in Nat /\ used <= m
  <2>1. fill \in Nat /\ (filled => fill <= m)
    <3> HIDE DEF fill, left
    <3> QED
      BY <1>6
  <2> HIDE DEF fill, filled
  <2> QED
    BY <2>1
<1>8. whole \in Nat /\ rest \in 0 .. 63 /\ m - used = 64 * whole + rest
      /\ n + m - rest \in Nat
  <2> DEFINE u == m - used
             q == u \div 64
             s == u % 64
  <2>1. u \in Nat
    <3> HIDE DEF used
    <3> QED
      BY <1>7
  <2> HIDE DEF u
  <2>2. q \in Nat /\ s \in 0 .. 63 /\ u = 64 * q + s
    BY <2>1
  <2>3. n + m - s \in Nat
    <3>1. s <= u /\ u <= m
      <4>1. s <= u
        <5> HIDE DEF q, s
        <5> QED
          BY <2>2
      <4>2. u <= m
        <5> HIDE DEF used
        <5> QED
          BY <1>7 DEF u
      <4> QED
        BY <4>1, <4>2
    <3>2. s \in Nat /\ u \in Nat
      BY <2>1, <2>2
    <3> HIDE DEF s, n
    <3> QED
      BY <1>4, <3>1, <3>2
  <2> QED
    BY <2>2, <2>3 DEF u
<1> HIDE DEF whole, rest
<1>9. first \in Filling
      /\ (filled => \A i \in Block : first[i] = 256 + 64 * L + i)
  <2>1. CASE ~filled
    BY <1>4, <2>1
  <2>2. CASE filled
    <3>1. left \in Nat /\ fill \in Nat
      <4>1. left \in 0 .. 63 /\ fill \in 1 .. 64
        BY <1>5, <1>6
      <4> HIDE DEF left, fill
      <4> QED
        BY <4>1
    <3> DEFINE e == CopyTo(sha.buffer, left, Message(n, fill), fill)
    <3>2. /\ e \in Filling
          /\ \A i \in Block : e[i] = IF left <= i /\ i < left + fill
                                     THEN 256 + n + (i - left) ELSE sha.buffer[i]
      <4> DEFINE old == sha.buffer
      <4>1. old \in Filling /\ n \in Nat
        BY <1>4
      <4>2. e = CopyTo(old, left, Message(n, fill), fill)
        OBVIOUS
      <4>3. /\ e \in Filling
            /\ \A i \in Block : e[i] = IF left <= i /\ i < left + fill
                                       THEN 256 + n + (i - left) ELSE old[i]
        <5> HIDE DEF left, fill, n, old
        <5>1. Copied(CopyTo(old, left, Message(n, fill), fill), old, left, n, fill)
          BY ONLY <3>1, <4>1, CopyIs
        <5> HIDE DEF e
        <5>2. Copied(e, old, left, n, fill)
          BY ONLY <4>2, <5>1
        <5> QED
          BY ONLY <5>2 DEF Copied
      <4> QED
        BY <4>3
    <3>3. \A i \in Block : i < left => sha.buffer[i] = 256 + 64 * L + i
      BY <1>2, <1>5 DEF Hashed
    <3>4. first = e
      BY <2>2
    <3> HIDE DEF e, left, fill, L, n, first
    <3>5. ASSUME NEW i \in Block
          PROVE  e[i] = 256 + 64 * L + i
      <4>1. i \in 0 .. 63
        BY DEF Block
      <4>2. CASE i < left
        <5>1. ~(left <= i)
          BY <1>5, <4>1, <4>2
        <5> QED
          BY <3>2, <3>3, <4>2, <5>1
      <4>3. CASE ~(i < left)
        <5>1. left <= i /\ i < left + fill /\ 256 + n + (i - left) = 256 + 64 * L + i
          BY <1>4, <1>5, <1>6, <4>1, <4>3
        <5> QED
          BY <3>2, <5>1
      <4> QED
        BY <4>2, <4>3
    <3> QED
      BY <3>2, <3>4, <3>5
  <2> QED
    BY <2>1, <2>2
<1>10. Cut(f, n + used, whole)
  <2>1. n + used \in Nat
    <3> HIDE DEF n, used
    <3> QED
      BY <1>4, <1>7
  <2> HIDE DEF n, used
  <2>2. Cut([k \in 1 .. whole |-> Message((n + used) + (k - 1) * 64, 64)], n + used, whole)
    BY ONLY <1>8, <2>1, MessagesAre
  <2> QED
    BY ONLY <2>2
<1>11. at \in Nat => Copied(c, first, at, n + m - rest, rest)
  <2>1. n + m - rest \in Nat /\ rest \in Nat /\ first \in Filling
    BY <1>8, <1>9
  <2> HIDE DEF at, first, n
  <2>2. ASSUME at \in Nat
        PROVE  Copied(CopyTo(first, at, Message(n + m - rest, rest), rest),
                      first, at, n + m - rest, rest)
    BY ONLY <2>1, <2>2, CopyIs
  <2> QED
    BY ONLY <2>2
<1>12. ASSUME filled
       PROVE  Hashed(n + m, c, blocks \o head \o f)
  <2> DEFINE d == blocks \o <<first>>
             p == m - fill
             N == n + fill
  <2>1. used = fill /\ head = <<first>> /\ at = 0
    BY <1>12 DEF RestAt
  <2>2. p \in Nat /\ N \in Nat /\ N + p = n + m /\ N = 64 * L + 64
    <3>1. fill <= m
      <4> HIDE DEF left, fill
      <4> QED
        BY <1>6, <1>12
    <3> HIDE DEF n, L, left, fill
    <3> QED
      BY <1>4, <1>5, <1>6, <3>1
  <2>3. whole = p \div 64 /\ rest = p % 64
    BY <2>1 DEF whole, rest
  <2>4. Hashed(N, first, d) /\ Len(d) = L + 1
    <3>1. Hashed(64 * L, sha.buffer, blocks)
      <4> DEFINE t == 64 * L
      <4>1. t \in Nat /\ 64 * L <= t /\ t < 64 * L + 64 /\ t - 64 * L = 0
        <5> HIDE DEF L
        <5> QED
          BY <1>4
      <4>2. \A i \in Block : ~(i < t - 64 * L)
        <5> HIDE DEF t
        <5> QED
          BY <4>1 DEF Block
      <4>3. \A k \in 1 .. L : \A i \in Block :
               blocks[k][i] = 256 + 64 * (k - 1) + i
        BY <1>2 DEF Hashed
      <4> HIDE DEF t
      <4>4. Hashed(t, sha.buffer, blocks)
        BY <1>4, <4>1, <4>2, <4>3 DEF Hashed
      <4> QED
        BY <4>4 DEF t
    <3> DEFINE t == 64 * L
               one == <<first>>
    <3>2. one \in Seq(Filling) /\ Len(one) = 1 /\ one[1] = first
      <4> HIDE DEF first, Filling
      <4> QED
        BY <1>9
    <3>3. \A k \in 1 .. 1 : \A i \in Block : one[k][i] = 256 + t + 64 * (k - 1) + i
      <4>1. \A i \in Block : one[1][i] = 256 + 64 * L + i
        BY <1>9, <1>12, <3>2
      <4>2. t \in Nat /\ t = 64 * L
        <5> HIDE DEF L
        <5> QED
          BY <1>4
      <4> HIDE DEF one, t, L
      <4>3. \A i \in Block : 256 + 64 * L + i = 256 + t + 64 * (1 - 1) + i
        BY <4>2 DEF Block
      <4>4. \A k \in 1 .. 1 : k = 1
        OBVIOUS
      <4> QED
        BY <4>1, <4>3, <4>4
    <3>4. first \in Filling /\ t = 64 * Len(blocks) /\ 1 \in Nat
      BY <1>9
    <3>5. Hashed(t + 64 * 1, first, blocks \o one)
      <4>1. Hashed(t, sha.buffer, blocks)
        BY <3>1
      <4> HIDE DEF t, one, first, Filling
      <4> QED
        <5> DEFINE w == 1
        <5>1. w \in Nat /\ Len(one) = w /\ one \in Seq(Filling) /\ first \in Filling
              /\ t = 64 * Len(blocks)
          BY <3>2, <3>4
        <5>2. Cut(one, t, w)
          BY <3>2, <3>3 DEF Cut
        <5> HIDE DEF w
        <5>3. Hashed(t + 64 * w, first, blocks \o one)
          BY ONLY <4>1, <5>1, <5>2, WholeHashed
        <5> QED
          BY <5>3 DEF w
    <3>6. t + 64 * 1 = N
      <4> HIDE DEF L, N
      <4> QED
        BY <1>4, <2>2
    <3>7. Len(d) = L + 1
      <4>1. blocks \in Seq(Filling)
        BY <1>4
      <4> HIDE DEF one, Filling
      <4>2. Len(blocks \o one) = L + Len(one)
        BY ONLY <3>2, <4>1, ConcatBlocks
      <4> QED
        BY <3>2, <4>2 DEF one
    <3> QED
      BY <3>5, <3>6, <3>7
  <2>5. N = 64 * Len(d)
    <3> HIDE DEF d, N, L
    <3> QED
      BY <1>4, <2>2, <2>4
  <2>6. Cut(f, N, whole)
    <3> HIDE DEF fill, used, f, n
    <3> QED
      BY ONLY <1>10, <2>1
  <2> DEFINE from == n + m - rest
  <2>7. Copied(c, first, 0, from, rest)
    <3>1. at = 0 /\ at \in Nat
      BY ONLY <2>1
    <3> HIDE DEF c, first, at, n
    <3>2. Copied(c, first, at, from, rest)
      BY ONLY <1>11, <3>1
    <3> HIDE DEF from
    <3> QED
      BY ONLY <3>1, <3>2
  <2>8. from = N + p - rest
    <3>1. n \in Nat /\ rest \in Nat
      BY <1>4, <1>8
    <3> HIDE DEF n, N, p
    <3> QED
      BY <2>2, <3>1
  <2> HIDE DEF N, p, d, f, c, first, Filling, at, used, from
  <2>9. p \in Nat /\ Hashed(N, first, d)
    BY <2>2, <2>4
  <2>10. Hashed(N + p, c, d \o f)
    BY ONLY <2>3, <2>5, <2>6, <2>7, <2>8, <2>9, AlignedUpdate
  <2> QED
    BY <2>1, <2>2, <2>10 DEF d
<1>13. blocks \o <<>> = blocks
  <2> HIDE DEF Filling
  <2> QED
    BY <1>4
<1>14. ASSUME ~filled
       PROVE  /\ used = 0 /\ m - used = m /\ n + used = n
              /\ head = <<>> /\ first = sha.buffer /\ at = left
  <2>1. used = 0 /\ head = <<>> /\ first = sha.buffer /\ at = left
    BY <1>14 DEF RestAt
  <2> HIDE DEF n, used
  <2>2. m - used = m /\ n + used = n
    BY <1>4, <2>1
  <2> QED
    BY <2>1, <2>2
<1>15. ASSUME ~filled, left = 0
       PROVE  Hashed(n + m, c, blocks \o head \o f)
  <2> DEFINE from == n + m - rest
             old == sha.buffer
  <2>1. at = 0 /\ n + used = n /\ head = <<>> /\ first = old /\ at \in Nat
    BY <1>14, <1>15
  <2>2. whole = m \div 64 /\ rest = m % 64
    BY <1>14, <1>15 DEF whole, rest
  <2>3. n = 64 * L
    <3> HIDE DEF n, L, left
    <3> QED
      BY <1>4, <1>5, <1>15
  <2>4. Hashed(n, old, blocks)
    BY <1>2
  <2> HIDE DEF n, f, c, used, first, at, head, left, filled, old, L
  <2>5. Cut(f, n, whole)
    BY ONLY <1>10, <2>1
  <2>6. Copied(c, old, 0, from, rest)
    BY ONLY <1>11, <2>1
  <2> HIDE DEF from
  <2>7. from = n + m - rest
    BY DEF from
  <2>8. Hashed(n + m, c, blocks \o f)
    <3>1. n = 64 * Len(blocks)
      BY <2>3 DEF L
    <3> QED
      BY ONLY m \in Nat, <2>2, <2>4, <2>5, <2>6, <2>7, <3>1, AlignedUpdate
  <2> QED
    BY <1>13, <2>1, <2>8
<1>16. ASSUME ~filled, left > 0
       PROVE  Hashed(n + m, c, blocks \o head \o f)
  <2> DEFINE from == n + m - rest
             old == sha.buffer
  <2>1. at = left /\ m - used = m /\ head = <<>> /\ first = old
    BY <1>14, <1>16
  <2>2. m < fill
    <3>1. fill \in 1 .. 64
      BY <1>6
    <3> HIDE DEF left, fill
    <3> QED
      BY <1>16, <3>1
  <2>3. n \in Nat /\ L \in Nat /\ left \in 0 .. 63 /\ left = n - 64 * L /\ fill = 64 - left
    BY <1>4, <1>5
  <2>4. Hashed(n, old, blocks)
    BY <1>2
  <2> HIDE DEF n, f, c, used, first, at, head, left, filled, old, L, fill
  <2>5. whole = 0 /\ rest = m
    <3>1. whole \in Nat /\ rest \in 0 .. 63 /\ m = 64 * whole + rest
      BY <1>8, <2>1
    <3>2. m < 64
      BY <2>2, <2>3
    <3> QED
      BY <3>1, <3>2
  <2>6. from = n
    BY <2>3, <2>5
  <2> HIDE DEF from
  <2>7. Copied(c, old, left, n, m)
    <3>1. left \in Nat
      BY <2>3
    <3>2. Copied(c, old, left, from, rest)
      BY ONLY <1>11, <2>1, <3>1 DEF from
    <3> QED
      BY <2>5, <2>6, <3>2
  <2>8. f = <<>>
    <3>1. f \in Seq(Filling) /\ Len(f) = 0
      BY ONLY <1>10, <2>5 DEF Cut
    <3> HIDE DEF Filling
    <3> QED
      BY <3>1
  <2>9. left = n - 64 * Len(blocks) /\ left + m < 64
    <3>1. left + m < 64
      BY <2>2, <2>3
    <3> QED
      BY <2>3, <3>1 DEF L
  <2>10. Hashed(n + m, c, blocks)
    BY ONLY m \in Nat, <2>4, <2>7, <2>9, RestHashed
  <2> QED
    BY <1>13, <2>1, <2>8, <2>10
<1>17. Hashed(n + m, c, blocks \o head \o f)
  <2>1. left \in 0 .. 63
    BY <1>5
  <2> HIDE DEF left, filled, n, c, head, f
  <2>2. left = 0 \/ left > 0
    BY <2>1
  <2> QED
    BY <1>12, <1>15, <1>16, <2>2
<1> QED
  BY <1>1, <1>3, <1>17 DEF ShaInv

\* What memset does to the buffer.
Wiped(c, b, from, to) ==
    \A i \in Block : c[i] = IF from <= i /\ i < to THEN 0 ELSE b[i]

LEMMA ClearedIs ==
    ASSUME NEW b, NEW from \in Nat, NEW to \in Nat
    PROVE  Wiped(Cleared(b, from, to), b, from, to)
<1> DEFINE c == Cleared(b, from, to)
<1>1. \A i \in Block : c[i] = IF i \in from .. to - 1 THEN 0 ELSE b[i]
  BY DEF Cleared
<1> HIDE DEF c
<1>2. ASSUME NEW i \in Block
      PROVE  i \in from .. to - 1 <=> from <= i /\ i < to
  <2>1. i \in Int /\ from \in Nat /\ to \in Nat
    BY DEF Block
  <2> QED
    BY ONLY <2>1
<1> HIDE DEF Block
<1>3. Wiped(c, b, from, to)
  BY ONLY <1>1, <1>2 DEF Wiped
<1> QED
  BY ONLY <1>3 DEF c

\* The blocks that are added last, one or two, go behind the others.
LEMMA LastBlocks ==
    ASSUME NEW done \in Seq(Filling), NEW a, NEW e
    PROVE  /\ Len(done \o <<>> \o <<e>>) = Len(done) + 1
           /\ (done \o <<>> \o <<e>>)[Len(done) + 1] = e
           /\ Len(done \o <<a>> \o <<e>>) = Len(done) + 2
           /\ (done \o <<a>> \o <<e>>)[Len(done) + 1] = a
           /\ (done \o <<a>> \o <<e>>)[Len(done) + 2] = e
           /\ \A k \in 1 .. Len(done) :
                 /\ (done \o <<>> \o <<e>>)[k] = done[k]
                 /\ (done \o <<a>> \o <<e>>)[k] = done[k]
<1> DEFINE S == Filling \union {a, e}
           one == <<a>>
           end == <<e>>
           d == done \o one
           L == Len(done)
<1>1. done \in Seq(S)
  <2>1. Filling \subseteq S
    OBVIOUS
  <2> HIDE DEF S, Filling
  <2> QED
    BY <2>1
<1>2. a \in S /\ e \in S
  OBVIOUS
<1> HIDE DEF S, Filling
<1>3. one \in Seq(S) /\ Len(one) = 1 /\ one[1] = a
      /\ end \in Seq(S) /\ Len(end) = 1 /\ end[1] = e
  BY <1>2
<1>4. done \o <<>> = done
  BY <1>1
<1> HIDE DEF one, end
<1>5. /\ d \in Seq(S) /\ L \in Nat /\ Len(d) = L + 1
      /\ \A j \in 1 .. L : d[j] = done[j]
      /\ \A j \in 1 .. 1 : d[L + j] = one[j]
  <2>1. /\ d \in Seq(S) /\ L \in Nat /\ Len(d) = L + Len(one)
        /\ \A j \in 1 .. L : d[j] = done[j]
        /\ \A j \in 1 .. Len(one) : d[L + j] = one[j]
    <3>1. done \in Seq(S) /\ one \in Seq(S)
      BY <1>1, <1>3
    <3> QED
      BY ONLY <3>1, ConcatBlocks
  <2> HIDE DEF d, L
  <2> QED
    BY <1>3, <2>1
<1> HIDE DEF d
<1>6. /\ Len(done \o end) = L + 1
      /\ \A j \in 1 .. L : (done \o end)[j] = done[j]
      /\ \A j \in 1 .. 1 : (done \o end)[L + j] = end[j]
  <2>1. /\ Len(done \o end) = L + Len(end)
        /\ \A j \in 1 .. L : (done \o end)[j] = done[j]
        /\ \A j \in 1 .. Len(end) : (done \o end)[L + j] = end[j]
    <3>1. done \in Seq(S) /\ end \in Seq(S)
      BY <1>1, <1>3
    <3> QED
      BY ONLY <3>1, ConcatBlocks
  <2> HIDE DEF L
  <2> QED
    BY <1>3, <2>1
<1>7. /\ Len(d \o end) = Len(d) + 1
      /\ \A j \in 1 .. Len(d) : (d \o end)[j] = d[j]
      /\ \A j \in 1 .. 1 : (d \o end)[Len(d) + j] = end[j]
  <2>1. /\ Len(d \o end) = Len(d) + Len(end)
        /\ \A j \in 1 .. Len(d) : (d \o end)[j] = d[j]
        /\ \A j \in 1 .. Len(end) : (d \o end)[Len(d) + j] = end[j]
    <3>1. d \in Seq(S) /\ end \in Seq(S)
      BY <1>3, <1>5
    <3> QED
      BY ONLY <3>1, ConcatBlocks
  <2> HIDE DEF L
  <2> QED
    BY ONLY <1>3, <2>1
<1> HIDE DEF L
<1>8. (done \o end)[L + 1] = e
  <2>1. 1 \in 1 .. 1 /\ end[1] = e
    BY <1>3
  <2> QED
    BY ONLY <1>6, <2>1
<1>9. d[L + 1] = a
  <2>1. 1 \in 1 .. 1 /\ one[1] = a
    BY <1>3
  <2> QED
    BY ONLY <1>5, <2>1
<1>10. /\ Len(d \o end) = L + 2 /\ (d \o end)[L + 2] = e /\ (d \o end)[L + 1] = a
       /\ \A k \in 1 .. L : (d \o end)[k] = done[k]
  <2>1. L \in Nat /\ Len(d) = L + 1
    BY <1>5
  <2>2. L + 1 \in 1 .. Len(d) /\ Len(d) + 1 = L + 2
        /\ \A k \in 1 .. L : k \in 1 .. Len(d)
    BY <2>1
  <2> QED
    BY <1>3, <1>5, <1>7, <1>9, <2>2
<1> QED
  BY <1>4, <1>6, <1>8, <1>10 DEF L, d, one, end

\* Each place of a message has one block and one place in it.
LEMMA PlaceIs ==
    ASSUME NEW i \in Nat
    PROVE  \E K \in Nat, j \in Block : i = 64 * K + j /\ i \div 64 = K /\ i % 64 = j
<1> DEFINE K == i \div 64
           j == i % 64
<1>1. K \in Nat /\ j \in 0 .. 63 /\ i = 64 * K + j
  OBVIOUS
<1> QED
  BY <1>1 DEF Block

\* The padding makes the last blocks of the message.
LEMMA FinishKeeps ==
    ASSUME ShaInv, Sha1Finish
    PROVE  ShaInv'
<1> DEFINE n == sha.total
           L == Len(blocks)
           left == n % 64
           used == left + 1
           marked == [sha.buffer EXCEPT ![used - 1] = 128]
           part == Cleared(marked, used, 64)
           last == IF Fits(used) THEN Cleared(marked, used, 56)
                   ELSE Cleared(part, 0, 56)
           head == IF Fits(used) THEN <<>> ELSE <<part>>
           end == PutLength(last, n)
           all == blocks \o head \o <<end>>
           byte(k) == ((n * 8) \div 256 ^ k) % 256
<1>1. ~sha.done /\ blocks' = all /\ sha' = [sha EXCEPT !.buffer = end, !.done = TRUE]
  BY DEF Sha1Finish
<1>2. Hashed(n, sha.buffer, blocks)
      /\ sha = [total |-> sha.total, buffer |-> sha.buffer, done |-> sha.done]
  BY <1>1 DEF ShaInv
<1>3. sha' = [total |-> n, buffer |-> end, done |-> TRUE]
  <2> HIDE DEF end
  <2> QED
    BY <1>1, <1>2 DEF ShaInv
<1>4. n \in Nat /\ sha.buffer \in Filling /\ blocks \in Seq(Filling) /\ L \in Nat
      /\ 64 * L <= n /\ n < 64 * L + 64
  BY <1>2 DEF Hashed
<1>5. left = n - 64 * L /\ left \in 0 .. 63 /\ n = 64 * L + left
  <2> HIDE DEF L, n
  <2>1. n % 64 = n - 64 * L
    BY <1>4, LeftIs
  <2> QED
    BY <1>4, <2>1
<1>6. used - 1 = left /\ used \in Nat /\ (Fits(used) <=> left <= 55)
  <2>1. left \in 0 .. 63
    BY <1>5
  <2> HIDE DEF left
  <2> QED
    BY <2>1 DEF Fits
<1>7. \A i \in Block : marked[i] = IF i = left THEN 128 ELSE sha.buffer[i]
  <2>1. sha.buffer \in Filling
    BY <1>4
  <2> HIDE DEF left, used
  <2> QED
    BY <1>6, <2>1 DEF Filling
<1>8. \A k \in 1 .. L : \A i \in Block : blocks[k][i] = 256 + 64 * (k - 1) + i
  BY <1>2 DEF Hashed
<1>9. \A i \in Block : i < left => sha.buffer[i] = 256 + 64 * L + i
  BY <1>2, <1>5 DEF Hashed
<1>10. \A i \in Block :
          /\ part[i] = IF used <= i /\ i < 64 THEN 0 ELSE marked[i]
          /\ Fits(used) => last[i] = IF used <= i /\ i < 56 THEN 0 ELSE marked[i]
          /\ ~Fits(used) => last[i] = IF 0 <= i /\ i < 56 THEN 0 ELSE part[i]
  <2> HIDE DEF marked, used
  <2>1. 64 \in Nat /\ 56 \in Nat /\ 0 \in Nat
    OBVIOUS
  <2>2. used \in Nat
    BY <1>6
  <2>3. Wiped(Cleared(marked, used, 64), marked, used, 64)
    BY ONLY <2>1, <2>2, ClearedIs
  <2>4. Wiped(Cleared(marked, used, 56), marked, used, 56)
    BY ONLY <2>1, <2>2, ClearedIs
  <2>5. Wiped(Cleared(part, 0, 56), part, 0, 56)
    <3> HIDE DEF part
    <3> QED
      BY ONLY <2>1, ClearedIs
  <2>6. /\ part = Cleared(marked, used, 64)
        /\ Fits(used) => last = Cleared(marked, used, 56)
        /\ ~Fits(used) => last = Cleared(part, 0, 56)
    BY Zenon
  <2> HIDE DEF part, last
  <2>7. /\ Wiped(part, marked, used, 64)
        /\ Fits(used) => Wiped(last, marked, used, 56)
        /\ ~Fits(used) => Wiped(last, part, 0, 56)
    BY ONLY <2>3, <2>4, <2>5, <2>6
  <2> QED
    BY ONLY <2>7 DEF Wiped
<1>11. \A i \in Block : end[i] = IF i < 60 THEN (IF i < 56 THEN last[i] ELSE 0)
                                 ELSE byte(63 - i)
  BY DEF PutLength
<1> HIDE DEF marked, part, last, end
<1>12. \A i \in Block : i \in Int /\ 0 <= i /\ i <= 63
  BY DEF Block
<1> DEFINE zeros == (119 - left) % 64
           size == 64 * Len(all)
<1>13. ASSUME Fits(used)
       PROVE  /\ Len(all) = L + 1 /\ all[L + 1] = end /\ zeros = 55 - left /\ left <= 55
              /\ \A k \in 1 .. L : all[k] = blocks[k]
              /\ \A j \in Block :
                    /\ j < left => end[j] = 256 + 64 * L + j
                    /\ j = left => end[j] = 128
                    /\ left < j /\ j < 60 => end[j] = 0
                    /\ 60 <= j => end[j] = byte(63 - j)
  <2>1. head = <<>> /\ blocks \in Seq(Filling)
    BY <1>4, <1>13
  <2>2. Len(all) = L + 1 /\ all[L + 1] = end /\ \A k \in 1 .. L : all[k] = blocks[k]
    <3> HIDE DEF head, Filling
    <3> QED
      BY <2>1, LastBlocks
  <2>3. zeros = 55 - left /\ left <= 55
    <3>1. left \in 0 .. 55
      <4>1. left \in 0 .. 63 /\ left <= 55
        BY <1>5, <1>6, <1>13
      <4> HIDE DEF left
      <4> QED
        BY <4>1
    <3> HIDE DEF left
    <3> QED
      BY <3>1
  <2>4. ASSUME NEW j \in Block
        PROVE  /\ j < left => end[j] = 256 + 64 * L + j
               /\ j = left => end[j] = 128
               /\ left < j /\ j < 60 => end[j] = 0
               /\ 60 <= j => end[j] = byte(63 - j)
    <3>1. left \in 0 .. 55
      <4>1. left \in 0 .. 63 /\ left <= 55
        BY <1>5, <1>6, <1>13
      <4> HIDE DEF left
      <4> QED
        BY <4>1
    <3>2. used - 1 = left /\ used = left + 1 /\ used \in Nat
      BY <1>6
    <3> DEFINE B == byte(63 - j)
               v == 256 + 64 * L + j
    <3>3. /\ last[j] = IF used <= j /\ j < 56 THEN 0 ELSE marked[j]
          /\ end[j] = IF j < 60 THEN (IF j < 56 THEN last[j] ELSE 0) ELSE B
          /\ marked[j] = IF j = left THEN 128 ELSE sha.buffer[j]
          /\ j < left => sha.buffer[j] = v
      BY <1>7, <1>9, <1>10, <1>11, <1>13
    <3> HIDE DEF left, used, B, v
    <3>4. j < left => end[j] = v
      BY <1>12, <3>1, <3>2, <3>3
    <3>5. j = left => end[j] = 128
      BY <1>12, <3>1, <3>2, <3>3
    <3>6. left < j /\ j < 60 => end[j] = 0
      BY <1>12, <3>1, <3>2, <3>3
    <3>7. 60 <= j => end[j] = B
      BY <1>12, <3>3
    <3> QED
      BY <3>4, <3>5, <3>6, <3>7 DEF B, v
  <2> QED
    BY <2>2, <2>3, <2>4
<1>14. ASSUME ~Fits(used)
       PROVE  /\ Len(all) = L + 2 /\ all[L + 1] = part /\ all[L + 2] = end
              /\ zeros = 119 - left /\ left > 55
              /\ \A k \in 1 .. L : all[k] = blocks[k]
              /\ \A j \in Block :
                    /\ j < left => part[j] = 256 + 64 * L + j
                    /\ j = left => part[j] = 128
                    /\ left < j => part[j] = 0
                    /\ j < 60 => end[j] = 0
                    /\ 60 <= j => end[j] = byte(63 - j)
  <2>1. head = <<part>> /\ blocks \in Seq(Filling)
    BY <1>4, <1>14
  <2>2. /\ Len(all) = L + 2 /\ all[L + 1] = part /\ all[L + 2] = end
        /\ \A k \in 1 .. L : all[k] = blocks[k]
    <3> HIDE DEF head, Filling
    <3> QED
      BY <2>1, LastBlocks
  <2>3. zeros = 119 - left /\ left > 55
    <3>1. left \in 56 .. 63
      <4>1. left \in 0 .. 63 /\ ~(left <= 55)
        BY <1>5, <1>6, <1>14
      <4> HIDE DEF left
      <4> QED
        BY <4>1
    <3> HIDE DEF left
    <3> QED
      BY <3>1
  <2>4. ASSUME NEW j \in Block
        PROVE  /\ j < left => part[j] = 256 + 64 * L + j
               /\ j = left => part[j] = 128
               /\ left < j => part[j] = 0
               /\ j < 60 => end[j] = 0
               /\ 60 <= j => end[j] = byte(63 - j)
    <3>1. left \in 0 .. 63
      BY <1>5
    <3>2. used - 1 = left /\ used = left + 1 /\ used \in Nat
      BY <1>6
    <3> DEFINE B == byte(63 - j)
               v == 256 + 64 * L + j
    <3>3. /\ last[j] = IF 0 <= j /\ j < 56 THEN 0 ELSE part[j]
          /\ part[j] = IF used <= j /\ j < 64 THEN 0 ELSE marked[j]
          /\ end[j] = IF j < 60 THEN (IF j < 56 THEN last[j] ELSE 0) ELSE B
          /\ marked[j] = IF j = left THEN 128 ELSE sha.buffer[j]
          /\ j < left => sha.buffer[j] = v
      BY <1>7, <1>9, <1>10, <1>11, <1>14
    <3> HIDE DEF left, used, B, v
    <3>4. j < left => part[j] = v
      BY <1>12, <3>1, <3>2, <3>3
    <3>5. j = left => part[j] = 128
      BY <1>12, <3>1, <3>2, <3>3
    <3>6. left < j => part[j] = 0
      BY <1>12, <3>1, <3>2, <3>3
    <3>7. j < 60 => end[j] = 0
      BY <1>12, <3>3
    <3>8. 60 <= j => end[j] = B
      BY <1>12, <3>3
    <3> QED
      BY <3>4, <3>5, <3>6, <3>7, <3>8 DEF B, v
  <2> QED
    BY <2>2, <2>3, <2>4
<1>15. L \in Nat /\ left \in 0 .. 63 /\ n = 64 * L + left
  BY <1>4, <1>5
<1>16. size = n + 1 + zeros + 8
  <2> HIDE DEF L, left, n, used, all, zeros
  <2> QED
    BY <1>13, <1>14, <1>15
<1>17. ASSUME NEW i \in 0 .. size - 1
       PROVE  all[i \div 64 + 1][i % 64] =
                 CASE i < n -> 256 + i
                   [] i = n -> 128
                   [] i > n /\ i <= n + zeros -> 0
                   [] i > n + zeros /\ i < size - 4 -> 0
                   [] OTHER -> ((n * 8) \div 256 ^ (size - 1 - i)) % 256
  <2> DEFINE B == byte(size - 1 - i)
             V == all[i \div 64 + 1][i % 64]
  <2>1. size \in Nat /\ i \in Nat /\ size = 64 * Len(all)
    <3>1. Len(all) = L + 1 \/ Len(all) = L + 2
      BY <1>13, <1>14
    <3>2. size \in Nat
      <4> HIDE DEF L, all
      <4> QED
        BY <1>15, <3>1
    <3> HIDE DEF size
    <3>3. i \in Nat
      BY <3>2
    <3> QED
      BY <3>2, <3>3 DEF size
  <2>2. PICK K \in Nat, j \in Block : i = 64 * K + j /\ i \div 64 = K /\ i % 64 = j
    BY <2>1, PlaceIs
  <2>3. V = all[K + 1][j]
    BY <2>2
  <2> HIDE DEF V, n, L, left, used, all, zeros, size, Block
  <2>4. j \in Int /\ 0 <= j /\ j <= 63
    BY <1>12
  <2>5. K < L \/ K = L \/ (K = L + 1 /\ ~Fits(used))
    <3>1. 64 * K + j < 64 * Len(all)
      BY <2>1, <2>2
    <3>2. CASE Fits(used)
      <4>1. Len(all) = L + 1
        BY <1>13, <3>2
      <4> QED
        BY <1>15, <2>4, <3>1, <4>1
    <3>3. CASE ~Fits(used)
      <4>1. Len(all) = L + 2
        BY <1>14, <3>3
      <4> QED
        BY <1>15, <2>4, <3>1, <3>3, <4>1
    <3> QED
      BY <3>2, <3>3
  <2>6. ASSUME K < L
        PROVE  i < n /\ V = 256 + i
    <3>1. K + 1 \in 1 .. L
      BY <1>15, <2>6
    <3>2. all[K + 1] = blocks[K + 1]
      BY <1>13, <1>14, <3>1
    <3>3. blocks[K + 1][j] = 256 + 64 * ((K + 1) - 1) + j
      BY <1>8, <3>1
    <3>4. 256 + 64 * ((K + 1) - 1) + j = 256 + i /\ i < n
      BY <1>15, <2>2, <2>4, <2>6
    <3> QED
      BY <2>3, <3>2, <3>3, <3>4
  <2>7. ASSUME K = L, Fits(used)
        PROVE  /\ i < n => V = 256 + i
               /\ i = n => V = 128
               /\ n < i /\ i < size - 4 => V = 0
               /\ size - 4 <= i => V = B
    <3>1. V = end[j] /\ size = 64 * L + 64
      <4>1. Len(all) = L + 1 /\ all[K + 1] = end
        BY <1>13, <2>7
      <4> QED
        BY <1>15, <2>1, <2>3, <4>1
    <3>2. /\ j < left => end[j] = 256 + 64 * L + j
          /\ j = left => end[j] = 128
          /\ left < j /\ j < 60 => end[j] = 0
          /\ 60 <= j => end[j] = byte(63 - j)
      BY <1>13, <2>7
    <3>3. /\ i < n <=> j < left
          /\ i = n <=> j = left
          /\ n < i <=> left < j
          /\ i < size - 4 <=> j < 60
          /\ size - 4 <= i <=> 60 <= j
          /\ 256 + 64 * L + j = 256 + i
          /\ 63 - j = size - 1 - i
      <4> HIDE DEF B, byte
      <4> QED
        BY <1>15, <2>2, <2>4, <2>7, <3>1
    <3>4. byte(63 - j) = B
      BY <3>3
    <3> HIDE DEF B, byte
    <3> QED
      BY <3>1, <3>2, <3>3, <3>4
  <2>8. ASSUME K = L, ~Fits(used)
        PROVE  /\ i < n => V = 256 + i
               /\ i = n => V = 128
               /\ n < i => V = 0
               /\ i < size - 4
    <3>1. V = part[j] /\ size = 64 * L + 128
      <4>1. Len(all) = L + 2 /\ all[K + 1] = part
        BY <1>14, <2>8
      <4> QED
        BY <1>15, <2>1, <2>3, <4>1
    <3>2. /\ j < left => part[j] = 256 + 64 * L + j
          /\ j = left => part[j] = 128
          /\ left < j => part[j] = 0
      BY <1>14, <2>8
    <3> HIDE DEF B, byte
    <3>3. /\ i < n <=> j < left
          /\ i = n <=> j = left
          /\ n < i <=> left < j
          /\ i < size - 4
          /\ 256 + 64 * L + j = 256 + i
      BY <1>15, <2>2, <2>4, <2>8, <3>1
    <3> QED
      BY <3>1, <3>2, <3>3
  <2>9. ASSUME K = L + 1, ~Fits(used)
        PROVE  /\ n < i
               /\ i < size - 4 => V = 0
               /\ size - 4 <= i => V = B
    <3>1. V = end[j] /\ size = 64 * L + 128
      <4>1. Len(all) = L + 2 /\ all[L + 2] = end /\ K + 1 = L + 2
        BY <1>14, <1>15, <2>9
      <4> QED
        BY <1>15, <2>1, <2>3, <4>1
    <3>2. /\ j < 60 => end[j] = 0
          /\ 60 <= j => end[j] = byte(63 - j)
      BY <1>14, <2>9
    <3>3. /\ n < i
          /\ i < size - 4 <=> j < 60
          /\ size - 4 <= i <=> 60 <= j
          /\ 63 - j = size - 1 - i
      <4> HIDE DEF B, byte
      <4> QED
        BY <1>15, <2>2, <2>4, <2>9, <3>1
    <3>4. byte(63 - j) = B
      BY <3>3
    <3> HIDE DEF B, byte
    <3> QED
      BY <3>1, <3>2, <3>3, <3>4
  <2>10. /\ i < n => V = 256 + i
         /\ i = n => V = 128
         /\ n < i /\ i < size - 4 => V = 0
         /\ size - 4 <= i => V = B
         /\ n + zeros = size - 9 /\ size \in Nat /\ i \in Nat /\ n \in Nat /\ zeros \in Nat
    <3>1. zeros \in Nat
      <4>1. (zeros = 55 - left /\ left <= 55) \/ zeros = 119 - left
        BY <1>13, <1>14
      <4> HIDE DEF B, byte
      <4> QED
        BY <1>15, <4>1
    <3>2. /\ n + zeros = size - 9 /\ size \in Nat /\ i \in Nat /\ n \in Nat
          /\ n < size - 4
      BY <1>15, <1>16, <2>1, <3>1
    <3> HIDE DEF B, byte
    <3>3. CASE K < L
      BY <2>6, <3>1, <3>2, <3>3
    <3>4. CASE K = L /\ Fits(used)
      BY <2>7, <3>1, <3>2, <3>4
    <3>5. CASE K = L /\ ~Fits(used)
      BY <2>8, <3>1, <3>2, <3>5
    <3>6. CASE K = L + 1 /\ ~Fits(used)
      BY <2>9, <3>1, <3>2, <3>6
    <3> QED
      BY <2>5, <3>3, <3>4, <3>5, <3>6
  <2> QED
    <3> HIDE DEF byte, B
    <3>1. V = CASE i < n -> 256 + i
                [] i = n -> 128
                [] i > n /\ i <= n + zeros -> 0
                [] i > n + zeros /\ i < size - 4 -> 0
                [] OTHER -> B
      BY <2>10
    <3> QED
      BY <3>1 DEF V, B, byte
<1>18. BlocksRight'
  <2>1. sha'.total = n /\ sha'.done = TRUE /\ blocks' = all
    BY <1>1, <1>3
  <2> HIDE DEF n, all
  <2> QED
    BY <1>16, <1>17, <2>1 DEF BlocksRight, left
<1> QED
  BY <1>3, <1>18 DEF ShaInv

\* Nothing is in the blocks before the message.
LEMMA ShaZeroHolds ==
    ASSUME sha = ShaZero, blocks = <<>>
    PROVE  ShaInv
<1> DEFINE old == [i \in Block |-> 0]
<1>1. old \in Filling
  BY DEF Filling
<1>2. <<>> \in Seq(Filling) /\ Len(<<>>) = 0
  OBVIOUS
<1> HIDE DEF Filling, old
<1>3. \A i \in Block : ~(i < 0 - 64 * 0)
  BY DEF Block
<1>4. Hashed(0, old, <<>>)
  BY <1>1, <1>2, <1>3 DEF Hashed
<1>5. sha = [total |-> 0, buffer |-> old, done |-> FALSE]
  BY DEF ShaZero, old
<1> QED
  BY <1>4, <1>5 DEF ShaInv

\* A step of the hash's bench keeps it, and the others leave it alone.
LEMMA ShaInvStep ==
    ShaInv /\ [Next]_vars => ShaInv'
<1> SUFFICES ASSUME ShaInv, [Next]_vars PROVE ShaInv'
  OBVIOUS
<1>1. ASSUME NEW n \in Chunks, Sha1Update(n) PROVE ShaInv'
  <2>1. n \in Nat
    BY WireAssumption
  <2> QED
    BY <1>1, <2>1, UpdateKeeps
<1>2. CASE Sha1Finish
  BY <1>2, FinishKeeps
<1>3. CASE Sha1Init
  <2>1. sha' = ShaZero /\ blocks' = <<>>
    BY <1>3 DEF Sha1Init
  <2> DEFINE old == [i \in Block |-> 0]
  <2>2. old \in Filling
    BY DEF Filling
  <2>3. <<>> \in Seq(Filling) /\ Len(<<>>) = 0
    OBVIOUS
  <2> HIDE DEF Filling, old
  <2>4. \A i \in Block : ~(i < 0 - 64 * 0)
    BY DEF Block
  <2>5. Hashed(0, old, <<>>)
    BY <2>2, <2>3, <2>4 DEF Hashed
  <2>6. sha' = [total |-> 0, buffer |-> old, done |-> FALSE]
    BY <2>1 DEF ShaZero, old
  <2> QED
    BY <2>1, <2>5, <2>6 DEF ShaInv
<1>4. ASSUME UNCHANGED sha_vars PROVE ShaInv'
  <2>1. sha' = sha /\ blocks' = blocks
    BY <1>4 DEF sha_vars
  <2> QED
    BY <2>1 DEF ShaInv, BlocksRight
<1>5. CASE UNCHANGED vars
  BY <1>4, <1>5 DEF vars, sha_vars
<1>6. CASE PutFrame
  BY <1>4, <1>6 DEF PutFrame
<1>7. CASE PeerFrame
  BY <1>4, <1>7 DEF PeerFrame
<1>8. CASE ParseOpcode \/ ParseSize \/ ParseExtendedSize \/ ParseMask
  BY <1>4, <1>8 DEF ParseOpcode, ParseSize, ParseExtendedSize, ParseMask, Reads
<1>9. CASE EndFrame
  BY <1>4, <1>9 DEF EndFrame
<1>10. ASSUME NEW b \in Byte, NextByte(b) PROVE ShaInv'
  BY <1>4, <1>10 DEF NextByte
<1>11. CASE EndUtf8 \/ TextGrows \/ EndBase64
  BY <1>4, <1>11 DEF EndUtf8, TextGrows, EndBase64
<1> QED
  BY <1>1, <1>2, <1>3, <1>5, <1>6, <1>7, <1>8, <1>9, <1>10, <1>11 DEF Next

\* What is processed and what is in the buffer are, at every point, the message
\* so far.
THEOREM ShaInvHolds == Spec => []ShaInv
<1>1. Init => ShaInv
  BY ShaZeroHolds DEF Init
<1> QED
  BY <1>1, ShaInvStep, PTL DEF Spec

\* The blocks that are processed are, one after the other, the message as FIPS
\* 180 pads it, in whatever pieces it comes.
THEOREM BlocksRightHolds == Spec => []BlocksRight
<1>1. ShaInv => BlocksRight
  <2> SUFFICES ASSUME ShaInv, ~sha.done PROVE BlocksRight
    BY DEF ShaInv
  <2> DEFINE n == sha.total
             L == Len(blocks)
             size == 64 * L
  <2>1. /\ n \in Nat /\ L \in Nat /\ 64 * L <= n /\ n < 64 * L + 64
        /\ \A k \in 1 .. L : \A i \in Block : blocks[k][i] = 256 + 64 * (k - 1) + i
    BY DEF ShaInv, Hashed
  <2>2. size = n - (n % 64)
    <3> HIDE DEF n, L
    <3>1. n % 64 = n - 64 * L
      BY <2>1, LeftIs
    <3> QED
      BY <2>1, <3>1
  <2>3. ASSUME NEW i \in 0 .. size - 1
        PROVE  i < n /\ blocks[i \div 64 + 1][i % 64] = 256 + i
    <3> HIDE DEF n, L
    <3>1. i \in Nat /\ i < 64 * L
      BY <2>1
    <3>2. PICK K \in Nat, j \in Block : i = 64 * K + j /\ i \div 64 = K /\ i % 64 = j
      BY <3>1, PlaceIs
    <3>3. K + 1 \in 1 .. L /\ 256 + 64 * ((K + 1) - 1) + j = 256 + i
      BY <2>1, <3>1, <3>2 DEF Block
    <3> QED
      BY <2>1, <3>1, <3>2, <3>3
  <2> HIDE DEF n
  <2> QED
    BY <2>1, <2>2, <2>3 DEF BlocksRight, n
<1> QED
  BY <1>1, ShaInvHolds, PTL

----------------------------------------------------------------------------
(* Base64.                                                                 *)

\* b64_encode's loop over the first n bytes.
Runs(run, in, n) ==
    run = [i \in 0 .. n |-> IF i = 0 THEN [out |-> <<>>, acc |-> 0]
                            ELSE B64Turn(run[i - 1], in[i], i - 1)]

\* The letters of the first i bytes, in groups of four for three bytes.
Letters(in, i, out) ==
    /\ out \in Seq(Nat)
    /\ \A g \in Nat :
          /\ 3 * g + 1 <= i => out[4 * g + 1] = in[3 * g + 1] \div 4
          /\ 3 * g + 2 <= i => out[4 * g + 2] = (in[3 * g + 1] % 4) * 16
                                                + (in[3 * g + 2] \div 16)
          /\ 3 * g + 3 <= i => /\ out[4 * g + 3] = (in[3 * g + 2] % 16) * 4
                                                   + (in[3 * g + 3] \div 64)
                               /\ out[4 * g + 4] = in[3 * g + 3] % 64

\* What the loop has after i bytes, g groups and r bytes more.
Encoded(in, i, g, r, o) ==
    /\ g \in Nat /\ r \in 0 .. 2 /\ i = 3 * g + r
    /\ Letters(in, i, o.out) /\ Len(o.out) = 4 * g + r
    /\ r = 1 => o.acc = (in[i] * 16) % 256
    /\ r = 2 => o.acc = (in[i] * 4) % 256

\* There is such a loop for every number of bytes.
LEMMA RunExists ==
    ASSUME NEW in
    PROVE  \A n \in Nat : \E run : Runs(run, in, n)
<1> DEFINE S == {n \in Nat : \E run : Runs(run, in, n)}
           zero == [out |-> <<>>, acc |-> 0]
<1>1. 0 \in S
  <2> DEFINE f == [i \in 0 .. 0 |-> IF i = 0 THEN zero
                                    ELSE B64Turn(zero, in[i], i - 1)]
  <2>1. f = [i \in 0 .. 0 |-> f[i]]
    OBVIOUS
  <2>2. \A i \in 0 .. 0 : i = 0 /\ f[i] = zero
    OBVIOUS
  <2> HIDE DEF f
  <2>3. [i \in 0 .. 0 |-> f[i]]
           = [i \in 0 .. 0 |-> IF i = 0 THEN zero ELSE B64Turn(f[i - 1], in[i], i - 1)]
    BY <2>2
  <2>4. Runs(f, in, 0)
    BY <2>1, <2>3 DEF Runs
  <2> QED
    BY <2>4
<1>2. ASSUME NEW m \in Nat, m \in S PROVE m + 1 \in S
  <2>1. PICK f : Runs(f, in, m)
    BY <1>2
  <2> DEFINE turn(h, i) == IF i = 0 THEN zero ELSE B64Turn(h[i - 1], in[i], i - 1)
             g == [i \in 0 .. m + 1 |-> IF i \in 0 .. m THEN f[i] ELSE turn(f, i)]
  <2>2. \A i \in 0 .. m : g[i] = f[i]
    OBVIOUS
  <2>3. g[m + 1] = turn(f, m + 1)
    OBVIOUS
  <2>4. \A i \in 0 .. m : f[i] = turn(f, i)
    BY <2>1 DEF Runs
  <2>5. g = [i \in 0 .. m + 1 |-> g[i]]
    OBVIOUS
  <2> HIDE DEF g
  <2>6. ASSUME NEW i \in 0 .. m + 1 PROVE g[i] = turn(g, i)
    <3>1. i # 0 => i - 1 \in 0 .. m
      OBVIOUS
    <3>2. turn(g, i) = turn(f, i)
      BY <2>2, <3>1
    <3>3. i \in 0 .. m \/ i = m + 1
      OBVIOUS
    <3> HIDE DEF turn
    <3> QED
      BY <2>2, <2>3, <2>4, <3>2, <3>3
  <2>7. [i \in 0 .. m + 1 |-> g[i]] = [i \in 0 .. m + 1 |-> turn(g, i)]
    BY <2>6
  <2>8. Runs(g, in, m + 1)
    BY <2>5, <2>7 DEF Runs
  <2> QED
    BY <2>8
<1>3. Nat \subseteq S
  <2> HIDE DEF S
  <2> QED
    BY <1>1, <1>2, SetInduction
<1> QED
  BY <1>3

\* What the loop has at each byte.
LEMMA RunAt ==
    ASSUME NEW in, NEW n \in Nat, NEW run, Runs(run, in, n)
    PROVE  /\ run[0] = [out |-> <<>>, acc |-> 0]
           /\ \A i \in 0 .. n - 1 : run[i + 1] = B64Turn(run[i], in[i + 1], i)
<1>1. \A i \in 0 .. n : run[i] = IF i = 0 THEN [out |-> <<>>, acc |-> 0]
                                 ELSE B64Turn(run[i - 1], in[i], i - 1)
  BY DEF Runs
<1>2. run[0] = [out |-> <<>>, acc |-> 0]
  BY <1>1
<1>3. ASSUME NEW i \in 0 .. n - 1 PROVE run[i + 1] = B64Turn(run[i], in[i + 1], i)
  <2>1. i + 1 \in 0 .. n /\ i + 1 # 0 /\ (i + 1) - 1 = i
    OBVIOUS
  <2> QED
    BY <1>1, <2>1
<1> QED
  BY <1>2, <1>3

\* b64_encode is its loop and its tail.
LEMMA EncodeIs ==
    ASSUME NEW in, Len(in) \in Nat
    PROVE  \E run : Runs(run, in, Len(in))
                    /\ B64Encode(in) = B64Tail(run[Len(in)], Len(in))
<1> DEFINE f == CHOOSE run : Runs(run, in, Len(in))
<1>1. Runs(f, in, Len(in))
  BY RunExists
<1>2. B64Encode(in) = B64Tail(f[Len(in)], Len(in))
  BY DEF B64Encode, Runs
<1> QED
  BY <1>1, <1>2

\* Three bytes make four letters of six bits.
LEMMA SixBits ==
    ASSUME NEW a \in Byte, NEW b \in Byte, NEW c \in Byte
    PROVE  /\ (a \div 4) % 64 = a \div 4 /\ a \div 4 \in 0 .. 63
           /\ (((a * 16) % 256) + (b \div 16)) % 64 = ((a % 4) * 16) + (b \div 16)
           /\ ((a % 4) * 16) + (b \div 16) \in 0 .. 63
           /\ (((b * 4) % 256) + (c \div 64)) % 64 = ((b % 16) * 4) + (c \div 64)
           /\ ((b % 16) * 4) + (c \div 64) \in 0 .. 63
           /\ c % 64 \in 0 .. 63
           /\ (a * 16) % 256 \in Nat /\ (b * 4) % 256 \in Nat
<1>0. a \in 0 .. 255 /\ b \in 0 .. 255 /\ c \in 0 .. 255
  BY DEF Byte
<1>1. /\ a \div 4 \in 0 .. 63 /\ a % 4 \in 0 .. 3 /\ a = 4 * (a \div 4) + (a % 4)
      /\ b \div 16 \in 0 .. 15 /\ b % 16 \in 0 .. 15 /\ b = 16 * (b \div 16) + (b % 16)
      /\ c \div 64 \in 0 .. 3 /\ c % 64 \in 0 .. 63
  BY <1>0
<1>2. (a \div 4) % 64 = a \div 4
  BY <1>0, <1>1
<1>3. (a * 16) % 256 \in Nat /\ (b * 4) % 256 \in Nat
  BY <1>0
<1>4. (((a * 16) % 256) + (b \div 16)) % 64 = ((a % 4) * 16) + (b \div 16)
  BY <1>0, <1>1
<1>5. (((b * 4) % 256) + (c \div 64)) % 64 = ((b % 16) * 4) + (c \div 64)
  BY <1>0, <1>1
<1> QED
  BY <1>0, <1>1, <1>2, <1>3, <1>4, <1>5

\* The bits of a byte that go into one letter, and those that are left for the next.
LEMMA TopBits ==
    ASSUME NEW a \in 0 .. 255
    PROVE  /\ (a \div 4) % 64 = a \div 4 /\ a \div 4 \in 0 .. 63 /\ a % 64 \in 0 .. 63
           /\ (a * 16) % 256 \in Nat /\ (a * 4) % 256 \in Nat
           /\ ((a * 16) % 256) % 64 = (a % 4) * 16 /\ (a % 4) * 16 \in 0 .. 63
           /\ ((a * 4) % 256) % 64 = (a % 16) * 4 /\ (a % 16) * 4 \in 0 .. 63
<1>1. /\ a \div 4 \in 0 .. 63 /\ a % 64 \in 0 .. 63
      /\ (a % 4) * 16 \in 0 .. 63 /\ (a % 16) * 4 \in 0 .. 63
  OBVIOUS
<1>2. (a \div 4) % 64 = a \div 4
  BY <1>1
<1>3. (a * 16) % 256 \in Nat /\ (a * 4) % 256 \in Nat
  OBVIOUS
<1>4. ((a * 16) % 256) % 64 = (a % 4) * 16
  OBVIOUS
<1>5. ((a * 4) % 256) % 64 = (a % 16) * 4
  OBVIOUS
<1> QED
  BY <1>1, <1>2, <1>3, <1>4, <1>5

\* The bytes are read back from the letters.
LEMMA ReadBack ==
    ASSUME NEW a \in Byte, NEW b \in Byte, NEW c \in Byte,
           NEW w, w = a \div 4, NEW x, x = ((a % 4) * 16) + (b \div 16),
           NEW y, y = ((b % 16) * 4) + (c \div 64), NEW z, z = c % 64
    PROVE  /\ (w * 4) + (x \div 16) = a
           /\ ((x % 16) * 16) + (y \div 4) = b
           /\ ((y % 4) * 64) + z = c
<1>0. a \in 0 .. 255 /\ b \in 0 .. 255 /\ c \in 0 .. 255
  BY DEF Byte
<1>1. /\ a \div 4 \in 0 .. 63 /\ a % 4 \in 0 .. 3 /\ a = 4 * (a \div 4) + (a % 4)
      /\ b \div 16 \in 0 .. 15 /\ b % 16 \in 0 .. 15 /\ b = 16 * (b \div 16) + (b % 16)
      /\ c \div 64 \in 0 .. 3 /\ c % 64 \in 0 .. 63 /\ c = 64 * (c \div 64) + (c % 64)
  BY <1>0
<1>2. x \div 16 = a % 4 /\ x % 16 = b \div 16
  BY <1>0, <1>1
<1>3. y \div 4 = b % 16 /\ y % 4 = c \div 64
  BY <1>0, <1>1
<1> QED
  BY <1>0, <1>1, <1>2, <1>3

\* Groups of three.
LEMMA ThreesAre ==
    ASSUME NEW g \in Nat, NEW r \in 0 .. 2, NEW i, i = 3 * g + r
    PROVE  i \in Nat /\ i \div 3 = g /\ i % 3 = r
OBVIOUS
\* Every number of bytes is some groups and a rest.
LEMMA ThreesExist ==
    ASSUME NEW i \in Nat
    PROVE  \E g \in Nat, r \in 0 .. 2 : i = 3 * g + r
<1>1. i \div 3 \in Nat /\ i % 3 \in 0 .. 2 /\ i = 3 * (i \div 3) + (i % 3)
  OBVIOUS
<1> QED
  BY <1>1

\* With the letters of the next byte.
Grown(in, g, r, out, e) ==
    /\ e \in Seq(Nat)
    /\ \A j \in 1 .. 4 * g + r : e[j] = out[j]
    /\ r = 0 => e[4 * g + 1] = in[3 * g + 1] \div 4
    /\ r = 1 => e[4 * g + 2] = (in[3 * g + 1] % 4) * 16 + (in[3 * g + 2] \div 16)
    /\ r = 2 => /\ e[4 * g + 3] = (in[3 * g + 2] % 16) * 4
                                   + (in[3 * g + 3] \div 64)
                /\ e[4 * g + 4] = in[3 * g + 3] % 64

\* The letters that are there stay, and the next byte's join them.
LEMMA LettersGrow ==
    ASSUME NEW in, NEW g \in Nat, NEW r \in 0 .. 2, NEW i, i = 3 * g + r,
           NEW out, Letters(in, i, out), NEW e, Grown(in, g, r, out, e)
    PROVE  Letters(in, i + 1, e)
<1> DEFINE one(k) == in[3 * k + 1] \div 4
           two(k) == (in[3 * k + 1] % 4) * 16 + (in[3 * k + 2] \div 16)
           three(k) == (in[3 * k + 2] % 16) * 4 + (in[3 * k + 3] \div 64)
           four(k) == in[3 * k + 3] % 64
<1>1. \A k \in Nat :
         /\ 3 * k + 1 <= i => out[4 * k + 1] = one(k)
         /\ 3 * k + 2 <= i => out[4 * k + 2] = two(k)
         /\ 3 * k + 3 <= i => out[4 * k + 3] = three(k) /\ out[4 * k + 4] = four(k)
  BY DEF Letters
<1>2. /\ r = 0 => e[4 * g + 1] = one(g)
      /\ r = 1 => e[4 * g + 2] = two(g)
      /\ r = 2 => e[4 * g + 3] = three(g) /\ e[4 * g + 4] = four(g)
      /\ e \in Seq(Nat) /\ \A j \in 1 .. 4 * g + r : e[j] = out[j]
  BY DEF Grown
<1> HIDE DEF one, two, three, four
<1>0. g \in Nat /\ r \in 0 .. 2 /\ i = 3 * g + r
  OBVIOUS
<1>3. ASSUME NEW k \in Nat, 3 * k + 1 <= i + 1 PROVE e[4 * k + 1] = one(k)
  <2>1. CASE 3 * k + 1 <= i
    <3>1. 4 * k + 1 \in 1 .. 4 * g + r
      BY <2>1
    <3> QED
      BY <1>1, <1>2, <2>1, <3>1
  <2>2. CASE ~(3 * k + 1 <= i)
    <3>1. 3 * k + 0 = 3 * g + r
      BY ONLY <1>0, <1>3, <2>2, k \in Nat
    <3>2. k = g /\ r = 0
      BY ONLY <1>0, <3>1, k \in Nat
    <3> QED
      BY <1>2, <3>2
  <2> QED
    BY <2>1, <2>2
<1>4. ASSUME NEW k \in Nat, 3 * k + 2 <= i + 1 PROVE e[4 * k + 2] = two(k)
  <2>1. CASE 3 * k + 2 <= i
    <3>1. 4 * k + 2 \in 1 .. 4 * g + r
      BY <2>1
    <3> QED
      BY <1>1, <1>2, <2>1, <3>1
  <2>2. CASE ~(3 * k + 2 <= i)
    <3>1. 3 * k + 1 = 3 * g + r
      BY ONLY <1>0, <1>4, <2>2, k \in Nat
    <3>2. k = g /\ r = 1
      BY ONLY <1>0, <3>1, k \in Nat
    <3> QED
      BY <1>2, <3>2
  <2> QED
    BY <2>1, <2>2
<1>5. ASSUME NEW k \in Nat, 3 * k + 3 <= i + 1
      PROVE  e[4 * k + 3] = three(k) /\ e[4 * k + 4] = four(k)
  <2>1. CASE 3 * k + 3 <= i
    <3>1. 4 * k + 3 \in 1 .. 4 * g + r /\ 4 * k + 4 \in 1 .. 4 * g + r
      BY <2>1
    <3> QED
      BY <1>1, <1>2, <2>1, <3>1
  <2>2. CASE ~(3 * k + 3 <= i)
    <3>1. 3 * k + 2 = 3 * g + r
      BY ONLY <1>0, <1>5, <2>2, k \in Nat
    <3>2. k = g /\ r = 2
      BY ONLY <1>0, <3>1, k \in Nat
    <3> QED
      BY <1>2, <3>2
  <2> QED
    BY <2>1, <2>2
<1> QED
  BY <1>2, <1>3, <1>4, <1>5 DEF Letters, one, two, three, four

\* A turn of the loop adds the letters of its byte.
LEMMA TurnKeeps ==
    ASSUME NEW in, NEW n \in Nat, \A j \in 1 .. n : in[j] \in 0 .. 255,
           NEW i \in 0 .. n - 1, NEW g, NEW r, NEW o, Encoded(in, i, g, r, o),
           NEW q, q = B64Turn(o, in[i + 1], i)
    PROVE  \E h, s : Encoded(in, i + 1, h, s, q)
<1> DEFINE c == in[i + 1]
           out == o.out
           acc == o.acc
           e == q.out
<1>1. /\ g \in Nat /\ r \in 0 .. 2 /\ i = 3 * g + r
      /\ Letters(in, i, out) /\ out \in Seq(Nat) /\ Len(out) = 4 * g + r
      /\ r = 1 => acc = (in[i] * 16) % 256
      /\ r = 2 => acc = (in[i] * 4) % 256
  BY DEF Encoded, Letters
<1>2. c \in 0 .. 255
  <2>1. i + 1 \in 1 .. n
    BY ONLY n \in Nat, i \in 0 .. n - 1
  <2> QED
    BY ONLY <2>1, \A j \in 1 .. n : in[j] \in 0 .. 255
<1>3. i % 3 = r
  <2>1. g \in Nat /\ r \in 0 .. 2 /\ i = 3 * g + r
    BY ONLY <1>1
  <2> QED
    BY ONLY <2>1, ThreesAre
<1>4. CASE r = 0
  <2> DEFINE u == (c \div 4) % 64
  <2>1. i + 1 = 3 * g + 1
    BY <1>1, <1>4
  <2>2. q = [out |-> Append(out, u), acc |-> (c * 16) % 256]
    BY <1>3, <1>4 DEF B64Turn, B64EncodeByte
  <2>3. u = c \div 4 /\ u \in Nat
    <3> HIDE DEF c
    <3>1. u = c \div 4 /\ c \div 4 \in 0 .. 63
      BY <1>2, TopBits
    <3> QED
      BY ONLY <3>1
  <2> HIDE DEF u, out
  <2>4. e \in Seq(Nat) /\ Len(e) = 4 * g + 1 /\ (\A j \in 1 .. 4 * g + r : e[j] = out[j])
        /\ e[4 * g + 1] = u /\ q.acc = (c * 16) % 256
    <3>1. e = Append(out, u) /\ q.acc = (c * 16) % 256
      BY <2>2
    <3>2. out \in Seq(Nat) /\ u \in Nat /\ Len(out) = 4 * g + r
      BY <1>1, <2>3
    <3>3. Len(out) = 4 * g /\ g \in Nat
      BY <1>1, <1>4, <3>2
    <3> HIDE DEF e
    <3>4. e \in Seq(Nat) /\ Len(e) = Len(out) + 1 /\ e[Len(out) + 1] = u
          /\ \A j \in 1 .. Len(out) : e[j] = out[j]
      BY ONLY <3>1, <3>2
    <3> QED
      BY <3>1, <3>2, <3>3, <3>4
  <2>5. Letters(in, i + 1, e)
    <3> HIDE DEF e
    <3>1. e[4 * g + 1] = in[3 * g + 1] \div 4
      BY <2>1, <2>3, <2>4
    <3>2. r # 1 /\ r # 2
      BY <1>4
    <3> QED
      <4>1. Grown(in, g, r, out, e)
        BY <2>4, <3>1, <3>2 DEF Grown
      <4> QED
        BY ONLY <1>1, <4>1, LettersGrow
  <2>6. Encoded(in, i + 1, g, 1, q)
    BY <1>1, <2>1, <2>4, <2>5 DEF Encoded
  <2> QED
    BY <2>6
<1>5. CASE r = 1
  <2> DEFINE b == in[i]
             u == (acc + (c \div 16)) % 64
  <2>1. i + 1 = 3 * g + 2 /\ i = 3 * g + 1 /\ i \in 1 .. n
    BY <1>1, <1>5
  <2>2. q = [out |-> Append(out, u), acc |-> (c * 4) % 256]
    BY <1>3, <1>5 DEF B64Turn, B64EncodeByte
  <2>3. u = (b % 4) * 16 + (c \div 16) /\ u \in Nat
    <3>1. b \in 0 .. 255 /\ acc = (b * 16) % 256
      BY <1>1, <1>5, <2>1
    <3> HIDE DEF b, c, acc
    <3>2. (((b * 16) % 256) + (c \div 16)) % 64 = ((b % 4) * 16) + (c \div 16)
          /\ ((b % 4) * 16) + (c \div 16) \in 0 .. 63
      <4>1. b \in Byte /\ c \in Byte
        BY <1>2, <3>1 DEF Byte
      <4> QED
        BY ONLY <4>1, SixBits
    <3> QED
      BY <3>1, <3>2
  <2> HIDE DEF u, out
  <2>4. e \in Seq(Nat) /\ Len(e) = 4 * g + 2 /\ (\A j \in 1 .. 4 * g + r : e[j] = out[j])
        /\ e[4 * g + 2] = u /\ q.acc = (c * 4) % 256
    <3>1. e = Append(out, u) /\ q.acc = (c * 4) % 256
      BY <2>2
    <3>2. out \in Seq(Nat) /\ u \in Nat /\ Len(out) = 4 * g + r
      BY <1>1, <2>3
    <3>3. Len(out) = 4 * g + 1 /\ g \in Nat
      BY <1>1, <1>5, <3>2
    <3> HIDE DEF e
    <3>4. e \in Seq(Nat) /\ Len(e) = Len(out) + 1 /\ e[Len(out) + 1] = u
          /\ \A j \in 1 .. Len(out) : e[j] = out[j]
      BY ONLY <3>1, <3>2
    <3>5. Len(out) + 1 = 4 * g + 2
      BY ONLY <3>3
    <3> QED
      BY <3>1, <3>2, <3>4, <3>5
  <2>5. Letters(in, i + 1, e)
    <3> HIDE DEF e
    <3>1. e[4 * g + 2] = (in[3 * g + 1] % 4) * 16 + (in[3 * g + 2] \div 16)
      BY <2>1, <2>3, <2>4
    <3>2. r # 0 /\ r # 2
      BY <1>5
    <3>3. Grown(in, g, r, out, e)
      BY <2>4, <3>1, <3>2 DEF Grown
    <3> QED
      BY ONLY <1>1, <3>3, LettersGrow
  <2>6. Encoded(in, i + 1, g, 2, q)
    BY <1>1, <2>1, <2>4, <2>5 DEF Encoded
  <2> QED
    BY <2>6
<1>6. CASE r = 2
  <2> DEFINE b == in[i]
             u == (acc + (c \div 64)) % 64
             v == c % 64
             two == <<u, v>>
  <2>1. i + 1 = 3 * g + 3 /\ i = 3 * g + 2 /\ i \in 1 .. n
    BY <1>1, <1>6
  <2>2. e = out \o two
    <3>1. q = [out |-> out \o two, acc |-> acc]
      BY <1>3, <1>6 DEF B64Turn, B64EncodeByte
    <3> HIDE DEF out, two, acc
    <3> QED
      BY <3>1
  <2>3. u = (b % 16) * 4 + (c \div 64) /\ u \in Nat /\ v \in Nat
    <3>1. b \in 0 .. 255 /\ acc = (b * 4) % 256
      BY <1>1, <1>6, <2>1
    <3> HIDE DEF b, c, acc
    <3>2. (((b * 4) % 256) + (c \div 64)) % 64 = ((b % 16) * 4) + (c \div 64)
          /\ ((b % 16) * 4) + (c \div 64) \in 0 .. 63
      <4>1. b \in Byte /\ c \in Byte
        BY <1>2, <3>1 DEF Byte
      <4> QED
        BY ONLY <4>1, SixBits
    <3>3. v \in 0 .. 63
      BY <1>2, TopBits
    <3> QED
      BY <3>1, <3>2, <3>3
  <2> HIDE DEF u, v, out
  <2>4. e \in Seq(Nat) /\ Len(e) = 4 * g + 4 /\ (\A j \in 1 .. 4 * g + r : e[j] = out[j])
        /\ e[4 * g + 3] = u /\ e[4 * g + 4] = v
    <3>1. out \in Seq(Nat) /\ Len(out) = 4 * g + 2 /\ g \in Nat
      BY <1>1, <1>6
    <3>2. two \in Seq(Nat) /\ Len(two) = 2 /\ two[1] = u /\ two[2] = v
      BY <2>3
    <3> HIDE DEF e, two
    <3>3. /\ out \o two \in Seq(Nat)
          /\ Len(out \o two) = Len(out) + Len(two)
          /\ \A j \in 1 .. Len(out) : (out \o two)[j] = out[j]
          /\ \A j \in 1 .. Len(two) : (out \o two)[Len(out) + j] = two[j]
      <4>1. out \in Seq(Nat) /\ two \in Seq(Nat)
        BY <3>1, <3>2
      <4> QED
        BY ONLY <4>1, ConcatBlocks
    <3>4. e \in Seq(Nat) /\ Len(e) = 4 * g + 4 /\ e[(4 * g + 2) + 1] = u
          /\ e[(4 * g + 2) + 2] = v
          /\ \A j \in 1 .. 4 * g + 2 : e[j] = out[j]
      BY <2>2, <3>1, <3>2, <3>3
    <3>5. (4 * g + 2) + 1 = 4 * g + 3 /\ (4 * g + 2) + 2 = 4 * g + 4
          /\ 4 * g + r = 4 * g + 2
      BY <1>6, <3>1
    <3> QED
      BY ONLY <3>4, <3>5
  <2>5. Letters(in, i + 1, e)
    <3> HIDE DEF e
    <3>1. e[4 * g + 3] = (in[3 * g + 2] % 16) * 4 + (in[3 * g + 3] \div 64)
          /\ e[4 * g + 4] = in[3 * g + 3] % 64
      BY <2>1, <2>3, <2>4 DEF v
    <3>2. r # 0 /\ r # 1
      BY <1>6
    <3>3. Grown(in, g, r, out, e)
      BY <2>4, <3>1, <3>2 DEF Grown
    <3> QED
      BY ONLY <1>1, <3>3, LettersGrow
  <2>6. Encoded(in, i + 1, g + 1, 0, q)
    <3>1. g + 1 \in Nat /\ i + 1 = 3 * (g + 1) + 0 /\ 4 * (g + 1) + 0 = 4 * g + 4
      BY <1>1, <2>1
    <3> QED
      BY <2>4, <2>5, <3>1 DEF Encoded
  <2> QED
    BY <2>6
<1> QED
  BY <1>1, <1>4, <1>5, <1>6

\* What the loop has at its end.
LEMMA LoopKeeps ==
    ASSUME NEW in, NEW n \in Nat, \A j \in 1 .. n : in[j] \in 0 .. 255,
           NEW run, Runs(run, in, n)
    PROVE  \E g, r : Encoded(in, n, g, r, run[n])
<1> DEFINE S == {i \in Nat : i \in 0 .. n => \E g, r : Encoded(in, i, g, r, run[i])}
<1>1. 0 \in S
  <2> DEFINE o == [out |-> <<>>, acc |-> 0]
  <2>1. run[0] = o
    BY RunAt
  <2>2. Letters(in, 0, <<>>)
    <3>1. <<>> \in Seq(Nat)
      OBVIOUS
    <3>2. \A g \in Nat : ~(3 * g + 1 <= 0) /\ ~(3 * g + 2 <= 0) /\ ~(3 * g + 3 <= 0)
      OBVIOUS
    <3> QED
      BY <3>1, <3>2 DEF Letters
  <2>3. o.out = <<>> /\ Len(<<>>) = 0
    OBVIOUS
  <2> HIDE DEF o
  <2>4. Encoded(in, 0, 0, 0, o)
    BY <2>2, <2>3 DEF Encoded
  <2> QED
    BY <2>1, <2>4
<1>2. ASSUME NEW i \in Nat, i \in S PROVE i + 1 \in S
  <2> SUFFICES ASSUME i + 1 \in 0 .. n
               PROVE  \E g, r : Encoded(in, i + 1, g, r, run[i + 1])
    OBVIOUS
  <2>1. i \in 0 .. n /\ i \in 0 .. n - 1
    OBVIOUS
  <2>2. PICK g, r : Encoded(in, i, g, r, run[i])
    BY <1>2, <2>1
  <2>3. run[i + 1] = B64Turn(run[i], in[i + 1], i)
    BY <2>1, RunAt
  <2> QED
    BY <2>1, <2>2, <2>3, TurnKeeps
<1>3. Nat \subseteq S
  <2> HIDE DEF S
  <2> QED
    BY <1>1, <1>2, SetInduction
<1> QED
  BY <1>3

\* The letters of all n bytes, zeros for those that are missing, and the padding.
Padded(in, n, g, r, out) ==
    /\ out \in Seq(Nat) /\ Len(out) = IF r = 0 THEN 4 * g ELSE 4 * g + 4
    /\ \A k \in Nat :
          /\ 3 * k + 1 <= n =>
                /\ out[4 * k + 1] = in[3 * k + 1] \div 4
                /\ out[4 * k + 2] = (in[3 * k + 1] % 4) * 16
                      + (IF 3 * k + 2 <= n THEN in[3 * k + 2] \div 16 ELSE 0)
          /\ 3 * k + 2 <= n =>
                out[4 * k + 3] = (in[3 * k + 2] % 16) * 4
                      + (IF 3 * k + 3 <= n THEN in[3 * k + 3] \div 64 ELSE 0)
          /\ 3 * k + 3 <= n => out[4 * k + 4] = in[3 * k + 3] % 64
    /\ r = 1 => out[4 * g + 3] = 64 /\ out[4 * g + 4] = 64
    /\ r = 2 => out[4 * g + 4] = 64

\* The tail adds the last letter and the padding.
LEMMA TailIs ==
    ASSUME NEW in, NEW n \in Nat, \A j \in 1 .. n : in[j] \in 0 .. 255,
           NEW g, NEW r, NEW o, Encoded(in, n, g, r, o),
           NEW e, e = B64Tail(o, n)
    PROVE  Padded(in, n, g, r, e)
<1> DEFINE out == o.out
           acc == o.acc
           one(k) == in[3 * k + 1] \div 4
           high(k) == (in[3 * k + 1] % 4) * 16
           low(k) == in[3 * k + 2] \div 16
           top(k) == (in[3 * k + 2] % 16) * 4
           rest(k) == in[3 * k + 3] \div 64
           four(k) == in[3 * k + 3] % 64
<1>1. /\ g \in Nat /\ r \in 0 .. 2 /\ n = 3 * g + r
      /\ out \in Seq(Nat) /\ Len(out) = 4 * g + r
      /\ r = 1 => acc = (in[n] * 16) % 256
      /\ r = 2 => acc = (in[n] * 4) % 256
      /\ \A k \in Nat :
            /\ 3 * k + 1 <= n => out[4 * k + 1] = one(k)
            /\ 3 * k + 2 <= n => out[4 * k + 2] = high(k) + low(k)
            /\ 3 * k + 3 <= n => /\ out[4 * k + 3] = top(k) + rest(k)
                                 /\ out[4 * k + 4] = four(k)
  BY DEF Encoded, Letters
<1>2. n % 3 = r
  <2>1. g \in Nat /\ r \in 0 .. 2 /\ n = 3 * g + r
    BY <1>1
  <2> QED
    BY ONLY <2>1, ThreesAre
<1>3. r > 0 => in[n] \in 0 .. 255
  <2>1. g \in Nat /\ r \in 0 .. 2 /\ n = 3 * g + r
    BY <1>1
  <2>2. r > 0 => n \in 1 .. n
    BY ONLY <2>1
  <2> QED
    BY ONLY <2>2, \A j \in 1 .. n : in[j] \in 0 .. 255
<1>4. CASE r = 0
  <2>1. e = out
    BY <1>2, <1>4 DEF B64Tail
  <2> HIDE DEF out, acc, one, high, low, top, rest, four
  <2>2. ASSUME NEW k \in Nat
        PROVE  /\ 3 * k + 1 <= n => 3 * k + 2 <= n
               /\ 3 * k + 2 <= n => 3 * k + 3 <= n
    BY <1>1, <1>4
  <2>3. /\ \A k \in Nat :
          /\ 3 * k + 1 <= n =>
                /\ e[4 * k + 1] = one(k)
                /\ e[4 * k + 2] = high(k) + (IF 3 * k + 2 <= n THEN low(k) ELSE 0)
          /\ 3 * k + 2 <= n =>
                e[4 * k + 3] = top(k) + (IF 3 * k + 3 <= n THEN rest(k) ELSE 0)
          /\ 3 * k + 3 <= n => e[4 * k + 4] = four(k)
    BY <1>1, <2>1, <2>2
  <2>4. e \in Seq(Nat) /\ Len(e) = 4 * g
    BY <1>1, <1>4, <2>1
  <2> QED
    BY <1>4, <2>3, <2>4 DEF Padded, one, high, low, top, rest, four
<1>5. CASE r = 1
  <2> DEFINE u == acc % 64
             tail == <<u, 64, 64>>
  <2>1. e = out \o tail
    BY <1>2, <1>5 DEF B64Tail, B64EncodeByte
  <2>2. u = high(g) /\ u \in 0 .. 63
    <3>1. in[n] \in 0 .. 255 /\ n = 3 * g + 1
      BY <1>1, <1>3, <1>5
    <3>2. acc = (in[n] * 16) % 256
      BY <1>1, <1>5
    <3> DEFINE b == in[n]
    <3> HIDE DEF b, acc
    <3>3. u = (b % 4) * 16 /\ (b % 4) * 16 \in 0 .. 63
      <4>1. b \in 0 .. 255 /\ acc = (b * 16) % 256
        BY <3>1, <3>2 DEF b
      <4> QED
        BY ONLY <4>1, TopBits
    <3> QED
      BY <3>1, <3>3 DEF b
  <2> HIDE DEF u, out, acc
  <2>3. /\ e \in Seq(Nat) /\ Len(e) = 4 * g + 4
        /\ \A j \in 1 .. 4 * g + 1 : e[j] = out[j]
        /\ e[4 * g + 2] = u /\ e[4 * g + 3] = 64 /\ e[4 * g + 4] = 64
    <3>1. tail \in Seq(Nat) /\ Len(tail) = 3 /\ tail[1] = u /\ tail[2] = 64 /\ tail[3] = 64
      BY <2>2
    <3>2. out \in Seq(Nat) /\ Len(out) = 4 * g + 1 /\ g \in Nat
      BY <1>1, <1>5
    <3> HIDE DEF tail
    <3>3. /\ out \o tail \in Seq(Nat)
          /\ Len(out \o tail) = Len(out) + Len(tail)
          /\ \A j \in 1 .. Len(out) : (out \o tail)[j] = out[j]
          /\ \A j \in 1 .. Len(tail) : (out \o tail)[Len(out) + j] = tail[j]
      <4>1. out \in Seq(Nat) /\ tail \in Seq(Nat)
        BY <3>1, <3>2
      <4> QED
        BY ONLY <4>1, ConcatBlocks
    <3>4. /\ e \in Seq(Nat) /\ Len(e) = (4 * g + 1) + 3
          /\ \A j \in 1 .. 4 * g + 1 : e[j] = out[j]
          /\ e[(4 * g + 1) + 1] = u /\ e[(4 * g + 1) + 2] = 64
          /\ e[(4 * g + 1) + 3] = 64
      BY <2>1, <3>1, <3>2, <3>3
    <3>5. /\ (4 * g + 1) + 1 = 4 * g + 2 /\ (4 * g + 1) + 2 = 4 * g + 3
          /\ (4 * g + 1) + 3 = 4 * g + 4
      BY <3>2
    <3> QED
      BY ONLY <3>4, <3>5
  <2> HIDE DEF one, high, low, top, rest, four
  <2>4. ASSUME NEW k \in Nat, 3 * k + 1 <= n
        PROVE  /\ e[4 * k + 1] = one(k)
               /\ e[4 * k + 2] = high(k) + (IF 3 * k + 2 <= n THEN low(k) ELSE 0)
    <3>1. g \in Nat /\ n = 3 * g + 1 /\ k <= g
      BY <1>1, <1>5, <2>4
    <3>2. 4 * k + 1 \in 1 .. 4 * g + 1
      BY <3>1
    <3>3. e[4 * k + 1] = one(k)
      BY <1>1, <2>3, <2>4, <3>2
    <3>4. CASE k = g
      <4>1. ~(3 * k + 2 <= n)
        BY <3>1, <3>4
      <4>2. high(k) \in Nat /\ e[4 * k + 2] = high(k)
        BY <2>2, <2>3, <3>4
      <4> QED
        BY <3>3, <4>1, <4>2
    <3>5. CASE k # g
      <4>1. 3 * k + 2 <= n /\ 4 * k + 2 \in 1 .. 4 * g + 1
        BY <3>1, <3>5
      <4> QED
        BY <1>1, <2>3, <3>3, <4>1
    <3> QED
      BY <3>4, <3>5
  <2>5. ASSUME NEW k \in Nat, 3 * k + 2 <= n
        PROVE  e[4 * k + 3] = top(k) + (IF 3 * k + 3 <= n THEN rest(k) ELSE 0)
    <3>1. g \in Nat /\ n = 3 * g + 1 /\ k < g
      BY <1>1, <1>5, <2>5
    <3>2. 3 * k + 3 <= n /\ 4 * k + 3 \in 1 .. 4 * g + 1
      BY <3>1
    <3> QED
      BY <1>1, <2>3, <3>2
  <2>6. ASSUME NEW k \in Nat, 3 * k + 3 <= n
        PROVE  e[4 * k + 4] = four(k)
    <3>1. g \in Nat /\ n = 3 * g + 1 /\ k < g
      BY <1>1, <1>5, <2>6
    <3>2. 4 * k + 4 \in 1 .. 4 * g + 1
      BY <3>1
    <3> QED
      BY <1>1, <2>3, <2>6, <3>2
  <2> QED
    BY <1>5, <2>3, <2>4, <2>5, <2>6 DEF Padded, one, high, low, top, rest, four
<1>6. CASE r = 2
  <2> DEFINE u == acc % 64
             tail == <<u, 64>>
  <2>1. e = out \o tail
    BY <1>2, <1>6 DEF B64Tail, B64EncodeByte
  <2>2. u = top(g) /\ u \in 0 .. 63
    <3>1. in[n] \in 0 .. 255 /\ n = 3 * g + 2
      BY <1>1, <1>3, <1>6
    <3>2. acc = (in[n] * 4) % 256
      BY <1>1, <1>6
    <3> DEFINE b == in[n]
    <3> HIDE DEF b, acc
    <3>3. u = (b % 16) * 4 /\ (b % 16) * 4 \in 0 .. 63
      <4>1. b \in 0 .. 255 /\ acc = (b * 4) % 256
        BY <3>1, <3>2 DEF b
      <4> QED
        BY ONLY <4>1, TopBits
    <3> QED
      BY <3>1, <3>3 DEF b
  <2> HIDE DEF u, out, acc
  <2>3. /\ e \in Seq(Nat) /\ Len(e) = 4 * g + 4
        /\ \A j \in 1 .. 4 * g + 2 : e[j] = out[j]
        /\ e[4 * g + 3] = u /\ e[4 * g + 4] = 64
    <3>1. tail \in Seq(Nat) /\ Len(tail) = 2 /\ tail[1] = u /\ tail[2] = 64
      BY <2>2
    <3>2. out \in Seq(Nat) /\ Len(out) = 4 * g + 2 /\ g \in Nat
      BY <1>1, <1>6
    <3> HIDE DEF tail
    <3>3. /\ out \o tail \in Seq(Nat)
          /\ Len(out \o tail) = Len(out) + Len(tail)
          /\ \A j \in 1 .. Len(out) : (out \o tail)[j] = out[j]
          /\ \A j \in 1 .. Len(tail) : (out \o tail)[Len(out) + j] = tail[j]
      <4>1. out \in Seq(Nat) /\ tail \in Seq(Nat)
        BY <3>1, <3>2
      <4> QED
        BY ONLY <4>1, ConcatBlocks
    <3>4. /\ e \in Seq(Nat) /\ Len(e) = (4 * g + 2) + 2
          /\ \A j \in 1 .. 4 * g + 2 : e[j] = out[j]
          /\ e[(4 * g + 2) + 1] = u /\ e[(4 * g + 2) + 2] = 64
      BY <2>1, <3>1, <3>2, <3>3
    <3>5. /\ (4 * g + 2) + 1 = 4 * g + 3 /\ (4 * g + 2) + 2 = 4 * g + 4
          /\ (4 * g + 2) + 2 = 4 * g + 4
      BY <3>2
    <3> QED
      BY ONLY <3>4, <3>5
  <2> HIDE DEF one, high, low, top, rest, four
  <2>4. ASSUME NEW k \in Nat, 3 * k + 1 <= n
        PROVE  /\ e[4 * k + 1] = one(k)
               /\ e[4 * k + 2] = high(k) + (IF 3 * k + 2 <= n THEN low(k) ELSE 0)
    <3>1. g \in Nat /\ n = 3 * g + 2 /\ k <= g
      BY <1>1, <1>6, <2>4
    <3>2. 4 * k + 1 \in 1 .. 4 * g + 2
      BY <3>1
    <3>3. e[4 * k + 1] = one(k)
      BY <1>1, <2>3, <2>4, <3>2
    <3>4. 3 * k + 2 <= n /\ 4 * k + 2 \in 1 .. 4 * g + 2
      BY <3>1
    <3> QED
      BY <1>1, <2>3, <3>3, <3>4
  <2>5. ASSUME NEW k \in Nat, 3 * k + 2 <= n
        PROVE  e[4 * k + 3] = top(k) + (IF 3 * k + 3 <= n THEN rest(k) ELSE 0)
    <3>1. g \in Nat /\ n = 3 * g + 2 /\ k <= g
      BY <1>1, <1>6, <2>5
    <3>2. CASE k = g
      <4>1. ~(3 * k + 3 <= n)
        BY <3>1, <3>2
      <4>2. top(k) \in Nat /\ e[4 * k + 3] = top(k)
        BY <2>2, <2>3, <3>2
      <4> QED
        BY <4>1, <4>2
    <3>3. CASE k # g
      <4>1. 3 * k + 3 <= n /\ 4 * k + 3 \in 1 .. 4 * g + 2
        BY <3>1, <3>3
      <4> QED
        BY <1>1, <2>3, <4>1
    <3> QED
      BY <3>2, <3>3
  <2>6. ASSUME NEW k \in Nat, 3 * k + 3 <= n
        PROVE  e[4 * k + 4] = four(k)
    <3>1. g \in Nat /\ n = 3 * g + 2 /\ k < g
      BY <1>1, <1>6, <2>6
    <3>2. 4 * k + 4 \in 1 .. 4 * g + 2
      BY <3>1
    <3> QED
      BY <1>1, <2>3, <2>6, <3>2
  <2> QED
    BY <1>6, <2>3, <2>4, <2>5, <2>6 DEF Padded, one, high, low, top, rest, four
<1> QED
  BY <1>1, <1>4, <1>5, <1>6

\* A letter, and zero for the padding.
Six(out, p) == IF out[p] = 64 THEN 0 ELSE out[p]

\* A group of four letters gives its bytes, and has padding for those that are
\* missing.
LEMMA GroupIs ==
    ASSUME NEW in, NEW n \in Nat, \A j \in 1 .. n : in[j] \in 0 .. 255,
           NEW g \in Nat, NEW r \in 0 .. 2, n = 3 * g + r,
           NEW e, Padded(in, n, g, r, e), NEW k \in Nat, 3 * k + 1 <= n
    PROVE  /\ e[4 * k + 1] # 64 /\ e[4 * k + 2] # 64
           /\ e[4 * k + 3] = 64 <=> ~(3 * k + 2 <= n)
           /\ e[4 * k + 4] = 64 <=> ~(3 * k + 3 <= n)
           /\ (Six(e, 4 * k + 1) * 4) + (Six(e, 4 * k + 2) \div 16) = in[3 * k + 1]
           /\ 3 * k + 2 <= n =>
                 ((Six(e, 4 * k + 2) % 16) * 16) + (Six(e, 4 * k + 3) \div 4)
                    = in[3 * k + 2]
           /\ 3 * k + 3 <= n =>
                 ((Six(e, 4 * k + 3) % 4) * 64) + Six(e, 4 * k + 4) = in[3 * k + 3]
<1> DEFINE a == in[3 * k + 1]
           b == IF 3 * k + 2 <= n THEN in[3 * k + 2] ELSE 0
           c == IF 3 * k + 3 <= n THEN in[3 * k + 3] ELSE 0
           w == Six(e, 4 * k + 1)
           x == Six(e, 4 * k + 2)
           y == Six(e, 4 * k + 3)
           z == Six(e, 4 * k + 4)
<1>1. a \in Byte /\ b \in Byte /\ c \in Byte
  <2>1. /\ 3 * k + 1 \in 1 .. n
        /\ 3 * k + 2 <= n => 3 * k + 2 \in 1 .. n
        /\ 3 * k + 3 <= n => 3 * k + 3 \in 1 .. n
    OBVIOUS
  <2> QED
    BY <2>1 DEF Byte
<1>2. /\ 3 * k + 2 <= n => b = in[3 * k + 2]
      /\ 3 * k + 3 <= n => c = in[3 * k + 3]
      /\ ~(3 * k + 2 <= n) => b = 0
      /\ ~(3 * k + 3 <= n) => c = 0
      /\ 3 * k + 3 <= n => 3 * k + 2 <= n
  OBVIOUS
<1>3. /\ ~(3 * k + 2 <= n) => k = g /\ r = 1
      /\ ~(3 * k + 3 <= n) => k = g /\ r \in {1, 2}
  OBVIOUS
<1>4. 0 \div 16 = 0 /\ 0 \div 64 = 0 /\ (0 % 16) * 4 = 0 /\ 0 % 64 = 0
  OBVIOUS
<1>5. /\ e[4 * k + 1] = a \div 4
      /\ e[4 * k + 2] = ((a % 4) * 16) + (b \div 16)
      /\ 3 * k + 2 <= n => e[4 * k + 3] = ((b % 16) * 4) + (c \div 64)
      /\ 3 * k + 3 <= n => e[4 * k + 4] = c % 64
      /\ ~(3 * k + 2 <= n) => e[4 * k + 3] = 64
      /\ ~(3 * k + 3 <= n) => e[4 * k + 4] = 64
  <2> DEFINE low == in[3 * k + 2] \div 16
             rest == in[3 * k + 3] \div 64
             high == (a % 4) * 16
             top == (in[3 * k + 2] % 16) * 4
  <2>1. /\ e[4 * k + 1] = a \div 4
        /\ e[4 * k + 2] = high + (IF 3 * k + 2 <= n THEN low ELSE 0)
        /\ 3 * k + 2 <= n =>
              e[4 * k + 3] = top + (IF 3 * k + 3 <= n THEN rest ELSE 0)
        /\ 3 * k + 3 <= n => e[4 * k + 4] = in[3 * k + 3] % 64
        /\ r = 1 => e[4 * g + 3] = 64 /\ e[4 * g + 4] = 64
        /\ r = 2 => e[4 * g + 4] = 64
    BY DEF Padded
  <2>2. /\ 3 * k + 2 <= n => b \div 16 = low /\ (b % 16) * 4 = top
        /\ 3 * k + 3 <= n => c \div 64 = rest /\ c % 64 = in[3 * k + 3] % 64
        /\ ~(3 * k + 2 <= n) => b \div 16 = 0
        /\ ~(3 * k + 3 <= n) => c \div 64 = 0
    <3> HIDE DEF b, c
    <3> QED
      BY <1>2, <1>4
  <2> HIDE DEF a, b, c, low, rest, high, top
  <2>3. e[4 * k + 2] = high + (b \div 16)
    BY <2>1, <2>2
  <2>4. 3 * k + 2 <= n => e[4 * k + 3] = ((b % 16) * 4) + (c \div 64)
    BY <2>1, <2>2
  <2> QED
    BY <1>3, <2>1, <2>2, <2>3, <2>4 DEF high
<1> HIDE DEF a, b, c
<1>6. /\ a \div 4 \in 0 .. 63 /\ ((a % 4) * 16) + (b \div 16) \in 0 .. 63
      /\ ((b % 16) * 4) + (c \div 64) \in 0 .. 63 /\ c % 64 \in 0 .. 63
  BY <1>1, SixBits
<1>7. /\ w = a \div 4 /\ x = ((a % 4) * 16) + (b \div 16)
      /\ y = ((b % 16) * 4) + (c \div 64) /\ z = c % 64
      /\ e[4 * k + 1] # 64 /\ e[4 * k + 2] # 64
      /\ e[4 * k + 3] = 64 <=> ~(3 * k + 2 <= n)
      /\ e[4 * k + 4] = 64 <=> ~(3 * k + 3 <= n)
  <2> DEFINE u == ((a % 4) * 16) + (b \div 16)
             v == ((b % 16) * 4) + (c \div 64)
             t == c % 64
             s == a \div 4
  <2>1. s \in 0 .. 63 /\ u \in 0 .. 63 /\ v \in 0 .. 63 /\ t \in 0 .. 63
    BY <1>6
  <2>2. /\ ~(3 * k + 2 <= n) => v = 0
        /\ ~(3 * k + 3 <= n) => t = 0
    BY <1>2, <1>4
  <2>3. /\ e[4 * k + 1] = s /\ e[4 * k + 2] = u
        /\ 3 * k + 2 <= n => e[4 * k + 3] = v
        /\ 3 * k + 3 <= n => e[4 * k + 4] = t
        /\ ~(3 * k + 2 <= n) => e[4 * k + 3] = 64
        /\ ~(3 * k + 3 <= n) => e[4 * k + 4] = 64
    BY <1>5
  <2> HIDE DEF s, u, v, t
  <2>4. s # 64 /\ u # 64 /\ v # 64 /\ t # 64
    BY <2>1
  <2>5. w = s /\ x = u
    BY <2>3, <2>4 DEF Six
  <2>6. y = v /\ (e[4 * k + 3] = 64 <=> ~(3 * k + 2 <= n))
    BY <2>2, <2>3, <2>4 DEF Six
  <2>7. z = t /\ (e[4 * k + 4] = 64 <=> ~(3 * k + 3 <= n))
    BY <2>2, <2>3, <2>4 DEF Six
  <2> QED
    BY <2>3, <2>4, <2>5, <2>6, <2>7 DEF s, u, v, t
<1> HIDE DEF w, x, y, z
<1>8. /\ (w * 4) + (x \div 16) = a
      /\ ((x % 16) * 16) + (y \div 4) = b
      /\ ((y % 4) * 64) + z = c
  BY <1>1, <1>7, ReadBack
<1> QED
  BY <1>2, <1>7, <1>8 DEF a, w, x, y, z

\* What base64 encodes are bytes.
TextBytes == text \in Seq(Byte)

\* Every step keeps them bytes.
LEMMA TextBytesStep ==
    TextBytes /\ [Next]_vars => TextBytes'
<1> SUFFICES ASSUME TextBytes, [Next]_vars PROVE TextBytes'
  OBVIOUS
<1>1. ASSUME UNCHANGED text PROVE TextBytes'
  BY <1>1 DEF TextBytes
<1>2. CASE TextGrows
  <2>1. PICK b \in Bytes : text' = Append(text, b)
    BY <1>2 DEF TextGrows
  <2>2. b \in Byte
    BY WireAssumption
  <2> HIDE DEF Byte
  <2> QED
    BY <2>1, <2>2 DEF TextBytes
<1>3. CASE EndBase64
  BY <1>3 DEF EndBase64, TextBytes
<1>4. CASE UNCHANGED vars
  BY <1>1, <1>4 DEF vars
<1>5. CASE PutFrame \/ PeerFrame \/ EndFrame
  BY <1>1, <1>5 DEF PutFrame, PeerFrame, EndFrame
<1>6. CASE ParseOpcode \/ ParseSize \/ ParseExtendedSize \/ ParseMask
  BY <1>1, <1>6 DEF ParseOpcode, ParseSize, ParseExtendedSize, ParseMask, Reads
<1>7. ASSUME NEW b \in Byte, NextByte(b) PROVE TextBytes'
  BY <1>1, <1>7 DEF NextByte
<1>8. ASSUME NEW n \in Chunks, Sha1Update(n) PROVE TextBytes'
  BY <1>1, <1>8 DEF Sha1Update
<1>9. CASE EndUtf8 \/ Sha1Finish \/ Sha1Init
  BY <1>1, <1>9 DEF EndUtf8, Sha1Finish, Sha1Init
<1> QED
  BY <1>2, <1>3, <1>4, <1>5, <1>6, <1>7, <1>8, <1>9 DEF Next

\* Bytes are read back from what b64_encode makes of them, whatever they are
\* and however many, and it has the length and the padding it should have.
LEMMA EncodedBack ==
    ASSUME TextBytes
    PROVE  Base64Right
<1> DEFINE n == Len(text)
           out == B64Encode(text)
           pads == (3 - (n % 3)) % 3
<1>1. n \in Nat /\ \A j \in 1 .. n : text[j] \in 0 .. 255
  <2>1. n \in Nat /\ \A j \in 1 .. n : text[j] \in Byte
    <3> HIDE DEF Byte
    <3> QED
      BY DEF TextBytes
  <2> QED
    BY <2>1 DEF Byte
<1>2. PICK run : Runs(run, text, n) /\ out = B64Tail(run[n], n)
  BY <1>1, EncodeIs
<1>3. PICK g, r : Encoded(text, n, g, r, run[n])
  BY <1>1, <1>2, LoopKeeps
<1>4. Padded(text, n, g, r, out)
  <2> HIDE DEF n, out
  <2> QED
    BY <1>1, <1>2, <1>3, TailIs
<1>5. g \in Nat /\ r \in 0 .. 2 /\ n = 3 * g + r
  BY <1>3 DEF Encoded
<1>6. out \in Seq(Nat) /\ Len(out) = IF r = 0 THEN 4 * g ELSE 4 * g + 4
  BY <1>4 DEF Padded
<1>7. n \div 3 = g /\ n % 3 = r
  <2> HIDE DEF n
  <2> QED
    BY ONLY <1>5, ThreesAre
<1>8. Len(out) = EncodedSize(n)
  <2> HIDE DEF n, out
  <2> QED
    BY <1>5, <1>6, <1>7 DEF EncodedSize
<1>9. pads = IF r = 0 THEN 0 ELSE 3 - r
  <2> HIDE DEF n
  <2>1. pads = (3 - r) % 3
    BY <1>7
  <2>2. r = 0 \/ r = 1 \/ r = 2
    BY <1>5
  <2> HIDE DEF pads
  <2> QED
    BY <2>1, <2>2
<1> HIDE DEF n, out, pads
<1>10. \A k \in Nat : 3 * k + 1 <= n =>
          /\ out[4 * k + 1] # 64 /\ out[4 * k + 2] # 64
          /\ out[4 * k + 3] = 64 <=> ~(3 * k + 2 <= n)
          /\ out[4 * k + 4] = 64 <=> ~(3 * k + 3 <= n)
          /\ (Six(out, 4 * k + 1) * 4) + (Six(out, 4 * k + 2) \div 16) = text[3 * k + 1]
          /\ 3 * k + 2 <= n =>
                ((Six(out, 4 * k + 2) % 16) * 16) + (Six(out, 4 * k + 3) \div 4)
                   = text[3 * k + 2]
          /\ 3 * k + 3 <= n =>
                ((Six(out, 4 * k + 3) % 4) * 64) + Six(out, 4 * k + 4) = text[3 * k + 3]
  BY <1>1, <1>4, <1>5, GroupIs
<1>11. ASSUME NEW p \in DOMAIN out
       PROVE  out[p] = 64 <=> p > Len(out) - pads
  <2>1. p \in 1 .. Len(out) /\ Len(out) \in Nat
    BY <1>6
  <2> DEFINE m == IF r = 0 THEN 4 * g ELSE 4 * g + 4
  <2>2. p \in 1 .. m /\ Len(out) = m
    BY <1>6, <2>1
  <2>3. PICK k \in Nat, s \in 1 .. 4 : p = 4 * k + s
    <3>1. p \in Nat /\ p >= 1
      BY <1>5, <2>2
    <3> DEFINE h == p - 1
    <3>2. h \in Nat
      BY <3>1
    <3> HIDE DEF h
    <3>3. h \div 4 \in Nat /\ h % 4 \in 0 .. 3 /\ h = 4 * (h \div 4) + (h % 4)
      BY <3>2
    <3> DEFINE d == h \div 4
               q == h % 4
    <3> HIDE DEF d, q
    <3>4. d \in Nat /\ q + 1 \in 1 .. 4 /\ p = 4 * d + (q + 1)
      <4>1. d \in Nat /\ q \in 0 .. 3 /\ h = 4 * d + q
        BY <3>3 DEF d, q
      <4> QED
        BY <3>1, <4>1 DEF h
    <3> QED
      BY <3>4
  <2>4. 3 * k + 1 <= n
    BY <1>5, <2>2, <2>3
  <2>5. /\ out[4 * k + 1] # 64 /\ out[4 * k + 2] # 64
        /\ out[4 * k + 3] = 64 <=> ~(3 * k + 2 <= n)
        /\ out[4 * k + 4] = 64 <=> ~(3 * k + 3 <= n)
    BY <1>10, <2>4
  <2>6. p > Len(out) - pads <=> p > m - pads
    BY <2>2
  <2>7. /\ ~(4 * k + 1 > m - pads) /\ ~(4 * k + 2 > m - pads)
        /\ 4 * k + 3 > m - pads <=> ~(3 * k + 2 <= n)
        /\ 4 * k + 4 > m - pads <=> ~(3 * k + 3 <= n)
    <3>1. k \in Nat /\ 4 * k < m
      BY <1>5, <2>2, <2>3
    <3>2. CASE r = 0
      BY <1>5, <1>9, <3>1, <3>2
    <3>3. CASE r = 1
      BY <1>5, <1>9, <3>1, <3>3
    <3>4. CASE r = 2
      BY <1>5, <1>9, <3>1, <3>4
    <3> QED
      BY <1>5, <3>2, <3>3, <3>4
  <2> HIDE DEF m
  <2>8. CASE s = 1
    BY <2>3, <2>5, <2>6, <2>7, <2>8
  <2>9. CASE s = 2
    BY <2>3, <2>5, <2>6, <2>7, <2>9
  <2>10. CASE s = 3
    BY <2>3, <2>5, <2>6, <2>7, <2>10
  <2>11. CASE s = 4
    BY <2>3, <2>5, <2>6, <2>7, <2>11
  <2>12. s = 1 \/ s = 2 \/ s = 3 \/ s = 4
    BY <2>3
  <2> QED
    BY <2>8, <2>9, <2>10, <2>11, <2>12
<1>12. ASSUME NEW i \in DOMAIN text
       PROVE  LET k == 4 * ((i - 1) \div 3)
              IN  text[i] =
                    CASE i % 3 = 1 -> Six(out, k + 1) * 4 + (Six(out, k + 2) \div 16)
                      [] i % 3 = 2 -> (Six(out, k + 2) % 16) * 16
                                      + (Six(out, k + 3) \div 4)
                      [] i % 3 = 0 -> (Six(out, k + 3) % 4) * 64 + Six(out, k + 4)
  <2>1. i \in 1 .. n
    BY <1>1 DEF n, TextBytes
  <2> DEFINE h == i - 1
  <2>2. h \in Nat /\ i = h + 1
    BY <1>1, <2>1
  <2> HIDE DEF h
  <2>3. PICK d \in Nat, s \in 0 .. 2 : h = 3 * d + s
    BY <2>2, ThreesExist
  <2>4. h \div 3 = d
    BY ONLY <2>2, <2>3, ThreesAre
  <2>5. 3 * d + 1 <= n /\ i \in Nat
    BY <1>1, <2>1, <2>2, <2>3
  <2> DEFINE k == 4 * (h \div 3)
             w == Six(out, k + 1)
             x == Six(out, k + 2)
             y == Six(out, k + 3)
             z == Six(out, k + 4)
  <2>6. /\ (w * 4) + (x \div 16) = text[3 * d + 1]
        /\ 3 * d + 2 <= n => ((x % 16) * 16) + (y \div 4) = text[3 * d + 2]
        /\ 3 * d + 3 <= n => ((y % 4) * 64) + z = text[3 * d + 3]
    BY <1>10, <2>4, <2>5
  <2> HIDE DEF w, x, y, z
  <2>7. text[i] = CASE i % 3 = 1 -> (w * 4) + (x \div 16)
                    [] i % 3 = 2 -> ((x % 16) * 16) + (y \div 4)
                    [] i % 3 = 0 -> ((y % 4) * 64) + z
    <3>1. CASE s = 0
      <4>1. i = 3 * d + 1 /\ i % 3 = 1
        BY <2>2, <2>3, <3>1
      <4> QED
        BY <2>6, <4>1
    <3>2. CASE s = 1
      <4>1. i = 3 * d + 2 /\ i % 3 = 2 /\ 3 * d + 2 <= n
        BY <1>1, <2>1, <2>2, <2>3, <3>2
      <4> QED
        BY <2>6, <4>1
    <3>3. CASE s = 2
      <4>1. i = 3 * d + 3 /\ i % 3 = 0 /\ 3 * d + 3 <= n
        BY <1>1, <2>1, <2>2, <2>3, <3>3
      <4> QED
        BY <2>6, <4>1
    <3>4. s = 0 \/ s = 1 \/ s = 2
      BY <2>3
    <3> QED
      BY ONLY <3>1, <3>2, <3>3, <3>4, Zenon
  <2> QED
    BY <2>7 DEF h, w, x, y, z
<1> QED
  BY <1>8, <1>11, <1>12 DEF Base64Right, Six, n, out, pads

\* b64_encode writes as many letters as b64_encoded_size says, and the input can
\* be read back from them.
THEOREM Base64RightHolds == Spec => []Base64Right
<1>1. Init => TextBytes
  BY DEF Init, TextBytes
<1>2. TextBytes => Base64Right
  BY EncodedBack
<1> QED
  BY <1>1, <1>2, TextBytesStep, PTL DEF Spec

----------------------------------------------------------------------------
(* UTF-8.                                                                  *)

\* d has the m entries of c.
Longer(c, d, m) == \A j \in 1 .. m : d[j] = c[j]

\* The n entries behind the first m are x.
AllAre(d, m, n, x) == \A j \in m + 1 .. m + n : d[j] = x

\* What two tables have in common with a third.
LEMMA LongerTwice ==
    ASSUME NEW c, NEW d, NEW e, NEW m \in Nat, NEW n \in Nat, m <= n,
           Longer(c, d, m), Longer(d, e, n)
    PROVE  Longer(c, e, m)
  BY DEF Longer

\* A table with more entries.
LEMMA MoreEntries ==
    ASSUME NEW c \in Seq(Nat), NEW t \in Seq(Nat)
    PROVE  /\ c \o t \in Seq(Nat) /\ Len(c \o t) = Len(c) + Len(t)
           /\ Longer(c, c \o t, Len(c))
           /\ \A j \in 1 .. Len(t) : (c \o t)[Len(c) + j] = t[j]
<1> DEFINE d == c \o t
           n == Len(t)
           m == Len(c)
<1>1. /\ d \in Seq(Nat) /\ Len(d) = m + n /\ n \in Nat /\ m \in Nat
      /\ \A i \in 1 .. m + n : d[i] = IF i <= m THEN c[i] ELSE t[i - m]
  BY ConcatProperties
<1> HIDE DEF d, n, m
<1>2. \A j \in 1 .. m : d[j] = c[j]
  BY <1>1
<1>3. ASSUME NEW j \in 1 .. n PROVE d[m + j] = t[j]
  <2>1. m + j \in 1 .. m + n /\ ~(m + j <= m) /\ (m + j) - m = j
    BY <1>1
  <2> QED
    BY <1>1, <2>1
<1> QED
  BY <1>1, <1>2, <1>3 DEF d, n, m, Longer

\* A table with n more entries of one class.
LEMMA MoreOfClass ==
    ASSUME NEW c \in Seq(Nat), NEW n \in Nat, NEW x \in Nat
    PROVE  /\ c \o Times(n, x) \in Seq(Nat)
           /\ Len(c \o Times(n, x)) = Len(c) + n
           /\ Longer(c, c \o Times(n, x), Len(c))
           /\ AllAre(c \o Times(n, x), Len(c), n, x)
<1> DEFINE t == Times(n, x)
           d == c \o t
           m == Len(c)
<1>1. t \in Seq(Nat) /\ Len(t) = n /\ \A i \in 1 .. n : t[i] = x
  BY DEF Times
<1> HIDE DEF t
<1>2. /\ d \in Seq(Nat) /\ Len(d) = m + n /\ m \in Nat
      /\ Longer(c, d, m)
      /\ \A j \in 1 .. n : d[m + j] = t[j]
  <2>1. t \in Seq(Nat) /\ c \in Seq(Nat)
    BY <1>1
  <2>2. /\ c \o t \in Seq(Nat) /\ Len(c \o t) = Len(c) + Len(t)
        /\ Longer(c, c \o t, Len(c))
        /\ \A j \in 1 .. Len(t) : (c \o t)[Len(c) + j] = t[j]
    BY ONLY <2>1, MoreEntries
  <2> QED
    BY <1>1, <2>2
<1> HIDE DEF d, m
<1>3. ASSUME NEW j \in m + 1 .. m + n PROVE d[j] = x
  <2>1. PICK i \in 1 .. n : j = m + i
    <3>1. j - m \in 1 .. n /\ j = m + (j - m)
      BY <1>2
    <3> QED
      BY <3>1
  <2> QED
    BY <1>1, <1>2, <2>1
<1> QED
  BY <1>2, <1>3 DEF t, d, m, AllAre

\* The class of each byte, by the table.
LEMMA ClassIs ==
    ASSUME NEW b \in Byte
    PROVE  LET c == ClassTable[b + 1]
           IN  /\ b \in 0 .. 127 => c = 0
               /\ b \in 128 .. 143 => c = 1
               /\ b \in 144 .. 159 => c = 9
               /\ b \in 160 .. 191 => c = 7
               /\ b \in {192, 193} \cup 245 .. 255 => c = 8
               /\ b \in 194 .. 223 => c = 2
               /\ b = 224 => c = 10
               /\ b \in (225 .. 236) \cup {238, 239} => c = 3
               /\ b = 237 => c = 4
               /\ b = 240 => c = 11
               /\ b \in 241 .. 243 => c = 6
               /\ b = 244 => c = 5
<1> DEFINE c1 == Times(128, 0)
           c2 == c1 \o Times(16, 1)
           c3 == c2 \o Times(16, 9)
           c4 == c3 \o Times(32, 7)
           c5 == c4 \o Times(2, 8)
           c6 == c5 \o Times(30, 2)
           c7 == c6 \o <<10>>
           c8 == c7 \o Times(12, 3)
           c9 == c8 \o <<4, 3, 3>>
           c10 == c9 \o <<11, 6, 6, 6, 5>>
           c11 == c10 \o Times(11, 8)
<1>0. c1 \in Seq(Nat) /\ Len(c1) = 128 /\ AllAre(c1, 0, 128, 0)
  BY DEF Times, AllAre
<1> HIDE DEF c1, c2, c3, c4, c5, c6, c7, c8, c9, c10, c11
<1>1. /\ c2 \in Seq(Nat) /\ Len(c2) = 144
      /\ Longer(c1, c2, 128)
      /\ AllAre(c2, 128, 16, 1)
  <2>1. c1 \in Seq(Nat) /\ 16 \in Nat /\ 1 \in Nat
    BY <1>0
  <2>2. /\ c2 \in Seq(Nat) /\ Len(c2) = Len(c1) + 16
        /\ Longer(c1, c2, Len(c1))
        /\ AllAre(c2, Len(c1), 16, 1)
    BY ONLY <2>1, MoreOfClass DEF c2
  <2> QED
    BY <1>0, <2>2
<1>2. /\ c3 \in Seq(Nat) /\ Len(c3) = 160
      /\ Longer(c2, c3, 144)
      /\ AllAre(c3, 144, 16, 9)
  <2>1. c2 \in Seq(Nat) /\ 16 \in Nat /\ 9 \in Nat
    BY <1>1
  <2>2. /\ c3 \in Seq(Nat) /\ Len(c3) = Len(c2) + 16
        /\ Longer(c2, c3, Len(c2))
        /\ AllAre(c3, Len(c2), 16, 9)
    BY ONLY <2>1, MoreOfClass DEF c3
  <2> QED
    BY <1>1, <2>2
<1>3. /\ c4 \in Seq(Nat) /\ Len(c4) = 192
      /\ Longer(c3, c4, 160)
      /\ AllAre(c4, 160, 32, 7)
  <2>1. c3 \in Seq(Nat) /\ 32 \in Nat /\ 7 \in Nat
    BY <1>2
  <2>2. /\ c4 \in Seq(Nat) /\ Len(c4) = Len(c3) + 32
        /\ Longer(c3, c4, Len(c3))
        /\ AllAre(c4, Len(c3), 32, 7)
    BY ONLY <2>1, MoreOfClass DEF c4
  <2> QED
    BY <1>2, <2>2
<1>4. /\ c5 \in Seq(Nat) /\ Len(c5) = 194
      /\ Longer(c4, c5, 192)
      /\ AllAre(c5, 192, 2, 8)
  <2>1. c4 \in Seq(Nat) /\ 2 \in Nat /\ 8 \in Nat
    BY <1>3
  <2>2. /\ c5 \in Seq(Nat) /\ Len(c5) = Len(c4) + 2
        /\ Longer(c4, c5, Len(c4))
        /\ AllAre(c5, Len(c4), 2, 8)
    BY ONLY <2>1, MoreOfClass DEF c5
  <2> QED
    BY <1>3, <2>2
<1>5. /\ c6 \in Seq(Nat) /\ Len(c6) = 224
      /\ Longer(c5, c6, 194)
      /\ AllAre(c6, 194, 30, 2)
  <2>1. c5 \in Seq(Nat) /\ 30 \in Nat /\ 2 \in Nat
    BY <1>4
  <2>2. /\ c6 \in Seq(Nat) /\ Len(c6) = Len(c5) + 30
        /\ Longer(c5, c6, Len(c5))
        /\ AllAre(c6, Len(c5), 30, 2)
    BY ONLY <2>1, MoreOfClass DEF c6
  <2> QED
    BY <1>4, <2>2
<1>6. /\ c7 \in Seq(Nat) /\ Len(c7) = 225
      /\ Longer(c6, c7, 224)
      /\ c7[225] = 10
  <2>1. c6 \in Seq(Nat) /\ <<10>> \in Seq(Nat)
    BY <1>5
  <2>2. /\ c7 \in Seq(Nat) /\ Len(c7) = Len(c6) + Len(<<10>>)
        /\ Longer(c6, c7, Len(c6))
        /\ \A j \in 1 .. Len(<<10>>) : c7[Len(c6) + j] = <<10>>[j]
    BY ONLY <2>1, MoreEntries DEF c7
  <2> QED
    BY <1>5, <2>2
<1>7. /\ c8 \in Seq(Nat) /\ Len(c8) = 237
      /\ Longer(c7, c8, 225)
      /\ AllAre(c8, 225, 12, 3)
  <2>1. c7 \in Seq(Nat) /\ 12 \in Nat /\ 3 \in Nat
    BY <1>6
  <2>2. /\ c8 \in Seq(Nat) /\ Len(c8) = Len(c7) + 12
        /\ Longer(c7, c8, Len(c7))
        /\ AllAre(c8, Len(c7), 12, 3)
    BY ONLY <2>1, MoreOfClass DEF c8
  <2> QED
    BY <1>6, <2>2
<1>8. /\ c9 \in Seq(Nat) /\ Len(c9) = 240
      /\ Longer(c8, c9, 237)
      /\ c9[238] = 4 /\ c9[239] = 3 /\ c9[240] = 3
  <2>1. c8 \in Seq(Nat) /\ <<4, 3, 3>> \in Seq(Nat)
    BY <1>7
  <2>2. /\ c9 \in Seq(Nat) /\ Len(c9) = Len(c8) + Len(<<4, 3, 3>>)
        /\ Longer(c8, c9, Len(c8))
        /\ \A j \in 1 .. Len(<<4, 3, 3>>) : c9[Len(c8) + j] = <<4, 3, 3>>[j]
    BY ONLY <2>1, MoreEntries DEF c9
  <2> QED
    BY <1>7, <2>2
<1>9. /\ c10 \in Seq(Nat) /\ Len(c10) = 245
      /\ Longer(c9, c10, 240)
      /\ c10[241] = 11 /\ c10[242] = 6 /\ c10[243] = 6 /\ c10[244] = 6 /\ c10[245] = 5
  <2>1. c9 \in Seq(Nat) /\ <<11, 6, 6, 6, 5>> \in Seq(Nat)
    BY <1>8
  <2>2. /\ c10 \in Seq(Nat) /\ Len(c10) = Len(c9) + Len(<<11, 6, 6, 6, 5>>)
        /\ Longer(c9, c10, Len(c9))
        /\ \A j \in 1 .. Len(<<11, 6, 6, 6, 5>>) : c10[Len(c9) + j] = <<11, 6, 6, 6, 5>>[j]
    BY ONLY <2>1, MoreEntries DEF c10
  <2> QED
    BY <1>8, <2>2
<1>10. /\ c11 \in Seq(Nat) /\ Len(c11) = 256
      /\ Longer(c10, c11, 245)
      /\ AllAre(c11, 245, 11, 8)
  <2>1. c10 \in Seq(Nat) /\ 11 \in Nat /\ 8 \in Nat
    BY <1>9
  <2>2. /\ c11 \in Seq(Nat) /\ Len(c11) = Len(c10) + 11
        /\ Longer(c10, c11, Len(c10))
        /\ AllAre(c11, Len(c10), 11, 8)
    BY ONLY <2>1, MoreOfClass DEF c11
  <2> QED
    BY <1>9, <2>2
<1>11. b + 1 \in 1 .. 256 /\ c11[b + 1] = ClassTable[b + 1]
  BY DEF ClassTable, c1, c2, c3, c4, c5, c6, c7, c8, c9, c10, c11, Byte
<1>12. /\ Longer(c11, c11, 256)
       /\ Longer(c10, c11, 245)
       /\ Longer(c9, c11, 240)
       /\ Longer(c8, c11, 237)
       /\ Longer(c7, c11, 225)
       /\ Longer(c6, c11, 224)
       /\ Longer(c5, c11, 194)
       /\ Longer(c4, c11, 192)
       /\ Longer(c3, c11, 160)
       /\ Longer(c2, c11, 144)
       /\ Longer(c1, c11, 128)
  <2>0. Longer(c11, c11, 256)
    BY DEF Longer
  <2>1. Longer(c10, c11, 245)
    <3>1. Longer(c10, c11, 245)
      BY ONLY <1>10
    <3>2. 245 \in Nat /\ 256 \in Nat /\ 245 <= 256
      OBVIOUS
    <3> QED
      BY ONLY <3>1, <3>2, <2>0, LongerTwice
  <2>2. Longer(c9, c11, 240)
    <3>1. Longer(c9, c10, 240)
      BY ONLY <1>9
    <3>2. 240 \in Nat /\ 245 \in Nat /\ 240 <= 245
      OBVIOUS
    <3> QED
      BY ONLY <3>1, <3>2, <2>1, LongerTwice
  <2>3. Longer(c8, c11, 237)
    <3>1. Longer(c8, c9, 237)
      BY ONLY <1>8
    <3>2. 237 \in Nat /\ 240 \in Nat /\ 237 <= 240
      OBVIOUS
    <3> QED
      BY ONLY <3>1, <3>2, <2>2, LongerTwice
  <2>4. Longer(c7, c11, 225)
    <3>1. Longer(c7, c8, 225)
      BY ONLY <1>7
    <3>2. 225 \in Nat /\ 237 \in Nat /\ 225 <= 237
      OBVIOUS
    <3> QED
      BY ONLY <3>1, <3>2, <2>3, LongerTwice
  <2>5. Longer(c6, c11, 224)
    <3>1. Longer(c6, c7, 224)
      BY ONLY <1>6
    <3>2. 224 \in Nat /\ 225 \in Nat /\ 224 <= 225
      OBVIOUS
    <3> QED
      BY ONLY <3>1, <3>2, <2>4, LongerTwice
  <2>6. Longer(c5, c11, 194)
    <3>1. Longer(c5, c6, 194)
      BY ONLY <1>5
    <3>2. 194 \in Nat /\ 224 \in Nat /\ 194 <= 224
      OBVIOUS
    <3> QED
      BY ONLY <3>1, <3>2, <2>5, LongerTwice
  <2>7. Longer(c4, c11, 192)
    <3>1. Longer(c4, c5, 192)
      BY ONLY <1>4
    <3>2. 192 \in Nat /\ 194 \in Nat /\ 192 <= 194
      OBVIOUS
    <3> QED
      BY ONLY <3>1, <3>2, <2>6, LongerTwice
  <2>8. Longer(c3, c11, 160)
    <3>1. Longer(c3, c4, 160)
      BY ONLY <1>3
    <3>2. 160 \in Nat /\ 192 \in Nat /\ 160 <= 192
      OBVIOUS
    <3> QED
      BY ONLY <3>1, <3>2, <2>7, LongerTwice
  <2>9. Longer(c2, c11, 144)
    <3>1. Longer(c2, c3, 144)
      BY ONLY <1>2
    <3>2. 144 \in Nat /\ 160 \in Nat /\ 144 <= 160
      OBVIOUS
    <3> QED
      BY ONLY <3>1, <3>2, <2>8, LongerTwice
  <2>10. Longer(c1, c11, 128)
    <3>1. Longer(c1, c2, 128)
      BY ONLY <1>1
    <3>2. 128 \in Nat /\ 144 \in Nat /\ 128 <= 144
      OBVIOUS
    <3> QED
      BY ONLY <3>1, <3>2, <2>9, LongerTwice
  <2> QED
    BY ONLY <2>0, <2>1, <2>2, <2>3, <2>4, <2>5, <2>6, <2>7, <2>8, <2>9, <2>10
<1> DEFINE c == c11[b + 1]
<1>13. ASSUME b \in 0 .. 127 PROVE c = 0
  <2>1. AllAre(c1, 0, 128, 0) /\ Longer(c1, c11, 128)
    BY ONLY <1>0, <1>12
  <2>2. \A j \in 0 + 1 .. 0 + 128 : c1[j] = 0
    BY ONLY <2>1 DEF AllAre
  <2>3. \A j \in 1 .. 128 : c11[j] = c1[j]
    BY ONLY <2>1 DEF Longer
  <2>4. b + 1 \in 1 .. 128 /\ b + 1 \in 0 + 1 .. 0 + 128
    BY <1>13
  <2> QED
    BY ONLY <2>2, <2>3, <2>4
<1>14. ASSUME b \in 128 .. 143 PROVE c = 1
  <2>1. AllAre(c2, 128, 16, 1) /\ Longer(c2, c11, 144)
    BY ONLY <1>1, <1>12
  <2>2. \A j \in 128 + 1 .. 128 + 16 : c2[j] = 1
    BY ONLY <2>1 DEF AllAre
  <2>3. \A j \in 1 .. 144 : c11[j] = c2[j]
    BY ONLY <2>1 DEF Longer
  <2>4. b + 1 \in 1 .. 144 /\ b + 1 \in 128 + 1 .. 128 + 16
    BY <1>14
  <2> QED
    BY ONLY <2>2, <2>3, <2>4
<1>15. ASSUME b \in 144 .. 159 PROVE c = 9
  <2>1. AllAre(c3, 144, 16, 9) /\ Longer(c3, c11, 160)
    BY ONLY <1>2, <1>12
  <2>2. \A j \in 144 + 1 .. 144 + 16 : c3[j] = 9
    BY ONLY <2>1 DEF AllAre
  <2>3. \A j \in 1 .. 160 : c11[j] = c3[j]
    BY ONLY <2>1 DEF Longer
  <2>4. b + 1 \in 1 .. 160 /\ b + 1 \in 144 + 1 .. 144 + 16
    BY <1>15
  <2> QED
    BY ONLY <2>2, <2>3, <2>4
<1>16. ASSUME b \in 160 .. 191 PROVE c = 7
  <2>1. AllAre(c4, 160, 32, 7) /\ Longer(c4, c11, 192)
    BY ONLY <1>3, <1>12
  <2>2. \A j \in 160 + 1 .. 160 + 32 : c4[j] = 7
    BY ONLY <2>1 DEF AllAre
  <2>3. \A j \in 1 .. 192 : c11[j] = c4[j]
    BY ONLY <2>1 DEF Longer
  <2>4. b + 1 \in 1 .. 192 /\ b + 1 \in 160 + 1 .. 160 + 32
    BY <1>16
  <2> QED
    BY ONLY <2>2, <2>3, <2>4
<1>17. ASSUME b \in 192 .. 193 PROVE c = 8
  <2>1. AllAre(c5, 192, 2, 8) /\ Longer(c5, c11, 194)
    BY ONLY <1>4, <1>12
  <2>2. \A j \in 192 + 1 .. 192 + 2 : c5[j] = 8
    BY ONLY <2>1 DEF AllAre
  <2>3. \A j \in 1 .. 194 : c11[j] = c5[j]
    BY ONLY <2>1 DEF Longer
  <2>4. b + 1 \in 1 .. 194 /\ b + 1 \in 192 + 1 .. 192 + 2
    BY <1>17
  <2> QED
    BY ONLY <2>2, <2>3, <2>4
<1>18. ASSUME b \in 194 .. 223 PROVE c = 2
  <2>1. AllAre(c6, 194, 30, 2) /\ Longer(c6, c11, 224)
    BY ONLY <1>5, <1>12
  <2>2. \A j \in 194 + 1 .. 194 + 30 : c6[j] = 2
    BY ONLY <2>1 DEF AllAre
  <2>3. \A j \in 1 .. 224 : c11[j] = c6[j]
    BY ONLY <2>1 DEF Longer
  <2>4. b + 1 \in 1 .. 224 /\ b + 1 \in 194 + 1 .. 194 + 30
    BY <1>18
  <2> QED
    BY ONLY <2>2, <2>3, <2>4
<1>19. ASSUME b = 224 PROVE c = 10
  <2>1. Longer(c7, c11, 225) /\ c7[225] = 10
    BY ONLY <1>6, <1>12
  <2>2. \A j \in 1 .. 225 : c11[j] = c7[j]
    BY ONLY <2>1 DEF Longer
  <2>3. (b = 224 /\ b + 1 = 225)
    BY <1>19
  <2> QED
    BY ONLY <2>1, <2>2, <2>3
<1>20. ASSUME b \in 225 .. 236 PROVE c = 3
  <2>1. AllAre(c8, 225, 12, 3) /\ Longer(c8, c11, 237)
    BY ONLY <1>7, <1>12
  <2>2. \A j \in 225 + 1 .. 225 + 12 : c8[j] = 3
    BY ONLY <2>1 DEF AllAre
  <2>3. \A j \in 1 .. 237 : c11[j] = c8[j]
    BY ONLY <2>1 DEF Longer
  <2>4. b + 1 \in 1 .. 237 /\ b + 1 \in 225 + 1 .. 225 + 12
    BY <1>20
  <2> QED
    BY ONLY <2>2, <2>3, <2>4
<1>21. ASSUME b \in 237 .. 239 PROVE c = IF b = 237 THEN 4 ELSE 3
  <2>1. Longer(c9, c11, 240) /\ c9[238] = 4 /\ c9[239] = 3 /\ c9[240] = 3
    BY ONLY <1>8, <1>12
  <2>2. \A j \in 1 .. 240 : c11[j] = c9[j]
    BY ONLY <2>1 DEF Longer
  <2>3. (b = 237 /\ b + 1 = 238) \/ (b = 238 /\ b + 1 = 239) \/ (b = 239 /\ b + 1 = 240)
    BY <1>21
  <2> QED
    BY ONLY <2>1, <2>2, <2>3
<1>22. ASSUME b \in 240 .. 244 PROVE c = IF b = 240 THEN 11 ELSE IF b = 244 THEN 5 ELSE 6
  <2>1. /\ Longer(c10, c11, 245)
        /\ c10[241] = 11 /\ c10[242] = 6 /\ c10[243] = 6
        /\ c10[244] = 6 /\ c10[245] = 5
    BY ONLY <1>9, <1>12
  <2>2. \A j \in 1 .. 245 : c11[j] = c10[j]
    BY ONLY <2>1 DEF Longer
  <2>3. \/ (b = 240 /\ b + 1 = 241) \/ (b = 241 /\ b + 1 = 242)
        \/ (b = 242 /\ b + 1 = 243) \/ (b = 243 /\ b + 1 = 244)
        \/ (b = 244 /\ b + 1 = 245)
    BY <1>22
  <2> QED
    BY ONLY <2>1, <2>2, <2>3
<1>23. ASSUME b \in 245 .. 255 PROVE c = 8
  <2>1. AllAre(c11, 245, 11, 8) /\ Longer(c11, c11, 256)
    BY ONLY <1>10, <1>12
  <2>2. \A j \in 245 + 1 .. 245 + 11 : c11[j] = 8
    BY ONLY <2>1 DEF AllAre
  <2>3. \A j \in 1 .. 256 : c11[j] = c11[j]
    BY ONLY <2>1 DEF Longer
  <2>4. b + 1 \in 1 .. 256 /\ b + 1 \in 245 + 1 .. 245 + 11
    BY <1>23
  <2> QED
    BY ONLY <2>2, <2>3, <2>4
<1>24. c = ClassTable[b + 1]
  BY <1>11
<1> HIDE DEF c
<1> QED
  BY ONLY <1>13, <1>14, <1>15, <1>16, <1>17, <1>18, <1>19,
          <1>20, <1>21, <1>22, <1>23, <1>24, b \in Byte DEF Byte

\* What may follow in each state of the table.
Rest(s) ==
    CASE s = 0 -> {<<>>}
      [] s = 1 -> {}
      [] s = 2 -> {<<Tails>>}
      [] s = 3 -> {<<Tails, Tails>>}
      [] s = 4 -> {<<<<160, 191>>, Tails>>}
      [] s = 5 -> {<<<<128, 159>>, Tails>>}
      [] s = 6 -> {<<<<144, 191>>, Tails, Tails>>}
      [] s = 7 -> {<<Tails, Tails, Tails>>}
      [] s = 8 -> {<<<<128, 143>>, Tails, Tails>>}

\* The table and RFC 3629 are at the same place of a character.
Utf8Inv == utf8 \in 0 .. 8 /\ expect = Rest(utf8)

\* Each set of rests by its number.
LEMMA RestIs ==
    /\ Rest(0) = {<<>>} /\ Rest(1) = {} /\ Rest(2) = {<<Tails>>}
    /\ Rest(3) = {<<Tails, Tails>>}
    /\ Rest(4) = {<<<<160, 191>>, Tails>>}
    /\ Rest(5) = {<<<<128, 159>>, Tails>>}
    /\ Rest(6) = {<<<<144, 191>>, Tails, Tails>>}
    /\ Rest(7) = {<<Tails, Tails, Tails>>}
    /\ Rest(8) = {<<<<128, 143>>, Tails, Tails>>}
  BY DEF Rest

\* The byte is of the first range of q.
Begins(q, b) == b \in q[1][1] .. q[1][2]

\* Of the rests R only r begins with the byte, and t is what is left of it.
Alone(R, b, r, t) ==
    /\ r \in R /\ r # <<>> /\ Begins(r, b) /\ Tail(r) = t
    /\ \A q \in R : q # r => ~Begins(q, b)

\* If one rest begins with the byte, what is left of it may follow.
LEMMA AfterOne ==
    ASSUME NEW R, NEW b, NEW r, NEW t, Alone(R, b, r, t)
    PROVE  After(R, b) = {t}
  BY DEF After, Begins, Alone

\* If none does, nothing may.
LEMMA AfterNone ==
    ASSUME NEW R, NEW b, \A q \in R : ~Begins(q, b)
    PROVE  After(R, b) = Rest(1)
<1>1. Rest(1) = {}
  BY RestIs
<1>2. After(R, b) = {}
  BY DEF After, Begins
<1> QED
  BY ONLY <1>1, <1>2, Zenon

\* The states after each state, but 1, by the class.
LEMMA StateIs ==
    /\ \A c \in 0 .. 11 : StateTable[1][c + 1] = 1
    /\ LET t == StateTable[0]
       IN  t[1] = 0 /\ t[2] = 1 /\ t[3] = 2 /\ t[4] = 3 /\ t[5] = 5 /\ t[6] = 8
           /\ t[7] = 7 /\ t[8] = 1 /\ t[9] = 1 /\ t[10] = 1 /\ t[11] = 4 /\ t[12] = 6
    /\ LET t == StateTable[2]
       IN  t[1] = 1 /\ t[2] = 0 /\ t[3] = 1 /\ t[4] = 1 /\ t[5] = 1 /\ t[6] = 1
           /\ t[7] = 1 /\ t[8] = 0 /\ t[9] = 1 /\ t[10] = 0 /\ t[11] = 1 /\ t[12] = 1
    /\ LET t == StateTable[3]
       IN  t[1] = 1 /\ t[2] = 2 /\ t[3] = 1 /\ t[4] = 1 /\ t[5] = 1 /\ t[6] = 1
           /\ t[7] = 1 /\ t[8] = 2 /\ t[9] = 1 /\ t[10] = 2 /\ t[11] = 1 /\ t[12] = 1
    /\ LET t == StateTable[4]
       IN  t[1] = 1 /\ t[2] = 1 /\ t[3] = 1 /\ t[4] = 1 /\ t[5] = 1 /\ t[6] = 1
           /\ t[7] = 1 /\ t[8] = 2 /\ t[9] = 1 /\ t[10] = 1 /\ t[11] = 1 /\ t[12] = 1
    /\ LET t == StateTable[5]
       IN  t[1] = 1 /\ t[2] = 2 /\ t[3] = 1 /\ t[4] = 1 /\ t[5] = 1 /\ t[6] = 1
           /\ t[7] = 1 /\ t[8] = 1 /\ t[9] = 1 /\ t[10] = 2 /\ t[11] = 1 /\ t[12] = 1
    /\ LET t == StateTable[6]
       IN  t[1] = 1 /\ t[2] = 1 /\ t[3] = 1 /\ t[4] = 1 /\ t[5] = 1 /\ t[6] = 1
           /\ t[7] = 1 /\ t[8] = 3 /\ t[9] = 1 /\ t[10] = 3 /\ t[11] = 1 /\ t[12] = 1
    /\ LET t == StateTable[7]
       IN  t[1] = 1 /\ t[2] = 3 /\ t[3] = 1 /\ t[4] = 1 /\ t[5] = 1 /\ t[6] = 1
           /\ t[7] = 1 /\ t[8] = 3 /\ t[9] = 1 /\ t[10] = 3 /\ t[11] = 1 /\ t[12] = 1
    /\ LET t == StateTable[8]
       IN  t[1] = 1 /\ t[2] = 3 /\ t[3] = 1 /\ t[4] = 1 /\ t[5] = 1 /\ t[6] = 1
           /\ t[7] = 1 /\ t[8] = 1 /\ t[9] = 1 /\ t[10] = 1 /\ t[11] = 1 /\ t[12] = 1
<1>1. \A c \in 0 .. 11 : StateTable[1][c + 1] = 1
  BY DEF StateTable, Times
<1> QED
  BY <1>1 DEF StateTable

\* Within a character the table goes on as the ranges do.
LEMMA WithinCharacter ==
    ASSUME NEW s \in 1 .. 8, NEW b \in Byte
    PROVE  Utf8Parse(s, b) \in 0 .. 8 /\ After(Rest(s), b) = Rest(Utf8Parse(s, b))
<1> DEFINE c == ClassTable[b + 1]
           u == StateTable[s][c + 1]
<1>0. u = Utf8Parse(s, b)
  BY DEF Utf8Parse
<1>1. c \in 0 .. 11
  BY ClassIs DEF Byte
<1>2. /\ (b \in 128 .. 143) = (c = 1)
      /\ (b \in 144 .. 159) = (c = 9)
      /\ (b \in 160 .. 191) = (c = 7)
  BY ClassIs DEF Byte
<1> HIDE DEF c
<1>3. c \in {0, 1, 2, 3, 4, 5, 6, 7, 8, 9, 10, 11}
  BY <1>1
<1>4. CASE s = 1
  <2>1. u = 1
    BY <1>1, <1>4, StateIs
  <2>2. After(Rest(1), b) = Rest(1)
    BY RestIs, AfterNone
  <2> HIDE DEF u
  <2> QED
    BY <1>0, <1>4, <2>1, <2>2
<1>5. CASE s = 2
  <2> DEFINE r == <<Tails>>
  <2>1. u = IF c \in {1, 7, 9} THEN 0 ELSE 1
    BY <1>3, <1>5, StateIs
  <2>2. (c \in {1, 7, 9}) = (b \in 128 .. 191)
    BY <1>2 DEF Byte
  <2>3. r # <<>> /\ Tail(r) = <<>> /\ (Begins(r, b) <=> b \in 128 .. 191)
    BY DEF Tails, Begins
  <2>4. Rest(s) = {r}
    BY <1>5, RestIs
  <2> HIDE DEF r
  <2>5. CASE b \in 128 .. 191
    <3>1. After(Rest(s), b) = {<<>>}
      <4>1. r \in Rest(s) /\ \A q \in Rest(s) : q = r
        BY ONLY <2>4
      <4>2. Begins(r, b) /\ r # <<>> /\ Tail(r) = <<>>
        BY ONLY <2>3, <2>5
      <4>3. Alone(Rest(s), b, r, <<>>)
        BY ONLY <4>1, <4>2, Zenon DEF Alone
      <4> QED
        BY ONLY <4>3, AfterOne, Zenon
    <3> HIDE DEF u
    <3> QED
      BY <1>0, <2>1, <2>2, <2>5, <3>1, RestIs
  <2>6. CASE ~(b \in 128 .. 191)
    <3>1. After(Rest(s), b) = Rest(1)
      BY <2>3, <2>4, <2>6, AfterNone
    <3> HIDE DEF u
    <3> QED
      BY <1>0, <2>1, <2>2, <2>6, <3>1
  <2> QED
    BY <2>5, <2>6
<1>6. CASE s = 3
  <2> DEFINE r == <<Tails, Tails>>
  <2>1. u = IF c \in {1, 7, 9} THEN 2 ELSE 1
    BY <1>3, <1>6, StateIs
  <2>2. (c \in {1, 7, 9}) = (b \in 128 .. 191)
    BY <1>2 DEF Byte
  <2>3. r # <<>> /\ Tail(r) = <<Tails>> /\ (Begins(r, b) <=> b \in 128 .. 191)
    BY DEF Tails, Begins
  <2>4. Rest(s) = {r}
    BY <1>6, RestIs
  <2> HIDE DEF r
  <2>5. CASE b \in 128 .. 191
    <3>1. After(Rest(s), b) = {<<Tails>>}
      <4>1. r \in Rest(s) /\ \A q \in Rest(s) : q = r
        BY ONLY <2>4
      <4>2. Begins(r, b) /\ r # <<>> /\ Tail(r) = <<Tails>>
        BY ONLY <2>3, <2>5
      <4>3. Alone(Rest(s), b, r, <<Tails>>)
        BY ONLY <4>1, <4>2, Zenon DEF Alone
      <4> QED
        BY ONLY <4>3, AfterOne, Zenon
    <3> HIDE DEF u
    <3> QED
      BY <1>0, <2>1, <2>2, <2>5, <3>1, RestIs
  <2>6. CASE ~(b \in 128 .. 191)
    <3>1. After(Rest(s), b) = Rest(1)
      BY <2>3, <2>4, <2>6, AfterNone
    <3> HIDE DEF u
    <3> QED
      BY <1>0, <2>1, <2>2, <2>6, <3>1
  <2> QED
    BY <2>5, <2>6
<1>7. CASE s = 4
  <2> DEFINE r == <<<<160, 191>>, Tails>>
  <2>1. u = IF c \in {7} THEN 2 ELSE 1
    BY <1>3, <1>7, StateIs
  <2>2. (c \in {7}) = (b \in 160 .. 191)
    BY <1>2 DEF Byte
  <2>3. r # <<>> /\ Tail(r) = <<Tails>> /\ (Begins(r, b) <=> b \in 160 .. 191)
    BY DEF Tails, Begins
  <2>4. Rest(s) = {r}
    BY <1>7, RestIs
  <2> HIDE DEF r
  <2>5. CASE b \in 160 .. 191
    <3>1. After(Rest(s), b) = {<<Tails>>}
      <4>1. r \in Rest(s) /\ \A q \in Rest(s) : q = r
        BY ONLY <2>4
      <4>2. Begins(r, b) /\ r # <<>> /\ Tail(r) = <<Tails>>
        BY ONLY <2>3, <2>5
      <4>3. Alone(Rest(s), b, r, <<Tails>>)
        BY ONLY <4>1, <4>2, Zenon DEF Alone
      <4> QED
        BY ONLY <4>3, AfterOne, Zenon
    <3> HIDE DEF u
    <3> QED
      BY <1>0, <2>1, <2>2, <2>5, <3>1, RestIs
  <2>6. CASE ~(b \in 160 .. 191)
    <3>1. After(Rest(s), b) = Rest(1)
      BY <2>3, <2>4, <2>6, AfterNone
    <3> HIDE DEF u
    <3> QED
      BY <1>0, <2>1, <2>2, <2>6, <3>1
  <2> QED
    BY <2>5, <2>6
<1>8. CASE s = 5
  <2> DEFINE r == <<<<128, 159>>, Tails>>
  <2>1. u = IF c \in {1, 9} THEN 2 ELSE 1
    BY <1>3, <1>8, StateIs
  <2>2. (c \in {1, 9}) = (b \in 128 .. 159)
    BY <1>2 DEF Byte
  <2>3. r # <<>> /\ Tail(r) = <<Tails>> /\ (Begins(r, b) <=> b \in 128 .. 159)
    BY DEF Tails, Begins
  <2>4. Rest(s) = {r}
    BY <1>8, RestIs
  <2> HIDE DEF r
  <2>5. CASE b \in 128 .. 159
    <3>1. After(Rest(s), b) = {<<Tails>>}
      <4>1. r \in Rest(s) /\ \A q \in Rest(s) : q = r
        BY ONLY <2>4
      <4>2. Begins(r, b) /\ r # <<>> /\ Tail(r) = <<Tails>>
        BY ONLY <2>3, <2>5
      <4>3. Alone(Rest(s), b, r, <<Tails>>)
        BY ONLY <4>1, <4>2, Zenon DEF Alone
      <4> QED
        BY ONLY <4>3, AfterOne, Zenon
    <3> HIDE DEF u
    <3> QED
      BY <1>0, <2>1, <2>2, <2>5, <3>1, RestIs
  <2>6. CASE ~(b \in 128 .. 159)
    <3>1. After(Rest(s), b) = Rest(1)
      BY <2>3, <2>4, <2>6, AfterNone
    <3> HIDE DEF u
    <3> QED
      BY <1>0, <2>1, <2>2, <2>6, <3>1
  <2> QED
    BY <2>5, <2>6
<1>9. CASE s = 6
  <2> DEFINE r == <<<<144, 191>>, Tails, Tails>>
  <2>1. u = IF c \in {7, 9} THEN 3 ELSE 1
    BY <1>3, <1>9, StateIs
  <2>2. (c \in {7, 9}) = (b \in 144 .. 191)
    BY <1>2 DEF Byte
  <2>3. r # <<>> /\ Tail(r) = <<Tails, Tails>> /\ (Begins(r, b) <=> b \in 144 .. 191)
    BY DEF Tails, Begins
  <2>4. Rest(s) = {r}
    BY <1>9, RestIs
  <2> HIDE DEF r
  <2>5. CASE b \in 144 .. 191
    <3>1. After(Rest(s), b) = {<<Tails, Tails>>}
      <4>1. r \in Rest(s) /\ \A q \in Rest(s) : q = r
        BY ONLY <2>4
      <4>2. Begins(r, b) /\ r # <<>> /\ Tail(r) = <<Tails, Tails>>
        BY ONLY <2>3, <2>5
      <4>3. Alone(Rest(s), b, r, <<Tails, Tails>>)
        BY ONLY <4>1, <4>2, Zenon DEF Alone
      <4> QED
        BY ONLY <4>3, AfterOne, Zenon
    <3> HIDE DEF u
    <3> QED
      BY <1>0, <2>1, <2>2, <2>5, <3>1, RestIs
  <2>6. CASE ~(b \in 144 .. 191)
    <3>1. After(Rest(s), b) = Rest(1)
      BY <2>3, <2>4, <2>6, AfterNone
    <3> HIDE DEF u
    <3> QED
      BY <1>0, <2>1, <2>2, <2>6, <3>1
  <2> QED
    BY <2>5, <2>6
<1>10. CASE s = 7
  <2> DEFINE r == <<Tails, Tails, Tails>>
  <2>1. u = IF c \in {1, 7, 9} THEN 3 ELSE 1
    BY <1>3, <1>10, StateIs
  <2>2. (c \in {1, 7, 9}) = (b \in 128 .. 191)
    BY <1>2 DEF Byte
  <2>3. r # <<>> /\ Tail(r) = <<Tails, Tails>> /\ (Begins(r, b) <=> b \in 128 .. 191)
    BY DEF Tails, Begins
  <2>4. Rest(s) = {r}
    BY <1>10, RestIs
  <2> HIDE DEF r
  <2>5. CASE b \in 128 .. 191
    <3>1. After(Rest(s), b) = {<<Tails, Tails>>}
      <4>1. r \in Rest(s) /\ \A q \in Rest(s) : q = r
        BY ONLY <2>4
      <4>2. Begins(r, b) /\ r # <<>> /\ Tail(r) = <<Tails, Tails>>
        BY ONLY <2>3, <2>5
      <4>3. Alone(Rest(s), b, r, <<Tails, Tails>>)
        BY ONLY <4>1, <4>2, Zenon DEF Alone
      <4> QED
        BY ONLY <4>3, AfterOne, Zenon
    <3> HIDE DEF u
    <3> QED
      BY <1>0, <2>1, <2>2, <2>5, <3>1, RestIs
  <2>6. CASE ~(b \in 128 .. 191)
    <3>1. After(Rest(s), b) = Rest(1)
      BY <2>3, <2>4, <2>6, AfterNone
    <3> HIDE DEF u
    <3> QED
      BY <1>0, <2>1, <2>2, <2>6, <3>1
  <2> QED
    BY <2>5, <2>6
<1>11. CASE s = 8
  <2> DEFINE r == <<<<128, 143>>, Tails, Tails>>
  <2>1. u = IF c \in {1} THEN 3 ELSE 1
    BY <1>3, <1>11, StateIs
  <2>2. (c \in {1}) = (b \in 128 .. 143)
    BY <1>2 DEF Byte
  <2>3. r # <<>> /\ Tail(r) = <<Tails, Tails>> /\ (Begins(r, b) <=> b \in 128 .. 143)
    BY DEF Tails, Begins
  <2>4. Rest(s) = {r}
    BY <1>11, RestIs
  <2> HIDE DEF r
  <2>5. CASE b \in 128 .. 143
    <3>1. After(Rest(s), b) = {<<Tails, Tails>>}
      <4>1. r \in Rest(s) /\ \A q \in Rest(s) : q = r
        BY ONLY <2>4
      <4>2. Begins(r, b) /\ r # <<>> /\ Tail(r) = <<Tails, Tails>>
        BY ONLY <2>3, <2>5
      <4>3. Alone(Rest(s), b, r, <<Tails, Tails>>)
        BY ONLY <4>1, <4>2, Zenon DEF Alone
      <4> QED
        BY ONLY <4>3, AfterOne, Zenon
    <3> HIDE DEF u
    <3> QED
      BY <1>0, <2>1, <2>2, <2>5, <3>1, RestIs
  <2>6. CASE ~(b \in 128 .. 143)
    <3>1. After(Rest(s), b) = Rest(1)
      BY <2>3, <2>4, <2>6, AfterNone
    <3> HIDE DEF u
    <3> QED
      BY <1>0, <2>1, <2>2, <2>6, <3>1
  <2> QED
    BY <2>5, <2>6
<1> QED
  BY <1>4, <1>5, <1>6, <1>7, <1>8, <1>9, <1>10, <1>11

\* Between characters it begins one.
LEMMA NextCharacter ==
    ASSUME NEW b \in Byte
    PROVE  Utf8Parse(0, b) \in 0 .. 8 /\ After(Characters, b) = Rest(Utf8Parse(0, b))
<1> DEFINE c == ClassTable[b + 1]
           u == StateTable[0][c + 1]
           q1 == <<<<0, 127>>>>
           q2 == <<<<194, 223>>, Tails>>
           q3 == <<<<224, 224>>, <<160, 191>>, Tails>>
           q4 == <<<<225, 236>>, Tails, Tails>>
           q5 == <<<<237, 237>>, <<128, 159>>, Tails>>
           q6 == <<<<238, 239>>, Tails, Tails>>
           q7 == <<<<240, 240>>, <<144, 191>>, Tails, Tails>>
           q8 == <<<<241, 243>>, Tails, Tails, Tails>>
           q9 == <<<<244, 244>>, <<128, 143>>, Tails, Tails>>
<1>1. /\ q1 # <<>> /\ q1[1][1] = 0 /\ q1[1][2] = 127 /\ Tail(q1) = <<>>
      /\ q2 # <<>> /\ q2[1][1] = 194 /\ q2[1][2] = 223 /\ Tail(q2) = <<Tails>>
      /\ q3 # <<>> /\ q3[1][1] = 224 /\ q3[1][2] = 224 /\ Tail(q3) = <<<<160, 191>>, Tails>>
      /\ q4 # <<>> /\ q4[1][1] = 225 /\ q4[1][2] = 236 /\ Tail(q4) = <<Tails, Tails>>
      /\ q5 # <<>> /\ q5[1][1] = 237 /\ q5[1][2] = 237 /\ Tail(q5) = <<<<128, 159>>, Tails>>
      /\ q6 # <<>> /\ q6[1][1] = 238 /\ q6[1][2] = 239 /\ Tail(q6) = <<Tails, Tails>>
      /\ q7 # <<>> /\ q7[1][1] = 240 /\ q7[1][2] = 240 /\ Tail(q7) = <<<<144, 191>>, Tails, Tails>>
      /\ q8 # <<>> /\ q8[1][1] = 241 /\ q8[1][2] = 243 /\ Tail(q8) = <<Tails, Tails, Tails>>
      /\ q9 # <<>> /\ q9[1][1] = 244 /\ q9[1][2] = 244 /\ Tail(q9) = <<<<128, 143>>, Tails, Tails>>
  BY DEF Tails
<1>2. Characters = {q1, q2, q3, q4, q5, q6, q7, q8, q9}
  BY DEF Characters
<1> HIDE DEF q1, q2, q3, q4, q5, q6, q7, q8, q9
<1>3. u = Utf8Parse(0, b)
  BY DEF Utf8Parse
<1>14. /\ Begins(q1, b) <=> (b \in 0 .. 127)
       /\ Begins(q2, b) <=> (b \in 194 .. 223)
       /\ Begins(q3, b) <=> (b \in 224 .. 224)
       /\ Begins(q4, b) <=> (b \in 225 .. 236)
       /\ Begins(q5, b) <=> (b \in 237 .. 237)
       /\ Begins(q6, b) <=> (b \in 238 .. 239)
       /\ Begins(q7, b) <=> (b \in 240 .. 240)
       /\ Begins(q8, b) <=> (b \in 241 .. 243)
       /\ Begins(q9, b) <=> (b \in 244 .. 244)
  BY ONLY <1>1 DEF Begins
<1>4. CASE b \in 0 .. 127
  <2>1. c = 0
    BY <1>4, ClassIs
  <2>2. u = 0
    BY <2>1, StateIs
  <2>3. After(Characters, b) = {<<>>}
    <3>1. \A q \in Characters : q # q1 => ~Begins(q, b)
      <4>1. /\ ~Begins(q2, b)
            /\ ~Begins(q3, b)
            /\ ~Begins(q4, b)
            /\ ~Begins(q5, b)
            /\ ~Begins(q6, b)
            /\ ~Begins(q7, b)
            /\ ~Begins(q8, b)
            /\ ~Begins(q9, b)
        BY <1>14, <1>4 DEF Byte
      <4> QED
        BY ONLY <1>2, <4>1
    <3>2. q1 \in Characters /\ Begins(q1, b)
      BY <1>2, <1>14, <1>4
    <3>3. q1 # <<>> /\ Tail(q1) = <<>>
      BY ONLY <1>1
    <3>4. Alone(Characters, b, q1, <<>>)
      BY ONLY <3>1, <3>2, <3>3, Zenon DEF Alone
    <3> QED
      BY ONLY <3>4, AfterOne, Zenon
  <2> QED
    BY <1>3, <2>2, <2>3, RestIs
<1>5. CASE b \in 194 .. 223
  <2>1. c = 2
    BY <1>5, ClassIs
  <2>2. u = 2
    BY <2>1, StateIs
  <2>3. After(Characters, b) = {<<Tails>>}
    <3>1. \A q \in Characters : q # q2 => ~Begins(q, b)
      <4>1. /\ ~Begins(q1, b)
            /\ ~Begins(q3, b)
            /\ ~Begins(q4, b)
            /\ ~Begins(q5, b)
            /\ ~Begins(q6, b)
            /\ ~Begins(q7, b)
            /\ ~Begins(q8, b)
            /\ ~Begins(q9, b)
        BY <1>14, <1>5 DEF Byte
      <4> QED
        BY ONLY <1>2, <4>1
    <3>2. q2 \in Characters /\ Begins(q2, b)
      BY <1>2, <1>14, <1>5
    <3>3. q2 # <<>> /\ Tail(q2) = <<Tails>>
      BY ONLY <1>1
    <3>4. Alone(Characters, b, q2, <<Tails>>)
      BY ONLY <3>1, <3>2, <3>3, Zenon DEF Alone
    <3> QED
      BY ONLY <3>4, AfterOne, Zenon
  <2> QED
    BY <1>3, <2>2, <2>3, RestIs
<1>6. CASE b \in 224 .. 224
  <2>1. c = 10
    BY <1>6, ClassIs
  <2>2. u = 4
    BY <2>1, StateIs
  <2>3. After(Characters, b) = {<<<<160, 191>>, Tails>>}
    <3>1. \A q \in Characters : q # q3 => ~Begins(q, b)
      <4>1. /\ ~Begins(q1, b)
            /\ ~Begins(q2, b)
            /\ ~Begins(q4, b)
            /\ ~Begins(q5, b)
            /\ ~Begins(q6, b)
            /\ ~Begins(q7, b)
            /\ ~Begins(q8, b)
            /\ ~Begins(q9, b)
        BY <1>14, <1>6 DEF Byte
      <4> QED
        BY ONLY <1>2, <4>1
    <3>2. q3 \in Characters /\ Begins(q3, b)
      BY <1>2, <1>14, <1>6
    <3>3. q3 # <<>> /\ Tail(q3) = <<<<160, 191>>, Tails>>
      BY ONLY <1>1
    <3>4. Alone(Characters, b, q3, <<<<160, 191>>, Tails>>)
      BY ONLY <3>1, <3>2, <3>3, Zenon DEF Alone
    <3> QED
      BY ONLY <3>4, AfterOne, Zenon
  <2> QED
    BY <1>3, <2>2, <2>3, RestIs
<1>7. CASE b \in 225 .. 236
  <2>1. c = 3
    BY <1>7, ClassIs
  <2>2. u = 3
    BY <2>1, StateIs
  <2>3. After(Characters, b) = {<<Tails, Tails>>}
    <3>1. \A q \in Characters : q # q4 => ~Begins(q, b)
      <4>1. /\ ~Begins(q1, b)
            /\ ~Begins(q2, b)
            /\ ~Begins(q3, b)
            /\ ~Begins(q5, b)
            /\ ~Begins(q6, b)
            /\ ~Begins(q7, b)
            /\ ~Begins(q8, b)
            /\ ~Begins(q9, b)
        BY <1>14, <1>7 DEF Byte
      <4> QED
        BY ONLY <1>2, <4>1
    <3>2. q4 \in Characters /\ Begins(q4, b)
      BY <1>2, <1>14, <1>7
    <3>3. q4 # <<>> /\ Tail(q4) = <<Tails, Tails>>
      BY ONLY <1>1
    <3>4. Alone(Characters, b, q4, <<Tails, Tails>>)
      BY ONLY <3>1, <3>2, <3>3, Zenon DEF Alone
    <3> QED
      BY ONLY <3>4, AfterOne, Zenon
  <2> QED
    BY <1>3, <2>2, <2>3, RestIs
<1>8. CASE b \in 237 .. 237
  <2>1. c = 4
    BY <1>8, ClassIs
  <2>2. u = 5
    BY <2>1, StateIs
  <2>3. After(Characters, b) = {<<<<128, 159>>, Tails>>}
    <3>1. \A q \in Characters : q # q5 => ~Begins(q, b)
      <4>1. /\ ~Begins(q1, b)
            /\ ~Begins(q2, b)
            /\ ~Begins(q3, b)
            /\ ~Begins(q4, b)
            /\ ~Begins(q6, b)
            /\ ~Begins(q7, b)
            /\ ~Begins(q8, b)
            /\ ~Begins(q9, b)
        BY <1>14, <1>8 DEF Byte
      <4> QED
        BY ONLY <1>2, <4>1
    <3>2. q5 \in Characters /\ Begins(q5, b)
      BY <1>2, <1>14, <1>8
    <3>3. q5 # <<>> /\ Tail(q5) = <<<<128, 159>>, Tails>>
      BY ONLY <1>1
    <3>4. Alone(Characters, b, q5, <<<<128, 159>>, Tails>>)
      BY ONLY <3>1, <3>2, <3>3, Zenon DEF Alone
    <3> QED
      BY ONLY <3>4, AfterOne, Zenon
  <2> QED
    BY <1>3, <2>2, <2>3, RestIs
<1>9. CASE b \in 238 .. 239
  <2>1. c = 3
    BY <1>9, ClassIs
  <2>2. u = 3
    BY <2>1, StateIs
  <2>3. After(Characters, b) = {<<Tails, Tails>>}
    <3>1. \A q \in Characters : q # q6 => ~Begins(q, b)
      <4>1. /\ ~Begins(q1, b)
            /\ ~Begins(q2, b)
            /\ ~Begins(q3, b)
            /\ ~Begins(q4, b)
            /\ ~Begins(q5, b)
            /\ ~Begins(q7, b)
            /\ ~Begins(q8, b)
            /\ ~Begins(q9, b)
        BY <1>14, <1>9 DEF Byte
      <4> QED
        BY ONLY <1>2, <4>1
    <3>2. q6 \in Characters /\ Begins(q6, b)
      BY <1>2, <1>14, <1>9
    <3>3. q6 # <<>> /\ Tail(q6) = <<Tails, Tails>>
      BY ONLY <1>1
    <3>4. Alone(Characters, b, q6, <<Tails, Tails>>)
      BY ONLY <3>1, <3>2, <3>3, Zenon DEF Alone
    <3> QED
      BY ONLY <3>4, AfterOne, Zenon
  <2> QED
    BY <1>3, <2>2, <2>3, RestIs
<1>10. CASE b \in 240 .. 240
  <2>1. c = 11
    BY <1>10, ClassIs
  <2>2. u = 6
    BY <2>1, StateIs
  <2>3. After(Characters, b) = {<<<<144, 191>>, Tails, Tails>>}
    <3>1. \A q \in Characters : q # q7 => ~Begins(q, b)
      <4>1. /\ ~Begins(q1, b)
            /\ ~Begins(q2, b)
            /\ ~Begins(q3, b)
            /\ ~Begins(q4, b)
            /\ ~Begins(q5, b)
            /\ ~Begins(q6, b)
            /\ ~Begins(q8, b)
            /\ ~Begins(q9, b)
        BY <1>14, <1>10 DEF Byte
      <4> QED
        BY ONLY <1>2, <4>1
    <3>2. q7 \in Characters /\ Begins(q7, b)
      BY <1>2, <1>14, <1>10
    <3>3. q7 # <<>> /\ Tail(q7) = <<<<144, 191>>, Tails, Tails>>
      BY ONLY <1>1
    <3>4. Alone(Characters, b, q7, <<<<144, 191>>, Tails, Tails>>)
      BY ONLY <3>1, <3>2, <3>3, Zenon DEF Alone
    <3> QED
      BY ONLY <3>4, AfterOne, Zenon
  <2> QED
    BY <1>3, <2>2, <2>3, RestIs
<1>11. CASE b \in 241 .. 243
  <2>1. c = 6
    BY <1>11, ClassIs
  <2>2. u = 7
    BY <2>1, StateIs
  <2>3. After(Characters, b) = {<<Tails, Tails, Tails>>}
    <3>1. \A q \in Characters : q # q8 => ~Begins(q, b)
      <4>1. /\ ~Begins(q1, b)
            /\ ~Begins(q2, b)
            /\ ~Begins(q3, b)
            /\ ~Begins(q4, b)
            /\ ~Begins(q5, b)
            /\ ~Begins(q6, b)
            /\ ~Begins(q7, b)
            /\ ~Begins(q9, b)
        BY <1>14, <1>11 DEF Byte
      <4> QED
        BY ONLY <1>2, <4>1
    <3>2. q8 \in Characters /\ Begins(q8, b)
      BY <1>2, <1>14, <1>11
    <3>3. q8 # <<>> /\ Tail(q8) = <<Tails, Tails, Tails>>
      BY ONLY <1>1
    <3>4. Alone(Characters, b, q8, <<Tails, Tails, Tails>>)
      BY ONLY <3>1, <3>2, <3>3, Zenon DEF Alone
    <3> QED
      BY ONLY <3>4, AfterOne, Zenon
  <2> QED
    BY <1>3, <2>2, <2>3, RestIs
<1>12. CASE b \in 244 .. 244
  <2>1. c = 5
    BY <1>12, ClassIs
  <2>2. u = 8
    BY <2>1, StateIs
  <2>3. After(Characters, b) = {<<<<128, 143>>, Tails, Tails>>}
    <3>1. \A q \in Characters : q # q9 => ~Begins(q, b)
      <4>1. /\ ~Begins(q1, b)
            /\ ~Begins(q2, b)
            /\ ~Begins(q3, b)
            /\ ~Begins(q4, b)
            /\ ~Begins(q5, b)
            /\ ~Begins(q6, b)
            /\ ~Begins(q7, b)
            /\ ~Begins(q8, b)
        BY <1>14, <1>12 DEF Byte
      <4> QED
        BY ONLY <1>2, <4>1
    <3>2. q9 \in Characters /\ Begins(q9, b)
      BY <1>2, <1>14, <1>12
    <3>3. q9 # <<>> /\ Tail(q9) = <<<<128, 143>>, Tails, Tails>>
      BY ONLY <1>1
    <3>4. Alone(Characters, b, q9, <<<<128, 143>>, Tails, Tails>>)
      BY ONLY <3>1, <3>2, <3>3, Zenon DEF Alone
    <3> QED
      BY ONLY <3>4, AfterOne, Zenon
  <2> QED
    BY <1>3, <2>2, <2>3, RestIs
<1>13. CASE b \in (128 .. 193) \cup (245 .. 255)
  <2>1. c \in {1, 9, 7, 8}
    BY <1>13, ClassIs DEF Byte
  <2>2. u = 1
    BY <2>1, StateIs
  <2>3. After(Characters, b) = Rest(1)
    <3>1. \A q \in Characters : ~Begins(q, b)
      <4>1. /\ ~Begins(q1, b)
            /\ ~Begins(q2, b)
            /\ ~Begins(q3, b)
            /\ ~Begins(q4, b)
            /\ ~Begins(q5, b)
            /\ ~Begins(q6, b)
            /\ ~Begins(q7, b)
            /\ ~Begins(q8, b)
            /\ ~Begins(q9, b)
        BY <1>14, <1>13 DEF Byte
      <4> QED
        BY ONLY <1>2, <4>1
    <3> QED
      BY <3>1, AfterNone
  <2> QED
    BY <1>3, <2>2, <2>3, RestIs
<1> QED
  BY <1>4, <1>5, <1>6, <1>7, <1>8, <1>9, <1>10, <1>11, <1>12, <1>13 DEF Byte

\* One more byte, for the table and for RFC 3629.
LEMMA ByteUtf8 == ASSUME Utf8Inv, NEW b \in Byte, NextByte(b) PROVE Utf8Inv'
<1>1. utf8' = Utf8Parse(utf8, b)
      /\ expect' = After(IF <<>> \in expect THEN Characters ELSE expect, b)
  BY DEF NextByte
<1>2. utf8 \in 0 .. 8 /\ expect = Rest(utf8)
  BY DEF Utf8Inv
<1>3. CASE utf8 = 0
  <2>1. <<>> \in expect
    BY <1>2, <1>3, RestIs
  <2> QED
    BY <1>1, <1>3, <2>1, NextCharacter DEF Utf8Inv
<1>4. CASE utf8 # 0
  <2>1. utf8 \in 1 .. 8
    BY <1>2, <1>4
  <2>2. <<>> \notin expect
    <3>1. utf8 \in {1, 2, 3, 4, 5, 6, 7, 8}
      BY <2>1
    <3> QED
      BY <1>2, <3>1, RestIs
  <2> QED
    BY <1>1, <1>2, <2>1, <2>2, WithinCharacter DEF Utf8Inv
<1> QED
  BY <1>3, <1>4

\* Every step keeps them at the same place.
LEMMA Utf8Step == ASSUME Utf8Inv, [Next]_vars PROVE Utf8Inv'
<1>1. CASE utf8_vars' = utf8_vars
  BY <1>1 DEF Utf8Inv, utf8_vars
<1>2. ASSUME NEW b \in Byte, NextByte(b) PROVE Utf8Inv'
  BY <1>2, ByteUtf8
<1>3. CASE EndUtf8
  BY <1>3, RestIs DEF EndUtf8, Utf8Inv
<1>4. CASE Next
  <2>1. CASE \/ PutFrame \/ PeerFrame \/ ParseOpcode \/ ParseSize
             \/ ParseExtendedSize \/ ParseMask \/ EndFrame
             \/ TextGrows \/ EndBase64 \/ Sha1Finish \/ Sha1Init
             \/ \E n \in Chunks : Sha1Update(n)
    <3>1. ASSUME PutFrame PROVE utf8_vars' = utf8_vars
      BY <3>1 DEF PutFrame, utf8_vars
    <3>2. ASSUME PeerFrame PROVE utf8_vars' = utf8_vars
      BY <3>2 DEF PeerFrame, utf8_vars
    <3>3. ASSUME ParseOpcode PROVE utf8_vars' = utf8_vars
      BY <3>3 DEF ParseOpcode, Reads, utf8_vars
    <3>4. ASSUME ParseSize PROVE utf8_vars' = utf8_vars
      BY <3>4 DEF ParseSize, Reads, utf8_vars
    <3>5. ASSUME ParseExtendedSize PROVE utf8_vars' = utf8_vars
      BY <3>5 DEF ParseExtendedSize, Reads, utf8_vars
    <3>6. ASSUME ParseMask PROVE utf8_vars' = utf8_vars
      BY <3>6 DEF ParseMask, Reads, utf8_vars
    <3>7. ASSUME EndFrame PROVE utf8_vars' = utf8_vars
      BY <3>7 DEF EndFrame, utf8_vars
    <3>8. ASSUME TextGrows PROVE utf8_vars' = utf8_vars
      BY <3>8 DEF TextGrows, utf8_vars
    <3>9. ASSUME EndBase64 PROVE utf8_vars' = utf8_vars
      BY <3>9 DEF EndBase64, utf8_vars
    <3>10. ASSUME Sha1Finish PROVE utf8_vars' = utf8_vars
      BY <3>10 DEF Sha1Finish, utf8_vars
    <3>11. ASSUME Sha1Init PROVE utf8_vars' = utf8_vars
      BY <3>11 DEF Sha1Init, utf8_vars
    <3>12. ASSUME \E n \in Chunks : Sha1Update(n) PROVE utf8_vars' = utf8_vars
      BY <3>12 DEF Sha1Update, utf8_vars
    <3>13. utf8_vars' = utf8_vars
      BY <2>1, <3>1, <3>2, <3>3, <3>4, <3>5, <3>6, <3>7,
         <3>8, <3>9, <3>10, <3>11, <3>12
    <3> QED
      BY <1>1, <3>13
  <2> QED
    BY <1>2, <1>3, <1>4, <2>1 DEF Next
<1> QED
  BY <1>1, <1>4 DEF vars, utf8_vars

\* In every state utf8_parse reports a complete character exactly where
\* RFC 3629 has one, and an error exactly where no character goes on.
THEOREM Utf8RightHolds == Spec => []Utf8Right
<1>1. Init => Utf8Inv
  BY RestIs DEF Init, Utf8Inv
<1>2. Utf8Inv => Utf8Right
  <2> SUFFICES ASSUME Utf8Inv PROVE Utf8Right
    OBVIOUS
  <2>1. utf8 \in {0, 1, 2, 3, 4, 5, 6, 7, 8} /\ expect = Rest(utf8)
    BY DEF Utf8Inv
  <2>2. CASE utf8 = 0
    BY <2>1, <2>2, RestIs DEF Utf8Right
  <2>3. CASE utf8 = 1
    BY <2>1, <2>3, RestIs DEF Utf8Right
  <2>4. CASE utf8 \notin {0, 1}
    <3>1. ASSUME NEW r, r # <<>>, expect = {r} PROVE Utf8Right
      BY <2>4, <3>1 DEF Utf8Right
    <3>2. CASE utf8 = 2
      <4>1. expect = {<<Tails>>}
        BY <2>1, <3>2, RestIs
      <4> QED
        BY <3>1, <4>1
    <3>3. CASE utf8 = 3
      <4>1. expect = {<<Tails, Tails>>}
        BY <2>1, <3>3, RestIs
      <4> QED
        BY <3>1, <4>1
    <3>4. CASE utf8 = 4
      <4>1. expect = {<<<<160, 191>>, Tails>>}
        BY <2>1, <3>4, RestIs
      <4> QED
        BY <3>1, <4>1
    <3>5. CASE utf8 = 5
      <4>1. expect = {<<<<128, 159>>, Tails>>}
        BY <2>1, <3>5, RestIs
      <4> QED
        BY <3>1, <4>1
    <3>6. CASE utf8 = 6
      <4>1. expect = {<<<<144, 191>>, Tails, Tails>>}
        BY <2>1, <3>6, RestIs
      <4> QED
        BY <3>1, <4>1
    <3>7. CASE utf8 = 7
      <4>1. expect = {<<Tails, Tails, Tails>>}
        BY <2>1, <3>7, RestIs
      <4> QED
        BY <3>1, <4>1
    <3>8. CASE utf8 = 8
      <4>1. expect = {<<<<128, 143>>, Tails, Tails>>}
        BY <2>1, <3>8, RestIs
      <4> QED
        BY <3>1, <4>1
    <3> QED
      BY <2>1, <2>4, <3>2, <3>3, <3>4, <3>5, <3>6, <3>7, <3>8
  <2> QED
    BY <2>2, <2>3, <2>4
<1> QED
  BY <1>1, <1>2, Utf8Step, PTL DEF Spec
=============================================================================
