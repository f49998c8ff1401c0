------------------------------ MODULE WicWire ------------------------------
(***************************************************************************)
(* The numbers behind the frames and the handshake (src/wic.c): how a      *)
(* frame's header and masking are written by stream_put_frame and read by  *)
(* parse_opcode to parse_mask, the table of utf8_parse, the base64         *)
(* encoding of the handshake's hash, and the blocks that sha1_update_ret   *)
(* and sha1_finish_ret cut a message into.  WicInst has headers as records *)
(* and characters of at most two bytes; what is done with a block is       *)
(* WicSha1's.                                                              *)
(*                                                                         *)
(* Each part is a bench of its own: it is taken from idle, given inputs    *)
(* from small sets that hold the edges, and put away again.  What the      *)
(* parser refuses is WicInst's: here it reads on, also past the size of a  *)
(* control frame of more than 125 bytes, which the sender does not refuse. *)
(* A reason of 65534 bytes or more is left out: its size, with the code,   *)
(* has more than the 16 bits that are written.                             *)
(***************************************************************************)
EXTENDS Naturals, Sequences, SequencesExt

CONSTANTS
    DataSizes,    \* payload sizes of the data frames sent
    ControlSizes, \* payload sizes of the pings, pongs and reasons sent
    PeerLengths,  \* payload sizes of the frames the peer sends
    Bytes,        \* bytes that base64 encodes
    MaxEncoded,   \* bound: bytes in one base64 input
    Chunks,       \* sizes of the pieces that sha1_update_ret is given
    MaxHashed     \* bound: bytes in one hashed message

Byte == 0 .. 255

ASSUME WireAssumption ==
    \* Of two bytes, with the code of a close frame too.
    /\ DataSizes \subseteq 0 .. 256 * 256 - 1
    /\ ControlSizes \subseteq 0 .. 256 * 256 - 3
    /\ PeerLengths \subseteq Nat
    /\ Bytes \subseteq Byte
    /\ MaxEncoded \in Nat
    /\ Chunks \subseteq Nat
    \* The length in bits of the messages has four bytes of its eight.
    /\ MaxHashed \in 0 .. 256 * 256 * 256 * 32 - 1

VARIABLES
    bench,   \* the part in use
    frame,   \* the frame that was sent
    wire,    \* its header's bytes not yet parsed
    rx,      \* what the parser has read of it
    utf8,    \* the state of utf8_parse
    expect,  \* what may follow, as RFC 3629 has it
    text,    \* the bytes that base64 encodes
    sha,     \* the sha1_context
    blocks   \* the blocks given to internal_sha1_process

vars == <<bench, frame, wire, rx, utf8, expect, text, sha, blocks>>
frame_vars == <<frame, wire, rx>>
utf8_vars == <<utf8, expect>>
sha_vars == <<sha, blocks>>

----------------------------------------------------------------------------
(* Frames.                                                                 *)

Opcodes == [CONTINUE |-> 0, TEXT |-> 1, BINARY |-> 2,
            CLOSE |-> 8, PING |-> 9, PONG |-> 10]
Control == {"CLOSE", "PING", "PONG"}

\* opcode_to_byte and byte_to_opcode: the table is the identity on four bits.
OpcodeOf(b) == b % 16

Flag(condition) == IF condition THEN 128 ELSE 0

\* f->size and the two bytes of a close frame's code.
PayloadSize(f) == f.size + IF f.opcode = "CLOSE" THEN 2 ELSE 0

\* Faulty: the code's two bytes are forgotten before the comparison.
MinFrameSizeCodeless(f) ==
    PayloadSize(f) + 2 + 4 + IF f.size > 125 THEN 2 ELSE 0

\* min_frame_size of a masked frame; a client masks every frame.
MinFrameSize(f) ==
    PayloadSize(f) + 2 + 4 + IF PayloadSize(f) > 125 THEN 2 ELSE 0

\* The size that stream_put_frame writes, of 16 bits when extended.
SizeBytes(n) == IF n <= 125 THEN <<Flag(TRUE) + n>>
                ELSE <<Flag(TRUE) + 126, (n \div 256) % 256, n % 256>>

PutHeader(f) ==
    <<Flag(f.fin) + Opcodes[f.opcode]>> \o SizeBytes(PayloadSize(f)) \o f.mask

\* Faulty: the reason starts over with the first byte of the key.
BodyKeyRestarted(f) ==
    IF f.opcode = "CLOSE"
    THEN <<0, 1>> \o [i \in 1 .. f.size |-> (i - 1) % 4]
    ELSE [i \in 1 .. f.size |-> (i - 1) % 4]

\* The index into the key that each byte of the payload is masked with; the
\* code of a close frame has the first two.
Body(f) ==
    IF f.opcode = "CLOSE"
    THEN <<0, 1>> \o [i \in 1 .. f.size |-> (i - 1 + 2) % 4]
    ELSE [i \in 1 .. f.size |-> (i - 1) % 4]

Mask == <<17, 34, 51, 68>>
NoFrame == [by |-> "none", fin |-> FALSE, opcode |-> "NONE", size |-> 0, masked |-> FALSE,
            mask |-> <<>>]
RxZero == [state |-> "OPCODE", fin |-> FALSE, opcode |-> 0, size |-> 0,
           masked |-> FALSE, mask |-> <<>>]

PutFrame ==
    /\ bench = "idle" /\ bench' = "frame"
    /\ \E fin \in BOOLEAN, opcode \in DOMAIN Opcodes :
       \E size \in IF opcode \in Control THEN ControlSizes ELSE DataSizes :
          /\ opcode \in Control => fin
          /\ frame' = [by |-> "wic", fin |-> fin, opcode |-> opcode, size |-> size,
                       masked |-> TRUE, mask |-> Mask]
    /\ wire' = PutHeader(frame')
    /\ UNCHANGED <<rx, utf8_vars, text, sha_vars>>

\* n >> 8 * k, and n in that many bytes, the most significant first.
Shifted(n) ==
    LET shifted[k \in 0 .. 8] == IF k = 0 THEN n ELSE shifted[k - 1] \div 256
    IN  shifted
BigEndian(n, count) == [i \in 1 .. count |-> Shifted(n)[count - i] % 256]

\* The peer may mask or not, and extend a size more than it has to.
PeerFrame ==
    /\ bench = "idle" /\ bench' = "frame"
    /\ \E n \in PeerLengths, masked \in BOOLEAN, ext \in {0, 2, 8} :
          /\ IF ext = 0 THEN n < 126 ELSE Shifted(n)[ext] = 0
          /\ frame' = [by |-> "peer", fin |-> TRUE, opcode |-> "BINARY",
                       size |-> n, masked |-> masked,
                       mask |-> IF masked THEN Mask ELSE <<>>]
          /\ wire' = <<130, Flag(masked) + CASE ext = 0 -> n [] ext = 2 -> 126
                                             [] ext = 8 -> 127>>
                     \o BigEndian(n, ext) \o frame'.mask
    /\ UNCHANGED <<rx, utf8_vars, text, sha_vars>>

Reads(state) ==
    /\ bench = "frame" /\ wire # <<>> /\ rx.state \in state
    /\ wire' = Tail(wire)
    /\ UNCHANGED <<bench, frame, utf8_vars, text, sha_vars>>

AfterSize(masked) == IF masked THEN "MASK_0" ELSE "DATA"

ParseOpcode ==
    /\ Reads({"OPCODE"})
    /\ rx' = [rx EXCEPT !.fin = Head(wire) >= 128,
                        !.opcode = OpcodeOf(Head(wire)), !.state = "SIZE"]

ParseSize ==
    /\ Reads({"SIZE"})
    /\ LET masked == Head(wire) >= 128
           size   == Head(wire) % 128
       IN  rx' = [rx EXCEPT !.masked = masked,
                            !.size = IF size > 125 THEN 0 ELSE size,
                            !.state = CASE size = 127 -> "SIZE_2"
                                        [] size = 126 -> "SIZE_0"
                                        [] OTHER -> AfterSize(masked)]

SizeState == <<"SIZE_0", "SIZE_1", "SIZE_2", "SIZE_3", "SIZE_4", "SIZE_5",
               "SIZE_6", "SIZE_7", "SIZE_8", "SIZE_9">>

ParseExtendedSize ==
    /\ Reads(Range(SizeState))
    /\ rx' = [rx EXCEPT
                !.size = @ * 256 + Head(wire),
                !.state = IF @ \in {"SIZE_1", "SIZE_9"} THEN AfterSize(rx.masked)
                          ELSE LET i == CHOOSE i \in DOMAIN SizeState :
                                            SizeState[i] = rx.state
                               IN  SizeState[i + 1]]

MaskState == <<"MASK_0", "MASK_1", "MASK_2", "MASK_3", "DATA">>

ParseMask ==
    /\ Reads(Range(MaskState) \ {"DATA"})
    /\ LET i == CHOOSE i \in DOMAIN MaskState : MaskState[i] = rx.state
       IN  rx' = [rx EXCEPT !.mask = Append(@, Head(wire)),
                            !.state = MaskState[i + 1]]

EndFrame ==
    /\ bench = "frame" /\ rx.state = "DATA"
    /\ bench' = "idle" /\ frame' = NoFrame /\ wire' = <<>> /\ rx' = RxZero
    /\ UNCHANGED <<utf8_vars, text, sha_vars>>

----------------------------------------------------------------------------
(* UTF-8.                                                                  *)

Times(n, x) == [i \in 1 .. n |-> x]

\* The first part of utf8d: the class of each byte.
ClassTable ==
    Times(128, 0) \o Times(16, 1) \o Times(16, 9) \o Times(32, 7)
    \o Times(2, 8) \o Times(30, 2)
    \o <<10>> \o Times(12, 3) \o <<4, 3, 3>>
    \o <<11, 6, 6, 6, 5>> \o Times(11, 8)

\* The second part: the state after each state, but 1, and class.
StateTable ==
    [s \in 0 .. 8 |->
       CASE s = 0 -> <<0, 1, 2, 3, 5, 8, 7, 1, 1, 1, 4, 6, 1, 1, 1, 1>>
         [] s = 1 -> Times(16, 1)
         [] s = 2 -> <<1, 0, 1, 1, 1, 1, 1, 0, 1, 0, 1, 1, 1, 1, 1, 1>>
         [] s = 3 -> <<1, 2, 1, 1, 1, 1, 1, 2, 1, 2, 1, 1, 1, 1, 1, 1>>
         [] s = 4 -> <<1, 1, 1, 1, 1, 1, 1, 2, 1, 1, 1, 1, 1, 1, 1, 1>>
         [] s = 5 -> <<1, 2, 1, 1, 1, 1, 1, 1, 1, 2, 1, 1, 1, 1, 1, 1>>
         [] s = 6 -> <<1, 1, 1, 1, 1, 1, 1, 3, 1, 3, 1, 1, 1, 1, 1, 1>>
         [] s = 7 -> <<1, 3, 1, 1, 1, 1, 1, 3, 1, 3, 1, 1, 1, 1, 1, 1>>
         [] s = 8 -> <<1, 3, 1, 1, 1, 1, 1, 1, 1, 1, 1, 1, 1, 1, 1, 1>>]

\* Faulty: a surrogate's lead byte is taken for any lead byte of its length.
Utf8ParseSurrogates(s, b) ==
    StateTable[s][(IF b = 237 THEN 3 ELSE ClassTable[b + 1]) + 1]

Utf8Parse(s, b) == StateTable[s][ClassTable[b + 1] + 1]

\* RFC 3629, section 4: the characters, each byte as the range it is in.
Tails == <<128, 191>>
Characters ==
    {<<<<0, 127>>>>, <<<<194, 223>>, Tails>>,
     <<<<224, 224>>, <<160, 191>>, Tails>>, <<<<225, 236>>, Tails, Tails>>,
     <<<<237, 237>>, <<128, 159>>, Tails>>, <<<<238, 239>>, Tails, Tails>>,
     <<<<240, 240>>, <<144, 191>>, Tails, Tails>>,
     <<<<241, 243>>, Tails, Tails, Tails>>,
     <<<<244, 244>>, <<128, 143>>, Tails, Tails>>}

\* The rests of the characters of which this was the next byte.
After(rests, b) ==
    {Tail(r) : r \in {q \in rests : q # <<>> /\ b \in q[1][1] .. q[1][2]}}

NextByte(b) ==
    /\ bench \in {"idle", "utf8"} /\ bench' = "utf8"
    /\ utf8' = Utf8Parse(utf8, b)
    /\ expect' = After(IF <<>> \in expect THEN Characters ELSE expect, b)
    /\ UNCHANGED <<frame_vars, text, sha_vars>>

EndUtf8 ==
    /\ bench = "utf8"
    /\ bench' = "idle" /\ utf8' = 0 /\ expect' = {<<>>}
    /\ UNCHANGED <<frame_vars, text, sha_vars>>

----------------------------------------------------------------------------
(* Base64, a letter as its place in the map and the padding as 64.         *)

EncodedSize(n) == 4 * (n \div 3 + IF n % 3 > 0 THEN 1 ELSE 0)

B64EncodeByte(b) == b % 64

\* One turn of b64_encode's loop, for the byte at i; acc has eight bits.
B64Turn(o, c, i) ==
    CASE i % 3 = 0 -> [out |-> Append(o.out, B64EncodeByte(c \div 4)),
                       acc |-> (c * 16) % 256]
      [] i % 3 = 1 -> [out |-> Append(o.out, B64EncodeByte(o.acc + c \div 16)),
                       acc |-> (c * 4) % 256]
      [] i % 3 = 2 -> [out |-> o.out \o <<B64EncodeByte(o.acc + c \div 64),
                                          B64EncodeByte(c)>>,
                       acc |-> o.acc]

\* Faulty: an input that ends after two bytes is padded as after one.
B64TailAlike(o, n) ==
    IF n % 3 = 0 THEN o.out ELSE o.out \o <<B64EncodeByte(o.acc), 64, 64>>

\* The last letter and the padding.
B64Tail(o, n) ==
    CASE n % 3 = 0 -> o.out
      [] n % 3 = 1 -> o.out \o <<B64EncodeByte(o.acc), 64, 64>>
      [] n % 3 = 2 -> o.out \o <<B64EncodeByte(o.acc), 64>>

\* b64_encode into a buffer that is large enough, as those of both callers are.
B64Encode(in) ==
    LET run[i \in 0 .. Len(in)] ==
            IF i = 0 THEN [out |-> <<>>, acc |-> 0]
            ELSE B64Turn(run[i - 1], in[i], i - 1)
    IN  B64Tail(run[Len(in)], Len(in))

TextGrows ==
    /\ bench \in {"idle", "base64"} /\ bench' = "base64"
    /\ Len(text) < MaxEncoded
    /\ \E b \in Bytes : text' = Append(text, b)
    /\ UNCHANGED <<frame_vars, utf8_vars, sha_vars>>

EndBase64 ==
    /\ bench = "base64"
    /\ bench' = "idle" /\ text' = <<>>
    /\ UNCHANGED <<frame_vars, utf8_vars, sha_vars>>

----------------------------------------------------------------------------
(* SHA-1: the blocks.  A byte of the message is 256 and its place, which   *)
(* is no byte of the padding.                                              *)

Block == 0 .. 63
ShaZero == [total |-> 0, buffer |-> [i \in Block |-> 0], done |-> FALSE]

Message(from, n) == [i \in 0 .. n - 1 |-> 256 + from + i]

\* memcpy(buffer + at, data, n) and memset.
CopyTo(buffer, at, data, n) ==
    [i \in Block |-> IF i \in at .. at + n - 1 THEN data[i - at] ELSE buffer[i]]
Cleared(buffer, from, to) ==
    [i \in Block |-> IF i \in from .. to - 1 THEN 0 ELSE buffer[i]]

\* Faulty: what is left is put behind the bytes of the block just processed.
RestAtLeft(left, filled) == left

\* Where what is left of the input goes.
RestAt(left, filled) == IF filled THEN 0 ELSE left

Sha1Update(n) ==
    /\ bench \in {"idle", "sha1"} /\ bench' = "sha1"
    /\ ~sha.done /\ sha.total + n <= MaxHashed
    /\ LET left   == sha.total % 64
           fill   == 64 - left
           filled == left > 0 /\ n >= fill
           first  == IF filled
                     THEN CopyTo(sha.buffer, left, Message(sha.total, fill), fill)
                     ELSE sha.buffer
           used   == IF filled THEN fill ELSE 0
           whole  == (n - used) \div 64
           rest   == (n - used) % 64
       IN  /\ blocks' = blocks \o (IF filled THEN <<first>> ELSE <<>>)
                        \o [k \in 1 .. whole |->
                               Message(sha.total + used + (k - 1) * 64, 64)]
           /\ sha' = [sha EXCEPT
                 !.total = @ + n,
                 !.buffer = CopyTo(first, RestAt(left, filled),
                                   Message(sha.total + n - rest, rest), rest)]
    /\ UNCHANGED <<frame_vars, utf8_vars, text>>

\* The message's length in bits, in the last eight bytes.
PutLength(buffer, total) ==
    [i \in Block |-> IF i < 60 THEN (IF i < 56 THEN buffer[i] ELSE 0)
                     ELSE ((total * 8) \div 256 ^ (63 - i)) % 256]

Fits(used) == used <= 56

Sha1Finish ==
    /\ bench = "sha1" /\ ~sha.done
    /\ LET used   == (sha.total % 64) + 1
           marked == [sha.buffer EXCEPT ![used - 1] = 128]
           last   == IF Fits(used) THEN Cleared(marked, used, 56)
                     ELSE Cleared(Cleared(marked, used, 64), 0, 56)
       IN  /\ blocks' = blocks
                        \o (IF Fits(used) THEN <<>>
                            ELSE <<Cleared(marked, used, 64)>>)
                        \o <<PutLength(last, sha.total)>>
           /\ sha' = [sha EXCEPT !.buffer = PutLength(last, sha.total),
                                 !.done = TRUE]
    /\ UNCHANGED <<bench, frame_vars, utf8_vars, text>>

\* sha1_init and sha1_starts_ret.
Sha1Init ==
    /\ bench = "sha1" /\ sha.done
    /\ bench' = "idle" /\ sha' = ShaZero /\ blocks' = <<>>
    /\ UNCHANGED <<frame_vars, utf8_vars, text>>

----------------------------------------------------------------------------
Init ==
    /\ bench = "idle"
    /\ frame = NoFrame /\ wire = <<>> /\ rx = RxZero
    /\ utf8 = 0 /\ expect = {<<>>}
    /\ text = <<>>
    /\ sha = ShaZero /\ blocks = <<>>

Next ==
    \/ PutFrame \/ PeerFrame
    \/ ParseOpcode \/ ParseSize \/ ParseExtendedSize \/ ParseMask \/ EndFrame
    \/ \E b \in Byte : NextByte(b)
    \/ EndUtf8
    \/ TextGrows \/ EndBase64
    \/ \E n \in Chunks : Sha1Update(n)
    \/ Sha1Finish \/ Sha1Init

Spec == Init /\ [][Next]_vars

----------------------------------------------------------------------------
(* Properties.                                                             *)

\* What the parser reads from a header, byte by byte, is what the sender put
\* into it, for every way the size can be written, and each byte of the
\* payload was masked with the key's byte that the receiver unmasks it with.
HeaderRight ==
    rx.state = "DATA" =>
        /\ wire = <<>>
        /\ rx.fin = frame.fin /\ rx.opcode = Opcodes[frame.opcode]
        /\ rx.masked = frame.masked /\ rx.mask = frame.mask
        /\ rx.size = PayloadSize(frame)
        /\ frame.by = "wic" => Body(frame) = [i \in 1 .. rx.size |-> (i - 1) % 4]

\* The size that stream_put_frame asks the application for, computed before
\* anything is written, is the size of what it then writes: the frame is
\* neither cut off nor followed by bytes that nobody wrote.
SizeRight ==
    frame.by = "wic" /\ rx = RxZero =>
        Len(wire) + Len(Body(frame)) = MinFrameSize(frame)

\* utf8_parse accepts the characters of RFC 3629 and no others, and says so
\* at the first byte that cannot belong to one.
Utf8Right ==
    /\ utf8 = 0 <=> <<>> \in expect
    /\ utf8 = 1 <=> expect = {}

\* b64_encode writes as many letters as b64_encoded_size says, from which the
\* input can be read back: the letters hold six bits each, the most significant
\* first, and the padding says how many bytes are missing.
Base64Right ==
    LET out  == B64Encode(text)
        pads == (3 - (Len(text) % 3)) % 3
        six(i) == IF out[i] = 64 THEN 0 ELSE out[i]
        byte(i) == LET k == 4 * ((i - 1) \div 3)
                   IN  CASE i % 3 = 1 -> six(k + 1) * 4 + six(k + 2) \div 16
                         [] i % 3 = 2 -> (six(k + 2) % 16) * 16 + six(k + 3) \div 4
                         [] i % 3 = 0 -> (six(k + 3) % 4) * 64 + six(k + 4)
    IN  /\ Len(out) = EncodedSize(Len(text))
        /\ \A i \in DOMAIN out : out[i] = 64 <=> i > Len(out) - pads
        /\ \A i \in DOMAIN text : byte(i) = text[i]

\* In whatever pieces a message comes, the blocks that are processed are, one
\* after the other, the message as FIPS 180 pads it: a bit, the fewest zeros
\* that fill a block, and the length.
BlocksRight ==
    LET n == sha.total
        zeros == (119 - (n % 64)) % 64
        at(i) == blocks[i \div 64 + 1][i % 64]
        size == 64 * Len(blocks)
    IN  /\ size = IF sha.done THEN n + 1 + zeros + 8 ELSE n - (n % 64)
        /\ \A i \in 0 .. size - 1 :
              at(i) = CASE i < n -> 256 + i
                        [] i = n -> 128
                        [] i > n /\ i <= n + zeros -> 0
                        [] i > n + zeros /\ i < size - 4 -> 0
                        [] OTHER -> ((n * 8) \div 256 ^ (size - 1 - i)) % 256
=============================================================================
