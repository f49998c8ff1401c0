--------------------------- MODULE WicInst_proofs ---------------------------
(***************************************************************************)
(* Proofs about WicInst, for every value of its constants.                 *)
(***************************************************************************)
EXTENDS WicInst, TLAPS

(* ---- Types ---- *)

\* Counting a call of a handler keeps the counts within 0 .. 2.
LEMMA SawType ==
    ASSUME seen \in [Handlers -> 0 .. 2], NEW h \in Handlers
    PROVE  Saw(h) \in [Handlers -> 0 .. 2]
<1> DEFINE n == IF seen[h] = 0 THEN 1 ELSE 2
<1>1. n \in 0 .. 2
  OBVIOUS
<1>2. Saw(h) = [seen EXCEPT ![h] = n]
  BY DEF Saw
<1> QED
  BY <1>1, <1>2

\* A frame turns a receiver's view into another one.
LEMMA PeerGetsType ==
    ASSUME peer \in PeerView, NEW f,
           f.op \in Opcode, f.fin \in BOOLEAN
    PROVE  PeerGets(f) \in PeerView
<1>1. PeerKind(f) \in Opcode \cup {"none"}
  BY DEF PeerKind, PeerView
<1>2. peer.frag \in Opcode \cup {"none"} /\ peer.mid \in BOOLEAN
      /\ peer.closed \in BOOLEAN /\ peer.ok \in BOOLEAN
  BY DEF PeerView
<1> DEFINE fr == IF f.op \in Control THEN peer.frag
                 ELSE IF f.fin THEN "none" ELSE PeerKind(f)
           mi == IF f.op \in Control THEN peer.mid
                 ELSE ~f.fin /\ PeerKind(f) = "TEXT" /\ EndsMid(PeerMid(f), f.data)
           cl == peer.closed \/ f.op = "CLOSE"
           ok == peer.ok /\ PeerAccepts(f)
<1>3. fr \in Opcode \cup {"none"}
  BY <1>1, <1>2
<1>4. mi \in BOOLEAN /\ cl \in BOOLEAN /\ ok \in BOOLEAN
  BY <1>2
<1>5. PeerGets(f) = [frag |-> fr, mid |-> mi, closed |-> cl, ok |-> ok]
  BY DEF PeerGets
<1> HIDE DEF fr, mi, cl, ok
<1> QED
  BY <1>3, <1>4, <1>5 DEF PeerView

\* Sending a frame, or finding no buffer for it, keeps the receiver's type.
LEMMA PutFrameType ==
    ASSUME peer \in PeerView,
           NEW op \in Opcode, NEW fin \in BOOLEAN, NEW data, NEW code,
           PutFrame(Frame(op, fin, data, code))
    PROVE  peer' \in PeerView
<1> DEFINE f == Frame(op, fin, data, code)
<1>1. f.op \in Opcode /\ f.fin \in BOOLEAN
  BY DEF Frame
<1> HIDE DEF f
<1>2. PeerGets(f) \in PeerView
  BY <1>1, PeerGetsType
<1> QED
  BY <1>2 DEF PutFrame, f

\* Closing keeps the types of the connection's state.
LEMMA CloseType ==
    ASSUME LifeType, NEW code, NEW reason, CloseWithReason(code, reason)
    PROVE  LifeType'
<1>1. state' = "CLOSED" /\ state' \in State
  BY DEF CloseWithReason, State
<1>2. CASE UNCHANGED <<cls, seen, peer>>
  BY <1>1, <1>2 DEF LifeType
<1>3. CASE CloseHandshake
  BY <1>1, <1>3, SawType DEF LifeType, CloseHandshake, Cls, Handlers
<1>4. CASE CloseOpen(code, reason)
  <2>1. cls' \in Cls /\ seen' \in [Handlers -> 0 .. 2]
    BY <1>4, SawType DEF LifeType, CloseOpen, Cls, Handlers
  <2>2. CASE NoBuffer
    BY <1>1, <2>1, <2>2 DEF LifeType, NoBuffer
  <2>3. CASE \E run \in Utf8Runs("complete", reason) :
                PutFrame(Frame("CLOSE", TRUE,
                    IF run[Len(reason)] = "complete" THEN reason ELSE <<>>,
                    code))
    <3>1. PICK data : PutFrame(Frame("CLOSE", TRUE, data, code))
      BY <2>3
    <3>2. peer' \in PeerView
      BY <3>1, PutFrameType DEF LifeType, Opcode, Control
    <3> QED
      BY <1>1, <2>1, <3>2 DEF LifeType
  <2> QED
    BY <1>4, <2>2, <2>3 DEF CloseOpen
<1> QED
  BY <1>2, <1>3, <1>4 DEF CloseWithReason

\* Reading a payload byte or a header byte: unmasking stays in the alphabet.
LEMMA XorType ==
    ASSUME NEW a \in Byte, NEW b \in Byte
    PROVE  Xor(a, b) \in Byte
  BY DEF Xor, Byte

\* The state of the validator is one of its states.
LEMMA Utf8ParseType ==
    ASSUME NEW u, NEW b
    PROVE  Utf8Parse(u, b) \in Utf8
  BY DEF Utf8Parse, Utf8

\* The last state of a run of utf8_parse_string is a state.
LEMMA Utf8RunsType ==
    ASSUME NEW u, NEW s \in Seq(Byte), NEW run \in Utf8Runs(u, s)
    PROVE  run[Len(s)] \in Utf8
<1>1. run \in [0 .. Len(s) -> Utf8]
  BY DEF Utf8Runs
<1>2. Len(s) \in 0 .. Len(s)
  OBVIOUS
<1> QED
  BY <1>1, <1>2

\* The values wic_init leaves are of the right types.
LEMMA ZeroTypes ==
    /\ RxZero \in RxFrame /\ Len(RxZero.buf) <= RxMax
    /\ SentZero \in SentMessage
    /\ NoMsg \in Message
    /\ PeerZero \in PeerView
    /\ SeenZero \in [Handlers -> 0 .. 2]
<1>1. RxZero \in RxFrame
  BY DEF RxZero, RxFrame, Opcode, RxState, Utf8, Byte
<1>2. Len(RxZero.buf) <= RxMax
  BY RxMaxAssumption DEF RxZero
<1>3. <<>> \in Seq(Byte)
  OBVIOUS
<1>4. SentZero \in SentMessage /\ NoMsg \in Message
  BY <1>3 DEF SentZero, SentMessage, NoMsg, Message
<1>5. PeerZero \in PeerView /\ SeenZero \in [Handlers -> 0 .. 2]
  BY DEF PeerZero, PeerView, SeenZero
<1> QED
  BY <1>1, <1>2, <1>4, <1>5

\* Types hold at the start.
LEMMA TypeInit == Init => TypeOK
<1> SUFFICES ASSUME Init PROVE TypeOK
  OBVIOUS
<1>1. LifeType
  BY ZeroTypes DEF Init, LifeType, State, Cls
<1>2. RecvType
  BY ZeroTypes DEF Init, RecvType, Utf8
<1>3. SendType /\ CallType
  BY DEF Init, SendType, CallType, Utf8, Act
<1> QED
  BY <1>1, <1>2, <1>3 DEF TypeOK

\* Calls of the application keep the types.
LEMMA AppStepType == TypeOK /\ AppStep => TypeOK'
<1> SUFFICES ASSUME TypeOK, AppStep PROVE TypeOK'
  OBVIOUS
<1> USE DEF TypeOK
<1>1. CASE WicInit
  <2>1. LifeType'
    BY <1>1, ZeroTypes DEF WicInit, LifeType, State
  <2>2. RecvType'
    BY <1>1, ZeroTypes DEF WicInit, RecvType, Utf8
  <2>3. SendType' /\ CallType'
    BY <1>1 DEF WicInit, SendType, CallType, Utf8, Act
  <2> QED
    BY <2>1, <2>2, <2>3
<1>2. CASE WicStart
  BY <1>2 DEF WicStart, LifeType, State, RecvType, recv, SendType, send, CallType
<1>3. CASE WicCloseWithReason
  <2>1. LifeType'
    BY <1>3, CloseType DEF WicCloseWithReason
  <2> QED
    BY <1>3, <2>1 DEF WicCloseWithReason, RecvType, recv, SendType, send, CallType
<1>4. Promoted \in State
  BY DEF LifeType, Promoted, State
<1>5. CASE SendRefused
  BY <1>4, <1>5 DEF SendRefused, LifeType, RecvType, recv, SendType, send, CallType
<1>6. ASSUME NEW data \in PingData, WicSendPing(data)
      PROVE  TypeOK'
  <2>1. LifeType'
    BY <1>4, <1>6, PutFrameType DEF WicSendPing, LifeType, Opcode, Control
  <2> QED
    BY <1>6, <2>1 DEF WicSendPing, RecvType, recv, SendType, send, CallType
<1>7. ASSUME NEW fin \in BOOLEAN, NEW data \in TxData, WicSendBinary(fin, data)
      PROVE  TypeOK'
  <2>1. LifeType'
    BY <1>4, <1>7, PutFrameType DEF WicSendBinary, LifeType, Opcode, Data
  <2>2. SendType'
    BY <1>7 DEF WicSendBinary, SendType
  <2> QED
    BY <1>7, <2>1, <2>2 DEF WicSendBinary, RecvType, recv, CallType
<1>8. ASSUME NEW fin \in BOOLEAN, NEW data \in TxData, WicSendText(fin, data)
      PROVE  TypeOK'
  <2>1. LifeType'
    BY <1>4, <1>8, PutFrameType DEF WicSendText, LifeType, Opcode, Data
  <2>2. PICK run \in Utf8Runs(TextFrom, data) : utf8_tx' = run[Len(data)]
    BY <1>8 DEF WicSendText
  <2>3. data \in Seq(Byte)
    BY AppAssumption
  <2>4. utf8_tx' \in Utf8
    BY <2>2, <2>3, Utf8RunsType
  <2>5. SendType'
    BY <1>8, <2>4 DEF WicSendText, SendType
  <2> QED
    BY <1>8, <2>1, <2>5 DEF WicSendText, RecvType, recv, CallType
<1> QED
  BY <1>1, <1>2, <1>3, <1>5, <1>6, <1>7, <1>8 DEF AppStep

\* Starting wic_parse keeps the types.
LEMMA ParseCallType == TypeOK /\ ParseCall => TypeOK'
<1> SUFFICES ASSUME TypeOK, NEW n \in 0 .. MaxChunk,
                    HandshakeMore(n) \/ HandshakeFailed(n)
                      \/ HandshakeAccepted(n) \/ WicParse(n)
             PROVE  TypeOK'
  BY DEF ParseCall
<1> USE DEF TypeOK, ParseHandshake
<1>0. n \in Nat
  BY PeerAssumption
<1>1. CASE HandshakeMore(n)
  BY <1>1 DEF HandshakeMore, LifeType, life, RecvType, recv, SendType, send, CallType
<1>2. CASE HandshakeFailed(n)
  <2>1. LifeType'
    BY <1>2, SawType DEF HandshakeFailed, LifeType, State, Handlers
  <2> QED
    BY <1>2, <2>1 DEF HandshakeFailed, RecvType, recv, SendType, send, CallType, Act
<1>3. CASE HandshakeAccepted(n)
  <2>1. LifeType'
    BY <1>3, SawType DEF HandshakeAccepted, LifeType, State, Handlers
  <2>2. CallType'
    BY <1>0, <1>3 DEF HandshakeAccepted, CallType, Act
  <2> QED
    BY <1>3, <2>1, <2>2 DEF HandshakeAccepted, RecvType, recv, SendType, send
<1>4. CASE WicParse(n)
  BY <1>0, <1>4 DEF WicParse, LifeType, life, RecvType, recv, SendType, send, CallType, Act
<1> QED
  BY <1>1, <1>2, <1>3, <1>4

\* Returns of handlers keep the types.
LEMMA HandlerReturnType == TypeOK /\ HandlerReturn => TypeOK'
<1> SUFFICES ASSUME TypeOK, HandlerReturn PROVE TypeOK'
  OBVIOUS
<1> USE DEF TypeOK
<1>1. CASE CloseTransportReturn
  <2>1. LifeType'
    BY <1>1, SawType DEF CloseTransportReturn, LifeType, Cls, Handlers
  <2> QED
    BY <1>1, <2>1 DEF CloseTransportReturn, RecvType, recv, SendType, send, CallType
<1>2. CASE CloseReturn
  BY <1>2 DEF CloseReturn, LifeType, Cls, RecvType, recv, SendType, send, CallType
<1>3. CASE OnOpenReturn
  BY <1>3 DEF OnOpenReturn, LifeType, State, RecvType, recv, SendType, send, CallType, Act
<1>4. CASE HttpCloseTransportReturn
  <2>1. LifeType'
    BY <1>4, SawType DEF HttpCloseTransportReturn, LifeType, Handlers
  <2> QED
    BY <1>4, <2>1
       DEF HttpCloseTransportReturn, RecvType, recv, SendType, send, CallType, Act
<1>5. CASE HttpFailureReturn
  BY <1>5 DEF HttpFailureReturn, LifeType, State, RecvType, recv, SendType, send,
              CallType, Act
<1>6. CASE OnMessageAccept
  <2>1. rx \in RxFrame /\ got \in Message /\ sent \in SentMessage
    BY DEF RecvType
  <2>2. Kind(rx) \in Opcode
    BY <2>1 DEF Kind, RxFrame
  <2> DEFINE fr == IF rx.fin THEN "CONTINUE" ELSE Kind(rx)
  <2>3. fr \in Opcode /\ "OPCODE" \in RxState /\ <<>> \in Seq(Byte)
    BY <2>2 DEF Opcode, RxState
  <2>4. rx' = IF rx.size > 0 THEN [rx EXCEPT !.buf = <<>>]
              ELSE [rx EXCEPT !.frag = fr, !.state = "OPCODE"]
    BY <1>6 DEF OnMessageAccept, Accepted
  <2> HIDE DEF fr
  <2>5. rx' \in RxFrame /\ Len(rx'.buf) <= RxMax
    <3>1. CASE rx.size > 0
      <4>1. rx' = [rx EXCEPT !.buf = <<>>]
        BY <2>4, <3>1
      <4>2. rx' \in RxFrame
        BY <2>1, <2>3, <4>1 DEF RxFrame
      <4>3. rx'.buf = <<>>
        BY <2>1, <4>1 DEF RxFrame
      <4> QED
        BY <4>2, <4>3, RxMaxAssumption
    <3>2. CASE ~(rx.size > 0)
      BY <2>1, <2>3, <2>4, <3>2 DEF RxFrame, RecvType
    <3> QED
      BY <3>1, <3>2
  <2>6. utf8_rx' \in Utf8
    BY <1>6, <2>1 DEF OnMessageAccept, RecvType, RxFrame
  <2>7. sent' \in SentMessage
    <3>1. CASE MessageFin
      BY <1>6, <2>1, <2>3, <3>1 DEF OnMessageAccept, SentMessage
    <3>2. CASE ~MessageFin
      BY <1>6, <2>1, <3>2 DEF OnMessageAccept
    <3> QED
      BY <3>1, <3>2
  <2>8. got' \in Message
    <3>1. rx.buf \in Seq(Byte) /\ got.bytes \in Seq(Byte)
      BY <2>1 DEF RxFrame, Message
    <3>2. got.bytes \o rx.buf \in Seq(Byte)
      BY <3>1
    <3>3. [enc |-> Kind(rx), bytes |-> got.bytes \o rx.buf] \in Message
      BY <2>2, <3>2 DEF Message
    <3> QED
      BY <1>6, <3>3, ZeroTypes DEF OnMessageAccept
  <2> QED
    BY <1>6, <2>5, <2>6, <2>7, <2>8
       DEF OnMessageAccept, LifeType, life, RecvType, SendType, send, CallType, Act
<1>7. CASE OnMessageRefuse
  BY <1>7 DEF OnMessageRefuse, Return, LifeType, life, RecvType, recv, SendType, send,
              CallType, Act
<1> QED
  BY <1>1, <1>2, <1>3, <1>4, <1>5, <1>6, <1>7 DEF HandlerReturn

\* A step of the parser that leaves the connection alone or closes it.
LEMMA UnchangedType == LifeType /\ UNCHANGED life => LifeType'
  BY DEF LifeType, life

\* A header byte was taken and the turn goes on.
LEMMA TurnType ==
    ASSUME CallType, NEW where, HeaderByte(where), Turn, http' = http
    PROVE  CallType'
<1>1. avail' \in Nat
  BY DEF HeaderByte, CallType
<1>2. act' \in Act
  BY DEF Turn, Act
<1> QED
  BY <1>1, <1>2 DEF CallType

\* The first byte keeps the types.
LEMMA ParseOpcodeType ==
    ASSUME TypeOK, NEW fin \in BOOLEAN, NEW rsv \in PeerRsv, NEW op \in PeerOps,
           ParseOpcode(fin, rsv, op)
    PROVE  TypeOK'
<1> USE DEF TypeOK
<1>0. op \in Opcode /\ rsv \in BOOLEAN /\ <<>> \in Seq(Byte)
  BY PeerAssumption
<1>1. LifeType'
  BY UnchangedType, CloseType DEF ParseOpcode
<1>2. CallType'
  BY TurnType DEF ParseOpcode
<1>3. SendType'
  BY DEF ParseOpcode, SendType, send
<1> DEFINE o == IF rsv THEN rx.opcode ELSE op
           u == IF rsv THEN "complete" ELSE Resumed(op)
           st == IF rsv THEN rx.state ELSE "SIZE"
<1>4. rx \in RxFrame
  BY DEF RecvType
<1>5. o \in Opcode /\ st \in RxState
  BY <1>0, <1>4 DEF RxFrame, RxState
<1>6. u \in Utf8
  BY DEF Resumed, RecvType, Utf8
<1>7. rx' = [rx EXCEPT !.buf = <<>>, !.fin = fin, !.opcode = o, !.utf8 = u,
                       !.state = st]
  BY DEF ParseOpcode
<1> HIDE DEF o, u, st
<1>8. rx' \in RxFrame
  BY <1>0, <1>4, <1>5, <1>6, <1>7 DEF RxFrame
<1>9. Len(rx'.buf) <= RxMax
  <2>1. rx'.buf = <<>>
    BY <1>4, <1>7 DEF RxFrame
  <2> QED
    BY <2>1, RxMaxAssumption
<1>10. sent' \in SentMessage
  <2> DEFINE e == IF Legal(fin, rsv, op) /\ op \in Data THEN op ELSE sent.enc
             f == IF op \in Control THEN sent.fin ELSE fin
  <2>1. e \in Opcode \cup {"none"} /\ f \in BOOLEAN
    BY <1>0 DEF RecvType, SentMessage
  <2>2. sent' = [sent EXCEPT !.enc = e, !.fin = f, !.idx = 0]
    BY DEF ParseOpcode
  <2> HIDE DEF e, f
  <2>3. sent \in SentMessage /\ 0 \in 0 .. 3
    BY DEF RecvType
  <2> QED
    BY <2>1, <2>2, <2>3 DEF SentMessage
<1>11. owed' \in BOOLEAN /\ utf8_rx' = utf8_rx /\ got' = got
  BY DEF ParseOpcode, RecvType
<1> QED
  BY <1>1, <1>2, <1>3, <1>8, <1>9, <1>10, <1>11 DEF RecvType

\* The size keeps them.
LEMMA ParseSizeType ==
    ASSUME TypeOK, NEW masked \in PeerMasks, NEW size \in PeerSizes,
           ParseSize(masked, size)
    PROVE  TypeOK'
<1> USE DEF TypeOK
<1>0. masked \in BOOLEAN /\ size \in Nat
  BY PeerAssumption
<1>1. LifeType'
  BY UnchangedType, CloseType DEF ParseSize
<1>2. CallType'
  BY TurnType DEF ParseSize
<1>3. SendType'
  BY DEF ParseSize, SendType, send
<1> DEFINE n == IF size >= 126 THEN 0 ELSE size
           st == IF size = 127 THEN "SIZE_2"
                 ELSE IF size = 126 THEN "SIZE_0" ELSE AfterSize(masked)
<1>4. n \in Nat /\ st \in RxState
  BY <1>0 DEF AfterSize, RxState, Ext2, Ext8, Masking
<1>5. rx' = [rx EXCEPT !.masked = masked, !.size = n, !.state = st]
  BY DEF ParseSize
<1> HIDE DEF n, st
<1>6. rx' \in RxFrame /\ rx'.buf = rx.buf
  BY <1>0, <1>4, <1>5 DEF RecvType, RxFrame
<1> QED
  BY <1>1, <1>2, <1>3, <1>6 DEF ParseSize, RecvType

\* The extended size keeps them.
LEMMA ParseExtendedSizeType ==
    ASSUME TypeOK, NEW b \in PeerExt, ParseExtendedSize(b)
    PROVE  TypeOK'
<1> USE DEF TypeOK
<1>1. b \in Nat /\ rx \in RxFrame
  BY PeerAssumption DEF RecvType
<1>2. CallType'
  BY TurnType DEF ParseExtendedSize
<1> DEFINE n == rx.size * 256 + b
<1>3. n \in Nat
  BY <1>1 DEF RxFrame
<1>4. NextExt(rx.state) \in RxState
  BY DEF NextExt, AfterSize, RxState, Ext2, Ext8, Masking
<1>5. rx' = [rx EXCEPT !.size = n, !.state = NextExt(rx.state)]
  BY DEF ParseExtendedSize
<1> HIDE DEF n
<1>6. rx' \in RxFrame /\ rx'.buf = rx.buf
  BY <1>1, <1>3, <1>4, <1>5 DEF RxFrame
<1> QED
  BY <1>2, <1>6, UnchangedType DEF ParseExtendedSize, RecvType, SendType, send

\* The key keeps them.
LEMMA ParseMaskType ==
    ASSUME TypeOK, NEW b \in PeerKeys, ParseMask(b)
    PROVE  TypeOK'
<1> USE DEF TypeOK
<1>1. b \in Byte /\ rx \in RxFrame
  BY PeerAssumption DEF RecvType
<1>2. CallType'
  BY TurnType DEF ParseMask
<1> DEFINE m == [rx.mask EXCEPT ![MaskIndex(rx.state)] = b]
<1>3. m \in [0 .. 3 -> Byte]
  BY <1>1 DEF RxFrame
<1>4. NextMask(rx.state) \in RxState
  BY DEF NextMask, RxState, Masking
<1>5. rx' = [rx EXCEPT !.mask = m, !.state = NextMask(rx.state)]
  BY DEF ParseMask
<1> HIDE DEF m
<1>6. rx' \in RxFrame /\ rx'.buf = rx.buf
  BY <1>1, <1>3, <1>4, <1>5 DEF RxFrame
<1> QED
  BY <1>2, <1>6, UnchangedType DEF ParseMask, RecvType, SendType, send

\* A byte of the payload keeps them, and stays within the buffer.
LEMMA DataByteType ==
    ASSUME TypeOK, NEW plain \in PeerBytes, DataByte(plain)
    PROVE  TypeOK'
<1> USE DEF TypeOK
<1> DEFINE wire == IF rx.masked THEN Xor(plain, rx.mask[sent.idx]) ELSE plain
           b == IF rx.masked THEN Xor(wire, rx.mask[KeyIndex]) ELSE wire
           u == IF Checked THEN Utf8Parse(rx.utf8, b) ELSE rx.utf8
           bs == IF Kind(rx) \in Data THEN Append(sent.bytes, plain) ELSE sent.bytes
           ix == (sent.idx + 1) % 4
<1>1. /\ Room /\ avail > 0 /\ rx.size > 0 /\ avail' = avail - 1 /\ act' = "parse"
      /\ rx' = [rx EXCEPT !.size = @ - 1, !.buf = Append(@, b), !.utf8 = u]
      /\ IF Checked /\ u = "invalid" THEN CloseWithReason(InvalidData, <<>>)
         ELSE UNCHANGED life
      /\ sent' = [sent EXCEPT !.idx = ix, !.bytes = bs]
      /\ UNCHANGED <<utf8_rx, got, owed, http, send>>
  BY DEF DataByte
<1>2. plain \in Byte /\ rx \in RxFrame /\ sent \in SentMessage
  BY PeerAssumption DEF RecvType
<1>3. LifeType'
  BY <1>1, UnchangedType, CloseType
<1>4. CallType' /\ SendType'
  BY <1>1 DEF CallType, Act, SendType, send
<1>5. b \in Byte
  <2>1. sent.idx \in 0 .. 3 /\ KeyIndex \in 0 .. 3
    BY <1>2 DEF SentMessage, RxFrame, KeyIndex
  <2>2. rx.mask[sent.idx] \in Byte /\ rx.mask[KeyIndex] \in Byte
    BY <1>2, <2>1 DEF RxFrame
  <2>3. wire \in Byte
    BY <1>2, <2>2, XorType
  <2> HIDE DEF wire
  <2> QED
    BY <2>2, <2>3, XorType
<1>6. u \in Utf8
  BY <1>2, Utf8ParseType DEF RxFrame
<1>7. bs \in Seq(Byte) /\ ix \in 0 .. 3
  BY <1>2 DEF SentMessage
<1> HIDE DEF b, u, bs, ix
<1>8. rx.size - 1 \in Nat /\ Append(rx.buf, b) \in Seq(Byte)
      /\ Len(Append(rx.buf, b)) <= RxMax
  BY <1>1, <1>2, <1>5, RxMaxAssumption DEF RxFrame, Room
<1>9. rx' \in RxFrame /\ rx'.buf = Append(rx.buf, b)
  BY <1>1, <1>2, <1>6, <1>8 DEF RxFrame
<1>10. sent' \in SentMessage
  BY <1>1, <1>2, <1>7 DEF SentMessage
<1> QED
  BY <1>1, <1>3, <1>4, <1>8, <1>9, <1>10 DEF RecvType

\* The end of a frame: parsing goes on with the next opcode.
LEMMA NextFrameType ==
    ASSUME RecvType, rx' = [rx EXCEPT !.state = "OPCODE"],
           owed' \in BOOLEAN, UNCHANGED <<utf8_rx, sent, got>>
    PROVE  RecvType'
<1>1. rx' \in RxFrame /\ rx'.buf = rx.buf
  BY DEF RecvType, RxFrame, RxState
<1> QED
  BY <1>1 DEF RecvType

\* So does each step of the library.
LEMMA LibraryStepType == TypeOK /\ LibraryStep => TypeOK'
<1> SUFFICES ASSUME TypeOK, LibraryStep PROVE TypeOK'
  OBVIOUS
<1> USE DEF TypeOK
<1>1. CASE HeaderStep
  BY <1>1, ParseOpcodeType, ParseSizeType, ParseExtendedSizeType, ParseMaskType
     DEF HeaderStep
<1>2. CASE ParseStarved
  BY <1>2, UnchangedType
     DEF ParseStarved, Return, RecvType, recv, SendType, send, CallType, Act
<1>3. CASE ParseReturn
  BY <1>3, UnchangedType
     DEF ParseReturn, Return, RecvType, recv, SendType, send, CallType, Act
<1>4. CASE DataFull
  BY <1>4, UnchangedType DEF DataFull, RecvType, recv, SendType, send, CallType, Act
<1>5. CASE DataClosed
  BY <1>5, UnchangedType DEF DataClosed, RecvType, recv, SendType, send, CallType, Act
<1>6. CASE EndMessage
  <2>1. LifeType'
    BY <1>6, UnchangedType, CloseType DEF EndMessage
  <2>2. owed' \in BOOLEAN
    BY <1>6 DEF EndMessage, RecvType
  <2>3. RecvType'
    <3>1. CASE rx' = rx
      BY <1>6, <3>1 DEF EndMessage, RecvType
    <3>2. CASE rx' = [rx EXCEPT !.state = "OPCODE"]
      BY <1>6, <2>2, <3>2, NextFrameType DEF EndMessage
    <3> QED
      BY <1>6, <3>1, <3>2 DEF EndMessage
  <2> QED
    BY <1>6, <2>1, <2>3 DEF EndMessage, SendType, send, CallType, Act
<1>7. ASSUME NEW code \in PeerCodes, EndClose(code) PROVE TypeOK'
  <2>1. LifeType'
    <3>1. \/ CloseWithReason(code, SubSeq(rx.buf, 3, Len(rx.buf)))
          \/ CloseWithReason(Normal, <<>>)
          \/ CloseWithReason(Protocol, <<>>)
      BY <1>7 DEF EndClose
    <3>2. LifeType
      OBVIOUS
    <3> HIDE DEF TypeOK
    <3> QED
      BY <3>1, <3>2, CloseType
  <2>2. RecvType'
    <3>1. owed' \in BOOLEAN
      BY <1>7 DEF EndClose, RecvType
    <3> QED
      BY <1>7, <3>1, NextFrameType DEF EndClose
  <2> QED
    BY <1>7, <2>1, <2>2 DEF EndClose, SendType, send, CallType, Act
<1>8. CASE EndPing
  <2>1. CASE /\ SendPong
             /\ rx' = [rx EXCEPT !.state = "OPCODE"] /\ owed' = FALSE
             /\ act' = "parse" /\ avail' = avail
    <3>0. peer' \in PeerView
      BY <2>1, PutFrameType DEF SendPong, NoBuffer, LifeType, Opcode, Control
    <3>1. LifeType'
      BY <1>8, <3>0 DEF EndPing, LifeType
    <3>2. RecvType'
      BY <1>8, <2>1, NextFrameType DEF EndPing
    <3> QED
      BY <1>8, <2>1, <3>1, <3>2 DEF EndPing, SendType, send, CallType, Act
  <2>2. CASE Return /\ UNCHANGED <<peer, rx, owed>>
    BY <1>8, <2>2 DEF EndPing, Return, LifeType, RecvType, SendType, send, CallType, Act
  <2> QED
    BY <1>8, <2>1, <2>2 DEF EndPing
<1>9. CASE EndPong
  <2>1. owed' \in BOOLEAN
    BY <1>9 DEF EndPong, RecvType
  <2> QED
    BY <1>9, <2>1, UnchangedType, NextFrameType DEF EndPong, SendType, send, CallType, Act
<1> QED
  BY <1>1, <1>2, <1>3, <1>4, <1>5, <1>6, <1>7, <1>8, <1>9, DataByteType
     DEF LibraryStep, PayloadStep

\* Stuttering keeps everything.
LEMMA TypeStutter == TypeOK /\ UNCHANGED vars => TypeOK'
  BY DEF TypeOK, LifeType, RecvType, SendType, CallType, vars

\* Every step keeps the types.
LEMMA TypeStep == TypeOK /\ [Next]_vars => TypeOK'
  BY AppStepType, ParseCallType, HandlerReturnType, LibraryStepType, TypeStutter
     DEF Next

\* The variables keep their types and the receive buffer stays within
\* rx_max, whatever the peer sends and whatever the application does.
THEOREM TypeCorrect == Spec => []TypeOK
  BY TypeInit, TypeStep, PTL DEF Spec
=============================================================================
