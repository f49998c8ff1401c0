-------------------------- MODULE WicFrames_proofs --------------------------
(***************************************************************************)
(* Proofs about the frames a wic_inst receives and sends, for every value  *)
(* of its constants.                                                       *)
(*                                                                         *)
(* Receiving: FrameInv relates the parser's fragmentation state to the     *)
(* peer's and needs nothing else.  TextInv says what the validator has     *)
(* seen, and BytesInv where the bytes of the message are; both rest on     *)
(* FrameInv.  None assumes anything of what the application does in its    *)
(* handlers: an instance that on_open brings back from CLOSED has not      *)
(* parsed a frame yet.                                                     *)
(*                                                                         *)
(* Sending: SendInv relates the fragmentation state of the sender to what  *)
(* a conforming receiver has made of the frames.                           *)
(***************************************************************************)
EXTENDS WicLife_proofs, Induction_proofs

----------------------------------------------------------------------------
(* The parser and the peer's fragments.                                    *)

\* Nothing of the receiving side has changed since wic_init.
Fresh ==
    /\ rx = RxZero /\ utf8_rx = "complete"
    /\ sent = SentZero /\ got = NoMsg /\ owed = FALSE

\* No frame has been parsed yet: the application's code may still run inside
\* on_open, whatever it has done to the state there.
Early ==
    \/ state \in {"INIT", "PARSE_HANDSHAKE", "READY"}
    \/ act \in {"on_open", "http_close_transport", "http_failure"}

\* Frames are parsed, or a message is with the application, which may have
\* closed the instance meanwhile.
Live == state = "OPEN" \/ act = "on_message"

\* The parser is within a frame of a message.
InMessage == rx.state # "OPCODE" /\ rx.opcode \notin Control

\* What the parser knows of the message is what the peer has sent of it.
Frames ==
    /\ rx.frag \in {"CONTINUE"} \cup Data
    /\ sent.enc \in {"none"} \cup Data
    /\ ~InMessage => rx.frag = IF sent.enc = "none" THEN "CONTINUE" ELSE sent.enc
    /\ InMessage => /\ Kind(rx) \in Data
                    /\ sent.enc = Kind(rx)
                    /\ sent.fin = rx.fin
    /\ rx.state \notin {"OPCODE", "DATA"} => rx.buf = <<>>
    /\ owed = (rx.state # "OPCODE" /\ rx.opcode = "PING")
    /\ sent.enc = "none" => sent.bytes = <<>> /\ got.bytes = <<>>
    /\ got.enc \in {"none", sent.enc}
    /\ act = "on_message" => /\ InMessage
                             /\ rx.state = "DATA"
                             /\ rx.size > 0 => Len(rx.buf) = RxMax

\* A header step that goes on to parse_data has an empty buffer, so that it
\* does not report a message of an instance that it has closed.
FrameInv ==
    /\ Early => Fresh
    /\ act = "data" => rx.state = "DATA" /\ rx.buf = <<>>
    /\ Live => Frames

\* A step that does not receive anything.
Keeps ==
    /\ UNCHANGED recv
    /\ Live' => Live \/ Early
    /\ Early' => Early
    /\ act' \in {"data", "on_message"} => act' = act

\* The steps that do.
Receives ==
    \/ WicInit \/ HeaderStep \/ PayloadStep \/ OnMessageAccept

\* Closing leaves the instance closed.
LEMMA Closes ==
    ASSUME NEW code, NEW reason, CloseWithReason(code, reason)
    PROVE  state' = "CLOSED"
  BY DEF CloseWithReason

\* The end of a CLOSE frame closes the websocket, for one reason or another.
LEMMA EndCloses ==
    ASSUME NEW code, EndClose(code)
    PROVE  /\ FrameEnd({"CLOSE"})
           /\ state' = "CLOSED" /\ act' = "parse" /\ UNCHANGED <<sent, got>>
           /\ rx' = [rx EXCEPT !.state = "OPCODE"]
<1> DEFINE reason == SubSeq(rx.buf, 3, Len(rx.buf))
<1>1. \/ CloseWithReason(code, reason)
      \/ CloseWithReason(Normal, <<>>)
      \/ CloseWithReason(Protocol, <<>>)
  BY DEF EndClose
<1>2. FrameEnd({"CLOSE"}) /\ act' = "parse" /\ UNCHANGED <<sent, got>>
  BY DEF EndClose
<1>3. rx' = [rx EXCEPT !.state = "OPCODE"]
  BY DEF EndClose
<1> HIDE DEF reason
<1>4. \E c, r : CloseWithReason(c, r)
  BY ONLY <1>1
<1>5. state' = "CLOSED"
  BY ONLY <1>4, Closes
<1> QED
  BY ONLY <1>2, <1>3, <1>5

\* A turn of wic_parse that takes a header byte starts on an open websocket.
LEMMA HeaderStarts ==
    ASSUME TypeOK, NEW where, HeaderByte(where), Turn
    PROVE  /\ act = "parse" /\ state = "OPEN" /\ rx.state \in where
           /\ act' \in {"parse", "data"}
           /\ act' = "data" => rx'.state = "DATA"
<1>1. act = "parse"
  BY StandingAct DEF HeaderByte, TypeOK, Act
<1> QED
  BY <1>1 DEF HeaderByte, Turn

\* parse_data runs on an open websocket, or after the header step.
LEMMA DataStarts ==
    ASSUME TypeOK, InData
    PROVE  \/ act = "data"
           \/ act = "parse" /\ state = "OPEN" /\ rx.state = "DATA"
<1>1. AppMay({"data"}) => act = "data"
  BY StandingAct DEF TypeOK, Act
<1>2. AppMay({"parse"}) => act = "parse"
  BY StandingAct DEF TypeOK, Act
<1> QED
  BY <1>1, <1>2 DEF InData

\* Every step receives something or keeps what was received.
LEMMA KeepsOrReceives == TypeOK /\ [Next]_vars => Keeps \/ Receives
<1> SUFFICES ASSUME TypeOK, [Next]_vars, ~Receives PROVE Keeps
  OBVIOUS
<1> USE DEF Keeps, Live, Early
<1>1. CASE UNCHANGED vars
  BY <1>1 DEF vars, recv
<1>2. CASE AppStep
  <2>1. CASE WicStart
    BY <2>1 DEF WicStart, recv
  <2>2. CASE WicCloseWithReason
    BY <2>2, Closes DEF WicCloseWithReason, recv
  <2>3. ASSUME SendRefused \/ \E data \in PingData : WicSendPing(data)
        PROVE  Keeps
    BY <2>3 DEF SendRefused, WicSendPing, Promoted, recv
  <2>4. ASSUME NEW fin \in BOOLEAN, NEW data \in TxData,
               WicSendBinary(fin, data) \/ WicSendText(fin, data)
        PROVE  Keeps
    BY <2>4 DEF WicSendBinary, WicSendText, Promoted, recv
  <2> QED
    BY <1>2, <2>1, <2>2, <2>3, <2>4 DEF AppStep, Receives
<1>3. CASE ParseCall
  <2>1. PICK n \in 0 .. MaxChunk :
           \/ HandshakeMore(n) \/ HandshakeFailed(n) \/ HandshakeAccepted(n)
           \/ WicParse(n)
    BY <1>3 DEF ParseCall
  <2> QED
    BY <2>1 DEF HandshakeMore, HandshakeFailed, HandshakeAccepted, WicParse,
                ParseHandshake, life, recv
<1>4. CASE HandlerReturn
  <2>1. CASE CloseTransportReturn \/ CloseReturn
    BY <2>1 DEF CloseTransportReturn, CloseReturn, recv
  <2>2. CASE OnOpenReturn
    <3>1. act = "on_open"
      BY <2>2, StandingAct DEF OnOpenReturn, TypeOK, Act
    <3> QED
      BY <2>2, <3>1 DEF OnOpenReturn, recv
  <2>3. CASE HttpCloseTransportReturn
    <3>1. act = "http_close_transport"
      BY <2>3, StandingAct DEF HttpCloseTransportReturn, TypeOK, Act
    <3> QED
      BY <2>3, <3>1 DEF HttpCloseTransportReturn, recv
  <2>4. CASE HttpFailureReturn
    BY <2>4 DEF HttpFailureReturn, recv
  <2>5. CASE OnMessageRefuse
    BY <2>5 DEF OnMessageRefuse, Return, life, recv
  <2> QED
    BY <1>4, <2>1, <2>2, <2>3, <2>4, <2>5 DEF HandlerReturn, Receives
<1>5. CASE LibraryStep
  <2>1. ParseStarved \/ ParseReturn
    BY <1>5 DEF LibraryStep, Receives
  <2> QED
    BY <2>1 DEF ParseStarved, ParseReturn, Return, life, recv
<1> QED
  BY <1>1, <1>2, <1>3, <1>4, <1>5 DEF Next

\* A step that receives nothing keeps FrameInv.
LEMMA KeepsFrames ==
    ASSUME TypeOK, FrameInv, Keeps
    PROVE  FrameInv'
<1>1. Fresh' <=> Fresh
  BY DEF Keeps, recv, Fresh
<1>2. ASSUME Frames, Live' PROVE Frames'
  BY <1>2 DEF Keeps, recv, Frames, InMessage, Kind
<1>3. ASSUME Live', ~Live PROVE Frames'
  <2>1. Fresh' /\ act' # "on_message"
    BY <1>1, <1>3 DEF FrameInv, Keeps, Live
  <2> QED
    BY <2>1 DEF Fresh, Frames, InMessage, RxZero, SentZero, NoMsg, Data
<1> QED
  BY <1>1, <1>2, <1>3 DEF FrameInv, Keeps, recv

\* wic_init.
LEMMA InitFrames == TypeOK /\ WicInit => FrameInv'
<1> SUFFICES ASSUME TypeOK, WicInit PROVE FrameInv'
  OBVIOUS
<1>1. act = "idle"
  BY StandingAct DEF WicInit, TypeOK, Act
<1> QED
  BY <1>1 DEF WicInit, FrameInv, Early, Live, Fresh

\* A frame that begins fits the fragmentation state, or it fails the connection.
LEMMA OpcodeFrames ==
    ASSUME TypeOK, FrameInv, NEW fin \in BOOLEAN, NEW rsv \in PeerRsv,
           NEW op \in PeerOps, ParseOpcode(fin, rsv, op)
    PROVE  FrameInv'
<1>1. /\ act = "parse" /\ state = "OPEN" /\ rx.state = "OPCODE"
      /\ act' \in {"parse", "data"}
      /\ act' = "data" => rx'.state = "DATA"
  BY HeaderStarts DEF ParseOpcode
<1>2. state' \in {"OPEN", "CLOSED"} /\ (state' = "OPEN" => Legal(fin, rsv, op))
  BY <1>1, Closes DEF ParseOpcode, life
<1>3. rx \in RxFrame /\ sent \in SentMessage
  BY DEF TypeOK, RecvType
<1>4. /\ rx'.frag = rx.frag /\ rx'.buf = <<>> /\ rx'.fin = fin
      /\ rx'.state \in {"OPCODE", "SIZE"}
  BY <1>1, <1>3 DEF ParseOpcode, RxFrame
<1>5. ASSUME Legal(fin, rsv, op) PROVE Frames'
  <2>1. Frames /\ ~InMessage
    BY <1>1 DEF FrameInv, Live, InMessage
  <2>2. rx'.opcode = op /\ rx'.state = "SIZE"
    BY <1>3, <1>5 DEF ParseOpcode, Legal, RxFrame
  <2>3. /\ sent'.enc = IF op \in Data THEN op ELSE sent.enc
        /\ sent'.fin = IF op \in Control THEN sent.fin ELSE fin
        /\ sent'.bytes = sent.bytes /\ got' = got
    BY <1>3, <1>5 DEF ParseOpcode, SentMessage
  <2>4. \/ op \in Control
        \/ op = "CONTINUE" /\ rx.frag # "CONTINUE"
        \/ op \in Data /\ rx.frag = "CONTINUE"
    BY <1>5 DEF Legal
  <2>5. owed' = (op = "PING")
    BY <1>1, <1>5, <2>1 DEF ParseOpcode, Frames
  <2> QED
    BY <1>1, <1>4, <2>1, <2>2, <2>3, <2>4, <2>5
       DEF Frames, InMessage, Kind, Control, Data
<1> QED
  BY <1>1, <1>2, <1>4, <1>5 DEF FrameInv, Early, Live

\* The header steps between the opcode and the payload.
HeaderMoves ==
    /\ rx.state \notin {"OPCODE", "DATA"} /\ rx'.state # "OPCODE"
    /\ rx'.frag = rx.frag /\ rx'.opcode = rx.opcode /\ rx'.fin = rx.fin
    /\ rx'.buf = rx.buf /\ rx'.utf8 = rx.utf8
    /\ UNCHANGED <<utf8_rx, sent, got, owed>>

\* A header byte moves the parser on within the frame, or is the first of one.
LEMMA SizeMoves ==
    ASSUME TypeOK, HeaderStep
    PROVE  \/ HeaderMoves
           \/ \E fin \in BOOLEAN, rsv \in PeerRsv, op \in PeerOps :
                  ParseOpcode(fin, rsv, op)
<1>1. rx \in RxFrame
  BY DEF TypeOK, RecvType
<1>2. ASSUME NEW masked \in PeerMasks, NEW size \in PeerSizes,
             ParseSize(masked, size)
      PROVE  HeaderMoves
  BY <1>1, <1>2 DEF ParseSize, HeaderByte, AfterSize, HeaderMoves, RxFrame
<1>3. ASSUME NEW b \in PeerExt, ParseExtendedSize(b) PROVE HeaderMoves
  BY <1>1, <1>3 DEF ParseExtendedSize, HeaderByte, NextExt, AfterSize, Ext2, Ext8,
                    HeaderMoves, RxFrame
<1>4. ASSUME NEW b \in PeerKeys, ParseMask(b) PROVE HeaderMoves
  BY <1>1, <1>4 DEF ParseMask, HeaderByte, NextMask, Masking, HeaderMoves, RxFrame
<1> QED
  BY <1>2, <1>3, <1>4 DEF HeaderStep

\* A header byte is parsed in an open connection, and may close it.
LEMMA HeaderStepStarts ==
    ASSUME TypeOK, HeaderStep
    PROVE  /\ act = "parse" /\ state = "OPEN"
           /\ state' \in {"OPEN", "CLOSED"} /\ act' \in {"parse", "data"}
           /\ act' = "data" => rx'.state = "DATA"
<1>1. ASSUME NEW fin, NEW rsv, NEW op, ParseOpcode(fin, rsv, op)
      PROVE  /\ HeaderByte({"OPCODE"}) /\ Turn
             /\ state' \in {state, "CLOSED"}
  BY <1>1, Closes DEF ParseOpcode, life
<1>2. ASSUME NEW masked, NEW size, ParseSize(masked, size)
      PROVE  /\ HeaderByte({"SIZE"}) /\ Turn
             /\ state' \in {state, "CLOSED"}
  BY <1>2, Closes DEF ParseSize, life
<1>3. ASSUME NEW b, ParseExtendedSize(b)
      PROVE  HeaderByte(Ext2 \cup Ext8) /\ Turn /\ state' = state
  BY <1>3 DEF ParseExtendedSize, life
<1>4. ASSUME NEW b, ParseMask(b)
      PROVE  HeaderByte(Masking) /\ Turn /\ state' = state
  BY <1>4 DEF ParseMask, life
<1>5. (\E where : HeaderByte(where)) /\ Turn /\ state' \in {state, "CLOSED"}
  BY <1>1, <1>2, <1>3, <1>4 DEF HeaderStep
<1> QED
  BY <1>5, HeaderStarts

\* Within a header and a payload the frame stays the same.
LEMMA MovesFrames ==
    ASSUME TypeOK, FrameInv, HeaderStep, HeaderMoves
    PROVE  FrameInv'
<1>1. /\ act = "parse" /\ state = "OPEN"
      /\ state' \in {"OPEN", "CLOSED"} /\ act' \in {"parse", "data"}
      /\ act' = "data" => rx'.state = "DATA"
  BY HeaderStepStarts
<1>2. Frames
  BY <1>1 DEF FrameInv, Live
<1>3. Frames' /\ rx'.buf = <<>>
  BY <1>1, <1>2 DEF Frames, HeaderMoves, InMessage, Kind
<1> QED
  BY <1>1, <1>3 DEF FrameInv, Early, Live

\* What DataByte reads is a byte.
LEMMA DataByteRead ==
    ASSUME TypeOK, NEW plain \in PeerBytes
    PROVE  LET wire == IF rx.masked THEN Xor(plain, rx.mask[sent.idx]) ELSE plain
           IN  (IF rx.masked THEN Xor(wire, rx.mask[KeyIndex]) ELSE wire) \in Byte
<1> DEFINE wire == IF rx.masked THEN Xor(plain, rx.mask[sent.idx]) ELSE plain
<1>1. plain \in Byte /\ rx \in RxFrame /\ sent \in SentMessage
  BY PeerAssumption DEF TypeOK, RecvType
<1>2. sent.idx \in 0 .. 3 /\ KeyIndex \in 0 .. 3
  BY <1>1 DEF SentMessage, RxFrame, KeyIndex
<1>3. rx.mask[sent.idx] \in Byte /\ rx.mask[KeyIndex] \in Byte
  BY <1>1, <1>2 DEF RxFrame
<1>4. wire \in Byte
  BY <1>1, <1>3, XorType
<1> HIDE DEF wire
<1>5. (IF rx.masked THEN Xor(wire, rx.mask[KeyIndex]) ELSE wire) \in Byte
  BY <1>3, <1>4, XorType
<1> QED
  BY <1>5 DEF wire

\* A byte of the payload leaves the frame as it is, with one byte more.
LEMMA DataByteFrames ==
    ASSUME TypeOK, FrameInv, NEW plain \in PeerBytes, DataByte(plain)
    PROVE  FrameInv'
<1>1. act = "data" \/ (act = "parse" /\ state = "OPEN" /\ rx.state = "DATA")
  BY DataStarts DEF DataByte
<1>2. rx \in RxFrame /\ sent \in SentMessage
  BY DEF TypeOK, RecvType
<1>3. /\ rx'.state = rx.state /\ rx'.frag = rx.frag /\ rx'.opcode = rx.opcode
      /\ rx'.fin = rx.fin
      /\ sent'.enc = sent.enc /\ sent'.fin = sent.fin
      /\ sent.enc = "none" /\ Kind(rx) \notin Data => sent'.bytes = sent.bytes
      /\ act' = "parse" /\ got' = got /\ owed' = owed
  BY <1>2 DEF DataByte, RxFrame, SentMessage
<1>4. state' \in {state, "CLOSED"}
  BY Closes DEF DataByte, life
<1>5. rx.state = "DATA" /\ ~Early
  <2>1. ~Early
    BY <1>1 DEF FrameInv, Early, Fresh, RxZero
  <2> QED
    BY <1>1, <2>1 DEF FrameInv
<1>6. ASSUME Frames PROVE Frames'
  <2>1. Kind(rx)' = Kind(rx) /\ InMessage' = InMessage
    BY <1>3 DEF Kind, InMessage
  <2>2. Kind(rx) \in Data => sent.enc # "none"
    BY <1>5, <1>6 DEF Frames, InMessage, Kind, Data, Control
  <2> QED
    BY <1>3, <1>5, <1>6, <2>1, <2>2 DEF Frames
<1> QED
  BY <1>3, <1>4, <1>5, <1>6 DEF FrameInv, Early, Live

\* A frame ends where its payload was parsed, and its kind is that of its opcode.
LEMMA FrameEndStarts ==
    ASSUME TypeOK, FrameInv, NEW kinds, FrameEnd(kinds)
    PROVE  /\ act \in {"parse", "data"} /\ state = "OPEN" /\ rx.state = "DATA"
           /\ Frames /\ Kind(rx) \in kinds
           /\ Kind(rx) \in Data <=> InMessage
           /\ Kind(rx) = "PING" <=> rx.opcode = "PING"
<1>1. act = "data" \/ (act = "parse" /\ state = "OPEN" /\ rx.state = "DATA")
  BY DataStarts DEF FrameEnd
<1>2. state = "OPEN" /\ Kind(rx) \in kinds
  BY DEF FrameEnd
<1>3. Frames /\ rx.state = "DATA"
  BY <1>1, <1>2 DEF FrameInv, Live
<1> QED
  BY <1>1, <1>2, <1>3 DEF Frames, InMessage, Kind, Data, Control

\* A frame that is not of a message ends, or the websocket does.
LEMMA EndFrames ==
    ASSUME TypeOK, FrameInv, NEW kinds, FrameEnd(kinds),
           rx' = [rx EXCEPT !.state = "OPCODE"], act' = "parse",
           state' = "CLOSED" \/ (state' = state /\ ~InMessage /\ owed' = FALSE),
           UNCHANGED <<sent, got>>
    PROVE  FrameInv'
<1>1. /\ state = "OPEN" /\ Frames
  BY FrameEndStarts
<1>2. /\ rx'.state = "OPCODE" /\ rx'.frag = rx.frag /\ rx'.opcode = rx.opcode
      /\ rx'.buf = rx.buf
  BY DEF TypeOK, RecvType, RxFrame
<1>3. ASSUME ~InMessage, owed' = FALSE PROVE Frames'
  BY <1>1, <1>2, <1>3 DEF Frames, InMessage
<1> QED
  BY <1>1, <1>2, <1>3 DEF FrameInv, Early, Live

\* parse_data turns to the application, or to nothing.
LEMMA DataFullFrames ==
    ASSUME TypeOK, FrameInv, DataFull
    PROVE  FrameInv'
<1>1. act = "data" \/ (act = "parse" /\ state = "OPEN" /\ rx.state = "DATA")
  BY DataStarts DEF DataFull
<1>2. rx.size > 0 /\ ~Room /\ Kind(rx) \in Data /\ act' = "on_message"
      /\ UNCHANGED <<state, rx, utf8_rx, sent, got, owed>>
  BY DEF DataFull, life, recv
<1>3. Len(rx.buf) = RxMax /\ rx.buf # <<>>
  BY <1>2, RxMaxAssumption DEF TypeOK, RecvType, RxFrame, Room
<1>4. act = "parse" /\ state = "OPEN" /\ rx.state = "DATA" /\ Frames
  BY <1>1, <1>3 DEF FrameInv, Live
<1>5. Frames'
  BY <1>2, <1>3, <1>4 DEF Frames, InMessage, Kind, Data, Control
<1> QED
  BY <1>2, <1>4, <1>5 DEF FrameInv, Early, Live

\* A payload that a handler closed on is given up.
LEMMA DataClosedFrames ==
    ASSUME TypeOK, FrameInv, DataClosed
    PROVE  FrameInv'
<1>1. act = "data" /\ act' = "parse" /\ state # "OPEN"
      /\ UNCHANGED <<state, rx, utf8_rx, sent, got, owed>>
  BY StandingAct DEF DataClosed, TypeOK, Act, life, recv
<1> QED
  BY <1>1 DEF FrameInv, Early, Live, Fresh, RxZero

\* The end of a data frame is the end of a fragment or of a message.
LEMMA EndMessageFrames ==
    ASSUME TypeOK, FrameInv, EndMessage
    PROVE  FrameInv'
<1>1. /\ state = "OPEN" /\ rx.state = "DATA" /\ Frames /\ InMessage
      /\ FrameEnd(Data) /\ rx.size = 0
  BY FrameEndStarts DEF EndMessage, FrameEnd
<1>2. CASE CutShort
  <2>1. state' = "CLOSED" /\ act' = "parse" /\ rx' = [rx EXCEPT !.state = "OPCODE"]
        /\ UNCHANGED <<sent, got>>
    BY <1>2, Closes DEF EndMessage
  <2> QED
    BY <1>1, <2>1, EndFrames
<1>3. CASE ~CutShort
  <2>1. act' = "on_message" /\ UNCHANGED <<state, rx, utf8_rx, sent, got, owed>>
    BY <1>3 DEF EndMessage, life
  <2>2. Frames'
    BY <1>1, <2>1 DEF Frames, InMessage, Kind
  <2> QED
    BY <1>1, <2>1, <2>2 DEF FrameInv, Early, Live
<1> QED
  BY <1>2, <1>3

\* The end of a control frame leaves the message it came into alone.
LEMMA EndControlFrames ==
    ASSUME TypeOK, FrameInv,
           EndPing \/ EndPong \/ \E code \in PeerCodes : EndClose(code)
    PROVE  FrameInv'
<1>1. CASE EndPong
  <2>1. FrameEnd({"PONG"}) /\ Kind(rx) = "PONG" /\ Frames /\ ~InMessage
        /\ rx.state = "DATA" /\ rx.opcode # "PING"
    BY <1>1, FrameEndStarts DEF EndPong, Data
  <2>2. owed' = FALSE
    BY <1>1, <2>1 DEF EndPong, Frames
  <2> QED
    BY <1>1, <2>1, <2>2, EndFrames DEF EndPong, life
<1>2. CASE \E code \in PeerCodes : EndClose(code)
  <2>1. PICK code \in PeerCodes : EndClose(code)
    BY <1>2
  <2>2. /\ FrameEnd({"CLOSE"}) /\ state' = "CLOSED" /\ act' = "parse"
        /\ UNCHANGED <<sent, got>> /\ rx' = [rx EXCEPT !.state = "OPCODE"]
    BY ONLY <2>1, EndCloses
  <2> QED
    BY <2>2, EndFrames
<1>3. CASE EndPing
  <2>1. /\ act \in {"parse", "data"} /\ state = "OPEN" /\ FrameEnd({"PING"})
        /\ Frames /\ ~InMessage /\ UNCHANGED <<state, utf8_rx, sent, got>>
    BY <1>3, FrameEndStarts DEF EndPing, Data
  <2>2. CASE act' = "parse" /\ rx' = [rx EXCEPT !.state = "OPCODE"] /\ owed' = FALSE
    BY <2>1, <2>2, EndFrames
  <2>3. CASE act' = "idle" /\ UNCHANGED <<rx, owed>>
    <3>1. Frames'
      BY <2>1, <2>3 DEF Frames, InMessage, Kind
    <3> QED
      BY <2>1, <2>3, <3>1 DEF FrameInv, Early, Live
  <2> QED
    BY <1>3, <2>2, <2>3 DEF EndPing, Return
<1> QED
  BY <1>1, <1>2, <1>3

\* The message with the application is what the parser has.
LEMMA AcceptStarts ==
    ASSUME TypeOK, FrameInv, OnMessageAccept
    PROVE  /\ act = "on_message" /\ act' = "parse" /\ state' = state /\ owed' = owed
           /\ Frames /\ InMessage /\ rx.state = "DATA" /\ ~Early
           /\ Kind(rx) \in Data /\ sent.enc = Kind(rx) /\ sent.fin = rx.fin
<1>1. act = "on_message"
  BY StandingAct DEF OnMessageAccept, TypeOK, Act
<1>2. Frames
  BY <1>1 DEF FrameInv, Live
<1>3. ~Early
  BY <1>1, <1>2 DEF FrameInv, Fresh, RxZero, Frames, InMessage
<1> QED
  BY <1>1, <1>2, <1>3 DEF OnMessageAccept, life, Frames

\* An accepted payload moves the parser on and is counted.
LEMMA AcceptFrames ==
    ASSUME TypeOK, FrameInv, OnMessageAccept
    PROVE  FrameInv'
<1>1. /\ act = "on_message" /\ act' = "parse" /\ state' = state /\ owed' = owed
      /\ Frames /\ InMessage /\ rx.state = "DATA" /\ ~Early
      /\ Kind(rx) \in Data /\ sent.enc = Kind(rx) /\ sent.fin = rx.fin
  BY AcceptStarts
<1>2. rx \in RxFrame /\ sent \in SentMessage
  BY DEF TypeOK, RecvType
<1>3. owed = FALSE
  BY <1>1 DEF Frames, InMessage, Control
<1>4. CASE rx.size > 0
  <2>1. /\ rx'.frag = rx.frag /\ rx'.opcode = rx.opcode /\ rx'.state = rx.state
        /\ rx'.fin = rx.fin
    BY <1>2, <1>4 DEF OnMessageAccept, Accepted, RxFrame
  <2>2. sent' = sent /\ got'.enc = Kind(rx)
    BY <1>4 DEF OnMessageAccept, MessageFin
  <2> QED
    BY <1>1, <2>1, <2>2 DEF FrameInv, Early, Live, Frames, InMessage, Kind, Data
<1>5. CASE rx.size = 0
  <2>1. rx'.state = "OPCODE"
        /\ rx'.frag = IF rx.fin THEN "CONTINUE" ELSE Kind(rx)
    BY <1>2, <1>5 DEF OnMessageAccept, Accepted, RxFrame
  <2>2. CASE rx.fin
    <3>1. sent'.enc = "none" /\ sent'.bytes = <<>> /\ got' = NoMsg
      BY <1>2, <1>5, <2>2 DEF OnMessageAccept, MessageFin, SentMessage
    <3> QED
      BY <1>1, <1>3, <2>1, <2>2, <3>1
         DEF FrameInv, Early, Live, Frames, InMessage, NoMsg
  <2>3. CASE ~rx.fin
    <3>1. sent' = sent /\ got'.enc = Kind(rx)
      BY <1>2, <1>5, <2>3 DEF OnMessageAccept, MessageFin
    <3> QED
      BY <1>1, <1>3, <2>1, <2>3, <3>1
         DEF FrameInv, Early, Live, Frames, InMessage, Data
  <2> QED
    BY <2>2, <2>3
<1> QED
  BY <1>2, <1>4, <1>5 DEF RxFrame

\* It holds before the first connection.
LEMMA FramesInit == Init => FrameInv
  BY DEF Init, FrameInv, Early, Live, Fresh

\* Every step keeps it.
LEMMA FramesStep == TypeOK /\ FrameInv /\ [Next]_vars => FrameInv'
<1> SUFFICES ASSUME TypeOK, FrameInv, [Next]_vars PROVE FrameInv'
  OBVIOUS
<1>1. CASE Keeps
  BY <1>1, KeepsFrames
<1>2. CASE WicInit
  BY <1>2, InitFrames
<1>3. CASE HeaderStep
  BY <1>3, SizeMoves, MovesFrames, OpcodeFrames
<1>4. CASE PayloadStep
  BY <1>4, DataByteFrames, DataFullFrames, DataClosedFrames, EndMessageFrames,
     EndControlFrames DEF PayloadStep
<1>5. CASE OnMessageAccept
  BY <1>5, AcceptFrames
<1> QED
  BY <1>1, <1>2, <1>3, <1>4, <1>5, KeepsOrReceives DEF Receives

\* The frames are right in every state.
LEMMA FramesHold == Spec => []FrameInv
<1>1. TypeOK /\ FrameInv /\ [Next]_vars => FrameInv'
  BY FramesStep
<1> QED
  BY <1>1, FramesInit, TypeCorrect, PTL DEF Spec

\* Between two frames the parser is within a fragmented message exactly when
\* the peer is, and of the same kind.
THEOREM RxAgreesHolds == Spec => []RxAgrees
<1>1. FrameInv => RxAgrees
  BY DEF FrameInv, Live, Frames, InMessage, RxAgrees
<1> QED
  BY <1>1, FramesHold, PTL

\* Parsing does not go past a ping whose pong has not been sent.
THEOREM PingKeptHolds == Spec => []PingKept
<1>1. FrameInv => PingKept
  BY DEF FrameInv, Live, Frames, PingKept
<1> QED
  BY <1>1, FramesHold, PTL

----------------------------------------------------------------------------
(* Text.                                                                   *)

\* The validator is in state u after s: s is UTF-8 so far, and ends within
\* a character exactly when u says so.
Sound(u, s) ==
    /\ u # "invalid"
    /\ WellFormed(FALSE, s)
    /\ (u = "mid") = EndsMid(FALSE, s)

Text ==
    /\ InMessage /\ Kind(rx) = "TEXT" => Sound(rx.utf8, got.bytes \o rx.buf)
    /\ ~InMessage /\ rx.frag = "TEXT" => Sound(utf8_rx, got.bytes)
    /\ act = "on_message" /\ rx.size = 0 /\ rx.fin /\ Kind(rx) = "TEXT"
          => rx.utf8 = "complete"

\* What the validator has seen of a text is what the application has accepted
\* and what is buffered, however it was split.
TextInv == Live => Text

\* Nothing is UTF-8.
LEMMA SoundEmpty == Sound("complete", <<>>)
<1>1. EndsMid(FALSE, <<>>) = FALSE /\ ("complete" = "mid") = FALSE
  BY DEF EndsMid
<1>2. WellFormed(FALSE, <<>>)
  BY DEF WellFormed
<1> QED
  BY <1>1, <1>2 DEF Sound

\* One more byte.
LEMMA SoundAppend ==
    ASSUME NEW u \in Utf8, NEW s \in Seq(Byte), NEW b \in Byte,
           Sound(u, s), Utf8Parse(u, b) # "invalid"
    PROVE  Sound(Utf8Parse(u, b), Append(s, b))
<1> DEFINE t == Append(s, b)
<1>1. Lead # Cont
  BY DEF Lead, Cont
<1>2. Len(t) = Len(s) + 1 /\ t[Len(t)] = b /\ t # <<>>
      /\ \A i \in 1 .. Len(s) : t[i] = s[i]
  OBVIOUS
<1>3. (b = Cont) = (u = "mid") /\ (Utf8Parse(u, b) = "mid") = (b = Lead)
  BY <1>1 DEF Utf8Parse, Utf8, Sound
<1>4. EndsMid(FALSE, s) = IF Len(t) = 1 THEN FALSE ELSE t[Len(t) - 1] = Lead
  <2>1. CASE s = <<>>
    BY <2>1, <1>2 DEF EndsMid
  <2>2. CASE s # <<>>
    <3>1. /\ Len(t) - 1 = Len(s) /\ Len(t) # 1
          /\ Len(s) \in 1 .. Len(s)
      BY <2>2, <1>2
    <3>2. t[Len(s)] = s[Len(s)]
      BY <3>1, <1>2
    <3> QED
      BY <2>2, <3>1, <3>2 DEF EndsMid
  <2> QED
    BY <2>1, <2>2
<1> HIDE DEF t
<1>5. ASSUME NEW i \in 1 .. Len(t)
      PROVE  (t[i] = Cont) <=> (IF i = 1 THEN FALSE ELSE t[i - 1] = Lead)
  <2>1. CASE i = Len(t)
    BY <2>1, <1>2, <1>3, <1>4 DEF Sound
  <2>2. CASE i # Len(t)
    <3>1. i \in 1 .. Len(s) /\ (i # 1 => i - 1 \in 1 .. Len(s))
      BY <2>2, <1>2
    <3> QED
      BY <3>1, <1>2 DEF Sound, WellFormed
  <2> QED
    BY <2>1, <2>2
<1>6. EndsMid(FALSE, t) = (b = Lead)
  BY <1>2 DEF EndsMid
<1> QED
  BY <1>3, <1>5, <1>6 DEF Sound, WellFormed, t

\* A step that receives nothing keeps TextInv.
LEMMA KeepsText ==
    ASSUME TypeOK, FrameInv, TextInv, Keeps
    PROVE  TextInv'
<1>1. ASSUME Text PROVE Text'
  BY <1>1 DEF Keeps, recv, Text, InMessage, Kind
<1>2. ASSUME Live', ~Live PROVE Text'
  <2>1. Fresh /\ act' # "on_message"
    BY <1>2 DEF FrameInv, Keeps, Live
  <2> QED
    BY <2>1 DEF Keeps, recv, Fresh, Text, InMessage, RxZero
<1> QED
  BY <1>1, <1>2 DEF TextInv

\* wic_init starts with no text.
LEMMA InitText == TypeOK /\ WicInit => TextInv'
<1> SUFFICES ASSUME TypeOK, WicInit PROVE TextInv'
  OBVIOUS
<1>1. act = "idle"
  BY StandingAct DEF WicInit, TypeOK, Act
<1> QED
  BY <1>1 DEF WicInit, TextInv, Live

\* The first byte of a frame does not touch the text, and a new message has none.
LEMMA OpcodeText ==
    ASSUME TypeOK, FrameInv, TextInv, NEW fin \in BOOLEAN, NEW rsv \in PeerRsv,
           NEW op \in PeerOps, ParseOpcode(fin, rsv, op)
    PROVE  TextInv'
<1>1. /\ act = "parse" /\ state = "OPEN" /\ rx.state = "OPCODE"
      /\ act' \in {"parse", "data"}
  BY HeaderStarts DEF ParseOpcode
<1>2. state' \in {"OPEN", "CLOSED"} /\ (state' = "OPEN" => Legal(fin, rsv, op))
  BY <1>1, Closes DEF ParseOpcode, life
<1>3. rx \in RxFrame /\ got \in Message /\ got' = got /\ utf8_rx' = utf8_rx
  BY DEF TypeOK, RecvType, ParseOpcode
<1>4. ASSUME Legal(fin, rsv, op) PROVE Text'
  <2>1. Frames /\ Text /\ ~InMessage
    BY <1>1 DEF FrameInv, TextInv, Live, InMessage
  <2>2. rx'.opcode = op /\ rx'.state = "SIZE" /\ rx'.buf = <<>>
        /\ rx'.frag = rx.frag /\ rx'.utf8 = Resumed(op)
    BY <1>3, <1>4 DEF ParseOpcode, Legal, RxFrame
  <2>3. got.bytes \o rx'.buf = got.bytes
    BY <1>3, <2>2 DEF Message
  <2>4. CASE op \in Control
    BY <1>1, <1>3, <2>1, <2>2, <2>4 DEF Text, InMessage
  <2>5. CASE op = "CONTINUE" /\ rx.frag # "CONTINUE"
    BY <1>1, <1>3, <2>1, <2>2, <2>3, <2>5 DEF Text, InMessage, Kind, Resumed, Control
  <2>6. CASE op \in Data /\ rx.frag = "CONTINUE"
    <3>1. got.bytes = <<>>
      BY <2>1, <2>6 DEF Frames, Data
    <3> QED
      BY <1>1, <1>3, <2>1, <2>2, <2>3, <2>6, <3>1, SoundEmpty
         DEF Text, InMessage, Kind, Resumed, Control, Data
  <2> QED
    BY <1>4, <2>4, <2>5, <2>6 DEF Legal
<1> QED
  BY <1>1, <1>2, <1>4 DEF TextInv, Live

\* Nor do the other bytes of the header.
LEMMA MovesText ==
    ASSUME TypeOK, FrameInv, TextInv, HeaderStep, HeaderMoves
    PROVE  TextInv'
<1>1. /\ act = "parse" /\ state = "OPEN" /\ act' \in {"parse", "data"}
  BY HeaderStepStarts
<1>2. Text
  BY <1>1 DEF TextInv, Live
<1>3. Text'
  BY <1>1, <1>2 DEF Text, HeaderMoves, InMessage, Kind
<1> QED
  BY <1>3 DEF TextInv

\* A byte of a text fragment is checked where it is received.
LEMMA DataByteText ==
    ASSUME TypeOK, FrameInv, TextInv, NEW plain \in PeerBytes, DataByte(plain)
    PROVE  TextInv'
<1> DEFINE wire == IF rx.masked THEN Xor(plain, rx.mask[sent.idx]) ELSE plain
           b == IF rx.masked THEN Xor(wire, rx.mask[KeyIndex]) ELSE wire
           u == IF Checked THEN Utf8Parse(rx.utf8, b) ELSE rx.utf8
<1>1. act = "data" \/ (act = "parse" /\ state = "OPEN" /\ rx.state = "DATA")
  BY DataStarts DEF DataByte
<1>2. /\ rx' = [rx EXCEPT !.size = @ - 1, !.buf = Append(@, b), !.utf8 = u]
      /\ act' = "parse" /\ UNCHANGED <<utf8_rx, got>>
      /\ IF Checked /\ u = "invalid" THEN CloseWithReason(InvalidData, <<>>)
         ELSE UNCHANGED life
  BY DEF DataByte
<1>3. rx \in RxFrame /\ got \in Message
  BY DEF TypeOK, RecvType
<1>4. b \in Byte
  BY DataByteRead
<1> HIDE DEF b
<1>5. /\ rx'.state = rx.state /\ rx'.frag = rx.frag /\ rx'.opcode = rx.opcode
      /\ rx'.buf = Append(rx.buf, b) /\ rx'.utf8 = u
  BY <1>2, <1>3 DEF RxFrame
<1>6. ASSUME state' = "OPEN" PROVE Text'
  <2>1. state = "OPEN" /\ ~(Checked /\ u = "invalid")
    BY <1>2, <1>6, Closes DEF life
  <2>2. Text /\ Frames /\ rx.state = "DATA"
    BY <1>1, <2>1 DEF TextInv, FrameInv, Live
  <2>3. CASE InMessage /\ Kind(rx) = "TEXT"
    <3>1. Checked
      BY <2>3 DEF Checked
    <3>2. got.bytes \o Append(rx.buf, b) = Append(got.bytes \o rx.buf, b)
          /\ got.bytes \o rx.buf \in Seq(Byte)
      BY <1>3, <1>4 DEF Message, RxFrame
    <3>3. Sound(u, Append(got.bytes \o rx.buf, b))
      BY <1>3, <1>4, <2>1, <2>2, <2>3, <3>1, <3>2, SoundAppend DEF Text, RxFrame
    <3> QED
      BY <1>2, <1>5, <2>3, <3>2, <3>3 DEF Text, InMessage, Kind
  <2>4. CASE ~(InMessage /\ Kind(rx) = "TEXT")
    BY <1>2, <1>5, <2>2, <2>4 DEF Text, InMessage, Kind
  <2> QED
    BY <2>3, <2>4
<1> QED
  BY <1>2, <1>6 DEF TextInv, Live

\* What is handed over was checked, up to the last whole character.
LEMMA PayloadText ==
    ASSUME TypeOK, FrameInv, TextInv,
           \/ DataFull \/ DataClosed \/ EndMessage \/ EndPing \/ EndPong
           \/ \E code \in PeerCodes : EndClose(code)
    PROVE  TextInv'
<1>0. rx \in RxFrame
  BY DEF TypeOK, RecvType
<1>1. CASE DataFull \/ DataClosed
  <2>1. InData => act = "data" \/ (act = "parse" /\ state = "OPEN" /\ rx.state = "DATA")
    BY DataStarts
  <2>2. UNCHANGED <<state, rx, utf8_rx, sent, got>>
    BY <1>1 DEF DataFull, DataClosed, life, recv
  <2>3. CASE DataClosed
    BY <2>2, <2>3 DEF DataClosed, TextInv, Live
  <2>4. CASE DataFull
    <3>1. Len(rx.buf) = RxMax /\ rx.buf # <<>> /\ rx.size > 0
      BY <2>4, RxMaxAssumption DEF TypeOK, RecvType, RxFrame, Room, DataFull
    <3>2. Live
      BY <2>1, <2>4, <3>1 DEF FrameInv, DataFull, Live
    <3>3. Text'
      BY <1>0, <2>2, <3>1, <3>2 DEF TextInv, Text, InMessage, Kind, RxFrame
    <3> QED
      BY <3>3 DEF TextInv
  <2> QED
    BY <1>1, <2>3, <2>4
<1>2. CASE EndMessage
  <2>1. Text /\ state = "OPEN" /\ UNCHANGED <<utf8_rx, sent, got>>
    BY <1>2, FrameEndStarts DEF EndMessage, TextInv, Live
  <2>2. CASE CutShort
    <3>1. state' = "CLOSED" /\ act' = "parse"
      BY <1>2, <2>2, Closes DEF EndMessage
    <3> QED
      BY <3>1 DEF TextInv, Live
  <2>3. CASE ~CutShort
    <3>1. rx' = rx
      BY <1>2, <2>3 DEF EndMessage
    <3>2. Text'
      BY <2>1, <2>3, <3>1 DEF Text, InMessage, Kind, CutShort
    <3> QED
      BY <3>2 DEF TextInv
  <2> QED
    BY <2>2, <2>3
<1>3. ASSUME NEW code \in PeerCodes, EndClose(code) PROVE TextInv'
  <2>2. state' = "CLOSED"
    BY ONLY <1>3, EndCloses
  <2>3. act' = "parse"
    BY ONLY <1>3, EndCloses
  <2> QED
    BY <2>2, <2>3 DEF TextInv, Live
<1>4. CASE EndPing \/ EndPong
  <2>1. /\ state = "OPEN" /\ ~InMessage /\ Text
        /\ UNCHANGED <<utf8_rx, got>> /\ act' \in {"parse", "idle"}
        /\ rx' = rx \/ rx' = [rx EXCEPT !.state = "OPCODE"]
    BY <1>4, FrameEndStarts DEF EndPing, EndPong, Return, Data, TextInv, Live
  <2>2. rx'.frag = rx.frag /\ ~InMessage'
    BY <1>0, <2>1 DEF InMessage, RxFrame
  <2>3. Text'
    BY <2>1, <2>2 DEF Text
  <2> QED
    BY <2>3 DEF TextInv
<1> QED
  BY <1>1, <1>2, <1>3, <1>4

\* What is accepted joins the text.
LEMMA AcceptText ==
    ASSUME TypeOK, FrameInv, TextInv, OnMessageAccept
    PROVE  TextInv'
<1>1. /\ act = "on_message" /\ act' = "parse" /\ InMessage /\ rx.state = "DATA"
      /\ Kind(rx) \in Data
  BY AcceptStarts
<1>2. rx \in RxFrame /\ got \in Message
  BY DEF TypeOK, RecvType
<1>3. Text
  BY <1>1 DEF TextInv, Live
<1>4. CASE rx.size = 0 /\ rx.fin
  <2>1. got' = NoMsg /\ rx'.frag = "CONTINUE" /\ rx'.state = "OPCODE"
    BY <1>2, <1>4 DEF OnMessageAccept, MessageFin, Accepted, RxFrame
  <2> QED
    BY <1>1, <2>1 DEF TextInv, Text, InMessage
<1>5. CASE ~(rx.size = 0 /\ rx.fin)
  <2>1. got' = [enc |-> Kind(rx), bytes |-> got.bytes \o rx.buf]
    BY <1>5 DEF OnMessageAccept, MessageFin
  <2>3. got.bytes \o rx.buf \in Seq(Byte)
    BY <1>2 DEF Message, RxFrame
  <2>4. CASE rx.size > 0
    <3>1. /\ rx'.frag = rx.frag /\ rx'.opcode = rx.opcode /\ rx'.state = rx.state
          /\ rx'.utf8 = rx.utf8 /\ rx'.buf = <<>>
      BY <1>2, <2>4 DEF OnMessageAccept, Accepted, RxFrame
    <3>2. got'.bytes = got.bytes \o rx.buf
      BY <2>1
    <3>3. got'.bytes \o rx'.buf = got.bytes \o rx.buf
      <4>1. \A s \in Seq(Byte) : s \o <<>> = s
        OBVIOUS
      <4> QED
        BY <2>3, <3>1, <3>2, <4>1
    <3>4. Text'
      BY <1>1, <1>3, <3>1, <3>3 DEF Text, InMessage, Kind
    <3> QED
      BY <3>4 DEF TextInv
  <2>5. CASE rx.size = 0
    <3>1. /\ rx'.frag = Kind(rx) /\ rx'.state = "OPCODE"
          /\ utf8_rx' = IF Kind(rx) = "TEXT" THEN rx.utf8 ELSE utf8_rx
      BY <1>2, <1>5, <2>5 DEF OnMessageAccept, Accepted, RxFrame
    <3>2. Text'
      BY <1>1, <1>3, <2>1, <3>1 DEF Text, InMessage
    <3> QED
      BY <3>2 DEF TextInv
  <2> QED
    BY <1>2, <2>4, <2>5 DEF RxFrame
<1> QED
  BY <1>4, <1>5

\* Every step keeps it.
LEMMA TextStep == TypeOK /\ FrameInv /\ TextInv /\ [Next]_vars => TextInv'
<1> SUFFICES ASSUME TypeOK, FrameInv, TextInv, [Next]_vars PROVE TextInv'
  OBVIOUS
<1>1. CASE Keeps
  BY <1>1, KeepsText
<1>2. CASE WicInit
  BY <1>2, InitText
<1>3. CASE HeaderStep
  BY <1>3, SizeMoves, MovesText, OpcodeText
<1>4. CASE PayloadStep
  BY <1>4, DataByteText, PayloadText DEF PayloadStep
<1>5. CASE OnMessageAccept
  BY <1>5, AcceptText
<1> QED
  BY <1>1, <1>2, <1>3, <1>4, <1>5, KeepsOrReceives DEF Receives

\* The text is right in every state.
LEMMA TextHolds == Spec => []TextInv
<1>1. Init => TextInv
  BY DEF Init, TextInv, Live
<1>2. TypeOK /\ FrameInv /\ TextInv /\ [Next]_vars => TextInv'
  BY TextStep
<1> QED
  BY <1>1, <1>2, FramesHold, TypeCorrect, PTL DEF Spec

\* on_message is never called with text that is not UTF-8 together with what
\* it was given before, the final piece and a text of one piece included,
\* however the peer cuts a text into fragments and the buffer cuts those.
THEOREM TextIsUtf8Holds == Spec => []TextIsUtf8
<1>1. ASSUME FrameInv, TextInv, act = "on_message", Kind(rx) = "TEXT"
      PROVE  /\ WellFormed(FALSE, got.bytes \o rx.buf)
             /\ MessageFin => ~EndsMid(FALSE, got.bytes \o rx.buf)
  <2>1. InMessage /\ Text
    BY <1>1 DEF FrameInv, TextInv, Live, Frames
  <2>2. Sound(rx.utf8, got.bytes \o rx.buf)
    BY <1>1, <2>1 DEF Text
  <2>3. MessageFin => rx.utf8 = "complete"
    BY <1>1, <2>1 DEF Text, MessageFin
  <2> QED
    BY <2>2, <2>3 DEF Sound
<1>2. FrameInv /\ TextInv => TextIsUtf8
  BY <1>1 DEF TextIsUtf8
<1> QED
  BY <1>2, TextHolds, FramesHold, PTL

----------------------------------------------------------------------------
(* The bytes of a message.                                                 *)

\* The peer never masks, or the receive buffer is a multiple of the key long.
\* Without it the key byte of a masked payload is the wrong one after a full
\* buffer was given to the application, and InOrder is violated.
MaskFits == TRUE \notin PeerMasks \/ RxMax % 4 = 0

\* What the peer sent of the message is what the application has accepted and
\* what is buffered; the key is applied where the peer applied it.
Bytes ==
    /\ sent.bytes = got.bytes \o Buffered
    /\ rx.state \notin {"OPCODE", "DATA"} => sent.idx = 0
    /\ rx.state = "DATA" /\ rx.masked => sent.idx = Len(rx.buf) % 4

BytesInv == (Live => Bytes) /\ (rx.masked => TRUE \in PeerMasks)

\* Unmasking undoes masking.
LEMMA XorTwice ==
    ASSUME NEW a \in Byte, NEW k \in Byte
    PROVE  Xor(Xor(a, k), k) = a
  BY DEF Xor, Byte

\* Nothing appended changes nothing.
LEMMA AppendEmpty == \A s \in Seq(Byte) : s \o <<>> = s
  OBVIOUS

\* A byte appended to what is buffered is appended to the message.
LEMMA AppendLast ==
    \A s, t \in Seq(Byte), b \in Byte : Append(s \o t, b) = s \o Append(t, b)
<1> TAKE s, t \in Seq(Byte), b \in Byte
<1> DEFINE l == Append(s \o t, b)
           r == s \o Append(t, b)
<1>1. /\ l \in Seq(Byte) /\ r \in Seq(Byte)
      /\ Len(l) = Len(s) + Len(t) + 1 /\ Len(r) = Len(s) + Len(t) + 1
  OBVIOUS
<1>2. ASSUME NEW i \in 1 .. Len(l) PROVE l[i] = r[i]
  <2>1. CASE i <= Len(s)
    BY <1>1, <2>1
  <2>2. CASE i > Len(s) /\ i <= Len(s) + Len(t)
    BY <1>1, <2>2
  <2>3. CASE i = Len(s) + Len(t) + 1
    BY <1>1, <2>3
  <2> QED
    BY <1>1, <2>1, <2>2, <2>3
<1> HIDE DEF l, r
<1>3. l = r
  BY <1>1, <1>2
<1> QED
  BY <1>3 DEF l, r

\* The next byte of the key.
LEMMA NextIndex ==
    ASSUME NEW n \in Nat
    PROVE  ((n % 4) + 1) % 4 = (n + 1) % 4
<1> DEFINE q == n \div 4
<1>1. n = 4 * q + (n % 4) /\ (n % 4) \in 0 .. 3 /\ q \in Nat
  OBVIOUS
<1>2. n + 1 = 4 * q + (n % 4) + 1
  BY <1>1
<1> HIDE DEF q
<1>3. CASE n % 4 = 3
  BY <1>1, <1>2, <1>3
<1>4. CASE n % 4 # 3
  BY <1>1, <1>2, <1>4
<1> QED
  BY <1>3, <1>4

\* Where nothing of a message is buffered.
LEMMA NothingBuffered ==
    ASSUME TypeOK, Buffered = <<>>
    PROVE  sent.bytes = got.bytes \o Buffered <=> sent.bytes = got.bytes
  BY AppendEmpty DEF TypeOK, RecvType, Message

\* With nothing buffered, what was accepted is what was sent.
LEMMA NothingBufferedNext ==
    ASSUME TypeOK', Buffered' = <<>>
    PROVE  (sent.bytes = got.bytes \o Buffered)' <=> sent'.bytes = got'.bytes
<1>1. got'.bytes \in Seq(Byte)
  BY DEF TypeOK, RecvType, Message
<1> QED
  BY <1>1, AppendEmpty

\* A step that receives nothing keeps BytesInv.
LEMMA KeepsBytes ==
    ASSUME TypeOK, TypeOK', FrameInv, BytesInv, Keeps
    PROVE  BytesInv'
<1>1. UNCHANGED <<rx, sent, got>>
  BY DEF Keeps, recv
<1>2. ASSUME Bytes PROVE Bytes'
  BY <1>1, <1>2 DEF Bytes, Buffered, Kind
<1>3. ASSUME Live', ~Live PROVE Bytes'
  <2>1. Fresh
    BY <1>3 DEF FrameInv, Keeps
  <2>2. rx'.state = "OPCODE" /\ sent'.bytes = <<>> /\ got'.bytes = <<>>
    BY <1>1, <2>1 DEF Fresh, RxZero, SentZero, NoMsg
  <2>3. Buffered' = <<>>
    BY <2>2 DEF Buffered
  <2> QED
    BY <2>2, <2>3, NothingBufferedNext DEF Bytes
<1> QED
  BY <1>1, <1>2, <1>3 DEF BytesInv

\* wic_init starts with no bytes.
LEMMA InitBytes == TypeOK /\ WicInit => BytesInv'
<1> SUFFICES ASSUME TypeOK, WicInit PROVE BytesInv'
  OBVIOUS
<1>1. act = "idle"
  BY StandingAct DEF WicInit, TypeOK, Act
<1> QED
  BY <1>1 DEF WicInit, BytesInv, Live, RxZero

\* The first byte of a frame leaves the bytes of the message alone.
LEMMA OpcodeBytes ==
    ASSUME TypeOK, TypeOK', FrameInv, BytesInv, NEW fin \in BOOLEAN,
           NEW rsv \in PeerRsv, NEW op \in PeerOps, ParseOpcode(fin, rsv, op)
    PROVE  BytesInv'
<1>1. /\ act = "parse" /\ state = "OPEN" /\ rx.state = "OPCODE"
      /\ act' \in {"parse", "data"}
  BY HeaderStarts DEF ParseOpcode
<1>2. rx \in RxFrame /\ sent \in SentMessage
  BY DEF TypeOK, RecvType
<1>3. /\ rx'.state # "DATA" /\ rx'.masked = rx.masked
      /\ sent'.bytes = sent.bytes /\ sent'.idx = 0 /\ got' = got
  BY <1>1, <1>2 DEF ParseOpcode, RxFrame, SentMessage
<1>4. Buffered = <<>> /\ Buffered' = <<>> /\ Bytes
  BY <1>1, <1>3 DEF Buffered, BytesInv, Live
<1>5. Bytes'
  BY <1>3, <1>4, NothingBuffered, NothingBufferedNext DEF Bytes
<1> QED
  BY <1>3, <1>5 DEF BytesInv

\* So do the other bytes of the header.
LEMMA MovesBytes ==
    ASSUME TypeOK, TypeOK', FrameInv, BytesInv, HeaderStep, HeaderMoves
    PROVE  BytesInv'
<1>1. /\ act = "parse" /\ state = "OPEN" /\ act' \in {"parse", "data"}
  BY HeaderStepStarts
<1>2. Bytes /\ Frames
  BY <1>1 DEF BytesInv, FrameInv, Live
<1>3. /\ rx.state \notin {"OPCODE", "DATA"} /\ rx'.state # "OPCODE"
      /\ rx'.buf = <<>> /\ sent' = sent /\ got' = got /\ sent.idx = 0
  BY <1>2 DEF HeaderMoves, Frames, Bytes
<1>4. Buffered = <<>> /\ Buffered' = <<>>
  BY <1>3 DEF Buffered
<1>5. Bytes'
  BY <1>2, <1>3, <1>4, NothingBuffered, NothingBufferedNext DEF Bytes
<1>6. rx'.masked => rx.masked \/ TRUE \in PeerMasks
  <2>1. rx \in RxFrame
    BY DEF TypeOK, RecvType
  <2>2. ASSUME NEW masked \in PeerMasks, NEW size, ParseSize(masked, size)
        PROVE  rx'.masked => TRUE \in PeerMasks
    BY <2>1, <2>2, PeerAssumption DEF ParseSize, RxFrame
  <2>3. ASSUME NEW b, ParseExtendedSize(b) PROVE rx'.masked = rx.masked
    BY <2>1, <2>3 DEF ParseExtendedSize, RxFrame
  <2>4. ASSUME NEW b, ParseMask(b) PROVE rx'.masked = rx.masked
    BY <2>1, <2>4 DEF ParseMask, RxFrame
  <2>5. ASSUME NEW fin, NEW rsv, NEW op, ParseOpcode(fin, rsv, op)
        PROVE  rx'.masked = rx.masked
    BY <2>1, <2>5 DEF ParseOpcode, RxFrame
  <2> QED
    BY <2>2, <2>3, <2>4, <2>5 DEF HeaderStep
<1> QED
  BY <1>5, <1>6 DEF BytesInv

\* A byte is unmasked with the byte of the key that it was masked with.
LEMMA DataByteBytes ==
    ASSUME TypeOK, FrameInv, BytesInv, NEW plain \in PeerBytes, DataByte(plain)
    PROVE  BytesInv'
<1> DEFINE wire == IF rx.masked THEN Xor(plain, rx.mask[sent.idx]) ELSE plain
           b == IF rx.masked THEN Xor(wire, rx.mask[KeyIndex]) ELSE wire
           u == IF Checked THEN Utf8Parse(rx.utf8, b) ELSE rx.utf8
<1>1. act = "data" \/ (act = "parse" /\ state = "OPEN" /\ rx.state = "DATA")
  BY DataStarts DEF DataByte
<1>2. /\ rx' = [rx EXCEPT !.size = @ - 1, !.buf = Append(@, b), !.utf8 = u]
      /\ sent' = [sent EXCEPT
                    !.idx = (@ + 1) % 4,
                    !.bytes = IF Kind(rx) \in Data
                              THEN Append(@, plain) ELSE @]
      /\ act' = "parse" /\ got' = got
      /\ state' \in {state, "CLOSED"}
  BY Closes DEF DataByte, life
<1>3. rx \in RxFrame /\ got \in Message /\ sent \in SentMessage /\ plain \in Byte
  BY PeerAssumption DEF TypeOK, RecvType
<1>4. /\ sent.idx \in 0 .. 3 /\ KeyIndex \in 0 .. 3 /\ Len(rx.buf) \in Nat
      /\ got.bytes \in Seq(Byte) /\ rx.buf \in Seq(Byte)
  BY <1>3 DEF SentMessage, RxFrame, Message, KeyIndex
<1>5. ASSUME state' = "OPEN" PROVE Bytes'
  <2>1. Bytes /\ rx.state = "DATA"
    BY <1>1, <1>2, <1>5 DEF BytesInv, FrameInv, Live
  <2>2. b = plain
    <3>1. CASE rx.masked
      <4>1. sent.idx = KeyIndex
        BY <2>1, <3>1 DEF Bytes, KeyIndex
      <4>2. rx.mask[KeyIndex] \in Byte
        BY <1>3, <1>4 DEF RxFrame
      <4> QED
        BY <1>3, <3>1, <4>1, <4>2, XorTwice
    <3>2. CASE ~rx.masked
      BY <3>2
    <3> QED
      BY <3>1, <3>2
  <2> HIDE DEF b, u
  <2>3. /\ rx'.state = "DATA" /\ rx'.buf = Append(rx.buf, plain)
        /\ rx'.masked = rx.masked /\ rx'.opcode = rx.opcode /\ rx'.frag = rx.frag
        /\ sent'.idx = (sent.idx + 1) % 4
        /\ sent'.bytes = IF Kind(rx) \in Data
                         THEN Append(sent.bytes, plain) ELSE sent.bytes
    BY <1>2, <1>3, <2>1, <2>2 DEF RxFrame, SentMessage
  <2>4. rx.masked => sent'.idx = Len(rx'.buf) % 4
    <3>1. Len(rx'.buf) = Len(rx.buf) + 1
      BY <1>3, <1>4, <2>3
    <3>2. ((Len(rx.buf) % 4) + 1) % 4 = (Len(rx.buf) + 1) % 4
      BY <1>4, NextIndex
    <3> QED
      BY <2>1, <2>3, <3>1, <3>2 DEF Bytes
  <2>5. sent'.bytes = got.bytes \o Buffered'
    <3>1. CASE Kind(rx) \in Data
      <4>1. Buffered = rx.buf /\ Buffered' = Append(rx.buf, plain)
        BY <2>1, <2>3, <3>1 DEF Buffered, Kind
      <4>2. Append(got.bytes \o rx.buf, plain) = got.bytes \o Append(rx.buf, plain)
        <5>1. plain \in Byte /\ got.bytes \in Seq(Byte) /\ rx.buf \in Seq(Byte)
          BY <1>3, <1>4
        <5> QED
          BY ONLY <5>1, AppendLast
      <4> QED
        BY <2>1, <2>3, <3>1, <4>1, <4>2 DEF Bytes
    <3>2. CASE Kind(rx) \notin Data
      <4>1. Buffered = <<>> /\ Buffered' = <<>>
        BY <2>3, <3>2 DEF Buffered, Kind
      <4> QED
        BY <2>1, <2>3, <3>2, <4>1 DEF Bytes
    <3> QED
      BY <3>1, <3>2
  <2> QED
    BY <1>2, <2>3, <2>4, <2>5 DEF Bytes
<1>6. rx'.masked = rx.masked
  BY <1>2, <1>3 DEF RxFrame
<1> QED
  BY <1>2, <1>5, <1>6 DEF BytesInv, Live

\* What is handed over is what was buffered.
LEMMA PayloadBytes ==
    ASSUME TypeOK, TypeOK', FrameInv, BytesInv,
           \/ DataFull \/ DataClosed \/ EndMessage \/ EndPing \/ EndPong
           \/ \E code \in PeerCodes : EndClose(code)
    PROVE  BytesInv'
<1>0. rx \in RxFrame
  BY DEF TypeOK, RecvType
<1>1. ASSUME UNCHANGED <<rx, sent, got>>, Live PROVE BytesInv'
  BY <1>1 DEF BytesInv, Bytes, Buffered, Kind
<1>2. CASE DataFull
  <2>1. InData => act = "data" \/ (act = "parse" /\ state = "OPEN" /\ rx.state = "DATA")
    BY DataStarts
  <2>2. Len(rx.buf) = RxMax /\ rx.buf # <<>>
    BY <1>2, RxMaxAssumption DEF TypeOK, RecvType, RxFrame, Room, DataFull
  <2>3. Live
    BY <2>1, <1>2, <2>2 DEF FrameInv, DataFull, Live
  <2> QED
    BY <1>1, <1>2, <2>3 DEF DataFull, recv
<1>3. CASE DataClosed
  <2>1. ~Live' /\ rx' = rx
    BY <1>3 DEF DataClosed, life, recv, Live
  <2> QED
    BY <2>1 DEF BytesInv
<1>4. CASE EndMessage
  <2>1. Live /\ UNCHANGED <<sent, got>>
    BY <1>4, FrameEndStarts DEF EndMessage, Live
  <2>2. CASE CutShort
    <3>1. /\ state' = "CLOSED" /\ act' = "parse"
          /\ rx' = [rx EXCEPT !.state = "OPCODE"]
      BY <1>4, <2>2, Closes DEF EndMessage
    <3>2. rx'.masked = rx.masked
      BY <1>0, <3>1 DEF RxFrame
    <3> QED
      BY <3>1, <3>2 DEF BytesInv, Live
  <2>3. CASE ~CutShort
    BY <1>1, <1>4, <2>1, <2>3 DEF EndMessage
  <2> QED
    BY <2>2, <2>3
<1>5. ASSUME NEW code \in PeerCodes, EndClose(code) PROVE BytesInv'
  <2>2. state' = "CLOSED"
    BY ONLY <1>5, EndCloses
  <2>3. act' = "parse" /\ rx' = [rx EXCEPT !.state = "OPCODE"]
    BY ONLY <1>5, EndCloses
  <2>4. rx'.masked = rx.masked
    BY <1>0, <2>3 DEF RxFrame
  <2> QED
    BY <2>2, <2>3, <2>4 DEF BytesInv, Live
<1>6. CASE EndPing \/ EndPong
  <2>1. /\ Live /\ Kind(rx) \notin Data /\ UNCHANGED <<sent, got>>
        /\ rx' = rx \/ rx' = [rx EXCEPT !.state = "OPCODE"]
    BY <1>6, FrameEndStarts DEF EndPing, EndPong, Return, Data, Live
  <2>2. CASE rx' = rx
    BY <1>1, <2>1, <2>2
  <2>3. CASE rx' = [rx EXCEPT !.state = "OPCODE"]
    <3>1. rx'.state = "OPCODE" /\ rx'.masked = rx.masked
      BY <1>0, <2>3 DEF RxFrame
    <3>2. Buffered = <<>> /\ Buffered' = <<>> /\ Bytes
      BY <2>1, <3>1 DEF Buffered, BytesInv
    <3>3. Bytes'
      BY <2>1, <3>1, <3>2, NothingBuffered, NothingBufferedNext DEF Bytes
    <3> QED
      BY <3>1, <3>3 DEF BytesInv
  <2> QED
    BY <2>1, <2>2, <2>3
<1> QED
  BY <1>2, <1>3, <1>4, <1>5, <1>6

\* What is accepted follows what was accepted before.
LEMMA AcceptBytes ==
    ASSUME MaskFits, TypeOK, TypeOK', FrameInv, BytesInv, OnMessageAccept
    PROVE  BytesInv'
<1>1. /\ act = "on_message" /\ Frames /\ InMessage /\ rx.state = "DATA"
      /\ Kind(rx) \in Data
  BY AcceptStarts
<1>2. rx \in RxFrame /\ sent \in SentMessage /\ RxMax \in Nat
  BY RxMaxAssumption DEF TypeOK, RecvType
<1>3. Bytes /\ Buffered = rx.buf
  BY <1>1 DEF BytesInv, Live, Buffered
<1>4. rx'.masked = rx.masked
  BY <1>2 DEF OnMessageAccept, Accepted, RxFrame
<1>5. Buffered' = <<>>
  BY <1>2 DEF OnMessageAccept, Accepted, RxFrame, Buffered
<1>6. sent'.bytes = got'.bytes
  <2>1. CASE MessageFin
    BY <1>2, <2>1 DEF OnMessageAccept, NoMsg, SentMessage
  <2>2. CASE ~MessageFin
    BY <1>3, <2>2 DEF OnMessageAccept, Bytes
  <2> QED
    BY <2>1, <2>2
<1>7. ASSUME rx.size > 0
      PROVE  /\ rx'.state = "DATA"
             /\ rx'.masked => sent'.idx = Len(rx'.buf) % 4
  <2>1. rx'.buf = <<>> /\ rx'.state = "DATA" /\ sent' = sent
    BY <1>1, <1>2, <1>7 DEF OnMessageAccept, Accepted, MessageFin, RxFrame
  <2>2. rx.masked => sent.idx = RxMax % 4 /\ RxMax % 4 = 0
    BY <1>1, <1>3, <1>7 DEF Frames, Bytes, BytesInv, MaskFits
  <2>3. Len(rx'.buf) % 4 = 0
    BY <2>1
  <2> QED
    BY <1>4, <2>1, <2>2, <2>3
<1>8. ASSUME ~(rx.size > 0) PROVE rx'.state = "OPCODE"
  BY <1>2, <1>8 DEF OnMessageAccept, Accepted, RxFrame
<1>9. Bytes'
  BY <1>5, <1>6, <1>7, <1>8, NothingBufferedNext DEF Bytes
<1> QED
  BY <1>4, <1>9 DEF BytesInv

\* Every step keeps it.
LEMMA BytesStep ==
    MaskFits /\ TypeOK /\ FrameInv /\ BytesInv /\ [Next]_vars => BytesInv'
<1> SUFFICES ASSUME MaskFits, TypeOK, FrameInv, BytesInv, [Next]_vars
             PROVE  BytesInv'
  OBVIOUS
<1>0. TypeOK'
  BY TypeStep
<1>1. CASE Keeps
  BY <1>0, <1>1, KeepsBytes
<1>2. CASE WicInit
  BY <1>2, InitBytes
<1>3. CASE HeaderStep
  BY <1>0, <1>3, SizeMoves, MovesBytes, OpcodeBytes
<1>4. CASE PayloadStep
  BY <1>0, <1>4, DataByteBytes, PayloadBytes DEF PayloadStep
<1>5. CASE OnMessageAccept
  BY <1>0, <1>5, AcceptBytes
<1> QED
  BY <1>1, <1>2, <1>3, <1>4, <1>5, KeepsOrReceives DEF Receives

\* The bytes are right in every state, if the key fits the buffer.
LEMMA BytesHold == MaskFits => (Spec => []BytesInv)
<1> SUFFICES ASSUME MaskFits PROVE Spec => []BytesInv
  OBVIOUS
<1>1. Init => BytesInv
  BY DEF Init, BytesInv, Live, RxZero
<1>2. TypeOK /\ FrameInv /\ BytesInv /\ [Next]_vars => BytesInv'
  BY BytesStep
<1> QED
  BY <1>1, <1>2, FramesHold, TypeCorrect, PTL DEF Spec

\* No byte of a message is lost, repeated, reordered or altered, whatever
\* was refused, split at the end of the buffer or interrupted.
THEOREM InOrderHolds == MaskFits => (Spec => []InOrder)
<1> SUFFICES ASSUME MaskFits PROVE Spec => []InOrder
  OBVIOUS
<1>1. FrameInv /\ BytesInv => InOrder
  BY DEF FrameInv, BytesInv, Live, Frames, Bytes, InOrder
<1> QED
  BY <1>1, BytesHold, FramesHold, PTL

----------------------------------------------------------------------------
(* The ends of messages.                                                   *)

\* What Boundaries says of a step.
MessageStep ==
    /\ (sent.enc # "none" /\ sent'.enc = "none" /\ state = "OPEN") =>
          /\ sent.fin
          /\ got.bytes \o rx.buf = sent.bytes
          /\ sent.enc = "TEXT" => /\ WellFormed(FALSE, sent.bytes)
                                  /\ ~EndsMid(FALSE, sent.bytes)
    /\ (sent'.enc # sent.enc) => "none" \in {sent.enc, sent'.enc}

\* With it, the whole messages that were accepted are those that were sent.
LEMMA EndsRight ==
    ASSUME TypeOK, FrameInv, TextInv, BytesInv, [Next]_vars
    PROVE  MessageStep
<1>1. sent \in SentMessage
  BY DEF TypeOK, RecvType
<1>2. CASE sent'.enc = sent.enc
  BY <1>2 DEF MessageStep
<1>3. CASE WicInit
  BY <1>3 DEF WicInit, SentZero, MessageStep
<1>4. ASSUME NEW fin, NEW rsv, NEW op, ParseOpcode(fin, rsv, op)
      PROVE  MessageStep
  <2>1. state = "OPEN" /\ rx.state = "OPCODE"
    BY <1>4, HeaderStarts DEF ParseOpcode
  <2>2. Frames /\ ~InMessage
    BY <2>1 DEF FrameInv, Live, InMessage
  <2>3. \/ sent'.enc = sent.enc
        \/ Legal(fin, rsv, op) /\ op \in Data /\ sent'.enc = op
    BY <1>1, <1>4 DEF ParseOpcode, SentMessage
  <2>4. sent'.enc # sent.enc => sent.enc = "none" /\ sent'.enc # "none"
    BY <2>2, <2>3 DEF Legal, Frames, Data, Control
  <2> QED
    BY <2>4 DEF MessageStep
<1>5. CASE OnMessageAccept
  <2>1. /\ act = "on_message" /\ Frames /\ InMessage /\ rx.state = "DATA"
        /\ Kind(rx) \in Data /\ sent.enc = Kind(rx) /\ sent.fin = rx.fin
    BY <1>5, AcceptStarts
  <2>2. Text /\ Bytes /\ Buffered = rx.buf
    BY <2>1 DEF TextInv, BytesInv, Live, Buffered
  <2>3. CASE ~MessageFin
    BY <1>2, <1>5, <2>3 DEF OnMessageAccept
  <2>4. CASE MessageFin
    <3>1. sent'.enc = "none" /\ rx.size = 0 /\ rx.fin
      BY <1>1, <1>5, <2>4 DEF OnMessageAccept, MessageFin, SentMessage
    <3>2. got.bytes \o rx.buf = sent.bytes
      BY <2>2 DEF Bytes
    <3>3. sent.enc = "TEXT" => /\ WellFormed(FALSE, sent.bytes)
                              /\ ~EndsMid(FALSE, sent.bytes)
      BY <2>1, <2>2, <3>1, <3>2 DEF Text, Sound
    <3> QED
      BY <2>1, <3>1, <3>2, <3>3 DEF MessageStep
  <2> QED
    BY <2>3, <2>4
<1>6. CASE Keeps
  BY <1>2, <1>6 DEF Keeps, recv
<1>7. CASE HeaderStep
  BY <1>2, <1>4, <1>7, SizeMoves DEF HeaderMoves
<1>8. CASE PayloadStep
  <2>1. ASSUME NEW b, DataByte(b) PROVE sent'.enc = sent.enc
    BY <1>1, <2>1 DEF DataByte, SentMessage
  <2>2. ASSUME NEW code, EndClose(code) PROVE sent' = sent
    BY <2>2 DEF EndClose
  <2>3. DataFull \/ DataClosed \/ EndMessage \/ EndPing \/ EndPong => sent' = sent
    BY DEF DataFull, DataClosed, EndMessage, EndPing, EndPong, recv
  <2> QED
    BY <1>2, <1>8, <2>1, <2>2, <2>3 DEF PayloadStep
<1> QED
  BY <1>3, <1>5, <1>6, <1>7, <1>8, KeepsOrReceives DEF Receives

\* A message ends for the application where it ends for the peer, complete
\* and, if text, as UTF-8; and none begins before the last has ended.
THEOREM BoundariesHold == MaskFits => (Spec => Boundaries)
<1> SUFFICES ASSUME MaskFits PROVE Spec => Boundaries
  OBVIOUS
<1>1. TypeOK /\ FrameInv /\ TextInv /\ BytesInv /\ [Next]_vars => [MessageStep]_vars
  BY EndsRight
<1> QED
  BY <1>1, TypeCorrect, FramesHold, TextHolds, BytesHold, PTL
     DEF Spec, Boundaries, MessageStep

----------------------------------------------------------------------------
(* The lengths of the control frames received.                             *)

\* A control frame whose size was accepted has no extended size, and what is
\* buffered and what is to come of it are 125 bytes at most.
Short ==
    rx.opcode \in Control /\ rx.state \notin {"OPCODE", "SIZE"} =>
        /\ rx.state \notin Ext2 \cup Ext8
        /\ rx.size + Len(rx.buf) <= 125

ShortInv == state = "OPEN" => Short

\* The first byte of a frame and its size.
LEMMA SizeShort ==
    ASSUME TypeOK, FrameInv, ShortInv, HeaderStep
    PROVE  ShortInv'
<1>1. state = "OPEN" /\ Frames /\ Short /\ rx \in RxFrame
  BY HeaderStepStarts DEF FrameInv, Live, ShortInv, TypeOK, RecvType
<1>2. ASSUME NEW fin, NEW rsv, NEW op, ParseOpcode(fin, rsv, op)
      PROVE  ShortInv'
  <2>1. rx'.state \in {"OPCODE", "SIZE"}
    BY <1>1, <1>2 DEF ParseOpcode, HeaderByte, RxFrame
  <2> QED
    BY <2>1 DEF ShortInv, Short
<1>3. ASSUME NEW masked \in PeerMasks, NEW size \in PeerSizes,
             ParseSize(masked, size)
      PROVE  ShortInv'
  <2>1. size \in 0 .. 127 /\ rx.state = "SIZE" /\ rx.buf = <<>>
    BY <1>1, <1>3, PeerAssumption DEF ParseSize, HeaderByte, Frames
  <2>5. /\ rx'.opcode = rx.opcode /\ rx'.buf = rx.buf
        /\ rx'.size = IF size >= 126 THEN 0 ELSE size
        /\ rx'.state = IF size = 127 THEN "SIZE_2"
                       ELSE IF size = 126 THEN "SIZE_0" ELSE AfterSize(masked)
    BY <1>1, <1>3 DEF ParseSize, RxFrame
  <2>2. /\ rx'.opcode = rx.opcode /\ rx'.buf = <<>>
        /\ size < 126 => rx'.size = size /\ rx'.state \in {"MASK_0", "DATA"}
    BY <2>1, <2>5 DEF AfterSize
  <2>3. ASSUME rx.opcode \in Control, ~(size < 126) PROVE state' = "CLOSED"
    <3>1. ControlSizeError(size)
      BY <2>1, <2>3 DEF ControlSizeError, Control
    <3> QED
      BY <1>3, <3>1, Closes DEF ParseSize
  <2>4. ASSUME rx.opcode \in Control, size < 126 PROVE Short'
    <3>1. rx'.state \notin Ext2 \cup Ext8
      BY <2>2, <2>4 DEF Ext2, Ext8
    <3>2. rx'.size + Len(rx'.buf) <= 125
      BY <2>1, <2>2, <2>4
    <3> QED
      BY <3>1, <3>2 DEF Short
  <2> QED
    BY <2>2, <2>3, <2>4 DEF ShortInv, Short
<1>4. ASSUME NEW b, ParseExtendedSize(b) PROVE ShortInv'
  <2>1. rx.state \in Ext2 \cup Ext8 /\ rx'.opcode = rx.opcode
    BY <1>1, <1>4 DEF ParseExtendedSize, HeaderByte, RxFrame
  <2>2. rx.opcode \notin Control
    BY <1>1, <2>1 DEF Short, Ext2, Ext8
  <2> QED
    BY <2>1, <2>2 DEF ShortInv, Short
<1>5. ASSUME NEW b, ParseMask(b) PROVE ShortInv'
  <2>1. /\ rx.state \in Masking /\ rx'.opcode = rx.opcode /\ rx'.buf = rx.buf
        /\ rx'.size = rx.size /\ rx'.state \in Masking \cup {"DATA"}
    BY <1>1, <1>5 DEF ParseMask, HeaderByte, NextMask, Masking, RxFrame
  <2>2. rx.state \notin {"OPCODE", "SIZE"} /\ rx'.state \notin Ext2 \cup Ext8
    BY <2>1 DEF Masking, Ext2, Ext8
  <2> QED
    BY <1>1, <2>1, <2>2 DEF ShortInv, Short
<1> QED
  BY <1>2, <1>3, <1>4, <1>5 DEF HeaderStep

\* Each byte of the payload is one byte less to come.
LEMMA DataByteShort ==
    ASSUME TypeOK, FrameInv, ShortInv, NEW plain \in PeerBytes, DataByte(plain)
    PROVE  ShortInv'
<1>2. /\ rx'.state = rx.state /\ rx'.opcode = rx.opcode
      /\ rx'.size = rx.size - 1 /\ Len(rx'.buf) = Len(rx.buf) + 1
  <2>1. rx \in RxFrame
    BY DEF TypeOK, RecvType
  <2> QED
    BY <2>1 DEF DataByte, RxFrame
<1>3. rx.size \in Nat /\ Len(rx.buf) \in Nat
  BY DEF TypeOK, RecvType, RxFrame
<1>5. rx'.size + Len(rx'.buf) = rx.size + Len(rx.buf)
  BY <1>2, <1>3
<1>6. state' = "OPEN" => state = "OPEN"
  BY Closes DEF DataByte, life
<1> QED
  BY <1>2, <1>5, <1>6 DEF ShortInv, Short

\* Every step keeps it.
LEMMA ShortStep == TypeOK /\ FrameInv /\ ShortInv /\ [Next]_vars => ShortInv'
<1> SUFFICES ASSUME TypeOK, FrameInv, ShortInv, [Next]_vars PROVE ShortInv'
  OBVIOUS
<1>0. rx \in RxFrame
  BY DEF TypeOK, RecvType
<1>1. CASE Keeps
  <2>1. Short' <=> Short
    BY <1>1 DEF Keeps, recv, Short
  <2>2. ASSUME state' = "OPEN" PROVE Short
    <3>1. CASE state = "OPEN"
      BY <3>1 DEF ShortInv
    <3>2. CASE act = "on_message"
      BY <3>2 DEF FrameInv, Live, Frames, InMessage, Short
    <3>3. CASE Early
      BY <3>3 DEF FrameInv, Fresh, RxZero, Short
    <3> QED
      BY <1>1, <2>2, <3>1, <3>2, <3>3 DEF Keeps, Live
  <2> QED
    BY <2>1, <2>2 DEF ShortInv
<1>2. CASE WicInit
  BY <1>2 DEF WicInit, ShortInv, Short, RxZero
<1>3. CASE HeaderStep
  BY <1>3, SizeShort
<1>4. CASE PayloadStep
  <2>1. ASSUME NEW code, EndClose(code) PROVE ShortInv'
    <3>1. state' = "CLOSED"
      BY ONLY <2>1, EndCloses
    <3> QED
      BY <3>1 DEF ShortInv
  <2>2. CASE DataFull \/ DataClosed \/ EndMessage \/ EndPing \/ EndPong
    <3>1. \/ state' = state /\ rx' = rx
          \/ rx' = [rx EXCEPT !.state = "OPCODE"]
      BY <2>2 DEF DataFull, DataClosed, EndMessage, EndPing, EndPong, life, recv
    <3>2. rx' = [rx EXCEPT !.state = "OPCODE"] => rx'.state = "OPCODE"
      BY <1>0 DEF RxFrame
    <3> QED
      BY <3>1, <3>2 DEF ShortInv, Short
  <2> QED
    BY <1>4, <2>1, <2>2, DataByteShort DEF PayloadStep
<1>5. CASE OnMessageAccept
  <2>1. InMessage
    BY <1>5, AcceptStarts
  <2>2. rx'.opcode = rx.opcode
    BY <1>0, <1>5 DEF OnMessageAccept, Accepted, RxFrame
  <2> QED
    BY <2>1, <2>2 DEF ShortInv, Short, InMessage
<1> QED
  BY <1>1, <1>2, <1>3, <1>4, <1>5, KeepsOrReceives DEF Receives

\* The lengths are right in every state.
LEMMA ShortHolds == Spec => []ShortInv
<1>1. Init => ShortInv
  BY DEF Init, ShortInv
<1>2. TypeOK /\ FrameInv /\ ShortInv /\ [Next]_vars => ShortInv'
  BY ShortStep
<1> QED
  BY <1>1, <1>2, FramesHold, TypeCorrect, PTL DEF Spec

----------------------------------------------------------------------------
(* What a conforming receiver makes of the frames sent.                    *)

\* Over the same text the validator of the code and the receiver's agree, if
\* the one of the code ends well: it never leaves the state "invalid", so it
\* has not been there.  This is the step that needs an induction.
LEMMA RunsRight ==
    ASSUME NEW u \in Utf8, NEW s \in Seq(Byte), NEW run \in Utf8Runs(u, s),
           run[Len(s)] # "invalid"
    PROVE  /\ WellFormed(u = "mid", s)
           /\ (run[Len(s)] = "mid") = EndsMid(u = "mid", s)
<1> DEFINE S == {n \in Nat : n <= Len(s) => run[Len(s) - n] # "invalid"}
<1>1. /\ Len(s) \in Nat
      /\ run[0] = u
      /\ \A i \in 0 .. Len(s) : run[i] \in Utf8
      /\ \A i \in 1 .. Len(s) : run[i] = Utf8Parse(run[i - 1], s[i])
  BY DEF Utf8Runs
<1>2. Utf8Parse("invalid", <<>>) = "invalid"
      /\ \A b : Utf8Parse("invalid", b) = "invalid"
  BY DEF Utf8Parse
<1>3. 0 \in S
  BY <1>1
<1>4. ASSUME NEW n \in Nat, n \in S PROVE n + 1 \in S
  <2>1. CASE n + 1 <= Len(s)
    <3>1. /\ Len(s) - n \in 1 .. Len(s) /\ Len(s) - (n + 1) = (Len(s) - n) - 1
          /\ run[Len(s) - n] # "invalid"
      BY <1>1, <1>4, <2>1
    <3> QED
      BY <1>1, <1>2, <2>1, <3>1
  <2>2. CASE ~(n + 1 <= Len(s))
    BY <2>2
  <2> QED
    BY <2>1, <2>2
<1>5. Nat \subseteq S
  BY <1>3, <1>4, SetInduction
<1>6. ASSUME NEW i \in 0 .. Len(s) PROVE run[i] # "invalid"
  <2>1. Len(s) - i \in Nat /\ Len(s) - i <= Len(s) /\ Len(s) - (Len(s) - i) = i
    BY <1>1
  <2>2. Len(s) - i \in S
    BY <1>5, <2>1
  <2> QED
    BY <2>1, <2>2
<1> HIDE DEF S
<1>7. ASSUME NEW i \in 1 .. Len(s)
      PROVE  /\ (s[i] = Cont) = (run[i - 1] = "mid")
             /\ (run[i] = "mid") = (s[i] = Lead)
  <2>1. i \in 0 .. Len(s) /\ i - 1 \in 0 .. Len(s)
    BY <1>1
  <2>2. /\ run[i] # "invalid" /\ run[i - 1] \in {"complete", "mid"}
        /\ run[i] = Utf8Parse(run[i - 1], s[i])
    BY <1>1, <1>6, <2>1 DEF Utf8
  <2>3. Lead # Cont
    BY DEF Lead, Cont
  <2> QED
    BY <2>2, <2>3 DEF Utf8Parse
<1>8. WellFormed(u = "mid", s)
  <2> SUFFICES ASSUME NEW i \in 1 .. Len(s)
               PROVE  (s[i] = Cont) <=> (IF i = 1 THEN u = "mid"
                                         ELSE s[i - 1] = Lead)
    BY DEF WellFormed
  <2>1. CASE i = 1
    BY <1>1, <1>7, <2>1
  <2>2. CASE i # 1
    <3>1. i - 1 \in 1 .. Len(s)
      BY <1>1, <2>2
    <3> QED
      BY <1>7, <2>2, <3>1
  <2> QED
    BY <2>1, <2>2
<1>9. (run[Len(s)] = "mid") = EndsMid(u = "mid", s)
  <2>1. CASE s = <<>>
    BY <1>1, <2>1 DEF EndsMid
  <2>2. CASE s # <<>>
    <3>1. Len(s) \in 1 .. Len(s)
      BY <1>1, <2>2
    <3> QED
      BY <1>7, <2>2, <3>1 DEF EndsMid
  <2> QED
    BY <2>1, <2>2
<1> QED
  BY <1>8, <1>9

\* The receiver has found no fault, if the application's pings, reasons and codes
\* are proper, and knows of the sender's message what the sender does; what it
\* was told of the end is true.
SendInv ==
    /\ ProperApp => PeerOk
    /\ TxAgrees
    /\ peer.closed => state = "CLOSED"
    /\ frag = "TEXT" => utf8_tx # "invalid"

\* A step that sends nothing and leaves a closed instance closed.
LEMMA SilentSend ==
    ASSUME SendInv, UNCHANGED <<peer, frag, utf8_tx>>,
           state = "CLOSED" => state' = "CLOSED"
    PROVE  SendInv'
  BY DEF SendInv, PeerOk, TxAgrees

\* wic_init starts with no message.
LEMMA InitSend == WicInit => SendInv'
  BY DEF WicInit, SendInv, PeerOk, TxAgrees, PeerZero

\* A control frame that the receiver accepts.
LEMMA ControlSend ==
    ASSUME TypeOK, SendInv, NEW op \in Control, NEW data, NEW code,
           PutFrame(Frame(op, TRUE, data, code)),
           ProperApp => PeerAccepts(Frame(op, TRUE, data, code)),
           UNCHANGED <<frag, utf8_tx>>,
           op = "CLOSE" \/ state = "CLOSED" => state' = "CLOSED"
    PROVE  SendInv'
<1> DEFINE f == Frame(op, TRUE, data, code)
<1>1. f.op = op
  BY DEF Frame
<1>2. (ProperApp => PeerAccepts(f)) /\ peer' = PeerGets(f)
  BY DEF PutFrame
<1> HIDE DEF f
<1>3. /\ peer'.frag = peer.frag /\ peer'.mid = peer.mid
      /\ peer'.closed = (peer.closed \/ op = "CLOSE")
      /\ ProperApp => peer'.ok
  BY <1>1, <1>2 DEF PeerGets, TypeOK, LifeType, PeerView, SendInv, PeerOk
<1> QED
  BY <1>3 DEF SendInv, PeerOk, TxAgrees

\* A code and a reason that a close frame can carry, or a code that is none.
ProperClose(code, reason) ==
    Len(reason) + 2 <= 125 /\ code \in CloseCodes \cup NotWritten

\* Closing sends one close frame at most, and a proper one.
LEMMA CloseSend ==
    ASSUME TypeOK, SendInv, NEW code, NEW reason \in Seq(Byte),
           CloseWithReason(code, reason), UNCHANGED <<frag, utf8_tx>>,
           ProperApp => ProperClose(code, reason)
    PROVE  SendInv'
<1>1. state' = "CLOSED"
  BY Closes
<1>2. CASE UNCHANGED peer
  BY <1>1, <1>2, SilentSend
<1>3. CASE state \in {"READY", "OPEN"} /\ ~(UNCHANGED peer)
  <2>1. PICK run \in Utf8Runs("complete", reason) :
           PutFrame(Frame("CLOSE", TRUE,
                    IF run[Len(reason)] = "complete" THEN reason ELSE <<>>,
                    code))
    BY <1>3 DEF CloseWithReason, CloseOpen, NoBuffer
  <2>2. code \notin NotWritten /\ ~peer.closed
    BY <1>3 DEF CloseWithReason, CloseOpen, NoBuffer, SendInv
  <2> DEFINE data == IF run[Len(reason)] = "complete" THEN reason ELSE <<>>
  <2>3. WellFormed(FALSE, data) /\ ~EndsMid(FALSE, data)
    <3>1. CASE run[Len(reason)] = "complete"
      <4>1. /\ WellFormed("complete" = "mid", reason)
            /\ (run[Len(reason)] = "mid") = EndsMid("complete" = "mid", reason)
        BY <3>1, RunsRight DEF Utf8
      <4> QED
        BY <3>1, <4>1
    <3>2. CASE run[Len(reason)] # "complete"
      BY <3>2 DEF WellFormed, EndsMid
    <3> QED
      BY <3>1, <3>2
  <2>6. ProperApp => Len(data) + 2 <= 125 /\ code \in CloseCodes
    <3>1. Len(<<>>) + 2 <= 125
      OBVIOUS
    <3> QED
      BY <2>2, <3>1 DEF ProperClose
  <2> HIDE DEF data
  <2>4. ProperApp => PeerAccepts(Frame("CLOSE", TRUE, data, code))
    BY <2>2, <2>3, <2>6 DEF PeerAccepts, PeerKind, Frame, Data
  <2>5. PutFrame(Frame("CLOSE", TRUE, data, code))
    BY <2>1 DEF data
  <2> QED
    BY <1>1, <2>4, <2>5, ControlSend DEF Control
<1> QED
  BY <1>2, <1>3 DEF CloseWithReason, CloseHandshake

\* A ping or pong goes between the fragments.
LEMMA PingSend ==
    ASSUME TypeOK, SendInv, NEW data \in PingData, WicSendPing(data)
    PROVE  SendInv'
<1>1. /\ PutFrame(Frame("PING", TRUE, data, 0)) /\ state # "CLOSED"
      /\ UNCHANGED <<frag, utf8_tx>>
  BY DEF WicSendPing, Promoted, send
<1>2. ProperApp => PeerAccepts(Frame("PING", TRUE, data, 0))
  BY <1>1 DEF PeerAccepts, PeerKind, Frame, Data, SendInv, ProperApp
<1> QED
  BY <1>1, <1>2, ControlSend DEF Control

\* A pong answers the ping that is kept.
LEMMA PongSend ==
    ASSUME TypeOK, FrameInv, ShortInv, SendInv, EndPing
    PROVE  SendInv'
<1>1. state = "OPEN" /\ Frames /\ rx.state = "DATA" /\ rx.opcode = "PING"
      /\ UNCHANGED <<state, frag, utf8_tx>>
  BY FrameEndStarts DEF EndPing, send
<1>4. rx.size = 0 /\ Len(rx.buf) \in Nat
  BY DEF EndPing, FrameEnd, TypeOK, RecvType, RxFrame
<1>2. CASE peer' = peer
  BY <1>1, <1>2, SilentSend
<1>3. CASE PutFrame(Frame("PONG", TRUE, rx.buf, 0))
  <2>1. owed /\ ~peer.closed
    BY <1>1 DEF Frames, SendInv
  <2>3. Len(rx.buf) <= 125
    BY <1>1, <1>4 DEF ShortInv, Short, Control, Ext2, Ext8
  <2>2. PeerAccepts(Frame("PONG", TRUE, rx.buf, 0))
    BY <2>1, <2>3 DEF PeerAccepts, PeerKind, Frame, Data
  <2> QED
    BY <1>1, <1>3, <2>2, ControlSend DEF Control
<1> QED
  BY <1>2, <1>3 DEF EndPing, SendPong, NoBuffer

\* A binary fragment follows one of its kind, or begins a message.
LEMMA BinarySend ==
    ASSUME TypeOK, SendInv, NEW fin \in BOOLEAN, NEW data \in TxData,
           WicSendBinary(fin, data)
    PROVE  SendInv'
<1> DEFINE op == IF frag = "BINARY" THEN "CONTINUE" ELSE "BINARY"
           f == Frame(op, fin, data, 0)
<1>1. /\ frag \in {"CONTINUE", "BINARY"} /\ state # "CLOSED"
      /\ state' # "CLOSED" /\ utf8_tx' = utf8_tx
      /\ frag' = IF fin THEN "CONTINUE" ELSE "BINARY"
      /\ peer' = PeerGets(f)
  BY DEF WicSendBinary, Promoted, PutFrame
<1>2. f.op = op /\ f.fin = fin
  BY DEF Frame
<1>3. IF frag = "BINARY" THEN peer.frag = "BINARY" ELSE peer.frag = "none"
  BY <1>1 DEF SendInv, TxAgrees
<1>4. PeerKind(f) = "BINARY"
  BY <1>1, <1>2, <1>3 DEF PeerKind
<1>5. PeerAccepts(f)
  BY <1>1, <1>2, <1>3, <1>4 DEF PeerAccepts, SendInv, Data
<1> HIDE DEF f
<1>6. peer'.frag = (IF fin THEN "none" ELSE "BINARY")
      /\ (ProperApp => peer'.ok) /\ peer'.closed = FALSE
  BY <1>1, <1>2, <1>4, <1>5 DEF PeerGets, Control, SendInv, PeerOk
<1> QED
  BY <1>1, <1>6 DEF SendInv, PeerOk, TxAgrees

\* A text fragment follows one of its kind, and its characters go on.
LEMMA TextSend ==
    ASSUME TypeOK, SendInv, NEW fin \in BOOLEAN, NEW data \in TxData,
           WicSendText(fin, data)
    PROVE  SendInv'
<1> DEFINE op == IF frag = "TEXT" THEN "CONTINUE" ELSE "TEXT"
           f == Frame(op, fin, data, 0)
<1>1. /\ frag \in {"CONTINUE", "TEXT"} /\ state # "CLOSED"
      /\ state' # "CLOSED"
      /\ frag' = IF fin THEN "CONTINUE" ELSE "TEXT"
      /\ peer' = PeerGets(f)
  BY DEF WicSendText, Promoted, PutFrame
<1>2. f.op = op /\ f.fin = fin /\ f.data = data
  BY DEF Frame
<1>3. PICK run \in Utf8Runs(TextFrom, data) :
        /\ run[Len(data)] # "invalid"
        /\ fin => run[Len(data)] = "complete"
        /\ utf8_tx' = run[Len(data)]
  BY DEF WicSendText
<1>4. data \in Seq(Byte) /\ TextFrom \in Utf8
  BY AppAssumption DEF TextFrom, Utf8, TypeOK, SendType
<1>5. /\ IF frag = "TEXT" THEN peer.frag = "TEXT" ELSE peer.frag = "none"
      /\ PeerMid(f) = (TextFrom = "mid")
  <2>1. CASE frag = "TEXT"
    BY <1>2, <2>1 DEF SendInv, TxAgrees, PeerMid, TextFrom, TypeOK, LifeType, PeerView
  <2>2. CASE frag = "CONTINUE"
    BY <1>2, <2>2 DEF SendInv, TxAgrees, PeerMid, TextFrom
  <2> QED
    BY <1>1, <2>1, <2>2
<1>6. PeerKind(f) = "TEXT"
  BY <1>1, <1>2, <1>5 DEF PeerKind
<1>7. /\ WellFormed(PeerMid(f), data)
      /\ (run[Len(data)] = "mid") = EndsMid(PeerMid(f), data)
  BY <1>3, <1>4, <1>5, RunsRight
<1>8. PeerAccepts(f)
  BY <1>1, <1>2, <1>3, <1>5, <1>6, <1>7 DEF PeerAccepts, SendInv, Data
<1> HIDE DEF f
<1>9. /\ peer'.frag = IF fin THEN "none" ELSE "TEXT"
      /\ peer'.mid = (~fin /\ EndsMid(PeerMid(f), data))
      /\ (ProperApp => peer'.ok) /\ peer'.closed = FALSE
  BY <1>1, <1>2, <1>6, <1>8 DEF PeerGets, Control, SendInv, PeerOk
<1> QED
  BY <1>1, <1>3, <1>7, <1>9 DEF SendInv, PeerOk, TxAgrees

\* The closes of the library's own are proper.
LEMMA OwnClose ==
    \A code \in {Normal, Protocol, InvalidData, TooBig} : ProperClose(code, <<>>)
<1>1. {Normal, Protocol, InvalidData, TooBig} \subseteq CloseCodes
  BY DEF Normal, Protocol, InvalidData, TooBig, CloseCodes
<1>2. Len(<<>>) + 2 <= 125
  OBVIOUS
<1> QED
  BY <1>1, <1>2 DEF ProperClose

\* A close that is echoed is no longer than the one that came.
LEMMA EchoSend ==
    ASSUME TypeOK, FrameInv, ShortInv, SendInv, NEW code, EndClose(code)
    PROVE  SendInv'
<1> DEFINE reason == SubSeq(rx.buf, 3, Len(rx.buf))
<1>1. UNCHANGED <<frag, utf8_tx>>
  BY DEF EndClose, send
<1>2. CASE code \in Echoed /\ CloseWithReason(code, reason)
  <2>0. FrameEnd({"CLOSE"})
    BY EndCloses
  <2>1. state = "OPEN" /\ rx.state = "DATA" /\ Kind(rx) = "CLOSE" /\ Frames
    BY <2>0, FrameEndStarts
  <2>2. rx.opcode = "CLOSE"
    BY <2>1 DEF Kind, Frames, Data
  <2>3. rx.buf \in Seq(Byte) /\ Len(rx.buf) \in Nat /\ Len(rx.buf) <= 125
    BY <2>1, <2>2 DEF ShortInv, Short, Control, Ext2, Ext8, TypeOK, RecvType, RxFrame
  <2>4. reason \in Seq(Byte) /\ Len(reason) + 2 <= 125
    <3>1. reason \in Seq(Byte)
      BY <2>3
    <3>2. Len(reason) = IF 3 <= Len(rx.buf) THEN Len(rx.buf) - 2 ELSE 0
      BY <2>3
    <3> QED
      BY <2>3, <3>1, <3>2
  <2>5. code \in CloseCodes
    BY <1>2 DEF Echoed, CloseCodes
  <2> HIDE DEF reason
  <2> QED
    BY <1>1, <1>2, <2>4, <2>5, CloseSend DEF ProperClose
<1>3. CASE CloseWithReason(Normal, <<>>) \/ CloseWithReason(Protocol, <<>>)
  <2>1. <<>> \in Seq(Byte)
    OBVIOUS
  <2> QED
    BY <1>1, <1>3, <2>1, OwnClose, CloseSend
<1> QED
  BY <1>2, <1>3 DEF EndClose

\* Every step keeps it.
LEMMA SendStep ==
    ASSUME TypeOK, Ledger, FrameInv, ShortInv, SendInv, [Next]_vars
    PROVE  SendInv'
<1>1. CASE WicInit
  BY <1>1, InitSend
<1>2. ASSUME ~WicInit, UNCHANGED <<peer, frag, utf8_tx>> PROVE SendInv'
  BY <1>2, ClosedStays, SilentSend
<1>3. CASE AppStep /\ ~WicInit
  <2>1. CASE WicCloseWithReason
    <3>1. PICK code \in AppCodes, reason \in Reasons :
              CloseWithReason(code, reason)
      BY <2>1 DEF WicCloseWithReason
    <3>2. reason \in Seq(Byte) /\ UNCHANGED <<frag, utf8_tx>>
      BY <2>1, AppAssumption DEF WicCloseWithReason, send
    <3>3. ProperApp => ProperClose(code, reason)
      BY DEF ProperApp, ProperClose
    <3> QED
      BY <3>1, <3>2, <3>3, CloseSend
  <2>2. CASE WicStart \/ SendRefused
    BY <1>2, <1>3, <2>2 DEF WicStart, SendRefused, send
  <2> QED
    BY <1>3, <2>1, <2>2, PingSend, BinarySend, TextSend DEF AppStep
<1>4. CASE ParseCall /\ ~WicInit
  BY <1>2, <1>4 DEF ParseCall, HandshakeMore, HandshakeFailed, HandshakeAccepted,
                    WicParse, life, send
<1>5. CASE HandlerReturn /\ ~WicInit
  BY <1>2, <1>5 DEF HandlerReturn, CloseTransportReturn, CloseReturn, OnOpenReturn,
                    HttpCloseTransportReturn, HttpFailureReturn, OnMessageAccept,
                    OnMessageRefuse, life, send
<1>6. CASE HeaderStep /\ ~WicInit
  <2>1. /\ UNCHANGED <<frag, utf8_tx>>
        /\ \/ UNCHANGED peer
           \/ \E code \in {Normal, Protocol, TooBig} : CloseWithReason(code, <<>>)
    BY <1>6 DEF HeaderStep, ParseOpcode, ParseSize, ParseExtendedSize, ParseMask,
                life, send
  <2>2. <<>> \in Seq(Byte)
    OBVIOUS
  <2> QED
    BY <1>2, <1>6, <2>1, <2>2, OwnClose, CloseSend
<1>7. CASE PayloadStep /\ ~WicInit
  <2>0. <<>> \in Seq(Byte)
    OBVIOUS
  <2>1. ASSUME NEW b \in PeerBytes, DataByte(b) PROVE SendInv'
    <3>1. /\ UNCHANGED <<frag, utf8_tx>>
          /\ UNCHANGED peer \/ CloseWithReason(InvalidData, <<>>)
      BY <2>1 DEF DataByte, life, send
    <3> QED
      BY <1>2, <1>7, <2>0, <3>1, OwnClose, CloseSend
  <2>2. ASSUME NEW code \in PeerCodes, EndClose(code) PROVE SendInv'
    BY <2>2, EchoSend
  <2>3. CASE EndMessage
    <3>1. /\ UNCHANGED <<frag, utf8_tx>>
          /\ UNCHANGED peer \/ CloseWithReason(InvalidData, <<>>)
      BY <2>3 DEF EndMessage, life, send
    <3> QED
      BY <1>2, <1>7, <2>0, <3>1, OwnClose, CloseSend
  <2>4. CASE DataFull \/ DataClosed \/ EndPong
    BY <1>2, <1>7, <2>4 DEF DataFull, DataClosed, EndPong, life, send
  <2> QED
    BY <1>7, <2>1, <2>2, <2>3, <2>4, PongSend DEF PayloadStep
<1>8. CASE (ParseStarved \/ ParseReturn \/ UNCHANGED vars) /\ ~WicInit
  BY <1>2, <1>8 DEF ParseStarved, ParseReturn, life, send, vars
<1> QED
  BY <1>1, <1>3, <1>4, <1>5, <1>6, <1>7, <1>8 DEF Next, LibraryStep

\* What was sent is right in every state, with a quiet application.
LEMMA SendHolds == QuietApp => (Spec => []SendInv)
<1> SUFFICES ASSUME QuietApp PROVE Spec => []SendInv
  OBVIOUS
<1>1. Init => SendInv
  BY DEF Init, SendInv, PeerOk, TxAgrees, PeerZero
<1>2. TypeOK /\ Ledger /\ FrameInv /\ ShortInv /\ SendInv /\ [Next]_vars => SendInv'
  BY SendStep
<1> QED
  BY <1>1, <1>2, TypeCorrect, LedgerHolds, FramesHold, ShortHolds, PTL DEF Spec

\* Whatever the calls of a quiet application and their order, and whatever
\* the peer sends, a conforming receiver finds no fault with the frames, if the
\* application's pings and reasons fit a control frame and its codes exist.
THEOREM PeerOkHolds == QuietApp /\ ProperApp => (Spec => []PeerOk)
<1> SUFFICES ASSUME QuietApp, ProperApp PROVE Spec => []PeerOk
  OBVIOUS
<1>1. SendInv => PeerOk
  BY DEF SendInv
<1> QED
  BY <1>1, SendHolds, PTL

\* A refused send leaves the sender where its frames have led the receiver.
THEOREM TxAgreesHolds == QuietApp => (Spec => []TxAgrees)
<1> SUFFICES ASSUME QuietApp PROVE Spec => []TxAgrees
  OBVIOUS
<1>1. SendInv => TxAgrees
  BY DEF SendInv
<1> QED
  BY <1>1, SendHolds, PTL
=============================================================================
