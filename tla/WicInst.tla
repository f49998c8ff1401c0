------------------------------ MODULE WicInst ------------------------------
(***************************************************************************)
(* One wic_inst of the client role (src/wic.c): the life of the websocket  *)
(* (wic_init, wic_start, wic_parse, wic_close, wic_send and the handlers   *)
(* the library calls back), the frame parser with its receive buffer, and  *)
(* the sending side with its fragmentation state.                          *)
(*                                                                         *)
(* The library is single threaded; what interleaves is the application     *)
(* code that runs inside a handler and calls back into the same instance.  *)
(* Two activations can be live at once: act is where wic_parse stands and  *)
(* cls, on top of it, where close_with_reason stands.  Library code runs   *)
(* as its own steps while neither waits for a handler; when one does, the  *)
(* application has control, may call the API, and at last returns.         *)
(*                                                                         *)
(* Environment: on_send, on_buffer and rand do not call back into the      *)
(* instance, and wic_init, wic_start and wic_parse are not called from a   *)
(* handler, as in every integration of the repository.  A handler that is  *)
(* NULL behaves as one that returns at once (true, for on_message).        *)
(***************************************************************************)
EXTENDS Naturals, Sequences

CONSTANTS
    RxMax,       \* wic_init_arg.rx_max, bytes in the receive buffer
    CloseIn,     \* where the application calls wic_close_with_reason
    SendIn,      \* where the application calls wic_send_*
    TxData,      \* payloads of the messages the application sends
    PingData,    \* payloads of the pings it sends
    AppCodes,    \* close codes the application closes with
    Reasons,     \* and the reasons it gives
    PongMax,     \* the longest payload on_buffer can ever hold in a pong
    PeerOps,     \* opcodes the peer sends
    PeerSizes,   \* 7 bit payload sizes the peer sends
    PeerExt,     \* bytes of the peer's extended sizes
    PeerCodes,   \* codes in the peer's close frames
    PeerBytes,   \* payload bytes of the peer before masking
    PeerKeys,    \* bytes of the peer's masking keys
    PeerMasks,   \* values of the peer's mask bit
    PeerRsv,     \* whether the peer sets a reserved bit
    MaxChunk,    \* bound: bytes the application gives to one wic_parse
    MaxMsg       \* bound: payload bytes of one incoming message

----------------------------------------------------------------------------
(* Bytes and UTF-8.  The payload alphabet is the four bytes 0x00, 0x40,    *)
(* 0x82 and 0xC2, which XOR maps to each other: a byte is the set of its   *)
(* generators, and XOR is the symmetric difference.                        *)

Byte == SUBSET {"x40", "x82"}
Lead == {"x40", "x82"}          \* 0xC2 starts a two byte character
Cont == {"x82"}                 \* 0x82 ends one
Xor(a, b) == (a \ b) \cup (b \ a)

Utf8 == {"complete", "invalid", "mid"}

Utf8Parse(u, b) ==
    IF \/ u = "mid" /\ b = Cont
       \/ u = "complete" /\ b \notin {Lead, Cont}
    THEN "complete"
    ELSE IF u = "complete" /\ b = Lead THEN "mid" ELSE "invalid"

\* The states utf8_parse_string goes through over s from u: one run only.
Utf8Runs(u, s) ==
    {run \in [0 .. Len(s) -> Utf8] :
        /\ run[0] = u
        /\ \A i \in 1 .. Len(s) : run[i] = Utf8Parse(run[i - 1], s[i])}

----------------------------------------------------------------------------
State   == {"INIT", "PARSE_HANDSHAKE", "READY", "OPEN", "CLOSED"}
Control == {"CLOSE", "PING", "PONG"}
Data    == {"TEXT", "BINARY"}
Opcode  == {"CONTINUE", "RESERVE"} \cup Control \cup Data
Ext2    == {"SIZE_0", "SIZE_1"}
Ext8    == {"SIZE_2", "SIZE_3", "SIZE_4", "SIZE_5", "SIZE_6", "SIZE_7",
            "SIZE_8", "SIZE_9"}
Masking == {"MASK_0", "MASK_1", "MASK_2", "MASK_3"}
RxState == {"OPCODE", "SIZE", "DATA"} \cup Ext2 \cup Ext8 \cup Masking

\* Where wic_parse stands, and where close_with_reason stands.
Act == {"idle", "parse", "data", "on_open", "on_message",
        "http_close_transport", "http_failure"}
Cls == {"none", "close_transport", "on_close",
        "hs_close_transport", "hs_failure"}

\* The handlers that report on the connection.
Handlers == {"on_open", "on_close_transport", "on_handshake_failure", "on_close"}

Normal      == 1000
Protocol    == 1002
InvalidData == 1007
TooBig      == 1009
NotWritten  == {1005, 1006, 1015}
Echoed      == {1000, 1001, 1002, 1003, 1007, 1008, 1009, 1010, 1011}

ASSUME RxMaxAssumption == RxMax \in Nat \ {0} /\ RxMax < 65536
ASSUME AppAssumption ==
    /\ CloseIn \cup SendIn \subseteq (Act \cup Cls) \ {"none", "parse", "data"}
    /\ TxData \cup PingData \cup Reasons \subseteq Seq(Byte)
    /\ AppCodes \subseteq Nat
    /\ PongMax \in Nat
ASSUME PeerAssumption ==
    /\ PeerOps \subseteq Opcode
    /\ PeerSizes \subseteq 0 .. 127
    /\ PeerExt \subseteq 0 .. 255
    /\ PeerCodes \subseteq Nat
    /\ PeerBytes \cup PeerKeys \subseteq Byte
    /\ PeerMasks \cup PeerRsv \subseteq BOOLEAN
    /\ MaxChunk \in Nat
    /\ MaxMsg \in Nat

VARIABLES
    state,    \* self->state
    rx,       \* self->rx; rx.buf is the part of rx.s that is filled
    utf8_rx,  \* self->utf8_rx
    frag,     \* self->frag, the message being sent
    utf8_tx,  \* self->utf8_tx
    http,     \* whether the http parser has begun a response
    act,      \* where wic_parse stands
    cls,      \* where close_with_reason stands
    avail,    \* bytes left in the data given to wic_parse
    \* History, read by the properties only:
    seen,     \* how often each handler was called, counted up to two
    sent,     \* the incoming message as the peer sent it
    got,      \* the part of it the application has accepted
    owed,     \* whether a ping waits for its pong
    peer      \* what a conforming receiver makes of the frames sent

life == <<state, cls, seen, peer>>
recv == <<rx, utf8_rx, sent, got, owed>>
send == <<frag, utf8_tx>>
vars == <<state, rx, utf8_rx, frag, utf8_tx, http, act, cls, avail,
          seen, sent, got, owed, peer>>

RxFrame == [fin : BOOLEAN, opcode : Opcode, frag : Opcode, size : Nat,
            masked : BOOLEAN, mask : [0 .. 3 -> Byte], state : RxState,
            utf8 : Utf8, buf : Seq(Byte)]

Message == [enc : Opcode \cup {"none"}, bytes : Seq(Byte)]
SentMessage == [enc : Opcode \cup {"none"}, bytes : Seq(Byte),
                fin : BOOLEAN, idx : 0 .. 3]
PeerView == [frag : Opcode \cup {"none"}, mid : BOOLEAN,
             closed : BOOLEAN, ok : BOOLEAN]

\* memset of wic_inst: every enumeration starts at its first member.
RxZero == [fin |-> FALSE, opcode |-> "CONTINUE", frag |-> "CONTINUE",
           size |-> 0, masked |-> FALSE, mask |-> [i \in 0 .. 3 |-> {}],
           state |-> "OPCODE", utf8 |-> "complete", buf |-> <<>>]
NoMsg  == [enc |-> "none", bytes |-> <<>>]
SentZero == [enc |-> "none", bytes |-> <<>>, fin |-> FALSE, idx |-> 0]
PeerZero == [frag |-> "none", mid |-> FALSE, closed |-> FALSE, ok |-> TRUE]
SeenZero == [h \in Handlers |-> 0]

Init ==
    /\ state = "INIT"
    /\ rx = RxZero
    /\ utf8_rx = "complete"
    /\ frag = "CONTINUE"
    /\ utf8_tx = "complete"
    /\ http = "start"
    /\ act = "idle"
    /\ cls = "none"
    /\ avail = 0
    /\ seen = SeenZero
    /\ sent = SentZero
    /\ got = NoMsg
    /\ owed = FALSE
    /\ peer = PeerZero

\* The application's code runs: outside the library or inside a handler.
Standing == IF cls = "none" THEN act ELSE cls
AppMay(places) == Standing \in places

\* Two calls of a handler are as bad as any larger number.
Saw(h) == [seen EXCEPT ![h] = IF @ = 0 THEN 1 ELSE 2]

----------------------------------------------------------------------------
(* What a conforming receiver makes of a frame: RFC 6455 sections 5.4,     *)
(* 5.5, 7.4 and 8.1, stated on the frames and not on the code.             *)

\* The codes a close frame may carry, those of extensions and of applications
\* included.
CloseCodes == 1000 .. 1003 \cup 1007 .. 1011 \cup 3000 .. 4999

\* Every continuation byte completes a lead byte, every lead is completed.
WellFormed(mid, s) ==
    \A i \in 1 .. Len(s) :
        (s[i] = Cont) <=> (IF i = 1 THEN mid ELSE s[i - 1] = Lead)
EndsMid(mid, s) == IF s = <<>> THEN mid ELSE s[Len(s)] = Lead

Frame(op, fin, data, code) ==
    [op |-> op, fin |-> fin, data |-> data, code |-> code]

PeerKind(f) == IF f.op = "CONTINUE" THEN peer.frag ELSE f.op
PeerMid(f) == f.op = "CONTINUE" /\ peer.mid

PeerAccepts(f) ==
    /\ ~peer.closed
    /\ f.op = "CONTINUE" => peer.frag # "none"
    /\ f.op \in Data => peer.frag = "none"
    /\ PeerKind(f) = "TEXT" =>
          /\ WellFormed(PeerMid(f), f.data)
          /\ f.fin => ~EndsMid(PeerMid(f), f.data)
    /\ f.op \in {"PING", "PONG"} => Len(f.data) <= 125
    /\ f.op = "PONG" => owed
    /\ f.op = "CLOSE" =>
          /\ Len(f.data) + 2 <= 125
          /\ f.code \in CloseCodes
          /\ WellFormed(FALSE, f.data)
          /\ ~EndsMid(FALSE, f.data)

PeerGets(f) ==
    [frag   |-> IF f.op \in Control THEN peer.frag
                ELSE IF f.fin THEN "none" ELSE PeerKind(f),
     mid    |-> IF f.op \in Control THEN peer.mid
                ELSE ~f.fin /\ PeerKind(f) = "TEXT" /\ EndsMid(PeerMid(f), f.data),
     closed |-> peer.closed \/ f.op = "CLOSE",
     ok     |-> peer.ok /\ PeerAccepts(f)]

\* stream_put_frame and on_send, with a buffer from on_buffer or without.
PutFrame(f) == peer' = PeerGets(f)
NoBuffer == peer' = peer

----------------------------------------------------------------------------
(* close_with_reason, up to the first handler that can call back.          *)

CloseHandshake ==
    /\ cls' = "hs_close_transport"
    /\ seen' = Saw("on_close_transport")
    /\ peer' = peer

CloseOpen(code, reason) ==
    /\ cls' = "close_transport"
    /\ seen' = Saw("on_close_transport")
    /\ \/ NoBuffer
       \/ /\ code \notin NotWritten
          /\ \E run \in Utf8Runs("complete", reason) :
                PutFrame(Frame("CLOSE", TRUE,
                    IF run[Len(reason)] = "complete" THEN reason ELSE <<>>,
                    code))

\* Faulty: a closed instance is closed again.
CloseTwice(code, reason) ==
    /\ state' = "CLOSED"
    /\ \/ state = "INIT" /\ UNCHANGED <<cls, seen, peer>>
       \/ state = "PARSE_HANDSHAKE" /\ CloseHandshake
       \/ state \in {"READY", "OPEN", "CLOSED"} /\ CloseOpen(code, reason)

CloseWithReason(code, reason) ==
    /\ state' = "CLOSED"
    /\ \/ state \in {"INIT", "CLOSED"} /\ UNCHANGED <<cls, seen, peer>>
       \/ state = "PARSE_HANDSHAKE" /\ CloseHandshake
       \/ state \in {"READY", "OPEN"} /\ CloseOpen(code, reason)

\* Faulty: a failed handshake is not reported.
CloseTransportReturnSilent ==
    /\ \/ cls = "close_transport" /\ cls' = "on_close" /\ seen' = Saw("on_close")
       \/ cls = "hs_close_transport" /\ cls' = "none" /\ seen' = seen
    /\ UNCHANGED <<state, peer, http, act, avail, recv, send>>

\* Faulty: on_close is called whether or not the websocket was open.
CloseTransportReturnClosed ==
    /\ cls \in {"close_transport", "hs_close_transport"}
    /\ cls' = "on_close"
    /\ seen' = Saw("on_close")
    /\ UNCHANGED <<state, peer, http, act, avail, recv, send>>

\* on_close_transport returns to close_with_reason, which reports the end.
CloseTransportReturn ==
    /\ \/ cls = "close_transport" /\ cls' = "on_close" /\ seen' = Saw("on_close")
       \/ /\ cls = "hs_close_transport"
          /\ cls' = "hs_failure"
          /\ seen' = Saw("on_handshake_failure")
    /\ UNCHANGED <<state, peer, http, act, avail, recv, send>>

\* on_close or on_handshake_failure returns, and close_with_reason with it.
CloseReturn ==
    /\ cls \in {"on_close", "hs_failure"}
    /\ cls' = "none"
    /\ UNCHANGED <<state, seen, peer, http, act, avail, recv, send>>

----------------------------------------------------------------------------
(* Calls of the application.                                               *)

\* wic_init, with arguments and a URL it accepts, on an instance that was never
\* started or has ended.  One that fails leaves an instance that is not used.
WicInit ==
    /\ AppMay({"idle"})
    /\ state \in {"INIT", "CLOSED"}
    /\ state' = "INIT"
    /\ rx' = RxZero
    /\ utf8_rx' = "complete"
    /\ frag' = "CONTINUE"
    /\ utf8_tx' = "complete"
    /\ http' = "start"
    /\ seen' = SeenZero
    /\ sent' = SentZero
    /\ got' = NoMsg
    /\ owed' = FALSE
    /\ peer' = PeerZero
    /\ UNCHANGED <<act, cls, avail>>

\* wic_start, when on_buffer has room for the request; otherwise it leaves the
\* instance as it is.
WicStart ==
    /\ AppMay({"idle"})
    /\ state = "INIT"
    /\ state' = "PARSE_HANDSHAKE"
    /\ UNCHANGED <<cls, seen, peer, http, act, avail, recv, send>>

WicCloseWithReason ==
    /\ AppMay(CloseIn)
    /\ \E code \in AppCodes, reason \in Reasons : CloseWithReason(code, reason)
    /\ UNCHANGED <<http, act, avail, recv, send>>

\* Faulty: any state is taken to OPEN.
PromotedAlways == "OPEN"

\* allowed_to_send: a client that is READY is taken to OPEN.
Promoted == IF state = "READY" THEN "OPEN" ELSE state

\* Faulty: the fragmentation state changes before there is a buffer.
SendRefusedEarly ==
    /\ AppMay(SendIn)
    /\ state' = Promoted
    /\ frag' = IF Promoted = "OPEN" /\ frag = "CONTINUE" THEN "TEXT" ELSE frag
    /\ UNCHANGED <<cls, seen, peer, http, act, avail, recv, utf8_tx>>

\* A send that ends in NOT_OPEN, BAD_STATE, BAD_INPUT, TOO_LARGE or
\* WOULD_BLOCK.
SendRefused ==
    /\ AppMay(SendIn)
    /\ state' = Promoted
    /\ UNCHANGED <<cls, seen, peer, http, act, avail, recv, send>>

WicSendBinary(fin, data) ==
    /\ AppMay(SendIn)
    /\ Promoted = "OPEN"
    /\ frag \in {"CONTINUE", "BINARY"}
    /\ state' = Promoted
    /\ PutFrame(Frame(IF frag = "BINARY" THEN "CONTINUE" ELSE "BINARY",
                      fin, data, 0))
    /\ frag' = IF fin THEN "CONTINUE" ELSE "BINARY"
    /\ UNCHANGED <<utf8_tx, cls, seen, http, act, avail, recv>>

\* Faulty: every fragment is validated on its own.
TextFromStart == "complete"

\* A fragment is validated from where the last one ended.
TextFrom == IF frag = "CONTINUE" THEN "complete" ELSE utf8_tx

WicSendText(fin, data) ==
    /\ AppMay(SendIn)
    /\ Promoted = "OPEN"
    /\ frag \in {"CONTINUE", "TEXT"}
    /\ state' = Promoted
    /\ \E run \in Utf8Runs(TextFrom, data) :
          /\ run[Len(data)] # "invalid"
          /\ fin => run[Len(data)] = "complete"
          /\ utf8_tx' = run[Len(data)]
    /\ PutFrame(Frame(IF frag = "TEXT" THEN "CONTINUE" ELSE "TEXT",
                      fin, data, 0))
    /\ frag' = IF fin THEN "CONTINUE" ELSE "TEXT"
    /\ UNCHANGED <<cls, seen, http, act, avail, recv>>

\* wic_send_ping and wic_send_ping_with_payload, which does not look at the size.
WicSendPing(data) ==
    /\ AppMay(SendIn)
    /\ Promoted = "OPEN"
    /\ state' = Promoted
    /\ PutFrame(Frame("PING", TRUE, data, 0))
    /\ UNCHANGED <<cls, seen, http, act, avail, recv, send>>

----------------------------------------------------------------------------
(* wic_parse while the handshake response is read.  The http parser is     *)
(* external: given bytes it wants more, fails, or completes the message,   *)
(* which on_response_complete accepts or refuses; given none in the middle *)
(* of a response it fails, or completes a body that ends with the stream.  *)

ParseHandshake(n) ==
    /\ AppMay({"idle"})
    /\ state = "PARSE_HANDSHAKE"
    /\ n \in 0 .. MaxChunk

HandshakeMore(n) ==
    /\ ParseHandshake(n)
    /\ n > 0
    /\ http' = "partial"
    /\ UNCHANGED <<life, act, avail, recv, send>>

\* The parser reports an error, or on_response_complete returned -1 after
\* it had set READY.  The handlers run before the state becomes CLOSED.
HandshakeFailed(n) ==
    /\ ParseHandshake(n)
    /\ n > 0 \/ http = "partial"
    /\ state' \in {"PARSE_HANDSHAKE", "READY"}
    /\ act' = "http_close_transport"
    /\ seen' = Saw("on_close_transport")
    /\ UNCHANGED <<cls, peer, http, avail, recv, send>>

HttpCloseTransportReturn ==
    /\ AppMay({"http_close_transport"})
    /\ act' = "http_failure"
    /\ seen' = Saw("on_handshake_failure")
    /\ UNCHANGED <<state, cls, peer, http, avail, recv, send>>

\* Faulty: a failed handshake does not close the instance.
HttpFailureReturnOpen ==
    /\ AppMay({"http_failure"})
    /\ act' = "parse"
    /\ UNCHANGED <<state, cls, seen, peer, http, avail, recv, send>>

HttpFailureReturn ==
    /\ AppMay({"http_failure"})
    /\ state' = "CLOSED"
    /\ act' = "parse"
    /\ UNCHANGED <<cls, seen, peer, http, avail, recv, send>>

\* The response is complete and accepted; the rest of the bytes are frames.
HandshakeAccepted(n) ==
    /\ ParseHandshake(n)
    /\ n > 0
    /\ state' = "READY"
    /\ act' = "on_open"
    /\ seen' = Saw("on_open")
    /\ avail' \in 0 .. n - 1
    /\ UNCHANGED <<cls, peer, http, recv, send>>

OnOpenReturn ==
    /\ AppMay({"on_open"})
    /\ state' = "OPEN"
    /\ act' = "parse"
    /\ UNCHANGED <<cls, seen, peer, http, avail, recv, send>>

----------------------------------------------------------------------------
(* wic_parse on an open websocket: one step per turn of its loop, split    *)
(* where the turn goes on to parse_data.                                   *)

WicParse(n) ==
    /\ AppMay({"idle"})
    /\ state = "OPEN"
    /\ n \in 0 .. MaxChunk
    /\ act' = "parse"
    /\ avail' = n
    /\ UNCHANGED <<life, http, recv, send>>

\* Blocked, or no longer open: wic_parse returns.
Return == act' = "idle" /\ avail' = 0

ParseReturn ==
    /\ AppMay({"parse"})
    /\ state # "OPEN"
    /\ Return
    /\ UNCHANGED <<life, http, recv, send>>

\* Faulty: a turn that starts within a payload wants a byte first.
InDataStarving == \/ AppMay({"data"})
                  \/ AppMay({"parse"}) /\ state = "OPEN" /\ rx.state = "DATA"
                       /\ avail > 0

\* parse_data runs in a turn of its own or after the header step, whatever
\* the state has become by then.
InData == \/ AppMay({"data"})
          \/ AppMay({"parse"}) /\ state = "OPEN" /\ rx.state = "DATA"

\* Faulty: off by one.
RoomPastEnd == Len(rx.buf) <= RxMax

\* stream_eof of the receive buffer, negated.
Room == Len(rx.buf) < RxMax

\* The next header byte is taken from the data.
HeaderByte(where) ==
    /\ AppMay({"parse"})
    /\ state = "OPEN"
    /\ rx.state \in where
    /\ avail > 0
    /\ avail' = avail - 1

\* A header step that reaches the payload goes on to parse_data.
Turn == act' = IF rx'.state = "DATA" THEN "data" ELSE "parse"

\* Faulty: a payload that has not arrived does not block.
ParseStarvedSpins ==
    /\ avail = 0
    /\ \/ /\ AppMay({"parse"}) /\ state = "OPEN" /\ rx.state # "DATA"
          /\ Return
       \/ /\ InData /\ rx.size > 0 /\ Room
          /\ act' = "parse" /\ UNCHANGED avail
    /\ UNCHANGED <<life, http, recv, send>>

\* Nothing is left of the data and the next step would need a byte.
ParseStarved ==
    /\ avail = 0
    /\ \/ AppMay({"parse"}) /\ state = "OPEN" /\ rx.state # "DATA"
       \/ InData /\ rx.size > 0 /\ Room
    /\ Return
    /\ UNCHANGED <<life, http, recv, send>>

\* The opcode a payload is handled as.
Kind(r) == IF r.opcode = "CONTINUE" THEN r.frag ELSE r.opcode

Legal(fin, rsv, op) ==
    /\ ~rsv
    /\ \/ op \in Control /\ fin
       \/ op = "CONTINUE" /\ rx.frag # "CONTINUE"
       \/ op \in Data /\ rx.frag = "CONTINUE"

\* A continuation goes on with the character the last fragment ended in.
Resumed(op) ==
    IF op = "CONTINUE" /\ rx.frag # "CONTINUE" THEN utf8_rx ELSE "complete"

ParseOpcode(fin, rsv, op) ==
    /\ HeaderByte({"OPCODE"})
    /\ rx' = [rx EXCEPT
                !.buf = <<>>,
                !.fin = fin,
                !.opcode = IF rsv THEN @ ELSE op,
                !.utf8 = IF rsv THEN "complete" ELSE Resumed(op),
                !.state = IF rsv THEN @ ELSE "SIZE"]
    /\ Turn
    /\ IF Legal(fin, rsv, op)
       THEN UNCHANGED life
       ELSE CloseWithReason(Protocol, <<>>)
    /\ sent' = [sent EXCEPT
                  !.enc = IF Legal(fin, rsv, op) /\ op \in Data THEN op ELSE @,
                  !.fin = IF op \in Control THEN @ ELSE fin,
                  !.idx = 0]
    /\ owed' = (owed \/ (op = "PING" /\ Legal(fin, rsv, op)))
    /\ UNCHANGED <<utf8_rx, got, http, send>>

\* The state that follows the size.
AfterSize(masked) == IF masked THEN "MASK_0" ELSE "DATA"

\* The bound of the model: the peer's message stays within MaxMsg bytes.
WithinBound(size) ==
    Kind(rx) \in Data => Len(sent.bytes) + size <= MaxMsg

ControlSizeError(size) ==
    \/ rx.opcode = "CLOSE" /\ (size > 125 \/ size = 1)
    \/ rx.opcode \in {"PING", "PONG"} /\ size > 125

ControlTooBig(size) == rx.opcode \in Control /\ size > RxMax

ParseSize(masked, size) ==
    /\ HeaderByte({"SIZE"})
    /\ size < 126 => WithinBound(size)
    /\ rx' = [rx EXCEPT
                !.masked = masked,
                !.size = IF size >= 126 THEN 0 ELSE size,
                !.state = IF size = 127 THEN "SIZE_2"
                          ELSE IF size = 126 THEN "SIZE_0"
                          ELSE AfterSize(masked)]
    /\ Turn
    /\ IF ControlSizeError(size) THEN CloseWithReason(Protocol, <<>>)
       ELSE IF rx.opcode = "CLOSE" /\ size = 0
            THEN CloseWithReason(Normal, <<>>)
       ELSE IF ControlTooBig(size) THEN CloseWithReason(TooBig, <<>>)
       ELSE UNCHANGED life
    /\ UNCHANGED <<utf8_rx, sent, got, owed, http, send>>

NextExt(s) ==
    CASE s = "SIZE_0" -> "SIZE_1"
      [] s = "SIZE_2" -> "SIZE_3"
      [] s = "SIZE_3" -> "SIZE_4"
      [] s = "SIZE_4" -> "SIZE_5"
      [] s = "SIZE_5" -> "SIZE_6"
      [] s = "SIZE_6" -> "SIZE_7"
      [] s = "SIZE_7" -> "SIZE_8"
      [] s = "SIZE_8" -> "SIZE_9"
      [] OTHER -> AfterSize(rx.masked)

\* rx.size is 64 bits wide and starts from 0, so eight shifts lose nothing.
ParseExtendedSize(b) ==
    /\ HeaderByte(Ext2 \cup Ext8)
    /\ WithinBound((rx.size * 256 + b) *
                     (IF rx.state \in {"SIZE_1", "SIZE_9"} THEN 1 ELSE 256))
    /\ rx' = [rx EXCEPT
                !.size = @ * 256 + b,
                !.state = NextExt(@)]
    /\ Turn
    /\ UNCHANGED <<life, utf8_rx, sent, got, owed, http, send>>

MaskIndex(s) ==
    CASE s = "MASK_0" -> 0 [] s = "MASK_1" -> 1 [] s = "MASK_2" -> 2 [] OTHER -> 3

NextMask(s) ==
    CASE s = "MASK_0" -> "MASK_1"
      [] s = "MASK_1" -> "MASK_2"
      [] s = "MASK_2" -> "MASK_3"
      [] OTHER -> "DATA"

ParseMask(b) ==
    /\ HeaderByte(Masking)
    /\ rx' = [rx EXCEPT
                !.mask = [@ EXCEPT ![MaskIndex(rx.state)] = b],
                !.state = NextMask(@)]
    /\ Turn
    /\ UNCHANGED <<life, utf8_rx, sent, got, owed, http, send>>

----------------------------------------------------------------------------
(* parse_data.                                                             *)

\* The receive buffer is full before the frame is: what there is goes to
\* the application as a fragment that is not final.
DataFull ==
    /\ InData
    /\ rx.size > 0
    /\ ~Room
    /\ Kind(rx) \in Data
    /\ act' = "on_message"
    /\ UNCHANGED <<life, http, avail, recv, send>>

\* Faulty: the key is not cycled through.
KeyFirst == 0

\* The key byte the code applies: it counts from the start of the buffer.
KeyIndex == Len(rx.buf) % 4

\* Faulty: continuations of a text are not checked.
CheckedFirst == rx.opcode = "TEXT" \/ (rx.opcode = "CLOSE" /\ Len(rx.buf) >= 2)

\* Whether the next payload byte is text; a close frame starts with a code.
Checked == Kind(rx) = "TEXT" \/ (Kind(rx) = "CLOSE" /\ Len(rx.buf) >= 2)

\* One payload byte; plain is the byte the peer masked with the key byte
\* at its index in the frame.
DataByte(plain) ==
    LET wire == IF rx.masked THEN Xor(plain, rx.mask[sent.idx]) ELSE plain
        b    == IF rx.masked THEN Xor(wire, rx.mask[KeyIndex]) ELSE wire
        u    == IF Checked THEN Utf8Parse(rx.utf8, b) ELSE rx.utf8
    IN  /\ InData
        /\ rx.size > 0
        /\ Room
        /\ avail > 0
        /\ avail' = avail - 1
        /\ act' = "parse"
        /\ rx' = [rx EXCEPT !.size = @ - 1, !.buf = Append(@, b), !.utf8 = u]
        /\ IF Checked /\ u = "invalid"
           THEN CloseWithReason(InvalidData, <<>>)
           ELSE UNCHANGED life
        /\ sent' = [sent EXCEPT
                      !.idx = (@ + 1) % 4,
                      !.bytes = IF Kind(rx) \in Data
                                THEN Append(@, plain) ELSE @]
        /\ UNCHANGED <<utf8_rx, got, owed, http, send>>

\* The payload is complete and the websocket still open.
FrameEnd(kinds) ==
    /\ InData
    /\ rx.size = 0
    /\ state = "OPEN"
    /\ Kind(rx) \in kinds

\* parse_data finds the websocket closed by the header step before it.
DataClosed ==
    /\ AppMay({"data"})
    /\ rx.size = 0
    /\ state # "OPEN"
    /\ act' = "parse"
    /\ UNCHANGED <<life, http, avail, recv, send>>

\* Faulty: only a text of one frame is checked at its end.
CutShortFirst == rx.opcode = "TEXT" /\ rx.fin /\ rx.utf8 # "complete"

\* A text that ends within a character.
CutShort == Kind(rx) = "TEXT" /\ rx.fin /\ rx.utf8 # "complete"

EndMessage ==
    /\ FrameEnd(Data)
    /\ IF CutShort
       THEN /\ CloseWithReason(InvalidData, <<>>)
            /\ rx' = [rx EXCEPT !.state = "OPCODE"]
            /\ act' = "parse"
       ELSE act' = "on_message" /\ UNCHANGED <<life, rx>>
    /\ UNCHANGED <<utf8_rx, sent, got, owed, http, avail, send>>

EndClose(code) ==
    /\ FrameEnd({"CLOSE"})
    /\ \/ /\ code \in Echoed /\ rx.utf8 = "complete"
          /\ CloseWithReason(code, SubSeq(rx.buf, 3, Len(rx.buf)))
       \/ code \in 3000 .. 4999 /\ CloseWithReason(Normal, <<>>)
       \/ /\ code \in Echoed => rx.utf8 # "complete"
          /\ code \notin 3000 .. 4999
          /\ CloseWithReason(Protocol, <<>>)
    /\ rx' = [rx EXCEPT !.state = "OPCODE"]
    /\ act' = "parse"
    /\ UNCHANGED <<utf8_rx, sent, got, owed, http, avail, send>>

\* Faulty: a ping for which there is no buffer is dropped.
EndPingDropped ==
    /\ FrameEnd({"PING"})
    /\ rx' = [rx EXCEPT !.state = "OPCODE"]
    /\ act' = "parse"
    /\ UNCHANGED <<life, owed, avail, utf8_rx, sent, got, http, send>>

\* send_pong_with_payload; a pong that no buffer can hold is dropped.
SendPong ==
    IF Len(rx.buf) <= PongMax
    THEN PutFrame(Frame("PONG", TRUE, rx.buf, 0)) ELSE NoBuffer

\* While there is no buffer, the ping is kept and wic_parse is blocked.
EndPing ==
    /\ FrameEnd({"PING"})
    /\ \/ /\ SendPong
          /\ rx' = [rx EXCEPT !.state = "OPCODE"]
          /\ owed' = FALSE
          /\ act' = "parse"
          /\ UNCHANGED avail
       \/ /\ Len(rx.buf) <= PongMax
          /\ Return
          /\ UNCHANGED <<peer, rx, owed>>
    /\ UNCHANGED <<state, cls, seen, utf8_rx, sent, got, http, send>>

EndPong ==
    /\ FrameEnd({"PONG"})
    /\ rx' = [rx EXCEPT !.state = "OPCODE"]
    /\ act' = "parse"
    /\ UNCHANGED <<life, utf8_rx, sent, got, owed, http, avail, send>>

\* The argument fin of the on_message call that is under way.
MessageFin == rx.size = 0 /\ rx.fin

\* Faulty: the end of a message does not end its fragmentation.
AcceptedOpen ==
    IF rx.size > 0 THEN [rx EXCEPT !.buf = <<>>]
    ELSE [rx EXCEPT !.frag = Kind(rx), !.state = "OPCODE"]

\* After on_message returned true: the buffer is rewound within a frame, and
\* the fragmentation state is brought up to date at the end of one.
Accepted ==
    IF rx.size > 0 THEN [rx EXCEPT !.buf = <<>>]
    ELSE [rx EXCEPT !.frag = IF rx.fin THEN "CONTINUE" ELSE Kind(rx),
                    !.state = "OPCODE"]

OnMessageAccept ==
    /\ AppMay({"on_message"})
    /\ act' = "parse"
    /\ rx' = Accepted
    /\ utf8_rx' = IF rx.size = 0 /\ ~rx.fin /\ Kind(rx) = "TEXT"
                  THEN rx.utf8 ELSE utf8_rx
    /\ got' = IF MessageFin THEN NoMsg
              ELSE [enc |-> Kind(rx), bytes |-> got.bytes \o rx.buf]
    /\ sent' = IF MessageFin
               THEN [sent EXCEPT !.enc = "none", !.bytes = <<>>] ELSE sent
    /\ UNCHANGED <<life, owed, http, avail, send>>

\* Faulty: the buffer is rewound although the message was refused.
OnMessageRefuseRewinds ==
    /\ AppMay({"on_message"})
    /\ Return
    /\ rx' = [rx EXCEPT !.buf = <<>>]
    /\ UNCHANGED <<life, http, utf8_rx, sent, got, owed, send>>

\* on_message returns false: the message stays and wic_parse is blocked.
OnMessageRefuse ==
    /\ AppMay({"on_message"})
    /\ Return
    /\ UNCHANGED <<life, http, recv, send>>

----------------------------------------------------------------------------
AppStep ==
    \/ WicInit \/ WicStart \/ WicCloseWithReason
    \/ SendRefused
    \/ \E data \in PingData : WicSendPing(data)
    \/ \E fin \in BOOLEAN, data \in TxData :
          WicSendBinary(fin, data) \/ WicSendText(fin, data)

ParseCall ==
    \E n \in 0 .. MaxChunk :
        \/ HandshakeMore(n) \/ HandshakeFailed(n) \/ HandshakeAccepted(n)
        \/ WicParse(n)

HandlerReturn ==
    \/ CloseTransportReturn \/ CloseReturn \/ OnOpenReturn
    \/ HttpCloseTransportReturn \/ HttpFailureReturn
    \/ OnMessageAccept \/ OnMessageRefuse

HeaderStep ==
    \/ \E fin \in BOOLEAN, rsv \in PeerRsv, op \in PeerOps :
          ParseOpcode(fin, rsv, op)
    \/ \E masked \in PeerMasks, size \in PeerSizes : ParseSize(masked, size)
    \/ \E b \in PeerExt : ParseExtendedSize(b)
    \/ \E b \in PeerKeys : ParseMask(b)

PayloadStep ==
    \/ \E b \in PeerBytes : DataByte(b)
    \/ \E code \in PeerCodes : EndClose(code)
    \/ DataFull \/ DataClosed \/ EndMessage \/ EndPing \/ EndPong

LibraryStep == HeaderStep \/ PayloadStep \/ ParseStarved \/ ParseReturn

Next == AppStep \/ ParseCall \/ HandlerReturn \/ LibraryStep

Spec == Init /\ [][Next]_vars

\* The library runs on until it waits for a handler, handlers return, the
\* application keeps calling wic_parse, with data or without (the loops of
\* transport_recv and of the mbed worker), and on_message does not refuse
\* for ever nor does on_buffer for ever have no buffer for a pong.
Fairness ==
    /\ WF_vars(LibraryStep)
    /\ WF_vars(HandlerReturn)
    /\ WF_vars(\E n \in 0 .. MaxChunk : WicParse(n))
    /\ SF_vars(OnMessageAccept)
    /\ SF_vars(EndPing /\ ~owed')

FairSpec == Spec /\ Fairness

----------------------------------------------------------------------------
(* Properties.                                                             *)

\* The application of the theorems: it does not close in on_open, and does
\* not call back while wic_parse reports a failed handshake.
QuietApp ==
    /\ CloseIn \cap {"on_open", "http_close_transport", "http_failure"} = {}
    /\ SendIn \cap {"http_close_transport", "http_failure"} = {}

\* What the code leaves to the application: pings and close reasons that fit a
\* control frame, and close codes that exist (those include/wic.h lists).
ProperApp ==
    /\ \A data \in PingData : Len(data) <= 125
    /\ \A reason \in Reasons : Len(reason) + 2 <= 125
    /\ AppCodes \subseteq CloseCodes \cup NotWritten

LifeType ==
    /\ state \in State
    /\ cls \in Cls
    /\ seen \in [Handlers -> 0 .. 2]
    /\ peer \in PeerView

RecvType ==
    /\ rx \in RxFrame
    /\ Len(rx.buf) <= RxMax
    /\ utf8_rx \in Utf8
    /\ sent \in SentMessage
    /\ got \in Message
    /\ owed \in BOOLEAN

SendType == frag \in {"CONTINUE", "TEXT", "BINARY"} /\ utf8_tx \in Utf8

CallType == http \in {"start", "partial"} /\ act \in Act /\ avail \in Nat

\* The types of the variables; the receive buffer never holds more than
\* rx_max bytes (stream_eof guards every write of parse_data).
TypeOK == LifeType /\ RecvType /\ SendType /\ CallType

\* An instance that was closed stays closed until wic_init: no send, parse
\* or handler that is still on the stack brings it back (wic.c, the switch
\* of close_with_reason and the state assignments of wic_parse).
CloseFinal == [][state = "CLOSED" => state' \in {"CLOSED", "INIT"}]_vars

Counts(o, c, t, f) ==
    /\ seen["on_open"] = o
    /\ seen["on_close"] = c
    /\ seen["on_close_transport"] = t
    /\ seen["on_handshake_failure"] = f

Failing == act \in {"http_close_transport", "http_failure"}

\* What the handlers have reported, for each place the instance can be in.
\* The cases that are missing cannot occur with a quiet application.
Ledger ==
    \/ state = "INIT" /\ act = "idle" /\ cls = "none" /\ Counts(0, 0, 0, 0)
    \/ /\ state = "PARSE_HANDSHAKE" /\ act = "idle" /\ cls = "none"
       /\ Counts(0, 0, 0, 0)
    \/ /\ state \in {"PARSE_HANDSHAKE", "READY"} /\ cls = "none"
       /\ \/ act = "http_close_transport" /\ Counts(0, 0, 1, 0)
          \/ act = "http_failure" /\ Counts(0, 0, 1, 1)
    \/ state = "READY" /\ act = "on_open" /\ cls = "none" /\ Counts(1, 0, 0, 0)
    \/ state = "OPEN" /\ ~Failing /\ cls = "none" /\ Counts(1, 0, 0, 0)
    \/ /\ state = "CLOSED" /\ ~Failing /\ act # "on_open"
       /\ \/ cls = "close_transport" /\ Counts(1, 0, 1, 0)
          \/ cls \in {"none", "on_close"} /\ Counts(1, 1, 1, 0)
          \/ cls = "hs_close_transport" /\ Counts(0, 0, 1, 0)
          \/ cls \in {"none", "hs_failure"} /\ Counts(0, 0, 1, 1)
          \/ cls = "none" /\ Counts(0, 0, 0, 0)

\* Once the application has been told that the websocket is closed, it is
\* (include/wic.h on wic_on_close_fn: "it is now closed").
ClosedIsClosed == seen["on_close"] > 0 => state = "CLOSED"

\* The application learns of one end at most, and of the right one: on_close
\* only after on_open, on_handshake_failure only without it, and the
\* transport is closed once (close_with_reason and the error path of
\* wic_parse report independently of each other).
OneOutcome ==
    /\ \A h \in Handlers : seen[h] <= 1
    /\ seen["on_close"] <= seen["on_open"]
    /\ seen["on_handshake_failure"] + seen["on_open"] <= 1

\* When the application is back outside the library, an end was reported
\* to it in full: no path leaves the transport open or the end untold.
EndReported ==
    (Standing = "idle" /\ state = "CLOSED") =>
        /\ seen["on_close"] = seen["on_open"]
        /\ seen["on_close_transport"] =
              seen["on_close"] + seen["on_handshake_failure"]

\* Whatever the calls and their order, a conforming receiver finds no fault
\* with the frames sent: fragments are not mixed, text is UTF-8 across
\* fragments, nothing follows a close frame, a pong answers one ping, and a
\* control frame has no more than 125 bytes of payload nor a code that does not
\* exist.  The code sees to all of it but the last two where the payload or the
\* code is the application's (ProperApp).
PeerOk == peer.ok

\* The fragmentation state of the sender is the one its frames have led the
\* receiver to: a refused send leaves no half of it behind.
TxAgrees ==
    /\ (frag = "CONTINUE") = (peer.frag = "none")
    /\ frag # "CONTINUE" => peer.frag = frag
    /\ frag = "TEXT" => (utf8_tx = "mid") = peer.mid

\* Payload that has arrived but is not yet with the application.
Buffered ==
    IF rx.state = "DATA" /\ Kind(rx) \in Data THEN rx.buf ELSE <<>>

\* No byte of a message is lost, repeated, reordered or altered: while the
\* websocket is open, what the peer sent of the current message is what the
\* application accepted followed by what is buffered, whatever was refused,
\* split at the end of the buffer or interrupted by control frames.
InOrder ==
    state = "OPEN" =>
        /\ sent.bytes = got.bytes \o Buffered
        /\ got.enc \in {"none", sent.enc}
        /\ sent.enc = "none" => sent.bytes = <<>>

\* The parser is within a fragmented message exactly when the peer is.
RxAgrees ==
    (state = "OPEN" /\ rx.state = "OPCODE") =>
        rx.frag = IF sent.enc = "none" THEN "CONTINUE" ELSE sent.enc

\* A message ends for the application where it ends for the peer, complete
\* and, if text, as UTF-8; and no message begins before the last has ended.
Boundaries ==
    [][/\ (sent.enc # "none" /\ sent'.enc = "none" /\ state = "OPEN") =>
            /\ sent.fin
            /\ got.bytes \o rx.buf = sent.bytes
            /\ sent.enc = "TEXT" => /\ WellFormed(FALSE, sent.bytes)
                                    /\ ~EndsMid(FALSE, sent.bytes)
       /\ (sent'.enc # sent.enc) => "none" \in {sent.enc, sent'.enc}]_vars

\* on_message is called with text only if it is UTF-8 together with the pieces
\* before it, up to a character that the next piece may complete; there is none
\* to complete after the final one.
TextIsUtf8 ==
    act = "on_message" /\ Kind(rx) = "TEXT" =>
        /\ WellFormed(FALSE, got.bytes \o rx.buf)
        /\ MessageFin => ~EndsMid(FALSE, got.bytes \o rx.buf)

\* A ping is kept until its pong is sent: parsing does not go past it.
PingKept ==
    (state = "OPEN" /\ owed) => rx.opcode = "PING" /\ rx.state # "OPCODE"

\* wic_parse returns: its loop does not spin on a full buffer or on a
\* message that was refused.
ParseReturns == (act # "idle") ~> (act = "idle")

\* A message that has arrived in full is delivered, unless the websocket
\* ends first, although the application refuses it now and then.
Arrived == sent.enc # "none" /\ sent.fin /\ rx.size = 0 /\ rx.state = "DATA"
             /\ Kind(rx) \in Data
Delivered == Arrived ~> (~Arrived \/ state # "OPEN")

\* A ping that has arrived is answered, unless the websocket ends first.
PongDue == owed /\ rx.state = "DATA" /\ rx.size = 0
PongSent == PongDue ~> (~PongDue \/ state # "OPEN")

----------------------------------------------------------------------------
(* Refinement of the contract with the application.                        *)

\* The events the handlers have shown to the application, in the contract's
\* words; a combination it does not know is none of them.
Told ==
    CASE seen["on_open"] = 0 /\ seen["on_close"] = 0
           /\ seen["on_handshake_failure"] = 0 -> "nothing"
      [] seen["on_open"] = 1 /\ seen["on_close"] = 0
           /\ seen["on_handshake_failure"] = 0 -> "open"
      [] seen["on_open"] = 1 /\ seen["on_close"] = 1
           /\ seen["on_handshake_failure"] = 0 -> "close"
      [] seen["on_open"] = 0 /\ seen["on_close"] = 0
           /\ seen["on_handshake_failure"] = 1 -> "failure"
      [] OTHER -> "confusion"

\* A failed handshake is over before state says so.
Phase ==
    IF state = "CLOSED" \/ Failing THEN "over"
    ELSE IF state = "INIT" THEN "new"
    ELSE IF state = "PARSE_HANDSHAKE" THEN "connecting" ELSE "open"

Transport ==
    CASE seen["on_close_transport"] = 0 -> "up"
      [] seen["on_close_transport"] = 1 -> "closed"
      [] OTHER -> "closed twice"

Session == INSTANCE WicSession WITH
    phase <- Phase, transport <- Transport, told <- Told

\* wic_inst keeps the contract of WicSession, the report of every end
\* included (close_with_reason and the error path of wic_parse).
KeepsSession == Session!Spec
=============================================================================
