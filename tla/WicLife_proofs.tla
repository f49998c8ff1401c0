--------------------------- MODULE WicLife_proofs ---------------------------
(***************************************************************************)
(* Proofs about the life of a wic_inst: what the handlers report, for every *)
(* value of the constants that makes the application a quiet one.          *)
(*                                                                         *)
(* The invariant that carries them is Ledger.  It lists, for every place   *)
(* the instance can be in, which handlers have been called; OneOutcome and *)
(* EndReported alone are not inductive, because they do not say what a     *)
(* handler that is still running has left to report.                       *)
(***************************************************************************)
EXTENDS WicInst_proofs

\* Where wic_parse stands once the handshake is behind it.
Plain == {"idle", "parse", "data", "on_message"}

\* What one more call of a handler does to the counts.
LEMMA SawCounts ==
    ASSUME seen \in [Handlers -> 0 .. 2], NEW h \in Handlers, seen' = Saw(h)
    PROVE  /\ seen'[h] = IF seen[h] = 0 THEN 1 ELSE 2
           /\ \A g \in Handlers \ {h} : seen'[g] = seen[g]
  BY DEF Saw

\* A step that only moves wic_parse, after the handshake, keeps the ledger.
LEMMA LedgerMove ==
    ASSUME Ledger, ~Failing, act # "on_open",
           state \in {"OPEN", "CLOSED"}, cls = "none",
           act' \in Plain, UNCHANGED <<state, cls, seen>>
    PROVE  Ledger'
<1>1. ~Failing' /\ act' # "on_open"
  BY DEF Failing, Plain
<1>2. CASE state = "OPEN"
  BY <1>1, <1>2 DEF Ledger, Counts
<1>3. CASE state = "CLOSED"
  BY <1>1, <1>3 DEF Ledger, Counts
<1> QED
  BY <1>2, <1>3

\* Closing keeps the ledger where the application may close.
LEMMA LedgerClose ==
    ASSUME LifeType, Ledger, ~Failing, act # "on_open",
           NEW code, NEW reason, CloseWithReason(code, reason),
           act' = act \/ (act' \in Plain /\ state \in {"OPEN", "CLOSED"} /\ cls = "none")
    PROVE  Ledger'
<1>1. ~Failing' /\ act' # "on_open" /\ state' = "CLOSED"
  BY DEF CloseWithReason, Failing, Plain
<1>2. CASE UNCHANGED <<cls, seen, peer>> /\ state = "INIT"
  BY <1>1, <1>2 DEF Ledger, Counts
<1>3. CASE UNCHANGED <<cls, seen, peer>> /\ state = "CLOSED"
  BY <1>1, <1>3 DEF Ledger, Counts
<1>4. CASE state = "PARSE_HANDSHAKE" /\ CloseHandshake
  <2>1. Counts(0, 0, 0, 0)
    BY <1>4 DEF Ledger, Failing
  <2>2. Counts(0, 0, 1, 0)'
    BY <1>4, <2>1, SawCounts DEF CloseHandshake, Counts, Handlers, LifeType
  <2> QED
    BY <1>1, <1>4, <2>2 DEF Ledger, CloseHandshake
<1>5. CASE state \in {"READY", "OPEN"} /\ CloseOpen(code, reason)
  <2>1. Counts(1, 0, 0, 0)
    BY <1>5 DEF Ledger, Failing
  <2>2. Counts(1, 0, 1, 0)'
    BY <1>5, <2>1, SawCounts DEF CloseOpen, Counts, Handlers, LifeType
  <2> QED
    BY <1>1, <1>5, <2>2 DEF Ledger, CloseOpen
<1> QED
  BY <1>2, <1>3, <1>4, <1>5 DEF CloseWithReason

\* A send takes READY to OPEN and touches nothing else of the ledger.
LEMMA LedgerSend ==
    ASSUME QuietApp, Ledger, AppMay(SendIn), state' = Promoted,
           UNCHANGED <<act, cls, seen>>
    PROVE  Ledger'
<1>1. cls = "none" => ~Failing
  BY DEF QuietApp, AppMay, Standing, Failing
<1>2. cls # "none" => state = "CLOSED"
  BY DEF Ledger
<1>3. ~Failing
  BY <1>1, <1>2 DEF Ledger
<1>4. Failing' = Failing
  BY DEF Failing
<1> QED
  BY <1>3, <1>4 DEF Ledger, Counts, Promoted, Failing

\* An action of the application moves to a line of the ledger.
LEMMA LedgerAppStep ==
    ASSUME QuietApp, TypeOK, Ledger, AppStep
    PROVE  Ledger'
<1>1. CASE WicInit
  BY <1>1 DEF WicInit, AppMay, Standing, TypeOK, LifeType, Cls, Ledger, Counts,
              SeenZero, Handlers
<1>2. CASE WicStart
  BY <1>2 DEF WicStart, Ledger, Counts
<1>3. CASE WicCloseWithReason
  <2>1. ~Failing /\ act # "on_open"
    <3>1. CASE cls = "none"
      BY <1>3, <3>1 DEF WicCloseWithReason, QuietApp, AppMay, Standing, Failing
    <3>2. CASE cls # "none"
      BY <3>2 DEF Ledger
    <3> QED
      BY <3>1, <3>2
  <2>2. PICK code \in AppCodes, reason \in Reasons : CloseWithReason(code, reason)
    BY <1>3 DEF WicCloseWithReason
  <2>3. act' = act
    BY <1>3 DEF WicCloseWithReason
  <2> QED
    BY <2>1, <2>2, <2>3, LedgerClose DEF TypeOK
<1>4. CASE SendRefused
  BY <1>4, LedgerSend DEF SendRefused
<1>5. ASSUME NEW data \in PingData, WicSendPing(data)
      PROVE  Ledger'
  BY <1>5, LedgerSend DEF WicSendPing
<1>6. ASSUME NEW fin \in BOOLEAN, NEW data \in TxData,
             WicSendBinary(fin, data) \/ WicSendText(fin, data)
      PROVE  Ledger'
  BY <1>6, LedgerSend DEF WicSendBinary, WicSendText
<1> QED
  BY <1>1, <1>2, <1>3, <1>4, <1>5, <1>6 DEF AppStep

\* Outside the library and in its own steps no handler of close_with_reason
\* runs.
LEMMA StandingAct ==
    ASSUME LifeType, NEW S \in SUBSET Act, AppMay(S)
    PROVE  cls = "none" /\ act \in S
  BY DEF AppMay, Standing, LifeType, Act, Cls

\* So does a call of wic_parse.
LEMMA LedgerParseCall ==
    ASSUME TypeOK, Ledger, ParseCall
    PROVE  Ledger'
<1>1. PICK n \in 0 .. MaxChunk :
         \/ HandshakeMore(n) \/ HandshakeFailed(n) \/ HandshakeAccepted(n)
         \/ WicParse(n)
  BY DEF ParseCall
<1>2. cls = "none" /\ act = "idle"
  BY <1>1, StandingAct
     DEF HandshakeMore, HandshakeFailed, HandshakeAccepted, WicParse,
         ParseHandshake, TypeOK, Act
<1>3. seen \in [Handlers -> 0 .. 2]
  BY DEF TypeOK, LifeType
<1>4. CASE HandshakeMore(n)
  BY <1>4 DEF HandshakeMore, life, Ledger, Counts, Failing
<1>5. CASE HandshakeFailed(n)
  <2>1. Counts(0, 0, 0, 0)
    BY <1>2, <1>5 DEF HandshakeFailed, ParseHandshake, Ledger, Failing
  <2>2. Counts(0, 0, 1, 0)'
    BY <1>3, <1>5, <2>1, SawCounts DEF HandshakeFailed, Counts, Handlers
  <2> QED
    BY <1>2, <1>5, <2>2 DEF HandshakeFailed, Ledger
<1>6. CASE HandshakeAccepted(n)
  <2>1. Counts(0, 0, 0, 0)
    BY <1>2, <1>6 DEF HandshakeAccepted, ParseHandshake, Ledger, Failing
  <2>2. Counts(1, 0, 0, 0)'
    BY <1>3, <1>6, <2>1, SawCounts DEF HandshakeAccepted, Counts, Handlers
  <2> QED
    BY <1>2, <1>6, <2>2 DEF HandshakeAccepted, Ledger
<1>7. CASE WicParse(n)
  BY <1>2, <1>7, LedgerMove DEF WicParse, life, Failing, Plain
<1> QED
  BY <1>1, <1>4, <1>5, <1>6, <1>7

\* So does the return of a handler.
LEMMA LedgerHandlerReturn ==
    ASSUME TypeOK, Ledger, HandlerReturn
    PROVE  Ledger'
<1>0. LifeType /\ seen \in [Handlers -> 0 .. 2]
  BY DEF TypeOK, LifeType
<1>1. CASE CloseTransportReturn
  <2>1. CASE cls = "close_transport" /\ cls' = "on_close" /\ seen' = Saw("on_close")
    <3>1. Counts(1, 0, 1, 0) /\ state = "CLOSED"
      BY <2>1 DEF Ledger
    <3>2. Counts(1, 1, 1, 0)'
      BY <1>0, <2>1, <3>1, SawCounts DEF Counts, Handlers
    <3> QED
      BY <1>1, <2>1, <3>1, <3>2 DEF CloseTransportReturn, Ledger, Failing
  <2>2. CASE cls = "hs_close_transport" /\ cls' = "hs_failure"
             /\ seen' = Saw("on_handshake_failure")
    <3>1. Counts(0, 0, 1, 0) /\ state = "CLOSED"
      BY <2>2 DEF Ledger
    <3>2. Counts(0, 0, 1, 1)'
      BY <1>0, <2>2, <3>1, SawCounts DEF Counts, Handlers
    <3> QED
      BY <1>1, <2>2, <3>1, <3>2 DEF CloseTransportReturn, Ledger, Failing
  <2> QED
    BY <1>1, <2>1, <2>2 DEF CloseTransportReturn
<1>2. CASE CloseReturn
  BY <1>2 DEF CloseReturn, Ledger, Counts, Failing
<1>3. CASE OnOpenReturn
  <2>1. cls = "none" /\ act = "on_open"
    BY <1>0, <1>3, StandingAct DEF OnOpenReturn, Act
  <2>2. Counts(1, 0, 0, 0)
    BY <2>1 DEF Ledger, Failing
  <2> QED
    BY <1>3, <2>1, <2>2 DEF OnOpenReturn, Ledger, Counts, Failing
<1>4. CASE HttpCloseTransportReturn
  <2>1. cls = "none" /\ act = "http_close_transport"
    BY <1>0, <1>4, StandingAct DEF HttpCloseTransportReturn, Act
  <2>2. Counts(0, 0, 1, 0) /\ state \in {"PARSE_HANDSHAKE", "READY"}
    BY <2>1 DEF Ledger, Failing
  <2>3. Counts(0, 0, 1, 1)'
    BY <1>0, <1>4, <2>2, SawCounts DEF HttpCloseTransportReturn, Counts, Handlers
  <2> QED
    BY <1>4, <2>1, <2>2, <2>3 DEF HttpCloseTransportReturn, Ledger
<1>5. CASE HttpFailureReturn
  <2>1. cls = "none" /\ act = "http_failure"
    BY <1>0, <1>5, StandingAct DEF HttpFailureReturn, Act
  <2>2. Counts(0, 0, 1, 1)
    BY <2>1 DEF Ledger, Failing
  <2> QED
    BY <1>5, <2>1, <2>2 DEF HttpFailureReturn, Ledger, Counts, Failing
<1>6. CASE OnMessageAccept \/ OnMessageRefuse
  <2>1. cls = "none" /\ act = "on_message"
    <3>1. AppMay({"on_message"})
      BY <1>6 DEF OnMessageAccept, OnMessageRefuse
    <3> QED
      BY <1>0, <3>1, StandingAct DEF Act
  <2>2. state \in {"OPEN", "CLOSED"}
    BY <2>1 DEF Ledger, Failing
  <2>3. act' \in Plain /\ UNCHANGED <<state, cls, seen>>
    BY <1>6 DEF OnMessageAccept, OnMessageRefuse, Return, life, Plain
  <2> QED
    BY <2>1, <2>2, <2>3, LedgerMove DEF Failing
<1> QED
  BY <1>1, <1>2, <1>3, <1>4, <1>5, <1>6 DEF HandlerReturn

\* What the library's own steps do to the life of the connection: they move
\* wic_parse, and close or leave the rest alone.
LEMMA LibraryStepLife ==
    ASSUME TypeOK, LibraryStep
    PROVE  /\ cls = "none" /\ act \in {"parse", "data"}
           /\ act' \in Plain
           /\ \/ UNCHANGED <<state, cls, seen>>
              \/ \E code, reason : CloseWithReason(code, reason)
<1>0. LifeType
  BY DEF TypeOK
<1>1. ASSUME NEW where, HeaderByte(where), Turn
      PROVE  cls = "none" /\ act \in {"parse", "data"} /\ act' \in Plain
  <2>1. AppMay({"parse"}) /\ act' \in Plain
    BY <1>1 DEF HeaderByte, Turn, Plain
  <2> QED
    BY <1>0, <2>1, StandingAct DEF Act
<1>2. CASE HeaderStep
  <2>1. PICK where : HeaderByte(where) /\ Turn
    <3>1. /\ Turn
          /\ \/ HeaderByte({"OPCODE"}) \/ HeaderByte({"SIZE"})
             \/ HeaderByte(Ext2 \cup Ext8) \/ HeaderByte(Masking)
      BY <1>2 DEF HeaderStep, ParseOpcode, ParseSize, ParseExtendedSize, ParseMask
    <3> QED
      BY <3>1
  <2>2. \/ UNCHANGED life
        \/ \E code, reason : CloseWithReason(code, reason)
    BY <1>2 DEF HeaderStep, ParseOpcode, ParseSize, ParseExtendedSize, ParseMask
  <2> QED
    BY <1>1, <2>1, <2>2 DEF life
<1>3. InData => cls = "none" /\ act \in {"parse", "data"}
  BY <1>0, StandingAct DEF InData, Act
<1>4. CASE PayloadStep
  <2> DEFINE Fed == InData /\ act' \in Plain
  <2>1. Fed
    <3>1. ASSUME NEW b \in PeerBytes, DataByte(b) PROVE Fed
      BY ONLY <3>1 DEF DataByte, Plain
    <3>2. ASSUME NEW code \in PeerCodes, EndClose(code) PROVE Fed
      BY ONLY <3>2 DEF EndClose, FrameEnd, Plain
    <3>3. ASSUME DataFull \/ EndPong PROVE Fed
      BY ONLY <3>3 DEF DataFull, EndPong, FrameEnd, Plain
    <3>4. ASSUME DataClosed PROVE Fed
      BY ONLY <3>4 DEF DataClosed, InData, Plain
    <3>5. ASSUME EndMessage PROVE Fed
      BY ONLY <3>5 DEF EndMessage, FrameEnd, Plain
    <3>6. ASSUME EndPing PROVE Fed
      BY ONLY <3>6 DEF EndPing, FrameEnd, Return, Plain
    <3> HIDE DEF Fed
    <3> QED
      BY ONLY <1>4, <3>1, <3>2, <3>3, <3>4, <3>5, <3>6 DEF PayloadStep
  <2>2. act' \in Plain
    BY <2>1
  <2>3. \/ UNCHANGED <<state, cls, seen>>
        \/ \E code, reason : CloseWithReason(code, reason)
    <3>1. ASSUME NEW b \in PeerBytes, DataByte(b)
          PROVE  \/ UNCHANGED life
                 \/ \E code, reason : CloseWithReason(code, reason)
      <4>1. UNCHANGED life \/ CloseWithReason(InvalidData, <<>>)
        BY <3>1 DEF DataByte
      <4> QED
        BY <4>1
    <3>2. ASSUME NEW code \in PeerCodes, EndClose(code)
          PROVE  \E c, reason : CloseWithReason(c, reason)
      <4>1. \/ CloseWithReason(code, SubSeq(rx.buf, 3, Len(rx.buf)))
            \/ CloseWithReason(Normal, <<>>)
            \/ CloseWithReason(Protocol, <<>>)
        BY <3>2 DEF EndClose
      <4> QED
        BY <4>1
    <3>3. CASE DataFull \/ DataClosed \/ EndPong
      BY <3>3 DEF DataFull, DataClosed, EndPong, life
    <3>4. CASE EndMessage
      BY <3>4 DEF EndMessage, life
    <3>5. CASE EndPing
      BY <3>5 DEF EndPing
    <3> QED
      BY <1>4, <3>1, <3>2, <3>3, <3>4, <3>5 DEF PayloadStep, life
  <2> QED
    BY <1>3, <2>1, <2>2, <2>3
<1>5. CASE ParseStarved
  BY <1>0, <1>3, <1>5, StandingAct DEF ParseStarved, Return, life, Act, Plain
<1>6. CASE ParseReturn
  BY <1>0, <1>6, StandingAct DEF ParseReturn, Return, life, Act, Plain
<1> QED
  BY <1>2, <1>4, <1>5, <1>6 DEF LibraryStep

\* So does each step of the library.
LEMMA LedgerLibraryStep ==
    ASSUME TypeOK, Ledger, LibraryStep
    PROVE  Ledger'
<1>1. cls = "none" /\ act \in {"parse", "data"} /\ act' \in Plain
  BY LibraryStepLife
<1>2. state \in {"OPEN", "CLOSED"} /\ ~Failing /\ act # "on_open"
  BY <1>1 DEF Ledger, Failing
<1>3. CASE UNCHANGED <<state, cls, seen>>
  BY <1>1, <1>2, <1>3, LedgerMove
<1>4. ASSUME NEW code, NEW reason, CloseWithReason(code, reason)
      PROVE  Ledger'
  BY <1>1, <1>2, <1>4, LedgerClose DEF TypeOK
<1> QED
  BY <1>3, <1>4, LibraryStepLife

\* The invariant of the lifecycle: for a quiet application the handlers that
\* have been called are the ones the place of the instance calls for.
THEOREM LedgerHolds == QuietApp => (Spec => []Ledger)
<1> SUFFICES ASSUME QuietApp PROVE Spec => []Ledger
  OBVIOUS
<1>1. Init => Ledger
  BY DEF Init, Ledger, Counts, SeenZero, Handlers
<1>2. TypeOK /\ Ledger /\ [Next]_vars => Ledger'
  <2>1. ASSUME Ledger, UNCHANGED vars PROVE Ledger'
    BY <2>1 DEF vars, Ledger, Counts, Failing
  <2> QED
    BY <2>1, LedgerAppStep, LedgerParseCall, LedgerHandlerReturn, LedgerLibraryStep
       DEF Next
<1> QED
  BY <1>1, <1>2, TypeCorrect, PTL DEF Spec

\* A quiet application learns of one end at most, and of the right one.
THEOREM OneOutcomeHolds == QuietApp => (Spec => []OneOutcome)
<1> SUFFICES ASSUME QuietApp PROVE Spec => []OneOutcome
  OBVIOUS
<1>1. Ledger => OneOutcome
  BY DEF Ledger, Counts, OneOutcome, Handlers
<1> QED
  BY <1>1, LedgerHolds, PTL

\* Back outside the library, a quiet application was told of every end.
THEOREM EndReportedHolds == QuietApp => (Spec => []EndReported)
<1> SUFFICES ASSUME QuietApp PROVE Spec => []EndReported
  OBVIOUS
<1>1. TypeOK /\ Ledger => EndReported
  BY DEF TypeOK, LifeType, Cls, Ledger, Counts, EndReported, Standing
<1> QED
  BY <1>1, LedgerHolds, TypeCorrect, PTL

\* With a quiet application only wic_init takes an instance out of CLOSED.
LEMMA ClosedStays ==
    ASSUME TypeOK, Ledger, [Next]_vars, state = "CLOSED", ~WicInit
    PROVE  state' = "CLOSED"
<1>1. ~Failing /\ act # "on_open"
  BY DEF Ledger
<1>2. CASE AppStep
  BY <1>2
     DEF AppStep, WicStart, WicCloseWithReason, CloseWithReason,
         SendRefused, WicSendPing, WicSendBinary, WicSendText, Promoted
<1>3. CASE ParseCall
  BY <1>3
     DEF ParseCall, ParseHandshake, HandshakeMore, HandshakeFailed,
         HandshakeAccepted, WicParse
<1>4. CASE HandlerReturn
  <2>1. CASE OnOpenReturn
    BY <1>1, <2>1, StandingAct DEF OnOpenReturn, TypeOK, Act
  <2> QED
    BY <1>4, <2>1
       DEF HandlerReturn, CloseTransportReturn, CloseReturn,
           HttpCloseTransportReturn, HttpFailureReturn, OnMessageAccept,
           OnMessageRefuse, life
<1>5. CASE LibraryStep
  BY <1>5, LibraryStepLife DEF CloseWithReason
<1>6. CASE UNCHANGED vars
  BY <1>6 DEF vars
<1> QED
  BY <1>2, <1>3, <1>4, <1>5, <1>6 DEF Next

\* A closed instance of a quiet application comes back by wic_init only.
THEOREM CloseFinalHolds == QuietApp => (Spec => CloseFinal)
<1> SUFFICES ASSUME QuietApp PROVE Spec => CloseFinal
  OBVIOUS
<1>1. ASSUME TypeOK, Ledger, [Next]_vars, state = "CLOSED"
      PROVE  state' \in {"CLOSED", "INIT"}
  BY <1>1, ClosedStays DEF WicInit
<1>2. TypeOK /\ Ledger /\ [Next]_vars
        => [state = "CLOSED" => state' \in {"CLOSED", "INIT"}]_vars
  BY <1>1
<1> QED
  BY <1>2, TypeCorrect, LedgerHolds, PTL DEF Spec, CloseFinal

(* ---- Refinement: every step is a step of WicSession, or a stutter ---- *)

\* A step that changes neither the state nor the counts nor whether a
\* handshake is failing is a stutter of the contract.
LEMMA SessionStutter ==
    ASSUME UNCHANGED <<state, seen>>, Failing' <=> Failing
    PROVE  UNCHANGED Session!vars
  BY DEF Session!vars, Phase, Transport, Told

\* Closing ends the session, abandons it, or changes nothing.
LEMMA SessionClose ==
    ASSUME LifeType, Ledger, Ledger', ~Failing, ~Failing', act # "on_open",
           NEW code, NEW reason, CloseWithReason(code, reason)
    PROVE  [Session!Next]_(Session!vars)
<1>1. CASE state = "CLOSED" /\ UNCHANGED <<cls, seen, peer>>
  BY <1>1, SessionStutter DEF CloseWithReason
<1>2. CASE state = "INIT" /\ UNCHANGED <<cls, seen, peer>>
  <2>1. Phase = "new" /\ Phase' = "over"
    BY <1>2 DEF CloseWithReason, Phase
  <2>2. Transport' = Transport /\ Told' = Told
    BY <1>2 DEF Transport, Told
  <2> QED
    BY <2>1, <2>2 DEF Session!Next, Session!Abandon
<1>3. CASE state = "PARSE_HANDSHAKE" /\ CloseHandshake
  <2>1. Counts(0, 0, 0, 0)
    BY <1>3 DEF Ledger, Failing
  <2>2. Counts(0, 0, 1, 0)'
    BY <1>3, <2>1, SawCounts DEF CloseHandshake, Counts, Handlers, LifeType
  <2>3. Phase = "connecting" /\ Phase' = "over"
    BY <1>3 DEF CloseWithReason, Phase
  <2>4. Transport' = "closed" /\ Told' = Told
    BY <2>1, <2>2 DEF Counts, Transport, Told
  <2> QED
    BY <2>3, <2>4 DEF Session!Next, Session!End
<1>4. CASE state \in {"READY", "OPEN"} /\ CloseOpen(code, reason)
  <2>1. Counts(1, 0, 0, 0)
    BY <1>4 DEF Ledger, Failing
  <2>2. Counts(1, 0, 1, 0)'
    BY <1>4, <2>1, SawCounts DEF CloseOpen, Counts, Handlers, LifeType
  <2>3. Phase = "open" /\ Phase' = "over"
    BY <1>4 DEF CloseWithReason, Phase
  <2>4. Transport' = "closed" /\ Told' = Told
    BY <2>1, <2>2 DEF Counts, Transport, Told
  <2> QED
    BY <2>3, <2>4 DEF Session!Next, Session!End
<1> QED
  BY <1>1, <1>2, <1>3, <1>4 DEF CloseWithReason

\* A send is a stutter: READY and OPEN are both open.
LEMMA SessionSend ==
    ASSUME state' = Promoted, UNCHANGED <<act, cls, seen>>
    PROVE  [Session!Next]_(Session!vars)
<1>1. Phase' = Phase
  BY DEF Phase, Promoted, Failing
<1>2. Transport' = Transport /\ Told' = Told
  BY DEF Transport, Told
<1> QED
  BY <1>1, <1>2 DEF Session!vars

\* An action of the application is a step of the session, or none.
LEMMA SessionAppStep ==
    ASSUME TypeOK, Ledger, Ledger', QuietApp, AppStep
    PROVE  [Session!Next]_(Session!vars)
<1>1. CASE WicInit
  <2>1. cls = "none" /\ act = "idle"
    BY <1>1, StandingAct DEF WicInit, TypeOK, Act
  <2>2. ~Failing /\ ~Failing'
    BY <1>1, <2>1 DEF WicInit, Failing
  <2>3. Counts(0, 0, 0, 0)'
    BY <1>1 DEF WicInit, SeenZero, Counts, Handlers
  <2>4. Phase' = "new" /\ Transport' = "up" /\ Told' = "nothing"
    BY <1>1, <2>2, <2>3 DEF WicInit, Phase, Counts, Transport, Told
  <2>5. CASE state = "INIT"
    <3>1. Counts(0, 0, 0, 0)
      BY <2>2, <2>5 DEF Ledger
    <3>2. Phase = "new" /\ Transport = "up" /\ Told = "nothing"
      BY <2>2, <2>5, <3>1 DEF Phase, Counts, Transport, Told
    <3> QED
      BY <2>4, <3>2 DEF Session!vars
  <2>6. CASE state = "CLOSED"
    <3>1. Phase = "over"
      BY <2>6 DEF Phase
    <3>2. Counts(1, 1, 1, 0) \/ Counts(0, 0, 1, 1) \/ Counts(0, 0, 0, 0)
      BY <2>1, <2>6 DEF Ledger
    <3>3. Transport = "closed" => Told \in {"failure", "close"}
      BY <3>2 DEF Counts, Transport, Told
    <3> QED
      BY <2>4, <3>1, <3>3 DEF Session!Next, Session!Renew
  <2> QED
    BY <1>1, <2>5, <2>6 DEF WicInit
<1>2. CASE WicStart
  <2>1. ~Failing /\ ~Failing'
    <3>1. AppMay({"idle"}) /\ act' = act
      BY <1>2 DEF WicStart
    <3> QED
      BY <3>1, StandingAct DEF TypeOK, Act, Failing
  <2>2. Phase = "new" /\ Phase' = "connecting"
    BY <1>2, <2>1 DEF WicStart, Phase
  <2>3. Transport' = Transport /\ Told' = Told
    BY <1>2 DEF WicStart, Transport, Told
  <2> QED
    BY <2>2, <2>3 DEF Session!Next, Session!Start
<1>3. CASE WicCloseWithReason
  <2>1. ~Failing /\ act # "on_open"
    <3>1. CASE cls = "none"
      BY <1>3, <3>1 DEF WicCloseWithReason, QuietApp, AppMay, Standing, Failing
    <3>2. CASE cls # "none"
      BY <3>2 DEF Ledger
    <3> QED
      BY <3>1, <3>2
  <2>2. ~Failing'
    BY <1>3, <2>1 DEF WicCloseWithReason, Failing
  <2>3. PICK code \in AppCodes, reason \in Reasons : CloseWithReason(code, reason)
    BY <1>3 DEF WicCloseWithReason
  <2> QED
    BY <2>1, <2>2, <2>3, SessionClose DEF TypeOK
<1>4. CASE SendRefused
  BY <1>4, SessionSend DEF SendRefused
<1>5. ASSUME NEW data \in PingData, WicSendPing(data)
      PROVE  [Session!Next]_(Session!vars)
  BY <1>5, SessionSend DEF WicSendPing
<1>6. ASSUME NEW fin \in BOOLEAN, NEW data \in TxData,
             WicSendBinary(fin, data) \/ WicSendText(fin, data)
      PROVE  [Session!Next]_(Session!vars)
  BY <1>6, SessionSend DEF WicSendBinary, WicSendText
<1> QED
  BY <1>1, <1>2, <1>3, <1>4, <1>5, <1>6 DEF AppStep

\* So is a call of wic_parse.
LEMMA SessionParseCall ==
    ASSUME TypeOK, Ledger, ParseCall
    PROVE  [Session!Next]_(Session!vars)
<1>1. PICK n \in 0 .. MaxChunk :
         \/ HandshakeMore(n) \/ HandshakeFailed(n) \/ HandshakeAccepted(n)
         \/ WicParse(n)
  BY DEF ParseCall
<1>2. cls = "none" /\ act = "idle" /\ ~Failing
  <2>1. AppMay({"idle"})
    BY <1>1 DEF HandshakeMore, HandshakeFailed, HandshakeAccepted, WicParse,
                ParseHandshake
  <2> QED
    BY <2>1, StandingAct DEF TypeOK, Act, Failing
<1>3. seen \in [Handlers -> 0 .. 2]
  BY DEF TypeOK, LifeType
<1>4. CASE HandshakeMore(n) \/ WicParse(n)
  BY <1>2, <1>4, SessionStutter DEF HandshakeMore, WicParse, life, Failing
<1>5. state = "PARSE_HANDSHAKE" => Counts(0, 0, 0, 0) /\ Phase = "connecting"
  BY <1>2 DEF Ledger, Phase
<1>6. CASE HandshakeFailed(n)
  <2>1. Counts(0, 0, 0, 0) /\ Phase = "connecting"
    BY <1>5, <1>6 DEF HandshakeFailed, ParseHandshake
  <2>2. Counts(0, 0, 1, 0)'
    BY <1>3, <1>6, <2>1, SawCounts DEF HandshakeFailed, Counts, Handlers
  <2>3. Phase' = "over"
    BY <1>6 DEF HandshakeFailed, Phase, Failing
  <2>4. Transport' = "closed" /\ Told' = Told
    BY <2>1, <2>2 DEF Counts, Transport, Told
  <2> QED
    BY <2>1, <2>3, <2>4 DEF Session!Next, Session!End
<1>7. CASE HandshakeAccepted(n)
  <2>1. Counts(0, 0, 0, 0) /\ Phase = "connecting"
    BY <1>5, <1>7 DEF HandshakeAccepted, ParseHandshake
  <2>2. Counts(1, 0, 0, 0)'
    BY <1>3, <1>7, <2>1, SawCounts DEF HandshakeAccepted, Counts, Handlers
  <2>3. Phase' = "open"
    BY <1>7 DEF HandshakeAccepted, Phase, Failing
  <2>4. Transport' = Transport /\ Told' = "open"
    BY <2>1, <2>2 DEF Counts, Transport, Told
  <2> QED
    BY <2>1, <2>3, <2>4 DEF Session!Next, Session!Open
<1> QED
  BY <1>1, <1>4, <1>6, <1>7

\* So is the return of a handler.
LEMMA SessionHandlerReturn ==
    ASSUME TypeOK, Ledger, HandlerReturn
    PROVE  [Session!Next]_(Session!vars)
<1>0. LifeType /\ seen \in [Handlers -> 0 .. 2]
  BY DEF TypeOK, LifeType
<1>1. CASE CloseTransportReturn
  <2>1. state = "CLOSED" /\ Phase = "over" /\ Phase' = "over"
    BY <1>1 DEF CloseTransportReturn, Ledger, Phase
  <2>2. CASE cls = "close_transport" /\ seen' = Saw("on_close")
    <3>1. Counts(1, 0, 1, 0)
      BY <2>2 DEF Ledger
    <3>2. Counts(1, 1, 1, 0)'
      BY <1>0, <2>2, <3>1, SawCounts DEF Counts, Handlers
    <3>3. Transport = "closed" /\ Transport' = "closed"
          /\ Told = "open" /\ Told' = "close"
      BY <3>1, <3>2 DEF Counts, Transport, Told
    <3> QED
      BY <2>1, <3>3 DEF Session!Next, Session!Report
  <2>3. CASE cls = "hs_close_transport" /\ seen' = Saw("on_handshake_failure")
    <3>1. Counts(0, 0, 1, 0)
      BY <2>3 DEF Ledger
    <3>2. Counts(0, 0, 1, 1)'
      BY <1>0, <2>3, <3>1, SawCounts DEF Counts, Handlers
    <3>3. Transport = "closed" /\ Transport' = "closed"
          /\ Told = "nothing" /\ Told' = "failure"
      BY <3>1, <3>2 DEF Counts, Transport, Told
    <3> QED
      BY <2>1, <3>3 DEF Session!Next, Session!Report
  <2> QED
    BY <1>1, <2>2, <2>3 DEF CloseTransportReturn
<1>2. CASE CloseReturn
  BY <1>2, SessionStutter DEF CloseReturn, Failing
<1>3. CASE OnOpenReturn
  <2>1. cls = "none" /\ act = "on_open"
    BY <1>0, <1>3, StandingAct DEF OnOpenReturn, Act
  <2>2. state \in {"READY", "OPEN"}
    BY <2>1 DEF Ledger, Failing
  <2>3. Phase = "open" /\ Phase' = "open"
    BY <1>3, <2>1, <2>2 DEF OnOpenReturn, Phase, Failing
  <2>4. Transport' = Transport /\ Told' = Told
    BY <1>3 DEF OnOpenReturn, Transport, Told
  <2> QED
    BY <2>3, <2>4 DEF Session!vars
<1>4. CASE HttpCloseTransportReturn
  <2>1. cls = "none" /\ act = "http_close_transport"
    BY <1>0, <1>4, StandingAct DEF HttpCloseTransportReturn, Act
  <2>2. Counts(0, 0, 1, 0)
    BY <2>1 DEF Ledger, Failing
  <2>3. Counts(0, 0, 1, 1)'
    BY <1>0, <1>4, <2>2, SawCounts DEF HttpCloseTransportReturn, Counts, Handlers
  <2>4. Phase = "over" /\ Phase' = "over"
    BY <1>4, <2>1 DEF HttpCloseTransportReturn, Phase, Failing
  <2>5. Transport = "closed" /\ Transport' = "closed"
        /\ Told = "nothing" /\ Told' = "failure"
    BY <2>2, <2>3 DEF Counts, Transport, Told
  <2> QED
    BY <2>4, <2>5 DEF Session!Next, Session!Report
<1>5. CASE HttpFailureReturn
  <2>1. act = "http_failure"
    BY <1>0, <1>5, StandingAct DEF HttpFailureReturn, Act
  <2>2. Phase = "over" /\ Phase' = "over"
    BY <1>5, <2>1 DEF HttpFailureReturn, Phase, Failing
  <2>3. Transport' = Transport /\ Told' = Told
    BY <1>5 DEF HttpFailureReturn, Transport, Told
  <2> QED
    BY <2>2, <2>3 DEF Session!vars
<1>6. CASE OnMessageAccept \/ OnMessageRefuse
  <2>1. act = "on_message"
    <3>1. AppMay({"on_message"})
      BY <1>6 DEF OnMessageAccept, OnMessageRefuse
    <3> QED
      BY <1>0, <3>1, StandingAct DEF Act
  <2>2. act' \in Plain /\ UNCHANGED <<state, seen>>
    BY <1>6 DEF OnMessageAccept, OnMessageRefuse, Return, life, Plain
  <2> QED
    BY <2>1, <2>2, SessionStutter DEF Failing, Plain
<1> QED
  BY <1>1, <1>2, <1>3, <1>4, <1>5, <1>6 DEF HandlerReturn

\* So is each step of the library.
LEMMA SessionLibraryStep ==
    ASSUME TypeOK, Ledger, Ledger', LibraryStep
    PROVE  [Session!Next]_(Session!vars)
<1>1. act \in {"parse", "data"} /\ act' \in Plain
  BY LibraryStepLife
<1>2. ~Failing /\ ~Failing' /\ act # "on_open"
  BY <1>1 DEF Failing, Plain
<1>3. CASE UNCHANGED <<state, cls, seen>>
  BY <1>2, <1>3, SessionStutter
<1>4. ASSUME NEW code, NEW reason, CloseWithReason(code, reason)
      PROVE  [Session!Next]_(Session!vars)
  BY <1>2, <1>4, SessionClose DEF TypeOK
<1> QED
  BY <1>3, <1>4, LibraryStepLife

\* With a quiet application wic_inst implements the contract of WicSession:
\* the safety part, from the first step to every later one.
THEOREM SessionImplemented ==
    QuietApp => (Spec => Session!Init /\ [][Session!Next]_(Session!vars))
<1> SUFFICES ASSUME QuietApp
             PROVE  Spec => Session!Init /\ [][Session!Next]_(Session!vars)
  OBVIOUS
<1>1. Init => Session!Init
  BY DEF Init, SeenZero, Handlers, Session!Init, Phase, Failing, Transport, Told
<1>2. TypeOK /\ Ledger /\ Ledger' /\ [Next]_vars => [Session!Next]_(Session!vars)
  <2>1. ASSUME UNCHANGED vars PROVE UNCHANGED Session!vars
    BY <2>1, SessionStutter DEF vars, Failing
  <2> QED
    BY <2>1, SessionAppStep, SessionParseCall, SessionHandlerReturn,
       SessionLibraryStep DEF Next
<1> QED
  BY <1>1, <1>2, TypeCorrect, LedgerHolds, PTL DEF Spec
=============================================================================
