--------------------------- MODULE MbedLife_proofs ---------------------------
(***************************************************************************)
(* Proofs about the life of a connection of the mbed client: its states,   *)
(* the timer and the poison agree, the close frame is served before the    *)
(* poison, and a reader does not sleep through what it waits for.  With a  *)
(* user buffer that is no smaller than the others no buffer is lost, and a *)
(* connection starts with nothing of the last one.                         *)
(***************************************************************************)
EXTENDS MbedClient_proofs, Induction_proofs

----------------------------------------------------------------------------
(* The states, the poison and the close frame.                             *)

\* A step that keeps what the queue has to tell about the closing.
SameEnd(o, p) ==
    /\ (PoisonsIn(o) = {}) = (PoisonsIn(p) = {})
    /\ SinglePoison(o) => SinglePoison(p)
    /\ SinglePoison(o) /\ CloseFirst(o) => CloseFirst(p)

\* A step that puts the poison.
Ended(p) == PoisonsIn(p) # {} /\ SinglePoison(p) /\ CloseFirst(p)

\* Agreement and LastWord, of the queue's contents.
States ==
    /\ (state = "OPENING") = (inst = "HANDSHAKE")
    /\ (state = "OPEN") = (inst = "OPEN")
    /\ timer = (state = "OPENING")
Closing ==
    /\ (state = "CLOSING") = (PoisonsIn(out) # {})
    /\ SinglePoison(out)
    /\ CloseFirst(out)

\* The two properties are, together, States and Closing.
LEMMA ClosingIs == Agreement /\ LastWord <=> States /\ Closing
  BY DEF Agreement, LastWord, States, Closing, Poisons, PoisonsIn, SinglePoison,
         CloseFirst

\* An item that is no poison leaves the end of the queue as it is.
LEMMA PutSameEnd ==
    ASSUME NEW o \in OutType, NEW x \in Item \ {"poison", "close"}
    PROVE  SameEnd(o, Put(o, x))
  BY PutPoisons, PutCloseFirst DEF SameEnd, SinglePoison

\* A poison, put where there was none, is the only one and comes last.
LEMMA PutEnded ==
    ASSUME NEW o \in OutType, PoisonsIn(o) = {}
    PROVE  Ended(Put(o, "poison"))
  BY Names, PutPoisons, PoisonCloseFirst DEF Ended, SinglePoison

\* Taking an item that is no poison leaves the end as it is.
LEMMA GotSameEnd ==
    ASSUME NEW o \in OutType, NEW k \in DOMAIN o.items, o.items[k] # "poison"
    PROVE  SinglePoison(o) => SameEnd(o, Got(o, k))
  BY GotPoisons, GotCloseFirst DEF SameEnd

\* Only the items matter.
LEMMA FlagsSameEnd ==
    ASSUME NEW o, NEW p, p.items = o.items
    PROVE  SameEnd(o, p)
  BY DEF SameEnd, PoisonsIn, SinglePoison, CloseFirst, Before

\* The end is kept by two steps that keep it.
LEMMA SameEndTransitive ==
    ASSUME NEW o, NEW p, NEW q, SameEnd(o, p), SameEnd(p, q)
    PROVE  SameEnd(o, q)
  BY DEF SameEnd

\* An allocation takes a free buffer and leaves a well-formed queue.
LEMMA AllocType ==
    ASSUME NEW o \in OutType, NEW type \in BufferType
    PROVE  Alloc(o, type) \in OutType /\ Alloc(o, type).items = o.items
  BY Names DEF Alloc, OutType

\* A message or a pong that is queued leaves the end as it is.
LEMMA AllocPutSameEnd ==
    ASSUME NEW o \in OutType, NEW type \in BufferType \ {"CLOSE", "CLOSE_RESPONSE"}
    PROVE  SameEnd(o, Put(Alloc(o, type), TypeToBuf(type)))
<1>1. SameEnd(o, Alloc(o, type)) /\ Alloc(o, type) \in OutType
  BY AllocType, FlagsSameEnd
<1>2. TypeToBuf(type) \in Item \ {"poison", "close"}
  BY DEF BufferType, TypeToBuf, Item, Buffer
<1>3. SameEnd(Alloc(o, type), Put(Alloc(o, type), TypeToBuf(type)))
  BY <1>1, <1>2, PutSameEnd
<1> QED
  BY <1>1, <1>3, SameEndTransitive

\* So does one that may be refused (put_frame).
LEMMA PutFrameSameEnd ==
    ASSUME TypeOK, NEW type \in BufferType \ {"CLOSE", "CLOSE_RESPONSE"}, NEW size
    PROVE  SameEnd(out, PutFrame(type, size).out)
<1>1. out \in OutType
  BY DEF TypeOK, OutType
<1>2. SameEnd(out, Put(Alloc(out, type), TypeToBuf(type)))
  BY <1>1, AllocPutSameEnd
<1>3. SameEnd(out, Alloc(out, type)) /\ SameEnd(out, out)
  BY <1>1, AllocType, FlagsSameEnd
<1> QED
  BY <1>2, <1>3 DEF PutFrame

\* The close frame is put in front of the poison, if there is a buffer.
LEMMA CloseFrameEnded ==
    ASSUME TypeOK, PoisonsIn(out) = {}, NEW size \in Nat, CloseFrame(size)
    PROVE  Ended(out')
<1> DEFINE o == PutFrame("CLOSE", size).out
<1>0. out \in OutType /\ "CLOSE" \in BufferType
  BY DEF TypeOK, OutType, BufferType
<1>1. o \in OutType
  BY <1>0, PutFrameType
<1>2. /\ Alloc(out, "CLOSE") \in OutType /\ Alloc(out, "CLOSE").items = out.items
      /\ TypeToBuf("CLOSE") \in Item \ {"poison"}
  BY <1>0, AllocType DEF TypeToBuf, Item, Buffer
<1>3. PoisonsIn(Alloc(out, "CLOSE")) = {}
  BY <1>2 DEF PoisonsIn
<1>4. PoisonsIn(Put(Alloc(out, "CLOSE"), TypeToBuf("CLOSE"))) = {}
  BY <1>2, <1>3, PutPoisons
<1>5. PoisonsIn(o) = {}
  BY <1>3, <1>4 DEF PutFrame
<1> QED
  BY <1>1, <1>5, PutEnded DEF CloseFrame

\* wic_close of an open instance ends the queue with a poison.
LEMMA CloseOpenEnded ==
    ASSUME TypeOK, PoisonsIn(out) = {}, NEW written, CloseOpen(written)
    PROVE  Ended(out') /\ state' = "CLOSING"
<1>1. out \in OutType
  BY DEF TypeOK, OutType
<1>2. CloseSilent => Ended(out')
  BY <1>1, PutEnded DEF CloseSilent
<1>3. ASSUME NEW size \in CloseSizes, CloseFrame(size)
      PROVE  Ended(out')
  BY <1>3, CloseFrameEnded, ClientAssumption
<1> QED
  BY <1>2, <1>3 DEF CloseOpen

\* So does a handshake that fails.
LEMMA HandshakeFailureEnded ==
    ASSUME TypeOK, PoisonsIn(out) = {}, NEW upgrade, HandshakeFailure(upgrade)
    PROVE  Ended(out') /\ state' = "CLOSING" /\ timer' = FALSE
<1>1. out \in OutType
  BY DEF TypeOK, OutType
<1> QED
  BY <1>1, PutEnded DEF HandshakeFailure

\* wic_close keeps Closing, whatever state the instance is in.
LEMMA CloseInstKeeps ==
    ASSUME TypeOK, States, Closing, NEW written, CloseInst(written, timer)
           \/ (CloseInst(written, FALSE) /\ timer)
    PROVE  States' /\ Closing'
<1> USE DEF States
<1>1. CASE inst \in {"INIT", "CLOSED"}
  <2>1. ~timer /\ UNCHANGED <<out, state, timer>> /\ inst' = "CLOSED"
    BY <1>1 DEF CloseInst, TypeOK
  <2> QED
    BY <1>1, <2>1 DEF Closing
<1>2. CASE inst = "HANDSHAKE"
  <2>1. HandshakeFailure(FALSE) /\ inst' = "CLOSED"
    BY <1>2 DEF CloseInst
  <2>2. Ended(out') /\ state' = "CLOSING" /\ timer' = FALSE
    BY <1>2, <2>1, HandshakeFailureEnded DEF Closing
  <2> QED
    BY <2>1, <2>2 DEF Closing, Ended
<1>3. CASE inst = "OPEN"
  <2>1. CloseOpen(written) /\ inst' = "CLOSED" /\ ~timer /\ timer' = FALSE
    BY <1>3 DEF CloseInst
  <2>2. Ended(out') /\ state' = "CLOSING"
    BY <1>3, <2>1, CloseOpenEnded DEF Closing
  <2> QED
    BY <2>1, <2>2 DEF Closing, Ended
<1> QED
  BY <1>1, <1>2, <1>3 DEF TypeOK

\* Everything that ends a connection goes through the handlers above; the
\* rest leaves the states alone and puts or takes neither poison nor close
\* frame, except for the poison that closes the socket.
LEMMA LifeStep ==
    ASSUME TypeOK, HeldKept, States, Closing, [Next]_vars
    PROVE  States' /\ Closing'
<1>0. out \in OutType
  BY DEF TypeOK, OutType
<1>1. ASSUME UNCHANGED <<inst, state, timer>>, out' = out \/ SameEnd(out, out')
      PROVE  States' /\ Closing'
  BY <1>1 DEF States, Closing, SameEnd
<1>2. CASE DoOpenFail \/ DoOpenNotStarted
  <2>1. /\ state = "CLOSED" /\ state' = "CLOSED" /\ inst' = "INIT"
        /\ UNCHANGED <<out, timer>>
    BY <1>2 DEF DoOpenFail, DoOpenNotStarted, DoOpenInit, CloseSocket
  <2> QED
    BY <2>1 DEF States, Closing
<1>3. CASE DoOpenStart
  <2>1. /\ state = "CLOSED" /\ state' = "OPENING" /\ inst' = "HANDSHAKE"
        /\ timer' = TRUE
        /\ out' = Put(Alloc(out, "HTTP"), TypeToBuf("HTTP"))
    BY <1>3 DEF DoOpenStart, DoOpenInit
  <2>2. SameEnd(out, out')
    BY <1>0, <2>1, AllocPutSameEnd DEF BufferType
  <2> QED
    BY <2>1, <2>2 DEF States, Closing, SameEnd
<1>4. CASE DoClose
  BY <1>1, <1>4, CloseInstKeeps DEF DoClose, instance
<1>5. CASE DoSend
  <2>1. SameEnd(out, PutFrame("USER", 1).out)
    BY PutFrameSameEnd DEF BufferType
  <2>2. out' = out \/ out' = PutFrame("USER", 1).out
    BY <1>5 DEF DoSend
  <2> QED
    BY <1>1, <1>5, <2>1, <2>2 DEF DoSend, instance
<1>6. CASE DoHandshakeTimeout
  BY <1>6, CloseInstKeeps DEF DoHandshakeTimeout
<1>7. CASE PollFails
  <2>1. PICK upgrade \in BOOLEAN : HandshakeFailure(upgrade)
    BY <1>7 DEF PollFails
  <2>2. inst = "HANDSHAKE" /\ inst' = "CLOSED"
    BY <1>7 DEF PollFails
  <2>3. Ended(out') /\ state' = "CLOSING" /\ timer' = FALSE
    BY <2>1, <2>2, HandshakeFailureEnded DEF States, Closing
  <2> QED
    BY <2>2, <2>3 DEF States, Closing, Ended
<1>8. CASE ParsePing
  <2>1. SameEnd(out, out')
    BY <1>8, PutFrameSameEnd DEF ParsePing, BufferType
  <2> QED
    BY <1>1, <1>8, <2>1 DEF ParsePing
<1>9. CASE ParseEnd
  <2>1. /\ inst = "OPEN" /\ inst' = "CLOSED" /\ UNCHANGED timer
        /\ CloseOpen(TRUE)
    BY <1>9 DEF ParseEnd, ParseItem
  <2>2. Ended(out') /\ state' = "CLOSING"
    BY <2>1, CloseOpenEnded DEF States, Closing
  <2> QED
    BY <2>1, <2>2 DEF States, Closing, Ended
<1>10. CASE ReplyAccept
  BY <1>10 DEF ReplyAccept, ParseReply, States, Closing
<1>11. CASE ReplyFails
  <2>1. PICK upgrade \in BOOLEAN : HandshakeFailure(upgrade)
    BY <1>11 DEF ReplyFails
  <2>2. inst = "HANDSHAKE" /\ inst' = "CLOSED"
    BY <1>11 DEF ReplyFails, ParseReply
  <2>3. Ended(out') /\ state' = "CLOSING" /\ timer' = FALSE
    BY <2>1, <2>2, HandshakeFailureEnded DEF States, Closing
  <2> QED
    BY <2>2, <2>3 DEF States, Closing, Ended
<1>12. CASE ReadError
  BY <1>12, CloseInstKeeps DEF ReadError
<1>13. CASE GetBuffer
  <2>1. PICK i \in DOMAIN out.items : out.items[i] # "poison" /\ out' = Got(out, i)
    BY <1>13 DEF GetBuffer
  <2>2. SameEnd(out, out')
    BY <1>0, <2>1, GotSameEnd DEF Closing
  <2> QED
    BY <1>1, <1>13, <2>2 DEF GetBuffer, instance
<1>14. CASE GetPoison
  <2>1. /\ out'.items = <<>> /\ state' = "CLOSED"
        /\ UNCHANGED <<inst, timer>>
        /\ \E i \in DOMAIN out.items : out.items[i] = "poison"
    BY <1>14 DEF GetPoison, Drained, CloseSocket, instance
  <2>2. state = "CLOSING"
    BY <2>1 DEF Closing, PoisonsIn
  <2>3. PoisonsIn(out') = {} /\ SinglePoison(out') /\ CloseFirst(out')
    BY <2>1 DEF PoisonsIn, SinglePoison, CloseFirst
  <2> QED
    BY <2>1, <2>2, <2>3 DEF States, Closing
<1>15. CASE WriteDone
  <2>1. out'.items = out.items
    BY <1>0, <1>15 DEF WriteDone, Free, OutType
  <2> QED
    BY <1>1, <1>15, <2>1, FlagsSameEnd DEF WriteDone, instance
<1>16. ASSUME \/ UNCHANGED vars \/ Wake \/ DoOpenBusy \/ PollIdle \/ ReadSome
              \/ ReadNothing \/ ParseMessage \/ ReplyPart \/ ParseClosed
              \/ ParseEmpty \/ GetNothing \/ WritePart \/ NotifyReaders
       PROVE  UNCHANGED <<inst, state, timer, out>>
  BY <1>16 DEF vars, Wake, DoOpenBusy, PollIdle, Pass, ReadSome, ReadNothing,
               ParseMessage, ReplyPart, ParseClosed, ParseEmpty, GetNothing,
               WritePart, NotifyReaders, instance
<1>17. ASSUME Recv \/ Reader \/ RecvTimeout \/ Caller
              \/ \E op \in Calls : CallStart(op)
       PROVE  UNCHANGED <<inst, state, timer, out>>
  BY <1>17 DEF Recv, Reader, TryGet, Look, RecvTimeout, ReaderStep, Caller,
               CallStart, CallAgain, CallReturn, Push, instance
<1> QED
  BY <1>1, <1>2, <1>3, <1>4, <1>5, <1>6, <1>7, <1>8, <1>9, <1>10, <1>11, <1>12,
     <1>13, <1>14, <1>15, <1>16, <1>17
     DEF Next, Worker, Turn

\* The worker starts idle, with nothing queued.
LEMMA LifeInit == Init => States /\ Closing
<1> SUFFICES ASSUME Init PROVE States /\ Closing
  OBVIOUS
<1>1. States /\ state = "CLOSED" /\ out.items = <<>>
  BY DEF Init, OutZero, States
<1>2. PoisonsIn(out) = {} /\ CloseFirst(out)
  BY <1>1 DEF PoisonsIn, CloseFirst
<1> QED
  BY <1>1, <1>2 DEF Closing, SinglePoison

\* Closing is an invariant.
LEMMA LifeHolds == Spec => [](States /\ Closing)
<1>1. TypeOK /\ HeldKept /\ (States /\ Closing) /\ [Next]_vars => (States /\ Closing)'
  BY LifeStep
<1> QED
  BY LifeInit, TypeCorrect, <1>1, PTL DEF Spec

\* The client's state, the instance's state, the timer and the poison agree
\* after every handler, event, timeout and error, in any order of them.
THEOREM AgreementHolds == Spec => []Agreement
<1>1. States /\ Closing => Agreement
  BY ClosingIs
<1> QED
  BY LifeHolds, <1>1, PTL

\* A close frame is served before the poison, whether rtos::Queue orders by
\* priority or by arrival.
THEOREM LastWordHolds == Spec => []LastWord
<1>1. States /\ Closing => LastWord
  BY ClosingIs
<1> QED
  BY LifeHolds, <1>1, PTL

----------------------------------------------------------------------------
(* The readers.                                                            *)

\* What NoLostWakeup needs to be inductive: between the look at the queue
\* and the wait a message may arrive, but then the worker is about to notify
\* and has to wait for the reader's mutex.
Noticed ==
    /\ NoLostWakeup
    /\ reader = "look" /\ ~waking => input = <<>>

\* Every step that gives a reader something to do notifies it.
LEMMA NoticedStep ==
    ASSUME TypeOK, Noticed, [Next]_vars
    PROVE  Noticed'
<1> USE DEF Noticed, NoLostWakeup
<1>1. CASE UNCHANGED <<reader, waking, input, state>>
  BY <1>1
<1>2. CASE waking'
  BY <1>2
<1>3. ASSUME state' # "CLOSED", UNCHANGED <<reader, waking>>, input' = input \/ input' = <<>>
      PROVE  Noticed'
  BY <1>3
<1>4. ASSUME NEW written, NEW armed, CloseInst(written, armed)
      PROVE  state' = state \/ state' = "CLOSING"
  BY <1>4 DEF CloseInst, HandshakeFailure, CloseOpen
<1>5. CASE DoOpenFail \/ DoOpenNotStarted
  BY <1>5 DEF DoOpenFail, DoOpenNotStarted, CloseSocket
<1>6. CASE DoOpenStart
  BY <1>3, <1>6 DEF DoOpenStart, DoOpenInit, Dispatch, callers
<1>7. CASE DoClose \/ DoHandshakeTimeout \/ ReadError
  BY <1>1, <1>3, <1>4, <1>7
     DEF DoClose, DoHandshakeTimeout, ReadError, Dispatch, instance, callers
<1>8. CASE PollFails \/ ReplyFails \/ ParseEnd \/ ReplyAccept
  BY <1>3, <1>8 DEF PollFails, ReplyFails, ParseEnd, ReplyAccept, ParseReply,
                    ParseItem, HandshakeFailure, CloseOpen, callers
<1>9. CASE ParseMessage \/ GetPoison
  BY <1>9 DEF ParseMessage, GetPoison, CloseSocket
<1>10. CASE NotifyReaders
  BY <1>10 DEF NotifyReaders, ReaderHolds
<1>11. ASSUME NEW from, TryGet(from)
       PROVE  Noticed'
  BY <1>11 DEF TryGet, ReaderStep
<1>12. CASE Look \/ RecvTimeout
  BY <1>12 DEF Look, RecvTimeout, ReaderStep
<1>13. ASSUME \/ UNCHANGED vars \/ Wake \/ DoOpenBusy \/ DoSend \/ PollIdle
              \/ ReadSome \/ ReadNothing \/ ParsePing \/ ReplyPart
              \/ ParseClosed \/ ParseEmpty \/ GetNothing \/ GetBuffer
              \/ WritePart \/ WriteDone
       PROVE  UNCHANGED <<reader, waking, input, state>>
  BY <1>13 DEF vars, Wake, DoOpenBusy, DoSend, Dispatch, PollIdle, Pass,
               ReadSome, ReadNothing, ParsePing, ParseItem, ReplyPart,
               ParseReply, ParseClosed, ParseEmpty, GetNothing, GetBuffer,
               WritePart, WriteDone, callers
<1>14. ASSUME Caller \/ \E op \in Calls : CallStart(op)
       PROVE  UNCHANGED <<reader, waking, input, state>>
  BY <1>14 DEF Caller, CallStart, CallAgain, CallReturn, Push
<1> QED
  BY <1>1, <1>5, <1>6, <1>7, <1>8, <1>9, <1>10, <1>11, <1>12, <1>13, <1>14
     DEF Next, Worker, Turn, Recv, Reader

\* A reader that waits, and that nobody is about to notify, has nothing to
\* wait up for.
THEOREM NoLostWakeupHolds == Spec => []NoLostWakeup
<1>1. Init => Noticed
  BY DEF Init, Noticed, NoLostWakeup
<1>2. TypeOK /\ Noticed /\ [Next]_vars => Noticed'
  BY NoticedStep
<1>3. Noticed => NoLostWakeup
  BY DEF Noticed
<1> QED
  BY TypeCorrect, <1>1, <1>2, <1>3, PTL DEF Spec

----------------------------------------------------------------------------
(* The buffers.                                                            *)

\* The user buffer is no smaller than the others: alloc reports its size as
\* the largest of every kind, and a smaller one would have stream_put_frame
\* keep buffers that it was given.
LargeBuffer == UserMax >= 131

OwnedBy(o, w) ==
    /\ o.flags = (Queued(o) \cup {w}) \ {"poison", "none"}
    /\ Distinct(o)
    /\ w \notin Queued(o)
Owned == OwnedBy(out, writing) /\ tx = "none"

\* Owned says what BuffersOwned says, of the poison and close items too.
LEMMA OwnedIs ==
    ASSUME TypeOK, Owned
    PROVE  BuffersOwned
<1>0. out \in OutType
  BY DEF TypeOK, OutType
<1>1. "none" \notin Queued(out)
  BY <1>0 DEF OutType, Queued, Item, Buffer
<1>2. Queued(out) \cup {writing, tx} = Queued(out) \cup {writing, "none"}
  BY DEF Owned
<1>3. out.flags = (Queued(out) \cup {writing, tx}) \ {"poison", "none"}
  BY <1>2 DEF Owned, OwnedBy
<1> QED
  BY <1>1, <1>3 DEF Owned, OwnedBy, BuffersOwned, Distinct

\* A buffer that is free is in no place.
LEMMA AllocPutOwned ==
    ASSUME NEW o \in OutType, NEW w, OwnedBy(o, w), NEW type \in BufferType,
           TypeToBuf(type) \notin o.flags
    PROVE  OwnedBy(Put(Alloc(o, type), TypeToBuf(type)), w)
<1> DEFINE b == TypeToBuf(type)
           a == Alloc(o, type)
<1>1. /\ a \in OutType /\ a.items = o.items /\ a.flags = o.flags \cup {b}
      /\ b \in Buffer /\ b \in Item
  BY AllocType, Names DEF Alloc, OutType
<1>2. b \notin Queued(o) /\ b # w /\ b \notin {"poison", "none"}
  BY <1>1 DEF OwnedBy, Buffer
<1>3. Queued(a) = Queued(o) /\ Distinct(a)
  BY <1>1 DEF Queued, Distinct, OwnedBy
<1>4. Queued(Put(a, b)) = Queued(o) \cup {b} /\ Distinct(Put(a, b))
  BY <1>1, <1>2, <1>3, PutQueued, PutDistinct
<1>5. Put(a, b).flags = o.flags \cup {b}
  BY <1>1, PutRight
<1> QED
  BY <1>2, <1>4, <1>5 DEF OwnedBy

\* A poison takes no buffer.
LEMMA PoisonOwned ==
    ASSUME NEW o \in OutType, NEW w \in Buffer \cup {"none"}, OwnedBy(o, w),
           PoisonsIn(o) = {}
    PROVE  OwnedBy(Put(o, "poison"), w)
<1>1. "poison" \notin Queued(o) /\ "poison" # w
  BY DEF PoisonsIn, Queued, Buffer
<1>2. Queued(Put(o, "poison")) = Queued(o) \cup {"poison"}
      /\ Distinct(Put(o, "poison")) /\ Put(o, "poison").flags = o.flags
  BY <1>1, Names, PutQueued, PutDistinct, PutRight DEF OwnedBy
<1> QED
  BY <1>1, <1>2 DEF OwnedBy

\* What is given a buffer fits the user's, the largest one.
LEMMA CapacityFits ==
    ASSUME LargeBuffer, NEW type \in BufferType, NEW size \in Nat,
           MayAlloc(out, type, size)
    PROVE  size <= UserMax
<1>1. UserMax \in Nat /\ UserMax >= 131
  BY QueueAssumption DEF LargeBuffer
<1>2. TypeToBuf(type) \in Buffer
  BY Names
<1>3. Capacity(TypeToBuf(type)) \in Nat /\ Capacity(TypeToBuf(type)) <= UserMax
  BY <1>1, <1>2 DEF Capacity, Buffer
<1> QED
  BY <1>1, <1>3 DEF MayAlloc

\* A frame that is queued or refused leaves no buffer without a place.
LEMMA PutFrameOwned ==
    ASSUME LargeBuffer, TypeOK, Owned, NEW type \in BufferType, NEW size \in Nat
    PROVE  LET f == PutFrame(type, size)
           IN  f.tx = "none" /\ OwnedBy(f.out, writing)
<1>1. out \in OutType
  BY DEF TypeOK, OutType
<1>2. CASE MayAlloc(out, type, size)
  <2>1. size <= UserMax
    BY <1>2, CapacityFits
  <2>2. OwnedBy(Put(Alloc(out, type), TypeToBuf(type)), writing)
    BY <1>1, <1>2, AllocPutOwned DEF MayAlloc, Owned
  <2> QED
    BY <1>2, <2>1, <2>2 DEF PutFrame
<1>3. CASE ~MayAlloc(out, type, size)
  BY <1>3 DEF PutFrame, Owned
<1> QED
  BY <1>2, <1>3

\* Neither does a close frame that finds no buffer.
LEMMA CloseOpenOwned ==
    ASSUME LargeBuffer, TypeOK, Owned, PoisonsIn(out) = {}, NEW written,
           CloseOpen(written)
    PROVE  OwnedBy(out', writing) /\ tx' = "none"
<1>1. out \in OutType /\ writing \in Buffer \cup {"none"}
  BY DEF TypeOK, OutType
<1>2. CASE CloseSilent
  BY <1>1, <1>2, PoisonOwned DEF CloseSilent, Owned
<1>3. ASSUME NEW size \in CloseSizes, CloseFrame(size)
      PROVE  OwnedBy(out', writing) /\ tx' = "none"
  <2> DEFINE f == PutFrame("CLOSE", size)
  <2>1. size \in Nat /\ "CLOSE" \in BufferType
    BY ClientAssumption DEF BufferType
  <2>2. f.tx = "none" /\ OwnedBy(f.out, writing) /\ f.out \in OutType
    BY <1>1, <2>1, PutFrameOwned, PutFrameType
  <2>3. PoisonsIn(f.out) = {}
    <3>1. /\ Alloc(out, "CLOSE") \in OutType
          /\ Alloc(out, "CLOSE").items = out.items
          /\ TypeToBuf("CLOSE") \in Item \ {"poison"}
      BY <1>1, <2>1, AllocType DEF TypeToBuf, Item, Buffer
    <3>2. PoisonsIn(Alloc(out, "CLOSE")) = {}
      BY <3>1 DEF PoisonsIn
    <3>3. PoisonsIn(Put(Alloc(out, "CLOSE"), TypeToBuf("CLOSE"))) = {}
      BY <3>1, <3>2, PutPoisons
    <3> QED
      BY <3>2, <3>3 DEF PutFrame
  <2>4. OwnedBy(Put(f.out, "poison"), writing)
    BY <1>1, <2>2, <2>3, PoisonOwned
  <2> QED
    BY <1>3, <2>2, <2>4 DEF CloseFrame
<1> QED
  BY <1>2, <1>3 DEF CloseOpen

\* Nor a handshake that fails.
LEMMA HandshakeFailureOwned ==
    ASSUME TypeOK, Owned, PoisonsIn(out) = {}, NEW upgrade, HandshakeFailure(upgrade)
    PROVE  OwnedBy(out', writing) /\ tx' = "none"
<1>1. out \in OutType /\ writing \in Buffer \cup {"none"}
  BY DEF TypeOK, OutType
<1> QED
  BY <1>1, PoisonOwned DEF HandshakeFailure, Owned

\* Nor wic_close in any state of the instance.
LEMMA CloseInstOwned ==
    ASSUME LargeBuffer, TypeOK, States, Closing, Owned,
           NEW written, NEW armed, CloseInst(written, armed)
    PROVE  OwnedBy(out', writing) /\ tx' = "none"
<1>1. inst \in {"HANDSHAKE", "OPEN"} => PoisonsIn(out) = {}
  BY DEF States, Closing
<1> QED
  BY <1>1, CloseOpenOwned, HandshakeFailureOwned DEF CloseInst, Owned

\* Every step keeps each buffer in one place.
LEMMA OwnedStep ==
    ASSUME LargeBuffer, TypeOK, States, Closing, Owned, [Next]_vars
    PROVE  Owned'
<1>0. out \in OutType /\ writing \in Buffer \cup {"none"}
  BY DEF TypeOK, OutType
<1>1. ASSUME OwnedBy(out', writing), tx' = "none", writing' = writing
      PROVE  Owned'
  BY <1>1 DEF Owned, OwnedBy
<1>2. ASSUME UNCHANGED <<out, tx, writing>>
      PROVE  Owned'
  BY <1>2 DEF Owned, OwnedBy
<1>3. CASE DoOpenNotStarted
  BY <1>1, <1>3 DEF DoOpenNotStarted, DoOpenInit, Dispatch, Owned
<1>4. CASE DoOpenStart
  <2>1. OwnedBy(Put(Alloc(out, "HTTP"), TypeToBuf("HTTP")), writing)
    BY <1>0, <1>4, AllocPutOwned DEF DoOpenStart, MayAlloc, BufferType, Owned
  <2> QED
    BY <1>1, <1>4, <2>1 DEF DoOpenStart, DoOpenInit, Dispatch
<1>5. CASE DoClose
  <2>1. writing' = writing
    BY <1>5 DEF DoClose, Dispatch
  <2> QED
    BY <1>1, <1>2, <1>5, <2>1, CloseInstOwned DEF DoClose
<1>6. CASE DoSend
  <2>1. LET f == PutFrame("USER", 1)
        IN  f.tx = "none" /\ OwnedBy(f.out, writing)
    BY PutFrameOwned DEF BufferType
  <2>2. writing' = writing
    BY <1>6 DEF DoSend, Dispatch
  <2> QED
    BY <1>1, <1>2, <1>6, <2>1, <2>2 DEF DoSend
<1>7. CASE DoHandshakeTimeout \/ ReadError
  <2>1. writing' = writing
    BY <1>7 DEF DoHandshakeTimeout, ReadError, worker
  <2> QED
    BY <1>1, <1>7, <2>1, CloseInstOwned DEF DoHandshakeTimeout, ReadError
<1>8. CASE PollFails \/ ReplyFails
  <2>1. PICK upgrade \in BOOLEAN : HandshakeFailure(upgrade)
    BY <1>8 DEF PollFails, ReplyFails
  <2>2. inst = "HANDSHAKE" /\ writing' = writing
    BY <1>8 DEF PollFails, ReplyFails, ParseReply
  <2> QED
    BY <1>1, <2>1, <2>2, HandshakeFailureOwned DEF States, Closing
<1>9. CASE ParsePing
  <2>1. "PONG" \in BufferType /\ PongSize(Current[1]) \in Nat
    BY DEF BufferType, PongSize
  <2>2. LET f == PutFrame("PONG", PongSize(Current[1]))
        IN  f.tx = "none" /\ OwnedBy(f.out, writing)
    BY <2>1, PutFrameOwned
  <2> QED
    BY <1>1, <1>9, <2>2 DEF ParsePing, ParseItem
<1>10. CASE ParseEnd
  <2>1. inst = "OPEN" /\ CloseOpen(TRUE) /\ writing' = writing
    BY <1>10 DEF ParseEnd, ParseItem
  <2> QED
    BY <1>1, <2>1, CloseOpenOwned DEF States, Closing
<1>11. CASE GetBuffer
  <2>1. PICK i \in DOMAIN out.items :
           /\ out.items[i] # "poison"
           /\ out' = Got(out, i)
           /\ writing' = out.items[i]
    BY <1>11 DEF GetBuffer
  <2>2. writing = "none" /\ tx' = tx
    BY <1>11 DEF GetBuffer
  <2>3. /\ Queued(out') = Queued(out) \ {out.items[i]} /\ Distinct(out')
        /\ out'.flags = out.flags /\ out.items[i] \in Queued(out)
    <3>1. Distinct(out) /\ out.items[i] \in Queued(out)
      BY <2>1 DEF Owned, OwnedBy, Queued
    <3> QED
      BY <1>0, <2>1, <3>1, GotQueued, GotDistinct, GotRight
  <2>4. Queued(out') \cup {writing'} = Queued(out)
    BY <2>1, <2>3
  <2>5. out'.flags = (Queued(out') \cup {writing'}) \ {"poison", "none"}
    BY <2>2, <2>3, <2>4 DEF Owned, OwnedBy
  <2>6. writing' \notin Queued(out') /\ tx' = "none"
    BY <2>1, <2>2, <2>3 DEF Owned
  <2> QED
    BY <2>3, <2>5, <2>6 DEF Owned, OwnedBy
<1>12. CASE GetPoison
  <2>1. /\ out' = [flags |-> out.flags \ Queued(out), items |-> <<>>]
        /\ writing = "none" /\ writing' = "none" /\ tx' = tx
    BY <1>12 DEF GetPoison, Drained
  <2>2. Queued(out') = {} /\ Distinct(out')
    BY <2>1 DEF Queued, Distinct
  <2>3. out'.flags = {}
    BY <2>1 DEF Owned, OwnedBy
  <2> QED
    BY <2>1, <2>2, <2>3 DEF Owned, OwnedBy
<1>13. CASE WriteDone
  <2>1. /\ out'.items = out.items /\ out'.flags = out.flags \ {writing}
        /\ writing' = "none" /\ tx' = tx
    BY <1>0, <1>13 DEF WriteDone, Free, OutType
  <2>2. Queued(out') = Queued(out) /\ Distinct(out') /\ "none" \notin Queued(out)
    BY <1>0, <2>1 DEF Queued, Distinct, Owned, OwnedBy, OutType, Item, Buffer
  <2> QED
    BY <2>1, <2>2 DEF Owned, OwnedBy
<1>14. ASSUME \/ UNCHANGED vars \/ Wake \/ DoOpenBusy \/ DoOpenFail
              \/ PollIdle \/ ReadSome \/ ReadNothing \/ ParseMessage
              \/ ReplyPart \/ ReplyAccept \/ ParseClosed \/ ParseEmpty
              \/ GetNothing \/ WritePart \/ NotifyReaders
       PROVE  UNCHANGED <<out, tx, writing>>
  BY <1>14 DEF vars, Wake, DoOpenBusy, DoOpenFail, DoOpenInit, Dispatch,
               PollIdle, Pass, ReadSome, ReadNothing, ParseMessage, ParseItem,
               ReplyPart, ReplyAccept, ParseReply, ParseClosed, ParseEmpty,
               GetNothing, WritePart, NotifyReaders, worker
<1>15. ASSUME Recv \/ Reader \/ RecvTimeout \/ Caller
              \/ \E op \in Calls : CallStart(op)
       PROVE  UNCHANGED <<out, tx, writing>>
  BY <1>15 DEF Recv, Reader, TryGet, Look, RecvTimeout, ReaderStep, Caller,
               CallStart, CallAgain, CallReturn, Push, worker
<1> QED
  BY <1>2, <1>3, <1>4, <1>5, <1>6, <1>7, <1>8, <1>9, <1>10, <1>11, <1>12,
     <1>13, <1>14, <1>15
     DEF Next, Worker, Turn

----------------------------------------------------------------------------
(* What a connection starts with.                                          *)

\* Of a chunk that nobody will hand to an open websocket the rest is consumed
\* before the worker comes to the output queue, so that a closed client has
\* none.
ChunkPassed ==
    chunk # <<>> =>
        \/ inst = "OPEN"
        \/ pc = "parse"
        \/ inst # "HANDSHAKE" /\ pc \in {"dispatch", "read"}
Parsed == (state = "CLOSED" => chunk = <<>>) /\ ChunkPassed

\* Nor has it anything queued or half written.
Empty == state = "CLOSED" => out = OutZero /\ writing = "none"

\* A client that is closed has nothing queued by wic_close.
LEMMA CloseInstNotClosed ==
    ASSUME States, NEW written, NEW armed, CloseInst(written, armed)
    PROVE  /\ inst' = "CLOSED"
           /\ state' = "CLOSED" => UNCHANGED <<out, state>>
  BY DEF CloseInst, HandshakeFailure, CloseOpen, States

\* A chunk is consumed before its connection is gone, whatever the size of
\* the buffers.
LEMMA ParsedStep ==
    ASSUME TypeOK, HeldKept, States, Closing, Parsed, [Next]_vars
    PROVE  Parsed'
<1> USE DEF Parsed, ChunkPassed
<1>1. ASSUME UNCHANGED <<inst, state, chunk, pc>>
      PROVE  Parsed'
  BY <1>1
<1>2. ASSUME UNCHANGED <<inst, state, chunk>>, chunk = <<>> \/ pc' = pc
             \/ inst = "OPEN" \/ pc' = "parse"
             \/ (inst # "HANDSHAKE" /\ pc' \in {"dispatch", "read"})
      PROVE  Parsed'
  BY <1>2
<1>3. CASE Wake
  BY <1>3 DEF Wake, At, instance
<1>4. CASE DoOpenFail \/ DoOpenNotStarted
  <2>1. UNCHANGED chunk /\ state = "CLOSED"
    BY <1>4 DEF DoOpenFail, DoOpenNotStarted, DoOpenInit, Dispatch
  <2> QED
    BY <2>1
<1>5. CASE DoOpenStart
  BY <1>5 DEF DoOpenStart, DoOpenInit, Dispatch
<1>6. CASE DoOpenBusy
  BY <1>1, <1>6 DEF DoOpenBusy, Dispatch, instance
<1>7. CASE DoClose
  <2>1. UNCHANGED <<chunk, pc>> /\ pc = "dispatch"
    BY <1>7 DEF DoClose, Dispatch, At
  <2>2. CASE CloseInst(TRUE, timer)
    BY <2>1, <2>2, CloseInstNotClosed
  <2>3. CASE UNCHANGED <<instance, state>>
    BY <1>1, <2>1, <2>3 DEF instance
  <2> QED
    BY <1>7, <2>2, <2>3 DEF DoClose
<1>8. CASE DoSend
  BY <1>1, <1>8 DEF DoSend, Dispatch, instance
<1>9. CASE DoHandshakeTimeout
  <2>1. UNCHANGED <<chunk, pc>> /\ pc = "dispatch"
    BY <1>9 DEF DoHandshakeTimeout, worker, At
  <2> QED
    BY <1>9, <2>1, CloseInstNotClosed DEF DoHandshakeTimeout
<1>10. CASE PollIdle
  BY <1>10 DEF PollIdle, Polling, At, Pass, instance
<1>11. CASE PollFails
  BY <1>11 DEF PollFails, Polling, At, HandshakeFailure
<1>12. CASE ReadSome
  BY <1>12 DEF ReadSome, States, instance
<1>13. CASE ReadNothing
  BY <1>13 DEF ReadNothing, Pass, instance
<1>14. CASE ReadError
  BY <1>14, CloseInstNotClosed DEF ReadError
<1>15. CASE ParseMessage \/ ParsePing
  <2>1. inst = "OPEN" /\ inst' = "OPEN" /\ state' = "OPEN"
    BY <1>15 DEF ParseMessage, ParsePing, ParseItem, States
  <2> QED
    BY <2>1
<1>16. CASE ParseEnd
  BY <1>16 DEF ParseEnd, CloseOpen
<1>17. CASE ReplyPart
  <2>1. inst = "HANDSHAKE" /\ inst' = inst /\ state' = state /\ pc = "parse" /\ pc' = pc
    BY <1>17 DEF ReplyPart, ParseReply, Parsing, At, Polling, HeldKept
  <2> QED
    BY <2>1 DEF States
<1>18. CASE ReplyAccept
  BY <1>18 DEF ReplyAccept
<1>19. CASE ReplyFails
  BY <1>19 DEF ReplyFails, HandshakeFailure
<1>20. CASE ParseClosed
  BY <1>20 DEF ParseClosed, instance
<1>21. CASE ParseEmpty
  BY <1>21 DEF ParseEmpty, Pass, instance
<1>22. CASE GetNothing
  BY <1>22 DEF GetNothing, At, Pass, instance
<1>23. CASE GetBuffer
  BY <1>23 DEF GetBuffer, At, instance
<1>24. CASE GetPoison
  <2>1. /\ \E i \in DOMAIN out.items : out.items[i] = "poison"
        /\ UNCHANGED <<inst, chunk>> /\ pc = "get"
    BY <1>24 DEF GetPoison, At, instance
  <2>2. state = "CLOSING"
    BY <2>1 DEF Closing, PoisonsIn
  <2> QED
    BY <2>1, <2>2 DEF States
<1>25. CASE WritePart \/ WriteDone
  BY <1>25 DEF WritePart, WriteDone, Pass, At, instance
<1>26. ASSUME UNCHANGED vars \/ NotifyReaders
       PROVE  UNCHANGED <<inst, state, chunk, pc>>
  BY <1>26 DEF vars, NotifyReaders, instance, worker
<1>27. ASSUME Recv \/ Reader \/ RecvTimeout \/ Caller
              \/ \E op \in Calls : CallStart(op)
       PROVE  UNCHANGED <<inst, state, chunk, pc>>
  BY <1>27 DEF Recv, Reader, TryGet, Look, RecvTimeout, ReaderStep, Caller,
               CallStart, CallAgain, CallReturn, Push, worker, instance
<1> QED
  BY <1>1, <1>3, <1>4, <1>5, <1>6, <1>7, <1>8, <1>9, <1>10, <1>11, <1>12,
     <1>13, <1>14, <1>15, <1>16, <1>17, <1>18, <1>19, <1>20, <1>21, <1>22,
     <1>23, <1>24, <1>25, <1>26, <1>27
     DEF Next, Worker, Turn

\* A closed client keeps no buffer through any step.
LEMMA EmptyStep ==
    ASSUME TypeOK, HeldKept, States, Closing, Owned, Empty, [Next]_vars
    PROVE  Empty'
<1> USE DEF Empty
<1>1. ASSUME state' = "CLOSED" => UNCHANGED <<state, out, writing>>
      PROVE  Empty'
  BY <1>1
<1>2. CASE DoOpenFail \/ DoOpenNotStarted \/ DoOpenBusy
  BY <1>2 DEF DoOpenFail, DoOpenNotStarted, DoOpenBusy, DoOpenInit, Dispatch
<1>3. CASE DoOpenStart
  BY <1>3 DEF DoOpenStart
<1>4. CASE DoClose
  BY <1>1, <1>4, CloseInstNotClosed DEF DoClose, Dispatch
<1>5. CASE DoSend
  <2>1. UNCHANGED <<state, writing>>
    BY <1>5 DEF DoSend, Dispatch
  <2>2. state # "CLOSED" \/ out' = out
    BY <1>5 DEF DoSend, States
  <2> QED
    BY <2>1, <2>2
<1>6. CASE DoHandshakeTimeout \/ ReadError
  BY <1>1, <1>6, CloseInstNotClosed DEF DoHandshakeTimeout, ReadError, worker
<1>7. CASE PollFails \/ ReplyFails
  BY <1>7 DEF PollFails, ReplyFails, HandshakeFailure
<1>8. CASE ParseMessage \/ ParsePing
  BY <1>8 DEF ParseMessage, ParsePing, ParseItem, States
<1>9. CASE ParseEnd
  BY <1>9 DEF ParseEnd, CloseOpen
<1>10. CASE ReplyPart
  BY <1>1, <1>10 DEF ReplyPart, ParseReply
<1>11. CASE ReplyAccept
  BY <1>11 DEF ReplyAccept
<1>12. CASE GetBuffer
  <2>1. out.items # <<>> /\ UNCHANGED state
    BY <1>12 DEF GetBuffer
  <2>2. state # "CLOSED"
    BY <2>1 DEF OutZero
  <2> QED
    BY <2>1, <2>2
<1>13. CASE GetPoison
  <2>1. /\ out' = [flags |-> out.flags \ Queued(out), items |-> <<>>]
        /\ writing = "none" /\ UNCHANGED writing
    BY <1>13 DEF GetPoison, Drained
  <2>2. out.flags \ Queued(out) = {}
    BY <2>1 DEF Owned, OwnedBy
  <2> QED
    BY <2>1, <2>2 DEF OutZero
<1>14. CASE WriteDone
  <2>1. Free(OutZero, writing) = OutZero
    BY DEF Free, OutZero
  <2> QED
    BY <1>14, <2>1 DEF WriteDone
<1>15. ASSUME \/ UNCHANGED vars \/ Wake \/ PollIdle \/ ReadSome \/ ReadNothing
              \/ ParseClosed \/ ParseEmpty \/ GetNothing \/ WritePart
              \/ NotifyReaders
       PROVE  UNCHANGED <<state, out, writing>>
  BY <1>15 DEF vars, Wake, PollIdle, Pass, ReadSome, ReadNothing, ParseClosed,
               ParseEmpty, GetNothing, WritePart, NotifyReaders, worker
<1>16. ASSUME Recv \/ Reader \/ RecvTimeout \/ Caller
              \/ \E op \in Calls : CallStart(op)
       PROVE  UNCHANGED <<state, out, writing>>
  BY <1>16 DEF Recv, Reader, TryGet, Look, RecvTimeout, ReaderStep, Caller,
               CallStart, CallAgain, CallReturn, Push, worker
<1> QED
  BY <1>1, <1>2, <1>3, <1>4, <1>5, <1>6, <1>7, <1>8, <1>9, <1>10, <1>11,
     <1>12, <1>13, <1>14, <1>15, <1>16 DEF Next, Worker, Turn

\* A chunk is consumed with its connection.
LEMMA ParsedHolds == Spec => []Parsed
<1>1. Init => Parsed
  BY DEF Init, Parsed, ChunkPassed
<1>2. TypeOK /\ HeldKept /\ (States /\ Closing) /\ Parsed /\ [Next]_vars
      => Parsed'
  BY ParsedStep
<1> QED
  BY TypeCorrect, LifeHolds, <1>1, <1>2, PTL DEF Spec

\* The invariant of a client with a large enough user buffer.
Whole == Owned /\ Empty

\* Whole holds before the first connection.
LEMMA WholeInit == Init => Whole
<1> SUFFICES ASSUME Init PROVE Whole
  OBVIOUS
<1>1. out = OutZero /\ writing = "none" /\ tx = "none"
  BY DEF Init
<1>2. Queued(OutZero) = {} /\ Distinct(OutZero) /\ OutZero.flags = {}
  BY DEF OutZero, Queued, Distinct
<1> QED
  BY <1>1, <1>2 DEF Whole, Empty, Owned, OwnedBy

\* Owned and Empty are invariants.
LEMMA WholeHolds == LargeBuffer => (Spec => []Whole)
<1> SUFFICES ASSUME LargeBuffer PROVE Spec => []Whole
  OBVIOUS
<1>1. /\ TypeOK /\ HeldKept /\ (States /\ Closing) /\ Whole /\ [Next]_vars
      => Whole'
  BY OwnedStep, EmptyStep DEF Whole
<1> QED
  BY TypeCorrect, LifeHolds, WholeInit, <1>1, PTL DEF Spec

\* No buffer is lost, and none is in two places, whatever is refused, blocked,
\* drained or fails.
THEOREM BuffersOwnedHolds == LargeBuffer => (Spec => []BuffersOwned)
<1> SUFFICES ASSUME LargeBuffer PROVE Spec => []BuffersOwned
  OBVIOUS
<1>1. TypeOK /\ Whole => BuffersOwned
  BY OwnedIs DEF Whole
<1> QED
  BY TypeCorrect, WholeHolds, <1>1, PTL

\* A connection starts with nothing of the last one.
THEOREM FreshStartHolds == LargeBuffer => (Spec => FreshStart)
<1> SUFFICES ASSUME LargeBuffer PROVE Spec => FreshStart
  OBVIOUS
<1>1. ASSUME Parsed, Whole, [Next]_vars, state = "CLOSED", state' = "OPENING"
      PROVE  input' = <<>>
  <2>1. ASSUME NEW written, NEW armed, CloseInst(written, armed)
        PROVE  state' \in {state, "CLOSING"}
    BY <2>1 DEF CloseInst, HandshakeFailure, CloseOpen
  <2>2. ~(DoClose \/ DoHandshakeTimeout \/ ReadError)
    BY <1>1, <2>1 DEF DoClose, DoHandshakeTimeout, ReadError
  <2>3. ~(\/ DoOpenFail \/ DoOpenNotStarted \/ PollFails \/ ParseEnd
          \/ ReplyAccept \/ ReplyFails \/ GetPoison)
    BY <1>1 DEF DoOpenFail, DoOpenNotStarted, CloseSocket, PollFails, ParseEnd,
                CloseOpen, ReplyAccept, ReplyFails, HandshakeFailure, GetPoison
  <2>4. ~(\/ UNCHANGED vars \/ Wake \/ DoOpenBusy \/ DoSend \/ PollIdle
          \/ ReadSome \/ ReadNothing \/ ParseMessage \/ ParsePing
          \/ ReplyPart \/ ParseClosed \/ ParseEmpty \/ GetNothing
          \/ GetBuffer \/ WritePart \/ WriteDone \/ NotifyReaders)
    BY <1>1 DEF vars, Wake, DoOpenBusy, DoSend, PollIdle, Pass, ReadSome,
                ReadNothing, ParseMessage, ParsePing, ReplyPart, ParseClosed,
                ParseEmpty, GetNothing, GetBuffer, WritePart, WriteDone,
                NotifyReaders
  <2>5. ~(\/ Recv \/ Reader \/ RecvTimeout \/ Caller
          \/ \E op \in Calls : CallStart(op))
    BY <1>1 DEF Recv, Reader, TryGet, Look, RecvTimeout, ReaderStep, Caller,
                CallStart, CallAgain, CallReturn, Push
  <2>6. DoOpenStart
    BY <1>1, <2>2, <2>3, <2>4, <2>5 DEF Next, Worker, Turn
  <2> QED
    BY <2>6 DEF DoOpenStart, DoOpenInit
<1>2. Parsed /\ Whole /\ [Next]_vars
      => [(state = "CLOSED" /\ state' = "OPENING") =>
            /\ out = OutZero
            /\ writing = "none"
            /\ chunk = <<>>
            /\ input' = <<>>]_vars
  BY <1>1 DEF Whole, Empty, Parsed
<1> QED
  BY ParsedHolds, WholeHolds, <1>2, PTL DEF Spec, FreshStart

----------------------------------------------------------------------------
(* The messages on their way to recv.                                      *)

\* The chunk c has the messages after from up to to, in order.
Msgs(c) == {i \in DOMAIN c : c[i][1] = "msg"}
Carries(c, from, to) ==
    /\ {c[i][2] : i \in Msgs(c)} = from + 1 .. to
    /\ \A i, j \in Msgs(c) : i < j => c[i][2] < c[j][2]

\* What is left of a chunk when its first item is parsed.
LEMMA TailItems ==
    ASSUME NEW c \in Seq(ItemOf), c # <<>>
    PROVE  /\ Tail(c) \in Seq(ItemOf) /\ 1 \in DOMAIN c /\ Head(c) = c[1]
           /\ \A i \in DOMAIN Tail(c) : i + 1 \in DOMAIN c /\ Tail(c)[i] = c[i + 1]
           /\ \A i \in DOMAIN c \ {1} : i - 1 \in DOMAIN Tail(c)
                                        /\ Tail(c)[i - 1] = c[i] /\ i - 1 + 1 = i
           /\ DOMAIN c \subseteq Nat /\ DOMAIN Tail(c) \subseteq Nat
           /\ \A i \in DOMAIN c : c[i] \in ItemOf /\ c[i][2] \in Nat
<1>1. /\ Tail(c) \in Seq(ItemOf) /\ 1 \in DOMAIN c /\ Head(c) = c[1]
      /\ DOMAIN c = 1 .. Len(c) /\ DOMAIN Tail(c) = 1 .. Len(c) - 1
      /\ Len(c) \in Nat
      /\ \A i \in DOMAIN Tail(c) : Tail(c)[i] = c[i + 1]
  OBVIOUS
<1>2. \A i \in DOMAIN c : c[i] \in ItemOf
  OBVIOUS
<1>3. \A x \in ItemOf : x[2] \in Nat
  BY DEF ItemOf
<1>4. ASSUME NEW i \in DOMAIN c \ {1}
      PROVE  i - 1 \in DOMAIN Tail(c) /\ Tail(c)[i - 1] = c[i] /\ i - 1 + 1 = i
  <2>1. i - 1 \in DOMAIN Tail(c) /\ i - 1 + 1 = i
    BY <1>1
  <2> QED
    BY <1>1, <2>1
<1> QED
  BY <1>1, <1>2, <1>3, <1>4

\* Two sets of items with the same numbers.
LEMMA SameNumbers ==
    ASSUME NEW f, NEW S, NEW g, NEW T,
           \A i \in S : \E j \in T : g[j][2] = f[i][2],
           \A j \in T : \E i \in S : f[i][2] = g[j][2]
    PROVE  {f[i][2] : i \in S} = {g[j][2] : j \in T}
<1>1. ASSUME NEW x \in {f[i][2] : i \in S} PROVE x \in {g[j][2] : j \in T}
  BY <1>1
<1>2. ASSUME NEW x \in {g[j][2] : j \in T} PROVE x \in {f[i][2] : i \in S}
  BY <1>2
<1> QED
  BY <1>1, <1>2

\* An item that is no message: the rest carries the same.
LEMMA TailOther ==
    ASSUME NEW c \in Seq(ItemOf), c # <<>>, Head(c)[1] # "msg",
           NEW a \in Nat, NEW b \in Nat, Carries(c, a, b)
    PROVE  Carries(Tail(c), a, b)
<1>1. \A i \in Msgs(Tail(c)) : i + 1 \in Msgs(c) /\ Tail(c)[i] = c[i + 1]
  BY TailItems DEF Msgs
<1>2. \A i \in Msgs(c) : i - 1 \in Msgs(Tail(c)) /\ Tail(c)[i - 1] = c[i]
  BY TailItems DEF Msgs
<1>3. Msgs(Tail(c)) \subseteq Nat
  BY TailItems DEF Msgs
<1>4. {Tail(c)[i][2] : i \in Msgs(Tail(c))} = {c[i][2] : i \in Msgs(c)}
  <2>1. ASSUME NEW i \in Msgs(Tail(c))
        PROVE  \E j \in Msgs(c) : c[j][2] = Tail(c)[i][2]
    BY <1>1
  <2>2. ASSUME NEW i \in Msgs(c)
        PROVE  \E j \in Msgs(Tail(c)) : Tail(c)[j][2] = c[i][2]
    BY <1>2
  <2> DEFINE d == Tail(c)
  <2>3. /\ \A i \in Msgs(d) : \E j \in Msgs(c) : c[j][2] = d[i][2]
        /\ \A i \in Msgs(c) : \E j \in Msgs(d) : d[j][2] = c[i][2]
    BY <2>1, <2>2
  <2> HIDE DEF d
  <2>4. {d[i][2] : i \in Msgs(d)} = {c[i][2] : i \in Msgs(c)}
    BY <2>3, SameNumbers
  <2> QED
    BY <2>4 DEF d
<1>5. ASSUME NEW i \in Msgs(Tail(c)), NEW j \in Msgs(Tail(c)), i < j
      PROVE  Tail(c)[i][2] < Tail(c)[j][2]
  <2>1. i + 1 < j + 1
    BY <1>3, <1>5
  <2> QED
    BY <1>1, <1>5, <2>1 DEF Carries
<1> QED
  BY <1>4, <1>5 DEF Carries

\* A message: it is the next, and the rest carries the ones after it.
LEMMA TailMessage ==
    ASSUME NEW c \in Seq(ItemOf), c # <<>>, Head(c)[1] = "msg",
           NEW a \in Nat, NEW b \in Nat, Carries(c, a, b)
    PROVE  /\ Head(c)[2] = a + 1
           /\ a + 1 <= b
           /\ Carries(Tail(c), a + 1, b)
<1>1. \A i \in Msgs(Tail(c)) : i + 1 \in Msgs(c) /\ Tail(c)[i] = c[i + 1] /\ i + 1 > 1
  BY TailItems DEF Msgs
<1>2. \A i \in Msgs(c) \ {1} : i - 1 \in Msgs(Tail(c)) /\ Tail(c)[i - 1] = c[i] /\ i > 1
  BY TailItems DEF Msgs
<1>3. Msgs(Tail(c)) \subseteq Nat /\ 1 \in Msgs(c) /\ Head(c) = c[1]
      /\ \A i \in Msgs(c) : c[i][2] \in Nat
  BY TailItems DEF Msgs
<1>4. c[1][2] \in a + 1 .. b
  BY <1>3 DEF Carries
<1>5. \A i \in Msgs(c) \ {1} : c[1][2] < c[i][2]
  BY <1>2, <1>3 DEF Carries
<1>6. c[1][2] = a + 1
  <2>1. a + 1 \in {c[i][2] : i \in Msgs(c)}
    <3>1. a + 1 \in a + 1 .. b
      BY <1>4
    <3> QED
      BY <3>1 DEF Carries
  <2>2. PICK i \in Msgs(c) : c[i][2] = a + 1
    BY <2>1
  <2>3. i = 1
    BY <1>3, <1>4, <1>5, <2>2
  <2> QED
    BY <2>2, <2>3
<1>7. {Tail(c)[i][2] : i \in Msgs(Tail(c))} = {c[i][2] : i \in Msgs(c) \ {1}}
  <2>1. ASSUME NEW i \in Msgs(Tail(c))
        PROVE  \E j \in Msgs(c) \ {1} : c[j][2] = Tail(c)[i][2]
    <3>1. i + 1 \in Msgs(c) /\ Tail(c)[i] = c[i + 1] /\ i + 1 > 1
      BY <1>1
    <3>2. i + 1 # 1
      BY <1>3, <3>1
    <3> QED
      BY <3>1, <3>2
  <2>2. ASSUME NEW i \in Msgs(c) \ {1}
        PROVE  \E j \in Msgs(Tail(c)) : Tail(c)[j][2] = c[i][2]
    BY <1>2
  <2> DEFINE d == Tail(c)
  <2>3. /\ \A i \in Msgs(d) : \E j \in Msgs(c) \ {1} : c[j][2] = d[i][2]
        /\ \A i \in Msgs(c) \ {1} : \E j \in Msgs(d) : d[j][2] = c[i][2]
    BY <2>1, <2>2
  <2> HIDE DEF d
  <2>4. {d[i][2] : i \in Msgs(d)} = {c[i][2] : i \in Msgs(c) \ {1}}
    BY <2>3, SameNumbers
  <2> QED
    BY <2>4 DEF d
<1>8. {c[i][2] : i \in Msgs(c) \ {1}} = a + 2 .. b
  <2>1. ASSUME NEW i \in Msgs(c) \ {1} PROVE c[i][2] \in a + 2 .. b
    <3>1. c[i][2] \in a + 1 .. b /\ a + 1 < c[i][2]
      BY <1>5, <1>6 DEF Carries
    <3> QED
      BY <3>1
  <2>2. ASSUME NEW m \in a + 2 .. b PROVE \E i \in Msgs(c) \ {1} : c[i][2] = m
    <3>1. m \in a + 1 .. b /\ m # a + 1
      OBVIOUS
    <3>2. PICK i \in Msgs(c) : c[i][2] = m
      BY <3>1 DEF Carries
    <3> QED
      BY <1>6, <3>1, <3>2
  <2> QED
    BY <2>1, <2>2
<1>9. ASSUME NEW i \in Msgs(Tail(c)), NEW j \in Msgs(Tail(c)), i < j
      PROVE  Tail(c)[i][2] < Tail(c)[j][2]
  <2>1. i + 1 < j + 1
    BY <1>3, <1>9
  <2> QED
    BY <1>1, <1>9, <2>1 DEF Carries
<1>10. Carries(Tail(c), a + 1, b)
  <2>1. a + 1 + 1 = a + 2
    OBVIOUS
  <2> QED
    BY <1>7, <1>8, <1>9, <2>1 DEF Carries
<1>11. a + 1 <= b
  BY <1>4
<1> QED
  BY <1>3, <1>6, <1>10, <1>11

\* Counting the messages of a read, item by item.
LEMMA MessagesNext ==
    ASSUME NEW kinds, NEW i \in Nat
    PROVE  /\ Messages(kinds, 0) = 0
           /\ Messages(kinds, i + 1) =
                 Messages(kinds, i) + IF kinds[i + 1] = "msg" THEN 1 ELSE 0
<1> DEFINE upto(k) == {j \in 1 .. k : kinds[j] = "msg"}
<1>1. IsFiniteSet(upto(i)) /\ i + 1 \notin upto(i)
  <2>1. IsFiniteSet(1 .. i)
    BY FS_Interval
  <2>2. upto(i) \subseteq 1 .. i
    OBVIOUS
  <2>3. i + 1 \notin upto(i)
    OBVIOUS
  <2> QED
    BY <2>1, <2>2, <2>3, FS_Subset
<1>2. upto(i + 1) = IF kinds[i + 1] = "msg" THEN upto(i) \cup {i + 1} ELSE upto(i)
  OBVIOUS
<1>3. upto(0) = {}
  OBVIOUS
<1> HIDE DEF upto
<1>4. Cardinality(upto(i) \cup {i + 1}) = Cardinality(upto(i)) + 1
  BY <1>1, FS_AddElement
<1>5. Cardinality(upto(i)) \in Nat /\ Cardinality({}) = 0
  BY <1>1, FS_CardinalityType, FS_EmptySet
<1>6. Messages(kinds, i) = Cardinality(upto(i))
      /\ Messages(kinds, i + 1) = Cardinality(upto(i + 1))
      /\ Messages(kinds, 0) = Cardinality(upto(0))
  BY DEF Messages, upto
<1> QED
  BY <1>2, <1>3, <1>4, <1>5, <1>6

\* The messages of a read are numbered without a gap.
LEMMA ReadNumbers ==
    ASSUME NEW kinds, NEW n \in Nat
    PROVE  /\ {Messages(kinds, i) : i \in {j \in 1 .. n : kinds[j] = "msg"}}
                 = 1 .. Messages(kinds, n)
           /\ \A i, j \in 1 .. n :
                 i < j /\ kinds[j] = "msg" => Messages(kinds, i) < Messages(kinds, j)
<1> DEFINE M(i) == Messages(kinds, i)
           Counted(k) == {M(i) : i \in {j \in 1 .. k : kinds[j] = "msg"}} = 1 .. M(k)
           Grows(k) == \A i \in 1 .. k : M(i) <= M(k)
           S == {k \in Nat : Counted(k) /\ Grows(k)}
<1>1. \A i \in Nat : M(i) \in Nat
  BY MessagesType
<1>2. /\ M(0) = 0
      /\ \A i \in Nat : M(i + 1) = M(i) + IF kinds[i + 1] = "msg" THEN 1 ELSE 0
  BY MessagesNext
<1> HIDE DEF M
<1>3. 0 \in S
  BY <1>2
<1>4. ASSUME NEW k \in Nat, k \in S PROVE k + 1 \in S
  <2>1. Grows(k + 1)
    <3> SUFFICES ASSUME NEW i \in 1 .. k + 1 PROVE M(i) <= M(k + 1)
      OBVIOUS
    <3>1. CASE i = k + 1
      BY <1>1, <3>1
    <3>2. CASE i \in 1 .. k
      BY <1>1, <1>2, <1>4, <3>2
    <3> QED
      BY <3>1, <3>2
  <2>2. Counted(k + 1)
    <3> DEFINE J == {j \in 1 .. k : kinds[j] = "msg"}
    <3>1. {M(i) : i \in J} = 1 .. M(k)
      BY <1>4
    <3>2. CASE kinds[k + 1] = "msg"
      <4>1. {j \in 1 .. k + 1 : kinds[j] = "msg"} = J \cup {k + 1}
        BY <3>2
      <4>2. M(k + 1) = M(k) + 1 /\ M(k) \in Nat
        BY <1>1, <1>2, <3>2
      <4>3. {M(i) : i \in J \cup {k + 1}} = {M(i) : i \in J} \cup {M(k + 1)}
        OBVIOUS
      <4>4. 1 .. M(k) + 1 = (1 .. M(k)) \cup {M(k) + 1}
        BY <4>2
      <4> QED
        BY <3>1, <4>1, <4>2, <4>3, <4>4
    <3>3. CASE kinds[k + 1] # "msg"
      <4>1. {j \in 1 .. k + 1 : kinds[j] = "msg"} = J
        BY <3>3
      <4>2. M(k + 1) = M(k)
        BY <1>1, <1>2, <3>3
      <4> QED
        BY <3>1, <4>1, <4>2
    <3> QED
      BY <3>2, <3>3
  <2> QED
    BY <2>1, <2>2
<1>5. Nat \subseteq S
  <2> HIDE DEF S
  <2> QED
    BY <1>3, <1>4, SetInduction
<1>6. Counted(n)
  BY <1>5
<1>7. ASSUME NEW i \in 1 .. n, NEW j \in 1 .. n, i < j, kinds[j] = "msg"
      PROVE  M(i) < M(j)
  <2>1. j - 1 \in Nat /\ i \in 1 .. j - 1 /\ j - 1 + 1 = j
    BY <1>7
  <2>2. Grows(j - 1)
    BY <1>5, <2>1
  <2>3. M(j) = M(j - 1) + 1
    BY <1>2, <1>7, <2>1
  <2> QED
    BY <1>1, <1>7, <2>1, <2>2, <2>3
<1> QED
  BY <1>6, <1>7 DEF M

\* What the parser takes of a chunk goes on in the line, whoever holds it next.
LEMMA ReadCarries ==
    ASSUME NEW kinds, NEW n \in Nat, NEW s \in Nat, NEW c,
           c = [i \in 1 .. n |->
                  <<kinds[i], IF kinds[i] = "msg" THEN s + Messages(kinds, i) ELSE 0>>]
    PROVE  Carries(c, s, s + Messages(kinds, n))
<1> DEFINE J == {j \in 1 .. n : kinds[j] = "msg"}
           M(i) == Messages(kinds, i)
<1>1. Msgs(c) = J
  BY DEF Msgs
<1>2. \A i \in J : c[i][2] = s + M(i)
  OBVIOUS
<1>3. \A i \in 1 .. n : M(i) \in Nat
  BY MessagesType
<1>4. {M(i) : i \in J} = 1 .. M(n) /\ M(n) \in Nat
      /\ \A i, j \in J : i < j => M(i) < M(j)
  BY ReadNumbers, MessagesType
<1> HIDE DEF M
<1>5. {c[i][2] : i \in J} = s + 1 .. s + M(n)
  <2>1. {c[i][2] : i \in J} = {s + M(i) : i \in J}
    BY <1>2
  <2>2. ASSUME NEW i \in J PROVE s + M(i) \in s + 1 .. s + M(n)
    <3>1. M(i) \in 1 .. M(n)
      BY <1>4
    <3> QED
      BY <1>4, <3>1
  <2>3. ASSUME NEW m \in s + 1 .. s + M(n) PROVE \E i \in J : m = s + M(i)
    <3>1. m - s \in 1 .. M(n)
      BY <1>4
    <3>2. PICK i \in J : M(i) = m - s
      BY <1>4, <3>1
    <3> QED
      BY <3>1, <3>2
  <2> QED
    BY <2>1, <2>2, <2>3
<1>6. \A i, j \in J : i < j => c[i][2] < c[j][2]
  BY <1>2, <1>3, <1>4
<1> QED
  BY <1>1, <1>5, <1>6 DEF Carries, M

\* Line, of what carries the messages.
InLine(q, h, c, s, g) ==
    LET reached == g + Len(q) + IF h[1] = "msg" THEN 1 ELSE 0
    IN  /\ \A i \in DOMAIN q : q[i] = g + i
        /\ h[1] = "msg" => h[2] = reached
        /\ reached <= s
        /\ Carries(c, reached, s)
\* The line over the variables is InLine.
LEMMA LineIs == Line <=> InLine(input, held, chunk, sent, got)
  BY DEF Line, InLine, Reached, Unparsed, Carries, Msgs

\* The invariant: Conveyor, from the moment the socket is open.
LineInv == inst \in {"HANDSHAKE", "OPEN"} => Line

\* Nothing is on its way in a connection that starts.
LEMMA LineEmpty == InLine(<<>>, None, <<>>, 0, 0)
<1>1. Msgs(<<>>) = {} /\ Len(<<>>) = 0 /\ DOMAIN <<>> = {}
  BY DEF Msgs
<1>2. 0 + 1 .. 0 = {}
  OBVIOUS
<1>3. Carries(<<>>, 0, 0)
  BY <1>1, <1>2 DEF Carries
<1> QED
  BY <1>1, <1>3 DEF InLine, None

\* The end of the queue becomes the last message but the parser's.
LEMMA LineAppend ==
    ASSUME NEW q \in Seq(Nat), NEW g \in Nat, \A i \in DOMAIN q : q[i] = g + i,
           NEW m, m = g + Len(q) + 1
    PROVE  /\ Append(q, m) \in Seq(Nat) /\ Len(Append(q, m)) = Len(q) + 1
           /\ \A i \in DOMAIN Append(q, m) : Append(q, m)[i] = g + i
  OBVIOUS

\* recv takes the message after the last that it has returned.
LEMMA LineHead ==
    ASSUME NEW q \in Seq(Nat), q # <<>>, NEW g \in Nat,
           \A i \in DOMAIN q : q[i] = g + i
    PROVE  /\ Head(q) = g + 1 /\ Len(Tail(q)) = Len(q) - 1 /\ Len(q) \in Nat
           /\ \A i \in DOMAIN Tail(q) : Tail(q)[i] = g + 1 + i
  OBVIOUS

\* An item that is no message leaves the line.
LEMMA LineOther ==
    ASSUME NEW q \in Seq(Nat), NEW h, NEW g \in Nat, NEW s \in Nat,
           NEW c \in Seq(ItemOf), c # <<>>, Head(c)[1] # "msg",
           InLine(q, h, c, s, g)
    PROVE  InLine(q, h, Tail(c), s, g)
<1> DEFINE reached == g + Len(q) + IF h[1] = "msg" THEN 1 ELSE 0
<1>1. reached \in Nat /\ Carries(c, reached, s)
  BY DEF InLine
<1>2. Carries(Tail(c), reached, s)
  BY <1>1, TailOther
<1> QED
  BY <1>2 DEF InLine

\* A message leaves the chunk for a parser that has none: it is the next.
LEMMA LineMessage ==
    ASSUME NEW q \in Seq(Nat), NEW h, NEW g \in Nat, NEW s \in Nat,
           NEW c \in Seq(ItemOf), c # <<>>, Head(c)[1] = "msg", h[1] # "msg",
           InLine(q, h, c, s, g)
    PROVE  InLine(q, Head(c), Tail(c), s, g)
<1> DEFINE r == g + Len(q)
<1>1. r \in Nat /\ Carries(c, r, s)
  BY DEF InLine
<1>2. Head(c)[2] = r + 1 /\ r + 1 <= s /\ Carries(Tail(c), r + 1, s)
  BY <1>1, TailMessage
<1> QED
  BY <1>2 DEF InLine

\* The message of the parser goes to the end of the queue.
LEMMA LineQueued ==
    ASSUME NEW q \in Seq(Nat), NEW h, NEW g \in Nat, NEW s, NEW c,
           h[1] = "msg", InLine(q, h, c, s, g)
    PROVE  InLine(Append(q, h[2]), None, c, s, g)
<1>1. h[2] = g + Len(q) + 1
  BY DEF InLine
<1>2. /\ Len(Append(q, h[2])) = Len(q) + 1 /\ Len(q) \in Nat
      /\ \A i \in DOMAIN Append(q, h[2]) : Append(q, h[2])[i] = g + i
  BY <1>1, LineAppend DEF InLine
<1>3. g + (Len(q) + 1) + 0 = g + Len(q) + 1
  BY <1>2
<1> QED
  BY <1>2, <1>3 DEF InLine, None

\* recv returns the first message of the queue.
LEMMA LineGot ==
    ASSUME NEW q \in Seq(Nat), q # <<>>, NEW h, NEW g \in Nat, NEW s, NEW c,
           InLine(q, h, c, s, g)
    PROVE  InLine(Tail(q), h, c, s, Head(q))
<1>1. /\ Head(q) = g + 1 /\ Len(Tail(q)) = Len(q) - 1 /\ Len(q) \in Nat
      /\ \A i \in DOMAIN Tail(q) : Tail(q)[i] = g + 1 + i
  BY LineHead DEF InLine
<1>2. g + 1 + (Len(q) - 1) = g + Len(q)
  BY <1>1
<1> QED
  BY <1>1, <1>2 DEF InLine

\* A read extends the line at its end.
LEMMA LineRead ==
    ASSUME NEW q \in Seq(Nat), NEW h, NEW g \in Nat, NEW s \in Nat,
           InLine(q, h, <<>>, s, g), NEW c, NEW t \in Nat, Carries(c, s, s + t)
    PROVE  InLine(q, h, c, s + t, g)
<1> DEFINE r == g + Len(q) + IF h[1] = "msg" THEN 1 ELSE 0
<1>1. r \in Nat /\ r <= s /\ Carries(<<>>, r, s)
  BY DEF InLine
<1>2. Msgs(<<>>) = {}
  BY DEF Msgs
<1>3. s \notin r + 1 .. s
  BY <1>1, <1>2 DEF Carries
<1> HIDE DEF r
<1>4. r = s
  BY <1>1, <1>3
<1> QED
  BY <1>4 DEF InLine, r

\* A message that is parsed goes to the queue or stays with the parser.
LEMMA LineParsed ==
    ASSUME TypeOK, HeldKept, LineInv, ParseMessage
    PROVE  LineInv'
<1>1. /\ inst = "OPEN" /\ InLine(input, held, chunk, sent, got)
      /\ UNCHANGED <<sent, got>> /\ Current[1] = "msg"
      /\ held = None => chunk # <<>>
  BY LineIs DEF ParseMessage, ParseItem, LineInv, Parsing
<1>2. input \in Seq(Nat) /\ chunk \in Seq(ItemOf) /\ sent \in Nat /\ got \in Nat
  BY DEF TypeOK
<1>3. InLine(input, Current, Consumed, sent, got)
  <2>1. CASE held # None
    BY <1>1, <2>1 DEF Current, Consumed
  <2>2. CASE held = None
    <3>1. held[1] # "msg" /\ Head(chunk)[1] = "msg" /\ chunk # <<>>
      BY <1>1, <2>2 DEF Current, None
    <3>2. InLine(input, Head(chunk), Tail(chunk), sent, got)
      BY <1>1, <1>2, <3>1, LineMessage
    <3> QED
      BY <2>2, <3>2 DEF Current, Consumed
  <2> QED
    BY <2>1, <2>2
<1>4. InLine(input', held', chunk', sent', got')
  <2>1. CASE Blocked /\ UNCHANGED input
    BY <1>1, <1>3, <2>1 DEF Blocked
  <2>2. CASE input' = Append(input, Current[2]) /\ GoOn
    <3>1. InLine(Append(input, Current[2]), None, Consumed, sent, got)
      BY <1>1, <1>2, <1>3, LineQueued
    <3> QED
      BY <1>1, <2>2, <3>1 DEF GoOn
  <2> QED
    BY <2>1, <2>2 DEF ParseMessage
<1>5. Line'
  BY <1>4 DEF Line, InLine, Reached, Unparsed, Carries, Msgs
<1> QED
  BY <1>5 DEF LineInv

\* Every step keeps the line, or begins or ends a connection.
LEMMA LineStep ==
    ASSUME TypeOK, HeldKept, Parsed, LineInv, [Next]_vars
    PROVE  LineInv'
<1>0. /\ input \in Seq(Nat) /\ chunk \in Seq(ItemOf) /\ sent \in Nat /\ got \in Nat
      /\ inst \in {"HANDSHAKE", "OPEN"} => InLine(input, held, chunk, sent, got)
  BY LineIs DEF TypeOK, LineInv
<1>1. ASSUME UNCHANGED <<inst, held, chunk, input, sent, got>>
      PROVE  LineInv'
  BY <1>1 DEF LineInv, Line, Reached, Unparsed
<1>2. ASSUME inst' \notin {"HANDSHAKE", "OPEN"}
      PROVE  LineInv'
  BY <1>2 DEF LineInv
<1>3. ASSUME InLine(input', held', chunk', sent', got')
      PROVE  LineInv'
  BY <1>3 DEF LineInv, Line, InLine, Reached, Unparsed, Carries, Msgs
<1>4. CASE DoOpenFail \/ DoOpenNotStarted
  BY <1>2, <1>4 DEF DoOpenFail, DoOpenNotStarted
<1>5. CASE DoOpenStart
  <2>1. /\ state = "CLOSED" /\ input' = <<>> /\ held' = None /\ chunk' = chunk
        /\ sent' = 0 /\ got' = 0
    BY <1>5 DEF DoOpenStart, DoOpenInit, Dispatch
  <2>2. chunk = <<>>
    BY <2>1 DEF Parsed
  <2> QED
    BY <1>3, <2>1, <2>2, LineEmpty
<1>6. CASE DoClose
  <2>1. inst' = "CLOSED" \/ UNCHANGED <<inst, held, chunk, input, sent, got>>
    BY <1>6 DEF DoClose, Dispatch, CloseInst, instance
  <2> QED
    BY <1>1, <1>2, <2>1
<1>7. CASE DoHandshakeTimeout \/ ReadError
  BY <1>2, <1>7 DEF DoHandshakeTimeout, ReadError, CloseInst
<1>8. CASE PollFails \/ ParseEnd \/ ReplyFails
  BY <1>2, <1>8 DEF PollFails, ParseEnd, ReplyFails
<1>9. CASE ReadSome
  <2>1. PICK n \in 1 .. MaxChunk : \E kinds \in [1 .. n -> PeerItems] :
           /\ sent' = sent + Messages(kinds, n)
           /\ chunk' = [i \in 1 .. n |-> <<kinds[i], Number(kinds, i)>>]
    BY <1>9 DEF ReadSome
  <2>2. PICK kinds \in [1 .. n -> PeerItems] :
           /\ sent' = sent + Messages(kinds, n)
           /\ chunk' = [i \in 1 .. n |-> <<kinds[i], Number(kinds, i)>>]
    BY <2>1
  <2>3. n \in Nat /\ Messages(kinds, n) \in Nat
    BY MessagesType, ClientAssumption
  <2>4. /\ chunk = <<>> /\ InLine(input, held, chunk, sent, got)
        /\ UNCHANGED <<input, held, got>>
    BY <1>0, <1>9 DEF ReadSome, instance
  <2>5. Carries(chunk', sent, sent + Messages(kinds, n))
    BY <1>0, <2>2, <2>3, ReadCarries DEF Number
  <2>6. InLine(input, held, chunk', sent + Messages(kinds, n), got)
    BY <1>0, <2>3, <2>4, <2>5, LineRead
  <2> QED
    BY <1>3, <2>2, <2>4, <2>6
<1>10. CASE ParseMessage
  BY <1>10, LineParsed
<1>11. CASE ParsePing
  <2>1. /\ inst = "OPEN" /\ InLine(input, held, chunk, sent, got)
        /\ UNCHANGED <<input, sent, got>> /\ Current[1] # "msg"
        /\ held' \in {None, Current} /\ chunk' = Consumed
        /\ held = None => chunk # <<>>
    BY <1>0, <1>11 DEF ParsePing, ParseItem, Parsing, GoOn, Blocked
  <2>2. held'[1] # "msg" /\ held[1] # "msg"
    BY <2>1 DEF None, Current
  <2>3. InLine(input, held, Consumed, sent, got)
    <3>1. CASE held # None
      BY <2>1, <3>1 DEF Consumed
    <3>2. CASE held = None
      BY <1>0, <2>1, <3>2, LineOther DEF Consumed, Current
    <3> QED
      BY <3>1, <3>2
  <2>4. InLine(input, held', Consumed, sent, got)
    BY <2>2, <2>3 DEF InLine
  <2> QED
    BY <1>3, <2>1, <2>4
<1>12. CASE ReplyPart \/ ReplyAccept
  <2>1. /\ inst = "HANDSHAKE" /\ InLine(input, held, chunk, sent, got)
        /\ UNCHANGED <<input, held, sent, got>> /\ chunk' = Tail(chunk)
        /\ Head(chunk)[1] # "msg" /\ chunk # <<>>
    BY <1>0, <1>12
       DEF ReplyPart, ReplyAccept, ParseReply, Parsing, HeldKept
  <2>2. InLine(input, held, Tail(chunk), sent, got)
    BY <1>0, <2>1, LineOther
  <2> QED
    BY <1>3, <2>1, <2>2
<1>13. CASE ParseClosed
  BY <1>2, <1>13 DEF ParseClosed, instance
<1>14. CASE Recv \/ Reader
  <2>1. /\ UNCHANGED <<inst, held, chunk, sent>>
        /\ \/ UNCHANGED <<input, got>>
           \/ input # <<>> /\ got' = Head(input) /\ input' = Tail(input)
    BY <1>14 DEF Recv, Reader, TryGet, Look, ReaderStep, instance, worker
  <2>2. CASE UNCHANGED <<input, got>>
    BY <1>1, <2>1, <2>2
  <2>3. CASE inst \in {"HANDSHAKE", "OPEN"} /\ ~UNCHANGED <<input, got>>
    <3>1. InLine(Tail(input), held, chunk, sent, Head(input))
      BY <1>0, <2>1, <2>3, LineGot
    <3> QED
      BY <1>3, <2>1, <2>3, <3>1
  <2> QED
    BY <1>2, <2>1, <2>2, <2>3
<1>15. CASE \/ UNCHANGED vars \/ Wake \/ DoOpenBusy \/ DoSend \/ PollIdle
            \/ ReadNothing \/ ParseEmpty \/ GetNothing \/ GetBuffer \/ GetPoison
            \/ WritePart \/ WriteDone \/ NotifyReaders
  <2>1. UNCHANGED <<inst, held, chunk, input, sent, got>>
    BY <1>15 DEF vars, Wake, DoOpenBusy, DoSend, Dispatch, PollIdle, Pass,
                 ReadNothing, ParseEmpty, GetNothing, GetBuffer, GetPoison,
                 WritePart, WriteDone, NotifyReaders, instance, worker
  <2> QED
    BY <1>1, <2>1
<1>16. CASE RecvTimeout \/ Caller \/ \E op \in Calls : CallStart(op)
  <2>1. UNCHANGED <<inst, held, chunk, input, sent, got>>
    BY <1>16 DEF RecvTimeout, ReaderStep, Caller, CallStart, CallAgain,
                 CallReturn, Push, instance, worker
  <2> QED
    BY <1>1, <2>1
<1> QED
  BY <1>4, <1>5, <1>6, <1>7, <1>8, <1>9, <1>10, <1>11, <1>12, <1>13, <1>14,
     <1>15, <1>16 DEF Next, Worker, Turn

\* The line is there from the moment the socket is open.
LEMMA LineHolds == Spec => []LineInv
<1>1. Init => LineInv
  BY DEF Init, LineInv
<1>2. TypeOK /\ HeldKept /\ Parsed /\ LineInv /\ [Next]_vars => LineInv'
  BY LineStep
<1> QED
  BY TypeCorrect, ParsedHolds, <1>1, <1>2, PTL DEF Spec

\* The messages reach recv in order, none lost and none repeated, whatever
\* blocks the parser, splits what the socket gives and ends the connection.
THEOREM ConveyorHolds == Spec => []Conveyor
<1>1. LineInv => Conveyor
  BY DEF LineInv, Conveyor
<1> QED
  BY LineHolds, <1>1, PTL

----------------------------------------------------------------------------
(* The contract: every step is a step of MbedSession, or a stutter.        *)

\* What recv may still return, open or closed: the messages after the last it
\* has returned, in order, and no more than were sent.
Received ==
    /\ \A i \in DOMAIN input : input[i] = got + i
    /\ got + Len(input) <= sent

\* The ways of the client's state.
Round ==
    \/ UNCHANGED state
    \/ state = "OPENING" /\ state' = "OPEN"
    \/ state \in {"OPENING", "OPEN"} /\ state' = "CLOSING"
    \/ state = "CLOSING" /\ state' = "CLOSED"

\* What a step may do to the messages and the state.
Moved == Round /\ UNCHANGED <<input, got, sent>>
Renewed ==
    /\ state = "CLOSED" /\ state' \in {"OPENING", "CLOSED"}
    /\ input' = <<>> /\ got' = 0 /\ sent' = 0
Arrived ==
    /\ state \in {"OPENING", "OPEN"} /\ sent' >= sent
    /\ UNCHANGED <<state, input, got>>
Lined ==
    /\ state = "OPEN"
    /\ \E m \in Nat : input' = Append(input, m)
    /\ UNCHANGED <<state, got, sent>>
Taken ==
    /\ input # <<>> /\ got' = Head(input) /\ input' = Tail(input)
    /\ UNCHANGED <<state, sent>>

\* wic_close moves the state on from opening and open only.
LEMMA CloseInstRound ==
    ASSUME States, NEW written, NEW armed, CloseInst(written, armed)
    PROVE  Round
  BY DEF CloseInst, HandshakeFailure, CloseOpen, States, Round

\* There is no other step.
LEMMA EveryStep ==
    ASSUME TypeOK, HeldKept, States, Closing, [Next]_vars
    PROVE  Moved \/ Renewed \/ Arrived \/ Lined \/ Taken
<1>1. CASE DoOpenFail \/ DoOpenNotStarted \/ DoOpenStart
  BY <1>1 DEF DoOpenFail, DoOpenNotStarted, DoOpenStart, DoOpenInit,
              CloseSocket, Renewed
<1>2. CASE DoClose
  <2>1. CloseInst(TRUE, timer) \/ UNCHANGED state
    BY <1>2 DEF DoClose
  <2>2. Round
    BY <2>1, CloseInstRound DEF Round
  <2> QED
    BY <1>2, <2>2 DEF DoClose, Dispatch, callers, Moved
<1>3. CASE DoHandshakeTimeout \/ ReadError
  <2>1. Round
    BY <1>3, CloseInstRound DEF DoHandshakeTimeout, ReadError
  <2> QED
    BY <1>3, <2>1 DEF DoHandshakeTimeout, ReadError, Moved
<1>4. CASE PollFails \/ ReplyFails
  <2>1. state = "OPENING" /\ state' = "CLOSING"
    BY <1>4 DEF PollFails, ReplyFails, ParseReply, HandshakeFailure, States
  <2> QED
    BY <1>4, <2>1 DEF PollFails, ReplyFails, ParseReply, Moved, Round
<1>5. CASE ParseEnd
  <2>1. state = "OPEN" /\ state' = "CLOSING"
    BY <1>5 DEF ParseEnd, ParseItem, CloseOpen, States
  <2> QED
    BY <1>5, <2>1 DEF ParseEnd, ParseItem, Moved, Round
<1>6. CASE ReplyAccept
  <2>1. state = "OPENING" /\ state' = "OPEN"
    BY <1>6 DEF ReplyAccept, ParseReply, States
  <2> QED
    BY <1>6, <2>1 DEF ReplyAccept, ParseReply, Moved, Round
<1>7. CASE GetPoison
  <2>1. state' = "CLOSED" /\ UNCHANGED <<input, got, sent>>
        /\ \E i \in DOMAIN out.items : out.items[i] = "poison"
    BY <1>7 DEF GetPoison, CloseSocket
  <2>2. state = "CLOSING"
    BY <2>1 DEF Closing, PoisonsIn
  <2> QED
    BY <2>1, <2>2 DEF Moved, Round
<1>8. CASE ReadSome
  <2>1. PICK n \in 1 .. MaxChunk :
           \E kinds \in [1 .. n -> PeerItems] : sent' = sent + Messages(kinds, n)
    BY <1>8 DEF ReadSome
  <2>2. PICK kinds \in [1 .. n -> PeerItems] : sent' = sent + Messages(kinds, n)
    BY <2>1
  <2>3. n \in Nat /\ Messages(kinds, n) \in Nat
    BY MessagesType, ClientAssumption
  <2>4. sent' >= sent
    BY <2>2, <2>3 DEF TypeOK
  <2>5. state \in {"OPENING", "OPEN"} /\ UNCHANGED <<state, input, got>>
    BY <1>8 DEF ReadSome, States
  <2> QED
    BY <2>4, <2>5 DEF Arrived
<1>9. CASE ParseMessage
  <2>1. state = "OPEN" /\ UNCHANGED <<state, got, sent>>
    BY <1>9 DEF ParseMessage, ParseItem, States
  <2>2. Current[2] \in Nat
    <3>1. Current \in ItemOf
      BY <1>9, TailItems
         DEF Current, ParseMessage, ParseItem, Parsing, TypeOK
    <3> QED
      BY <3>1 DEF ItemOf
  <2>3. CASE input' = Append(input, Current[2])
    BY <2>1, <2>2, <2>3 DEF Lined
  <2>4. CASE UNCHANGED input
    BY <2>1, <2>4 DEF Moved, Round
  <2> QED
    BY <1>9, <2>3, <2>4 DEF ParseMessage
<1>10. CASE \/ UNCHANGED vars \/ Wake \/ DoOpenBusy \/ DoSend \/ PollIdle
            \/ ReadNothing \/ ParsePing \/ ReplyPart \/ ParseClosed
            \/ ParseEmpty \/ GetNothing \/ GetBuffer \/ WritePart \/ WriteDone
            \/ NotifyReaders
  <2>1. UNCHANGED <<state, input, got, sent>>
    BY <1>10 DEF vars, Wake, DoOpenBusy, DoSend, PollIdle, Pass, ReadNothing,
                 ParsePing, ParseItem, ReplyPart, ParseReply, ParseClosed,
                 ParseEmpty, GetNothing, GetBuffer, WritePart, WriteDone,
                 NotifyReaders
  <2> QED
    BY <2>1 DEF Moved, Round
<1>11. CASE Recv \/ Reader
  <2>1. \/ UNCHANGED <<state, input, got, sent>>
        \/ Taken
    BY <1>11 DEF Recv, Reader, TryGet, Look, ReaderStep, Taken
  <2> QED
    BY <2>1 DEF Moved, Round
<1>12. CASE RecvTimeout \/ Caller \/ \E op \in Calls : CallStart(op)
  <2>1. UNCHANGED <<state, input, got, sent>>
    BY <1>12 DEF RecvTimeout, ReaderStep, Caller, CallStart, CallAgain,
                 CallReturn, Push
  <2> QED
    BY <2>1 DEF Moved, Round
<1> QED
  BY <1>1, <1>2, <1>3, <1>4, <1>5, <1>6, <1>7, <1>8, <1>9, <1>10, <1>11, <1>12
     DEF Next, Worker, Turn

\* A step keeps what recv may return: while the socket is open it is a part of
\* the line, and a socket that closes leaves it as it was.
LEMMA ReceivedStep ==
    ASSUME TypeOK, TypeOK', HeldKept, States, States', Closing, LineInv',
           Received, [Next]_vars
    PROVE  Received'
<1>1. CASE inst' \in {"HANDSHAKE", "OPEN"}
  <2>1. /\ \A i \in DOMAIN input' : input'[i] = got' + i
        /\ got' + Len(input') + (IF held'[1] = "msg" THEN 1 ELSE 0) <= sent'
    BY <1>1 DEF LineInv, Line, Reached
  <2>2. input' \in Seq(Nat) /\ got' \in Nat /\ sent' \in Nat
    BY DEF TypeOK
  <2>3. got' + Len(input') <= sent'
    BY ONLY <2>1, <2>2
  <2> QED
    BY <2>1, <2>3 DEF Received
<1>2. CASE Moved
  BY <1>2 DEF Moved, Received
<1>3. CASE Renewed
  BY <1>3 DEF Renewed, Received
<1>4. CASE Arrived \/ Lined
  <2>1. inst' \in {"HANDSHAKE", "OPEN"}
    BY <1>4 DEF Arrived, Lined, States
  <2> QED
    BY <1>1, <2>1
<1>5. CASE Taken
  <2>1. input \in Seq(Nat) /\ got \in Nat /\ sent \in Nat
    BY DEF TypeOK
  <2>2. /\ Head(input) = got + 1 /\ Len(Tail(input)) = Len(input) - 1
        /\ Len(input) \in Nat
        /\ \A i \in DOMAIN Tail(input) : Tail(input)[i] = got + 1 + i
    BY <1>5, <2>1, LineHead DEF Taken, Received
  <2>3. got + 1 + (Len(input) - 1) = got + Len(input)
    BY ONLY <2>1, <2>2
  <2> QED
    BY <1>5, <2>2, <2>3 DEF Taken, Received
<1> QED
  BY <1>1, <1>2, <1>3, <1>4, <1>5, EveryStep

\* Received is an invariant, whatever the state of the connection.
LEMMA ReceivedHolds == Spec => []Received
<1>1. Init => Received
  BY DEF Init, Received
<1>2. /\ TypeOK /\ TypeOK' /\ HeldKept /\ States /\ States' /\ Closing
      /\ LineInv' /\ Received /\ [Next]_vars
      => Received'
  BY ReceivedStep
<1> QED
  BY TypeCorrect, LifeHolds, LineHolds, <1>1, <1>2, PTL DEF Spec

\* Each of the things a step may do is a step of the contract.
LEMMA ConnectionStep ==
    ASSUME TypeOK, TypeOK', HeldKept, States, Closing, Received, Received',
           [Next]_vars
    PROVE  [Connection!Next]_(Connection!vars)
<1> DEFINE ready == got + Len(input)
<1>1. /\ input \in Seq(Nat) /\ got \in Nat /\ sent \in Nat /\ ready \in Nat
      /\ sent' \in Nat
  BY DEF TypeOK
<1>2. CASE Moved
  <2>1. ready' = ready /\ UNCHANGED <<sent, got>>
    BY <1>2 DEF Moved
  <2>2. CASE UNCHANGED state
    BY <2>1, <2>2 DEF Connection!vars
  <2>3. CASE state = "OPENING" /\ state' = "OPEN"
    BY <2>1, <2>3 DEF Connection!Next, Connection!Establish
  <2>4. CASE state \in {"OPENING", "OPEN"} /\ state' = "CLOSING"
    BY <2>1, <2>4 DEF Connection!Next, Connection!End
  <2>5. CASE state = "CLOSING" /\ state' = "CLOSED"
    BY <2>1, <2>5 DEF Connection!Next, Connection!Shut
  <2> QED
    BY <1>2, <2>2, <2>3, <2>4, <2>5 DEF Moved, Round
<1>3. CASE Renewed
  <2>1. ready' = 0
    BY <1>3 DEF Renewed
  <2> QED
    BY <1>3, <2>1 DEF Renewed, Connection!Next, Connection!Open
<1>4. CASE Arrived
  <2>1. ready' = ready /\ UNCHANGED <<state, got>>
    BY <1>4 DEF Arrived
  <2>2. CASE sent' = sent
    BY <2>1, <2>2 DEF Connection!vars
  <2>3. CASE sent' # sent
    <3>1. sent' > sent
      BY <1>1, <1>4, <2>3 DEF Arrived
    <3> QED
      BY <1>1, <1>4, <2>1, <3>1
         DEF Arrived, Connection!Next, Connection!Arrive
  <2> QED
    BY <2>2, <2>3
<1>5. CASE Lined
  <2>1. PICK m \in Nat : input' = Append(input, m)
    BY <1>5 DEF Lined
  <2>2. Len(input') = Len(input) + 1
    BY <1>1, <2>1
  <2>3. ready' = ready + 1 /\ UNCHANGED <<state, sent, got>> /\ state = "OPEN"
    BY <1>1, <1>5, <2>2 DEF Lined
  <2>4. ready' <= sent'
    BY DEF Received
  <2> HIDE DEF ready
  <2>5. ready < sent
    BY ONLY <1>1, <2>3, <2>4
  <2> QED
    BY <2>3, <2>5 DEF Connection!Next, Connection!Queue, ready
<1>6. CASE Taken
  <2>1. /\ Head(input) = got + 1 /\ Len(Tail(input)) = Len(input) - 1
        /\ Len(input) \in Nat /\ Len(input) # 0
    BY <1>1, <1>6, LineHead DEF Taken, Received
  <2>2. got' = got + 1 /\ ready' = ready /\ got < ready
    BY <1>1, <1>6, <2>1 DEF Taken
  <2> QED
    BY <1>6, <2>2 DEF Taken, Connection!Next, Connection!Receive
<1> QED
  BY <1>2, <1>3, <1>4, <1>5, <1>6, EveryStep

\* The client implements the contract of MbedSession: its state goes round as
\* the application is told, and recv returns the messages of one connection in
\* the order they were sent and without a gap, also when they were queued
\* before the socket closed.
THEOREM ConnectionImplemented == Spec => KeepsConnection
<1>1. Init => Connection!Init
  BY DEF Init, Connection!Init
<1>2. /\ TypeOK /\ TypeOK' /\ HeldKept /\ States /\ Closing
      /\ Received /\ Received' /\ [Next]_vars
      => [Connection!Next]_(Connection!vars)
  BY ConnectionStep
<1> QED
  BY <1>1, <1>2, TypeCorrect, LifeHolds, ReceivedHolds, PTL
     DEF Spec, KeepsConnection, Connection!Spec
=============================================================================
