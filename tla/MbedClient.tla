----------------------------- MODULE MbedClient -----------------------------
(***************************************************************************)
(* The websocket client of the mbed port (src/port/mbed/wic_client.cpp):   *)
(* a worker thread that owns the wic_inst, the socket and both queues; the *)
(* thread that calls connect, send or close, of which writers_mutex lets   *)
(* in one at a time; and the one that readers_mutex lets into recv.        *)
(*                                                                         *)
(* A call writes a job, queues an event for the worker and spins until     *)
(* job.done.  The worker goes round its loop; pc is where it stands.  What *)
(* a handler of the instance does is part of the worker's step: the other  *)
(* threads see of it only job, state and the input queue.  The mutex of    *)
(* the readers is modelled, because notify_readers and flush_input_queue   *)
(* take it in the worker.                                                  *)
(*                                                                         *)
(* The instance is what WicInst says of it, seen through the handlers: its *)
(* state, whether a response has begun, and the message or ping that       *)
(* parse_data keeps while it is blocked.  The peer's bytes are items: the  *)
(* pieces of a response, messages (numbered), pings, a close frame and a   *)
(* frame that breaks the protocol.                                         *)
(***************************************************************************)
EXTENDS MbedOutputQueue, FiniteSets

CONSTANTS
    Depth,        \* buffers of the input queue besides the instance's own
    MaxRedirects, \* max_redirects
    Calls,        \* the calls the application makes
    PeerItems,    \* kinds of items the peer sends
    CloseSizes,   \* sizes of close frames
    OpenErrors,   \* what may go wrong in do_open
    MaxChunk,     \* bound: items in one read of the socket
    MaxMsg,       \* bound: messages of the peer in one connection
    MaxEvents     \* bound: events waiting for the worker

Reply == {"part", "accept", "redirect", "refuse"}
FrameKind == {"msg", "ping", "long_ping", "close", "bad"}
Call  == {"connect", "close", "send"}
OpenError == {"url", "network", "too_large"}

ASSUME ClientAssumption ==
    /\ Depth \in Nat \ {0}
    /\ MaxRedirects \in Nat
    /\ Calls \subseteq Call
    /\ PeerItems \subseteq Reply \cup FrameKind
    /\ CloseSizes \subseteq Nat \ {0}
    /\ OpenErrors \subseteq OpenError
    /\ MaxChunk \in Nat \ {0}
    /\ MaxMsg \in Nat
    /\ MaxEvents \in Nat \ {0}

VARIABLES
    inst,     \* inst.state; READY lasts no longer than handle_open
    http,     \* whether the http parser is within a response
    redirect, \* whether inst.redirect_url is set
    held,     \* the item parse_data is blocked on; none, once closed
    state,    \* the client's state
    timer,    \* whether do_handshake_timeout is due some time
    out,      \* tx_queue
    tx,       \* the buffer on_buffer has given and on_send has not taken back
    writing,  \* _tx, the buffer that is on its way to the socket
    chunk,    \* _rx, what is not parsed yet of the last read
    input,    \* input_queue
    events,   \* the event queue
    batch,    \* events that this turn's dispatch has still to run
    pc,       \* where the worker stands in its loop
    waking,   \* whether the worker is about to notify the readers
    job,      \* the job of the call
    call,     \* the call that spins, and the redirects it may follow
    reader,   \* where recv stands
    \* History, read by the properties only:
    sent,     \* messages of the peer in this connection
    got       \* messages recv has returned of this connection

instance == <<inst, http, redirect, held>>
worker   == <<writing, chunk, batch, pc>>
callers  == <<call, reader>>
vars == <<inst, http, redirect, held, state, timer, out, tx, writing, chunk,
          input, events, batch, pc, waking, job, call, reader, sent, got>>

None  == <<"none", 0>>
ItemOf == (Reply \cup FrameKind \cup {"none"}) \X Nat

Pc == {"idle", "dispatch", "read", "parse", "get", "write"}

Job == [done : BOOLEAN, ret : {"ok", "err"},
        status : {"success", "would_block", "failed"}, upgrade : BOOLEAN]

\* job = {}: every field has the value of its first enumerator.
JobZero == [done |-> FALSE, ret |-> "ok", status |-> "success",
            upgrade |-> FALSE]
NoCall == [op |-> "none", n |-> 0]

Init ==
    /\ inst = "INIT" /\ http = FALSE /\ redirect = FALSE /\ held = None
    /\ state = "CLOSED" /\ timer = FALSE
    /\ out = OutZero /\ tx = "none" /\ writing = "none"
    /\ chunk = <<>> /\ input = <<>> /\ events = <<>> /\ batch = 0
    /\ pc = "idle" /\ waking = FALSE
    /\ job = JobZero /\ call = NoCall /\ reader = "idle"
    /\ sent = 0 /\ got = 0

\* recv holds readers_mutex, except while it waits.
ReaderHolds == reader = "look"

\* The worker is at a place, and has notified whom it had to notify.
At(place) == pc = place /\ ~waking

\* dispatch is over, wic_parse is next.
Polling == At("dispatch") /\ batch = 0

----------------------------------------------------------------------------
(* The handlers of the instance.                                           *)

\* handle_handshake_failure, as far as the caller sees it.
Failed(upgrade) ==
    [job EXCEPT !.done = TRUE, !.ret = "err", !.upgrade = upgrade]

\* Faulty: the timer of a failed handshake is not cancelled.
HandshakeFailureArmed(upgrade) ==
    /\ out' = Put(out, "poison")
    /\ job' = Failed(upgrade)
    /\ timer' = timer
    /\ state' = "CLOSING"
    /\ UNCHANGED tx

\* handle_close_transport and handle_handshake_failure.
HandshakeFailure(upgrade) ==
    /\ out' = Put(out, "poison")
    /\ job' = Failed(upgrade)
    /\ timer' = FALSE
    /\ state' = "CLOSING"
    /\ UNCHANGED tx

\* handle_buffer, stream_put_frame and handle_send.  alloc reports MAX_SIZE
\* as the largest size of every buffer, which stream_put_frame compares with
\* the frame's: what fails there after alloc is not handed back.
PutFrame(type, size) ==
    LET gotOne == MayAlloc(out, type, size)
        fits   == size <= UserMax
    IN  [out    |-> CASE gotOne /\ fits -> Put(Alloc(out, type), TypeToBuf(type))
                      [] gotOne /\ ~fits -> Alloc(out, type)
                      [] OTHER -> out,
         tx     |-> IF gotOne /\ ~fits THEN TypeToBuf(type) ELSE "none",
         status |-> CASE ~fits -> "failed"
                      [] fits /\ gotOne -> "success"
                      [] OTHER -> "would_block"]

\* wic_close_with_reason of an open websocket; handle_close_transport and
\* handle_close.  A code that is not written has no frame.
CloseFrame(size) ==
    LET f == PutFrame("CLOSE", size)
    IN  /\ out' = Put(f.out, "poison")
        /\ tx' = f.tx
CloseSilent ==
    /\ out' = Put(out, "poison")
    /\ UNCHANGED tx
CloseOpen(written) ==
    /\ IF written THEN \E size \in CloseSizes : CloseFrame(size)
                  ELSE CloseSilent
    /\ state' = "CLOSING"
    /\ UNCHANGED job

CloseInst(written, armed) ==
    /\ inst' = "CLOSED"
    /\ \/ /\ inst \in {"INIT", "CLOSED"}
          /\ timer' = armed
          /\ UNCHANGED <<out, tx, state, job>>
       \/ inst = "HANDSHAKE" /\ HandshakeFailure(FALSE)
       \/ inst = "OPEN" /\ CloseOpen(written) /\ timer' = armed
    /\ http' = FALSE /\ held' = None
    /\ UNCHANGED redirect

\* Faulty: the call that waits is not told.
CloseSocketSilent(j) ==
    /\ job' = j
    /\ state' = "CLOSED"
    /\ waking' = TRUE

\* do_close_socket: whatever job there is, it is done.
CloseSocket(j) ==
    /\ job' = [j EXCEPT !.done = TRUE]
    /\ state' = "CLOSED"
    /\ waking' = TRUE

----------------------------------------------------------------------------
(* The worker: acquire and dispatch.                                       *)

\* The semaphore is released by callers, by the socket and every second by
\* the ticker.
Wake ==
    /\ At("idle")
    /\ pc' = "dispatch"
    /\ batch' = Len(events)
    /\ UNCHANGED <<instance, state, timer, out, tx, writing, chunk, input,
                   events, waking, job, callers, sent, got>>

Dispatch(op) ==
    /\ At("dispatch")
    /\ batch > 0
    /\ Head(events) = op
    /\ events' = Tail(events)
    /\ batch' = batch - 1
    /\ UNCHANGED <<writing, chunk, pc, callers>>

DoOpenBusy ==
    /\ Dispatch("connect")
    /\ state # "CLOSED"
    /\ job' = [job EXCEPT !.done = TRUE, !.ret = "err"]
    /\ UNCHANGED <<instance, state, timer, out, tx, input, waking, sent, got>>

\* Faulty: the messages of the last connection stay in the input queue.
DoOpenInitFull ==
    /\ Dispatch("connect")
    /\ state = "CLOSED"
    /\ ~ReaderHolds
    /\ input' = input
    /\ http' = FALSE /\ redirect' = FALSE /\ held' = None
    /\ sent' = 0 /\ got' = 0

\* do_open past its first check: flush_input_queue, which waits for the
\* readers' mutex, and wic_init.
DoOpenInit ==
    /\ Dispatch("connect")
    /\ state = "CLOSED"
    /\ ~ReaderHolds
    /\ input' = <<>>
    /\ http' = FALSE /\ redirect' = FALSE /\ held' = None
    /\ sent' = 0 /\ got' = 0

\* The URL, the name server or the socket fails.
DoOpenFail ==
    /\ OpenErrors \cap {"url", "network"} # {}
    /\ DoOpenInit
    /\ inst' = "INIT"
    /\ CloseSocket([job EXCEPT !.ret = "err"])
    /\ UNCHANGED <<timer, out, tx>>

\* wic_start fails, for want of a buffer or because the request is too large
\* for it (and the buffer handed back): the job's result is NSAPI_ERROR_OK.
DoOpenNotStarted ==
    /\ DoOpenInit
    /\ "too_large" \in OpenErrors \/ ~MayAlloc(out, "HTTP", 0)
    /\ inst' = "INIT"
    /\ tx' = "none"
    /\ CloseSocket([job EXCEPT !.ret = "ok", !.status = "failed"])
    /\ UNCHANGED <<timer, out>>

DoOpenStart ==
    /\ DoOpenInit
    /\ MayAlloc(out, "HTTP", 0)
    /\ out' = Put(Alloc(out, "HTTP"), TypeToBuf("HTTP"))
    /\ tx' = "none"
    /\ inst' = "HANDSHAKE"
    /\ state' = "OPENING"
    /\ timer' = TRUE
    /\ job' = [job EXCEPT !.status = "success"]
    /\ UNCHANGED waking

DoClose ==
    /\ Dispatch("close")
    /\ IF inst = "OPEN"
       THEN CloseInst(TRUE, timer)
       ELSE /\ job' = [job EXCEPT !.done = TRUE, !.ret = "ok"]
            /\ UNCHANGED <<instance, state, timer, out, tx>>
    /\ UNCHANGED <<input, waking, sent, got>>

\* wic_send: the frame is queued, finds no buffer, or is refused (not open,
\* not UTF-8, out of its turn, too large).
DoSend ==
    /\ Dispatch("send")
    /\ \/ /\ inst = "OPEN"
          /\ LET f == PutFrame("USER", 1)
             IN  /\ out' = f.out
                 /\ tx' = f.tx
                 /\ job' = [job EXCEPT !.done = TRUE, !.status = f.status]
       \/ /\ job' = [job EXCEPT !.done = TRUE, !.status = "failed"]
          /\ UNCHANGED <<out, tx>>
    /\ UNCHANGED <<instance, state, timer, input, waking, sent, got>>

DoHandshakeTimeout ==
    /\ At("dispatch")
    /\ timer
    /\ CloseInst(FALSE, FALSE)
    /\ UNCHANGED <<worker, input, events, waking, callers, sent, got>>

----------------------------------------------------------------------------
(* The worker: wic_parse, with nothing and with what the socket gave.      *)

\* Nothing but pc changes in this part of the turn.
Pass(place) ==
    /\ pc' = place
    /\ UNCHANGED <<instance, state, timer, out, tx, writing, chunk, input,
                   events, batch, waking, job, callers, sent, got>>

\* wic_parse without data has nothing to do.
PollIdle ==
    /\ Polling
    /\ \/ state = "CLOSED"
       \/ inst \notin {"HANDSHAKE", "OPEN"}
       \/ inst = "HANDSHAKE" /\ ~http
       \/ inst = "OPEN" /\ held = None
    /\ Pass("read")

\* Within a response, no data is the end of the stream for the http parser:
\* an error, or the end of a body that goes on to the end of the stream.
PollFails ==
    /\ Polling
    /\ state # "CLOSED"
    /\ inst = "HANDSHAKE"
    /\ http
    /\ \/ HandshakeFailure(FALSE) /\ redirect' = redirect
       \/ HandshakeFailure(TRUE) /\ redirect' \in BOOLEAN
    /\ inst' = "CLOSED"
    /\ pc' = "read"
    /\ http' = FALSE
    /\ UNCHANGED <<held, writing, chunk, input, events, batch, waking,
                   callers, sent, got>>

\* Where wic_parse is called from, and where the worker goes when it returns.
Parsing ==
    \/ Polling /\ state # "CLOSED" /\ held # None
    \/ At("parse") /\ chunk # <<>>
ParseReturns == pc' = IF pc = "parse" THEN "get" ELSE "read"

\* The item parse_data works on: the one it is blocked on, or the next.
Current == IF held # None THEN held ELSE Head(chunk)
Consumed == IF held # None THEN chunk ELSE Tail(chunk)

ParseItem(kinds) ==
    /\ Parsing
    /\ inst = "OPEN"
    /\ Current[1] \in kinds
    /\ UNCHANGED <<http, redirect, writing, events, batch, callers, sent, got>>

\* Goes on with the next byte; the call with no data has come to its end.
GoOn == /\ held' = None
        /\ chunk' = Consumed
        /\ pc' = IF pc = "parse" THEN pc ELSE "read"

\* Faulty: what is blocked on counts as consumed, and is not kept.
BlockedDrops ==
    /\ held' = None
    /\ chunk' = Consumed
    /\ ParseReturns

\* parse_data is blocked: what it has taken from the chunk stays with it.
Blocked ==
    /\ held' = Current
    /\ chunk' = Consumed
    /\ ParseReturns

\* alloc of the input queue finds no buffer: each is in the queue, but the one
\* that do_open took for the instance.
InputFull == Len(input) >= Depth

\* handle_message.
ParseMessage ==
    /\ ParseItem({"msg"})
    /\ \/ /\ ~InputFull
          /\ input' = Append(input, Current[2])
          /\ GoOn
       \/ InputFull /\ Blocked /\ UNCHANGED input
    /\ waking' = TRUE
    /\ UNCHANGED <<inst, state, timer, out, tx, job>>

PongSize(kind) == IF kind = "ping" THEN 6 ELSE 131

\* A pong for which there is no buffer blocks; one too large is given up.
ParsePing ==
    /\ ParseItem({"ping", "long_ping"})
    /\ LET f == PutFrame("PONG", PongSize(Current[1]))
       IN  /\ out' = f.out
           /\ tx' = f.tx
           /\ IF f.status = "would_block" THEN Blocked ELSE GoOn
    /\ UNCHANGED <<inst, state, timer, job, input, waking>>

\* A close frame, or a frame that breaks the protocol: the instance closes
\* and wic_parse consumes the rest.
ParseEnd ==
    /\ ParseItem({"close", "bad"} \cup Reply)
    /\ inst' = "CLOSED"
    /\ CloseOpen(TRUE)
    /\ chunk' = <<>>
    /\ UNCHANGED <<held, timer, pc, input, waking>>

ParseReply(kinds) ==
    /\ Parsing
    /\ inst = "HANDSHAKE"
    /\ Head(chunk)[1] \in kinds
    /\ UNCHANGED <<held, writing, events, batch, callers, input, waking, pc,
                   sent, got>>

ReplyPart ==
    /\ ParseReply({"part"})
    /\ http' = TRUE
    /\ chunk' = Tail(chunk)
    /\ UNCHANGED <<inst, redirect, state, timer, out, tx, job>>

\* handle_open.
ReplyAccept ==
    /\ ParseReply({"accept"})
    /\ inst' = "OPEN"
    /\ state' = "OPEN"
    /\ http' = FALSE
    /\ timer' = FALSE
    /\ job' = [job EXCEPT !.done = TRUE, !.ret = "ok"]
    /\ chunk' = Tail(chunk)
    /\ UNCHANGED <<redirect, out, tx>>

\* The response is no http, or http that does not upgrade.
ReplyFails ==
    /\ ParseReply({"refuse", "redirect"} \cup FrameKind)
    /\ redirect' = (Head(chunk)[1] = "redirect")
    /\ \E upgrade \in BOOLEAN :
          /\ redirect' => upgrade
          /\ HandshakeFailure(upgrade)
    /\ inst' = "CLOSED"
    /\ http' = FALSE
    /\ chunk' = <<>>

\* An instance that is not open consumes everything.
ParseClosed ==
    /\ At("parse")
    /\ chunk # <<>>
    /\ inst \in {"INIT", "CLOSED"}
    /\ chunk' = <<>>
    /\ UNCHANGED <<instance, state, timer, out, tx, writing, pc, input, events,
                   batch, waking, job, callers, sent, got>>

ParseEmpty ==
    /\ At("parse")
    /\ chunk = <<>>
    /\ Pass("get")

----------------------------------------------------------------------------
(* The worker: the socket.                                                 *)

\* The peer answers the request first; frames follow an accepting response.
Sensible(kinds) ==
    /\ inst = "HANDSHAKE" => kinds[1] \in Reply
    /\ inst = "OPEN" => kinds[1] \in FrameKind
    /\ \A i \in 2 .. Len(kinds) :
          kinds[i] \in IF kinds[i - 1] = "part" THEN Reply
                       ELSE IF kinds[i - 1] \in {"redirect", "refuse"} THEN {}
                       ELSE FrameKind

\* Messages among the first i items; they are numbered as they are sent.
Messages(kinds, i) == Cardinality({j \in 1 .. i : kinds[j] = "msg"})
Number(kinds, i) == IF kinds[i] = "msg" THEN sent + Messages(kinds, i) ELSE 0

\* recv gives what the peer has sent; what comes while the instance is
\* closed is consumed without effect, and left out.
ReadSome ==
    /\ At("read")
    /\ chunk = <<>>
    /\ inst \in {"HANDSHAKE", "OPEN"}
    /\ \E n \in 1 .. MaxChunk : \E kinds \in [1 .. n -> PeerItems] :
          /\ Sensible(kinds)
          /\ sent' = sent + Messages(kinds, n)
          /\ sent' <= MaxMsg
          /\ chunk' = [i \in 1 .. n |-> <<kinds[i], Number(kinds, i)>>]
    /\ pc' = "parse"
    /\ UNCHANGED <<instance, state, timer, out, tx, writing, input, events,
                   batch, waking, job, callers, got>>

\* WOULD_BLOCK, NO_SOCKET, or a chunk that is not used up.
ReadNothing ==
    /\ At("read")
    /\ Pass(IF chunk = <<>> THEN "get" ELSE "parse")

\* The peer or the transport has closed the socket.
ReadError ==
    /\ At("read")
    /\ chunk = <<>>
    /\ state # "CLOSED"
    /\ CloseInst(FALSE, timer)
    /\ pc' = "get"
    /\ UNCHANGED <<writing, chunk, input, events, batch, waking, callers, sent,
                   got>>

GetNothing ==
    /\ At("get")
    /\ \/ writing # "none" /\ Pass("write")
       \/ writing = "none" /\ out.items = <<>> /\ Pass("idle")

GetBuffer ==
    /\ At("get")
    /\ writing = "none"
    /\ \E i \in DOMAIN out.items :
          /\ IsNext(out, i)
          /\ out.items[i] # "poison"
          /\ out' = Got(out, i)
          /\ writing' = out.items[i]
    /\ pc' = "write"
    /\ UNCHANGED <<instance, state, timer, tx, chunk, input, events, batch,
                   waking, job, callers, sent, got>>

\* Faulty: what is queued behind the poison stays there.
DrainedNot(i) == Got(out, i)

\* The loop that frees what is queued behind the poison; it would stop at a
\* second one, which there never is (Agreement).
Drained(i) ==
    [flags |-> out.flags \ Queued(out), items |-> <<>>]

GetPoison ==
    /\ At("get")
    /\ writing = "none"
    /\ \E i \in DOMAIN out.items :
          /\ IsNext(out, i)
          /\ out.items[i] = "poison"
          /\ out' = Drained(i)
    /\ CloseSocket(job)
    /\ pc' = "idle"
    /\ UNCHANGED <<instance, timer, tx, writing, chunk, input, events, batch,
                   callers, sent, got>>

\* send takes a part of the buffer, or would block.
WritePart ==
    /\ At("write")
    /\ Pass("idle")

\* The last part is written, or send fails: the buffer is free either way.
WriteDone ==
    /\ At("write")
    /\ out' = Free(out, writing)
    /\ writing' = "none"
    /\ pc' = "idle"
    /\ UNCHANGED <<instance, state, timer, tx, chunk, input, events, batch,
                   waking, job, callers, sent, got>>

----------------------------------------------------------------------------
(* notify_readers, and recv.                                               *)

\* Faulty: the readers are notified without their mutex.
NotifyUnlocked ==
    /\ waking
    /\ waking' = FALSE
    /\ reader' = IF reader = "waiting" THEN "woken" ELSE reader
    /\ UNCHANGED <<instance, state, timer, out, tx, worker, input, events, job,
                   call, sent, got>>

NotifyReaders ==
    /\ waking
    /\ ~ReaderHolds
    /\ waking' = FALSE
    /\ reader' = IF reader = "waiting" THEN "woken" ELSE reader
    /\ UNCHANGED <<instance, state, timer, out, tx, worker, input, events, job,
                   call, sent, got>>

ReaderStep(from) ==
    /\ reader = from
    /\ UNCHANGED <<instance, state, timer, out, tx, worker, events, waking, job,
                   call, sent>>

\* The mutex is taken; try_get copies a message and frees its buffer.
TryGet(from) ==
    /\ ReaderStep(from)
    /\ IF input # <<>>
       THEN /\ got' = Head(input)
            /\ input' = Tail(input)
            /\ reader' = "idle"
       ELSE reader' = "look" /\ UNCHANGED <<input, got>>

Look ==
    /\ ReaderStep("look")
    /\ reader' = IF state = "CLOSED" THEN "idle" ELSE "waiting"
    /\ UNCHANGED <<input, got>>

RecvTimeout ==
    /\ ReaderStep("waiting")
    /\ reader' = "idle"
    /\ UNCHANGED <<input, got>>

----------------------------------------------------------------------------
(* connect, close and send.                                                *)

\* job = {} and events.call; the worker cannot run the event in between.
Push(op, n) ==
    /\ Len(events) < MaxEvents
    /\ job' = JobZero
    /\ events' = Append(events, op)
    /\ call' = [op |-> op, n |-> n]
    /\ UNCHANGED <<instance, state, timer, out, tx, worker, input, waking,
                   reader, sent, got>>

CallStart(op) ==
    /\ call = NoCall
    /\ Push(op, IF op = "connect" THEN MaxRedirects ELSE 0)

\* Faulty: as many redirects are followed as the servers ask for.
MayFollowAlways == call.op = "connect" /\ job.upgrade /\ redirect

\* connect follows a redirect.
MayFollow == call.op = "connect" /\ job.upgrade /\ redirect /\ call.n > 0

\* send found no buffer.
MayRetry == call.op = "send" /\ job.status = "would_block"

CallAgain ==
    /\ call.op # "none"
    /\ job.done
    /\ \/ MayFollow /\ Push("connect", call.n - 1)
       \/ MayRetry /\ Push("send", 0)

\* The call returns; a redirect to a URL that is too long is not followed.
CallReturn ==
    /\ call.op # "none"
    /\ job.done
    /\ ~MayRetry
    /\ call' = NoCall
    /\ job' = IF MayFollow THEN JobZero ELSE job
    /\ UNCHANGED <<instance, state, timer, out, tx, worker, input, events,
                   waking, reader, sent, got>>

----------------------------------------------------------------------------
Turn ==
    \/ Wake
    \/ DoOpenBusy \/ DoOpenFail \/ DoOpenNotStarted \/ DoOpenStart
    \/ DoClose \/ DoSend
    \/ PollIdle \/ PollFails
    \/ ReadSome \/ ReadNothing \/ ReadError
    \/ ParseMessage \/ ParsePing \/ ParseEnd
    \/ ReplyPart \/ ReplyAccept \/ ReplyFails
    \/ ParseClosed \/ ParseEmpty
    \/ GetNothing \/ GetBuffer \/ GetPoison
    \/ WritePart
    \/ NotifyReaders

Worker == Turn \/ DoHandshakeTimeout \/ WriteDone
Recv == TryGet("idle")
Reader == TryGet("woken") \/ Look
Caller == CallAgain \/ CallReturn

Next ==
    \/ Worker
    \/ Recv \/ Reader \/ RecvTimeout
    \/ \E op \in Calls : CallStart(op)
    \/ Caller

Spec == Init /\ [][Next]_vars

\* The scheduler runs every thread, and the worker gets the mutex it waits
\* for; the handshake timer expires; the socket does not refuse data for
\* ever without an error; the application keeps calling recv.
Fairness ==
    /\ SF_vars(Worker)
    /\ SF_vars(DoHandshakeTimeout)
    /\ SF_vars(WriteDone)
    /\ WF_vars(Caller)
    /\ WF_vars(Reader)
    /\ WF_vars(Recv)

FairSpec == Spec /\ Fairness

----------------------------------------------------------------------------
(* Properties.                                                             *)

\* The types of the variables.
TypeOK ==
    /\ inst \in {"INIT", "HANDSHAKE", "OPEN", "CLOSED"}
    /\ http \in BOOLEAN /\ redirect \in BOOLEAN
    /\ held \in ItemOf
    /\ state \in {"CLOSED", "OPENING", "OPEN", "CLOSING"}
    /\ timer \in BOOLEAN
    /\ out \in [flags : SUBSET Buffer, items : Seq(Item)]
    /\ tx \in Buffer \cup {"none"}
    /\ writing \in Buffer \cup {"none"}
    /\ chunk \in Seq(ItemOf)
    /\ input \in Seq(Nat)
    /\ events \in Seq(Call)
    /\ batch \in Nat
    /\ pc \in Pc
    /\ waking \in BOOLEAN
    /\ job \in Job
    /\ call \in [op : Call \cup {"none"}, n : Nat]
    /\ reader \in {"idle", "look", "waiting", "woken"}
    /\ sent \in Nat /\ got \in Nat

Poisons == {i \in DOMAIN out.items : out.items[i] = "poison"}

\* The client's state, the instance's, the timer and the poison go together,
\* whichever handler, event or error changed one of them: a client that is
\* closing has the one poison that will close the socket on its way, and a
\* closed one has none that would close the next connection.
Agreement ==
    /\ (state = "OPENING") = (inst = "HANDSHAKE")
    /\ (state = "OPEN") = (inst = "OPEN")
    /\ (state = "CLOSING") = (Poisons # {})
    /\ \A i, j \in Poisons : i = j
    /\ timer = (state = "OPENING")

\* Every buffer that is taken is in exactly one place: it waits in the
\* queue, is being written, or is in the hands of the instance; and none
\* that is in such a place can be given out again.
BuffersOwned ==
    /\ out.flags = ((Queued(out) \cup {writing, tx}) \ {"poison", "none"})
    /\ \A i, j \in DOMAIN out.items : out.items[i] = out.items[j] => i = j
    /\ writing \notin Queued(out)
    /\ tx \notin Queued(out) \cup ({writing} \ {"none"})

\* A close frame in the queue is served before the poison that closes the
\* socket (comment of wic_output_queue.h on priority 2).
LastWord ==
    \A i \in DOMAIN out.items :
        out.items[i] = "close" =>
            \E j \in Poisons : Before(out, i, j)

\* Nothing of the last connection reaches the next: when a socket is opened
\* there is no frame in the queue, none half written, nothing read but not
\* parsed, and no buffer is missing.
FreshStart ==
    [][(state = "CLOSED" /\ state' = "OPENING") =>
          /\ out = OutZero
          /\ writing = "none"
          /\ chunk = <<>>
          /\ input' = <<>>]_vars

\* The messages that the parser has not reached yet.
Unparsed == {i \in DOMAIN chunk : chunk[i][1] = "msg"}

\* The last message that the parser has.
Reached == got + Len(input) + IF held[1] = "msg" THEN 1 ELSE 0

\* The messages of the peer that recv has not returned are, in order and
\* without a gap, in the input queue, with the blocked parser, and in the
\* chunk that is not parsed.
Line ==
    /\ \A i \in DOMAIN input : input[i] = got + i
    /\ held[1] = "msg" => held[2] = Reached
    /\ Reached <= sent
    /\ {chunk[i][2] : i \in Unparsed} = Reached + 1 .. sent
    /\ \A i, j \in Unparsed : i < j => chunk[i][2] < chunk[j][2]

\* While the websocket is open no message is lost, repeated or overtaken on
\* its way to recv, whatever blocks the parser and splits what is read.
Conveyor == inst = "OPEN" => Line

\* recv does not sleep through what it waits for: a reader that waits, and
\* that nobody is about to notify, has no message and no closed socket.
NoLostWakeup ==
    (reader = "waiting" /\ ~waking) => input = <<>> /\ state # "CLOSED"

\* A connect that reports success (wic_client.h on connect: "NSAPI_ERROR_OK
\* success") has at least been attempted: its do_open does not still wait
\* for the worker.
ConnectTrue ==
    (call.op = "connect" /\ job.done /\ ~MayFollow /\ job.ret = "ok") =>
        \A i \in DOMAIN events : events[i] # "connect"

\* connect, close and send return, whatever the peer, the network and the
\* other threads do, as long as the socket does not block for ever and the
\* peer does not for ever send pings so fast that there is always a pong to
\* go first: pong has a higher priority than user (wic_output_queue.h).
PongsPause ==
    []<>(pc = "get" /\ writing = "none" /\ "pong" \notin Queued(out))
CallReturns == PongsPause => ((call.op # "none") ~> (call.op = "none"))

\* A message or ping that the parser is blocked on is dealt with in the end,
\* even if the peer never sends another byte (the call of wic_parse with no
\* data in every turn of the worker).
Unblocks == (held # None /\ inst = "OPEN") ~> (held = None \/ inst # "OPEN")
----------------------------------------------------------------------------
\* The connection as the application sees it: what the client has ready is
\* what recv has returned and what waits in the input queue.
Connection == INSTANCE MbedSession WITH ready <- got + Len(input)

\* The client keeps the contract of MbedSession, whatever the worker, the
\* callers, recv and the peer do in whatever order: its state goes round the
\* four states, and recv returns 1, 2, 3, .. of what the peer sent in this
\* connection, to the end of what was queued when it closed.
KeepsConnection == Connection!Spec
=============================================================================
