# A TLA+ development of WIC

WIC (`src/src/wic.c`, `src/include/wic.h`) is a C99 websocket library without
a transport of its own: the application gives it bytes with `wic_parse`, it
gives frames to the application's `on_send` and reports events through
handlers. `src/port/mbed` makes a threaded client of it. This directory models both, checks the models with TLC and proves
theorems about them with TLAPS. Line numbers refer to `src/src/wic.c` unless
another file is named; `PROJECT.json` maps every definition to its lines.

## 1. The system

| component | state | operations | talks to |
|---|---|---|---|
| instance lifecycle | `state`, the place of control in `wic_parse` and in `close_with_reason` | `wic_init`, `wic_start`, `wic_close*`, the handler calls | application (handlers, API calls from them), http parser |
| frame parser | `rx` (header fields, `rx.state`, receive buffer), `utf8_rx` | `wic_parse`: `parse_opcode`, `parse_size`, `parse_extended_size`, `parse_mask`, `parse_data` | lifecycle (closes on errors), `on_message` |
| frame sender | `frag`, `utf8_tx` | `wic_send_text`, `wic_send_binary`, `wic_send_ping*`, `send_pong_with_payload`, the close frame | `on_buffer`, `on_send` |
| UTF-8 validator | `rx.utf8`, `utf8_rx`, `utf8_tx` | `utf8_parse`, `utf8_parse_string` | parser, sender, closing |
| handshake | `header_state`, the header store in `rx.s`, `pos`, `hash`, `redirect_url` | `start_client`, `on_header_field`, `on_header_value`, `on_response_complete`, `wic_get_header`, `wic_get_next_header` | http parser |
| streams | `wic_stream` | `stream_*` | everything |
| SHA-1, base64 | `sha1_context` | `sha1_*`, `b64_encode` | handshake |
| mbed output queue and buffers | `flags`, a priority queue | `alloc`, `free`, `put`, `get` | mbed client |
| mbed client | `state`, `job`, the handshake timer, the event queue, `_tx`, `_rx` | `connect`, `close`, `send`, `recv`, `worker_task` and its jobs, the handlers | library, socket, both queues |
| mbed input queue | the messages waiting for `recv` | `alloc`, `free`, `put`, `get` | mbed client |
| examples, http parser, server role | - | - | see section 7 |

What is hard here. The library is single threaded and never blocks, so the
hard behaviour is *re-entrance*: a handler runs in the middle of `wic_parse` or
of `close_with_reason` and may call `wic_send` or `wic_close` on the same
instance, and the library then goes on with what it had read or not yet
written. Next to it: input cut at any byte, messages cut by the peer
(fragments), by the receive buffer (a frame larger than `rx_max`), and by control
frames between the fragments; a handler that refuses a message and a buffer
that is not there, both of which must be retried without loss; and the end of
a connection, which has many ways to come about and must be reported once.

The mbed port adds threads: a worker owns the instance, callers hand it jobs
through one shared record and an event queue, a reader waits on a condition
variable. There the order of steps decides: a job that is written while the
worker ends the last one, a message that arrives between a reader's look and its
wait, a null pointer in a priority queue that must close this connection and
not the next.

What makes each component correct:

- lifecycle: each connection opens or fails, never both; its end is reported
  once, completely and as the right kind; CLOSED is final until `wic_init`;
- parser: the application receives the bytes the peer sent, in order, once,
  with the boundaries of the messages; text is valid UTF-8 across fragments; a
  ping is answered; `wic_parse` returns; the receive buffer is not overrun;
- sender: a conforming receiver accepts every sequence of frames the API lets
  through, if the application's own pings, reasons and close codes are ones that
  RFC 6455 has (the library does not look, see section 4): no mixed fragments, no
  broken text, nothing after a close frame, answers that fit a control frame; a
  frame has the size that was asked for and the header that a parser reads back;
- handshake: the stored fields are those that were sent, in pieces or whole, up to
  the one that does not fit; each field that was stored is found and listed, however
  the rest was cut; only a valid response opens; the request has each header once;
- mbed client: the states of the client, the instance, the timer and the queue
  agree; every buffer is in one place; messages reach `recv` in order; calls
  return, and what they return is true; a connection inherits nothing.

## 2. Modules

`WicInst.tla` is the core: one instance of the client role with the lifecycle, the
parser and the sender together, because they share `state` and are called back
into from the same handlers.

- *Control.* At most two activations of the library are live at once:
  `act` is where `wic_parse` stands (`idle`, between two turns of its loop
  `parse`, on the way into `parse_data` `data`, or in one of the handlers it calls)
  and `cls` is where `close_with_reason` stands on top of it. `Standing` is the
  innermost of the two. Library code runs as steps of its own while neither waits
  for a handler. When one does, the application has control: it may take an
  action of the API (`CloseIn` and `SendIn` say from where it does) and at last
  returns from the handler, and the library goes on with the state it finds *then*.
- *Data.* Payload bytes are the four letters 0x00, 0x40, 0x82, 0xC2, represented
  as subsets of two generators so that XOR is the symmetric difference: enough
  for ASCII, a two byte character, every kind of broken UTF-8 of that length, and
  for masking keys that matter. Header bytes are the fields they encode. The
  code in a close frame is chosen independently of the payload. The payloads of the
  application's pings (`PingData`) and the reasons of its closes (`Reasons`) are
  constants of their own, of any length.
- *History* (`seen`, `sent`, `got`, `owed`, `peer`) is read by properties only:
  how often the handlers were called, the current incoming message as the peer
  sent it and as the application accepted it, an unanswered ping, and `peer`,
  a receiver written from RFC 6455 that judges each frame the instance sends
  (`PeerAccepts`): fragmentation (5.4), whole UTF-8 in texts and reasons, no
  control frame in fragments or over 125 bytes (5.5), only close codes that exist (7.4,
  `CloseCodes`), nothing after a close.
- *Environment.* The http parser is external: given bytes it wants more, fails,
  or completes the response, which `on_response_complete` accepts or refuses.
  `on_buffer` has a buffer or not at every call; `PongMax` is the longest pong it
  can ever hold. `on_send`, `on_buffer` and `rand` do not call back, and
  `wic_init`, `wic_start` and `wic_parse` are not called from a handler: no
  integration in the repository does. A handler that is NULL behaves like one
  that returns at once. `WicInit` is the `wic_init` whose arguments are right: one that
  fails leaves an instance nobody uses. A `wic_start` that fails is a stutter.
- Definitions that begin with "Faulty:" in their comment are variants of the
  definition that follows, each with a plausible mistake. Nothing uses them; the
  `mutants` in `PROJECT.json` put them in place of the real one to show that a
  property notices.

`WicSession.tla` is what the library promises the application about one
connection, in six actions (Start, Abandon, Open, End, Report, Renew). `WicInst`
refines it: `Session` in `WicInst` gives the mapping, from `state` and the
handler counts to the phase, the transport and what the application was told.

`MCWicInst.tla` holds the values of the constants for TLC.

`WicHandshake.tla` is the part of the instance that `WicInst` has as one choice. The
request: the application's header nodes, linked through `next`, which outlives
the instance (`WicSetHeader`, `StartClient`). The response: the http parser delivers
names and values in pieces (`FieldStarts`, `FieldGoesOn`, ..), `on_header_field` and
`on_header_value` write them with their ends to the receive buffer, whose error
is sticky, and `Complete` judges them. Then `wic_get_header` and the iterator, which look
neither at the state nor at the error: when a piece did not fit, the last string in
the store has no end, and they read on in the bytes behind it, which nobody wrote, or past
the buffer. The model says what is known of such a string, its text as far as it is
stored and that this is not the `whole` of it; what a comparison with it gives
(`MayEqual`, `MayBe`), which header is found (`WicGetHeader` is a set of answers) and
where it ends (`Ends`) is a choice. The bound of that choice is two bytes behind the
store: `wic_get_next_header` only compares the place with the end of the store. After `on_open`
a frame reuses the buffer under the iterator (`Frame`); the history `held` says that
the response is still there, `listed` what the iterator returned of it since it
was rewound, and `astray` that it stood elsewhere when the response was complete. Letters
are few, with upper and lower case where `tolower` must matter; the protocol's names
and values are one or two letters long, and the hash is one.

`WicWire.tla` has the numbers that the other two abstract from, as benches that are
taken from idle one at a time: a frame is written with its header and read
back byte by byte (`PutFrame` or `PeerFrame`, then `ParseOpcode` to `ParseMask`);
bytes go through the table of `utf8_parse`; text through `b64_encode`; a message in
chunks through `sha1_update_ret` and `sha1_finish_ret`. `WicSha1.tla` takes blocks
through the 80 rounds of `internal_sha1_process`, a word being a pair of 16-bit
halves, with the rounds of FIPS 180 beside it. It is a module of its own because it
needs the operators of Bitwise, which no module with theorems can use.

`MbedOutputQueue.tla` is the output queue (`wic_output_queue.h`): the flags, the items, the
poison (the null pointer that tells the worker to close the socket), and the
order in which items are served. `rtos::Queue` is external; the code passes the priority
as the second argument of its `put`, which is a time to wait in some versions of mbed, so
`Ranked` chooses whether priorities count.

`MbedClient.tla` composes it with the client (`wic_client.cpp`). `pc` is the place of
`worker_task` in its loop (`idle`, `dispatch`, `read`, `parse`, `get`, `write`), and each of
its branches is an action. The handlers of the instance run within the
worker's steps, as they do in the code. `call` and `job` are the caller, of which
`writers_mutex` lets in one at a time; `CallAgain` is a followed redirect or a send
retried for want of a buffer. `reader` is `recv`, whose mutex the worker takes in
`NotifyReaders` and `DoOpenInit`. What the library does is what `WicInst` shows of it,
reduced to `inst`, `http` and `held` (the message or ping that `parse_data` is
blocked on). The peer's bytes are items; messages are numbered.

`MbedSession.tla` is what the client promises the application: four states, gone round in
one direction, and the messages of a connection received one by one in the order the peer
sent them, which `recv` may go on doing after the close, until the next connect.
`MbedClient` refines it: in `Connection`, `ready` is what `recv` has returned and what waits in
the input queue.

`MCWicInst.tla`, `MCWicHandshake.tla` and `MCWicWire.tla` hold values of constants for
TLC; `MCWicWire.tla` also puts the benches of `WicWire` and `WicSha1` side by side, one at work
at a time. The proofs are in modules of their own:

| module | about |
|---|---|
| `Induction_proofs` | induction over the numbers, and the smallest number of a set |
| `WicInst_proofs` | types of `WicInst` |
| `WicLife_proofs` | lifecycle of `WicInst`, refinement of `WicSession` |
| `WicFrames_proofs` | frames, messages and texts of `WicInst`, received and sent |
| `WicHandshake_proofs` | the request, the header store, the verdict, the iterator |
| `WicWire_proofs` | headers, UTF-8, base64, the blocks of SHA-1 |
| `MbedClient_proofs` | types of `MbedClient`, lemmas about the output queue |
| `MbedLife_proofs` | the safety properties of `MbedClient`, refinement of `MbedSession` |

## 3. Runs

| run | cfg | checks | result |
|---|---|---|---|
| lifecycle | `MCLifecycle` | `TypeOK Ledger OneOutcome EndReported CloseFinal ParseReturns KeepsSession` | passes |
| receive | `MCReceive` | `InOrder RxAgrees TextIsUtf8 PingKept Boundaries Delivered PongSent` | passes |
| exchange | `MCExchange` | `PeerOk TxAgrees InOrder`, masked frames, `rx_max` = 4 | passes |
| masked_odd_buffer | `MCMaskedOddBuffer` | `InOrder`, `rx_max` = 3 | violated |
| control_too_long | `MCControlTooLong` | `PeerOk`, with a ping of 126 bytes | violated |
| close_in_on_open | `MCCloseInOnOpen` | `ClosedIsClosed` | violated |
| close_in_failure | `MCCloseInFailure` | `OneOutcome` | violated |
| handshake | `MCHandshake` | `TypeOK StoreRight LookupRight IteratorRight RequestRight VerdictRight` | passes |
| cut_response | `MCCutResponse` | `ListedWhole` | violated |
| wire | `MCWire` | `HeaderRight SizeRight Utf8Right Base64Right BlocksRight RoundsRight` | passes |
| mbed | `MCMbedClient` | `TypeOK Agreement BuffersOwned LastWord Conveyor NoLostWakeup FreshStart CallReturns Unblocks KeepsConnection` | passes |
| mbed_redirect | `MCMbedRedirect` | `ConnectTrue` | violated |

*lifecycle.* A quiet application (`QuietApp`: it does not close in `on_open` and does
not call back while `wic_parse` reports a failed handshake, like every application
in the repository) closes from everywhere else and sends from everywhere else,
and the peer sends every kind of frame, legal or not. Each end is reported
once and completely, CLOSED is final although a send or the rest of `wic_parse`
comes after it, `wic_parse` returns, and `WicSession` is implemented, the report
of every end included.

*receive.* The peer sends text and binary messages in fragments, with extended
sizes, with characters cut anywhere, with pings between; the application
refuses now and then, `rx_max` is two, and `wic_parse` is given at most two bytes
at a time. `InOrder` relates three places at every state: what the peer sent is
what the application accepted followed by what is buffered. `TextIsUtf8` looks at
each call of `on_message` with text, the one with the final piece and the one with a whole
message included: what was accepted and what is handed over now is UTF-8, and ends within no
character if it is the end. `Boundaries` says of the ends of messages what `InOrder` says
within them, and `RxAgrees` the same of the fragmentation state.

*exchange.* Both directions at once. Sends of text and binary, final and not, with
halves of characters, pings with and without payload, closes with written and
unwritten codes and with reasons cut within a character, pongs and answers to closes,
from outside and from the handlers of a quiet application, with and without buffers, are judged by
`peer`. Meanwhile the peer sends masked frames of up to five bytes, whose unmasking
depends on the position in the buffer: it holds for a buffer of four bytes.

*control_too_long* is the same with a ping that is longer than a control frame may be.

*handshake.* Responses of up to three headers out of five, with every status, cut
anywhere, into a buffer that holds two of them but not three. What is stored is
a prefix of what was sent and ends at the first piece that did not fit. A header that
is stored whole is found and listed, whatever was cut behind it (`Kept`, `Decided`);
for the name of one that is not, `wic_get_header` answers nothing or a string without an end. The
iterator runs in every state, also after a frame has overwritten the store. The
response opens the connection exactly if RFC 6455 says so whenever the headers that
matter were stored (`VerdictRight` compares `on_response_complete` with `Valid`, which is
stated over the headers and not over the buffer), and never without 101 and
upgrade. Header nodes are used again after `wic_init`.

*wire.* `SizeRight` and `HeaderRight` relate `min_frame_size`, `stream_put_frame` and the parser;
`Utf8Right` runs the table beside the character ranges of RFC 3629 with every byte in
every state, so it holds for sequences of any length; `Base64Right` reads the text back from the letters; `BlocksRight` compares blocks with the
padding of FIPS 180; `RoundsRight` compares each round with that of FIPS 180, on words that carry
from half to half, and the example of RFC 6455, section 1.3, must give its published hash.

*mbed.* One caller, one reader and the worker; the peer accepts, refuses, redirects,
answers in two reads, sends messages and pings and closes; the socket takes
part of a frame, would block or fails; the input queue has room for one message. What was queued before a close is received after
it, until the next connect flushes it (`KeepsConnection`).

### Bounds

`RxMax` is 2 to 4: smaller than a frame, so buffers fill in the middle of a
frame, a character and a key. `MaxMsg` (4, 5 and 6 when masked) lets one message overflow the
buffer twice (once in *exchange*). `MaxChunk` (1 to 3) is the number of bytes given to one
`wic_parse`: cutting the input more coarsely only removes behaviours, because a
step of the parser takes one byte. Sizes 126 and 127 bring the extended sizes in. `seen`
counts up to two: a third report is as wrong as a second one. Two fragments or
messages in a row reach every combination of `rx.frag`, `rx.opcode` and
`rx.fin`; after the end of a message the parser's state is the one it had before. The
pings and reasons of *exchange* are far below 125 bytes: what goes wrong beyond is
*control_too_long*, and that pongs and answers stay within is proved for every size
(`ShortInv`, section 5).

Handshake: `RxMax` is 12, between the size of two short headers and of three, so that
the buffer overflows within a name, a value or before an end. Wire: the
sizes are those next to 125, 126, 127, 256 and 65535; chunks and lengths are those
next to 55, 56, 63 and 64 bytes; base64 covers every remainder after one whole
group. Mbed: `MaxEvents` = 2 lets a redirect's job wait behind another event; one
buffer in the input queue and two messages block the parser; `UserMax` = 200 is
larger than every other buffer (`MAX_SIZE` is a template parameter); smaller ones
are discussed in section 5. One redirect is followed and a second refused.

### Fairness

`FairSpec` assumes: library code runs on (it is sequential C); a handler
returns; the application keeps calling `wic_parse`, with or without new bytes, as
`transport_recv` (`src/examples/transport/transport.c`) and the worker of the mbed
client do; an application that refuses does not refuse for ever, and a buffer
for a pong is not missing for ever (strong fairness on accepting and on sending
the pong, because refusing and accepting alternate). Nothing is assumed of the
peer: `Delivered` and `PongSent` speak of frames that have arrived.

`MbedClient!Fairness`: the scheduler runs every thread; strong fairness for the
worker, because the mutex of the readers may be taken and given back between two
of its attempts (an rtos mutex serves those that wait); the handshake timer
expires; a socket does not refuse data for ever without an error; the
application calls `recv` again. `CallReturns` needs one thing more, `PongsPause`, which is
part of its statement: `pong` goes before `user`, so a peer that pings without a pause
keeps a message, and the `send` that waits for its buffer, back for ever.
`Unblocks` relies on nothing of the peer: `worker_task` calls `wic_parse` without data
in each turn.

## 4. What the violations show

1. `masked_odd_buffer`: the key byte is chosen by the position in the receive
   buffer (1750), which restarts when a fragment is handed over (1131). Masked
   frames longer than `rx_max` are garbled unless four divides `rx_max`.
2. `close_in_on_open`: `wic_parse` sets OPEN after `on_open` returned (551) even when
   the handler closed; `on_close` has been called and the instance is open.
3. `close_in_failure`: the handlers of a failed handshake run before the state is
   CLOSED (525-542); `wic_close` inside them reports a second end.
4. `control_too_long`: `wic_send_ping_with_payload` (466) and `close_with_reason` (786) put
   payloads of any size into a control frame, and any code into a close frame, where
   the parser of the same library refuses more than 125 bytes (959, 983). `readme.md:4`
   calls it an implementation of RFC 6455, which has the peer fail the connection.
5. `cut_response`: `on_header_field`, `on_header_value` and `on_response_complete` (1825, 1847,
   1980) ignore the error of the store, so a response is accepted of which only the headers that
   matter did fit. `wic_get_next_header` then returns a string that ends nowhere in
   the store, or fails its assertion (677), though `wic.h:788` has it null-terminated;
   `demo_client.c:137` iterates in `on_open` and has no means to tell.
6. `mbed_redirect`: `handle_handshake_failure` completes the job of a redirected
   `connect` (`wic_client.cpp:108`) before the socket of the first attempt is closed.
   The caller writes the job of its second attempt; the worker takes the poison
   first, and `do_close_socket` completes whatever job is there (189). `connect` returns
   `NSAPI_ERROR_OK` (`wic_client.h:175`) for an attempt that is still waiting.

2 and 3 are the two exclusions of `QuietApp`, 4 is that of `ProperApp`.

One more disagreement is no run, because nothing goes wrong with it: a send in `on_open`
promotes READY to OPEN (863) while the handler runs, though `wic.h:209` has the state READY
throughout and `readme.md:111` shows such a send. The sends of *lifecycle* and *exchange* include it.

## 5. Proofs

Every theorem holds for every value of the constants that satisfies the named
assumptions of the module (`RxMaxAssumption`, `AppAssumption`, `PeerAssumption`,
`HandshakeAssumption`, `WireAssumption`, `ClientAssumption`, `QueueAssumption`): types of
the application's, the peer's and the network's inputs, `rx_max` from 1 to 65535, frames
below the 16 bits of `stream_put_u16`, messages of fewer bits than the counter of
SHA-1 holds. Four more conditions are hypotheses of the theorems that need them,
and each is what a run or a hazard shows to be necessary:

| condition | says | without it |
|---|---|---|
| `QuietApp` | the application does not close in `on_open`, nor call back while a failed handshake is reported | `ClosedIsClosed` and `OneOutcome` are violated (section 4) |
| `ProperApp` | the application's pings have at most 125 bytes, its reasons 123, and its close codes exist | `PeerOk` is violated (`control_too_long`) |
| `MaskFits` | the peer does not mask, or four divides `rx_max` | `InOrder` is violated (`masked_odd_buffer`) |
| `LargeBuffer` | the user buffer has at least 131 bytes | a buffer stays with the instance for ever |

### The instance (`WicInst`)

- `TypeCorrect`: `TypeOK`, with the bound of the receive buffer. It is inductive; there is
  one lemma per group of actions. The bound follows from `Room` in `DataByte` and from
  the rewinds.
- `LedgerHolds` (`QuietApp`): `OneOutcome` and `EndReported` are not inductive, because
  they do not say what a closing that is under way has still to report. `Ledger` does; it
  lists the places an instance can be in (`state`, `act`, `cls`) with the exact number of
  calls of each handler. Each step moves from one line of the list to another.
  `LibraryStepLife` reduces the thirteen parser steps to two cases: they move
  `wic_parse`, and close or leave the rest alone. `OneOutcomeHolds`, `EndReportedHolds` and
  `CloseFinalHolds` follow.
- `SessionImplemented` (`QuietApp`): the initial states of `WicInst` map to those of
  `WicSession` and every step to a step or a stutter.

Receiving needs no condition on the application: whatever its handlers do, what was
received stays true. The invariants speak of an instance that is `Live`: open, or closed
by the handler that has a message in its hands; nothing is claimed of what a closed
instance keeps in its buffer, since nobody reads it.

- `RxAgreesHolds`, `PingKeptHolds`: `FrameInv`. It says of each place within a frame
  what the parser knows of the message (`Frames`), that the application has a message
  only in `DATA` with a full buffer or a finished frame, and that nothing has been received
  before the first frame (`Early`, `Fresh`). The last is needed because `on_open` runs with
  the state not yet OPEN, and may close.
- `TextIsUtf8Holds`: `TextInv`. The validator's state is that of the bytes accepted *and*
  buffered (`Sound`), within a frame in `rx.utf8` and between frames in `utf8_rx`. With
  `FrameInv`, which says when a call of `on_message` has the end of the message, this covers every
  call, that of a text in one piece too.
- `InOrderHolds`, `BoundariesHold` (`MaskFits`): `BytesInv`. The missing conjunct is where the
  key stands: the peer's index is the length of the buffer modulo four. A handed over buffer
  is full, so the index is `RxMax` modulo four then and the buffer starts again with zero;
  this is the only place where `MaskFits` is used. `Boundaries` is an action property and
  follows from the same invariant, and that the message was UTF-8 from `TextInv`.
- `TxAgreesHolds` (`QuietApp`), `PeerOkHolds` (`QuietApp`, `ProperApp`): `SendInv` adds to the
  two that a close frame sent means a closed instance, and that `utf8_tx` is not invalid in
  a text; only its conjunct `PeerOk` depends on `ProperApp`. That `utf8_parse_string` agrees with
  `WellFormed` for every text is a lemma by induction. The payload of a pong and the reason
  of an answered close are the peer's: `ShortInv` says that of a control frame an open instance
  is receiving, what is buffered and what is to come have at most 125 bytes together, which
  `parse_size` establishes and each byte keeps; and the instance answers only codes that it has
  checked. `QuietApp` is needed through `Ledger`: after `on_open` has closed, the instance would
  send on.

### The handshake (`WicHandshake`)

- `RequestRightHolds`: `ListInv`. The list hangs together, each node once, whatever `next`
  pointed to before; a walk along it is the list in reverse (`WalkBack`), so `start_client`
  ends and meets each node once.
- `StoreRightHolds`: `BufferInv`, which is `StoreInv` until a frame comes and `Reused` after
  it. `Wanted` is what the pieces delivered so far should have left in the buffer, `Place`
  where the parser stands in the response; the buffer holds the longest prefix of `Wanted`
  that was accepted before the first refusal.
- `LookupRightHolds`: what `wic_get_header` returns of a store, whole or cut. A string of the
  store is found by its ends, and no end is inside a name or a value (`NulIsNoLetter`), so
  the n-th pair of strings is the n-th header, as far as the store has it. Behind the
  last whole header there is a cut name, or a whole name and a cut value, and no end
  after it (`StringsCut`). `LookupKept` is the case of a name that is decided by a
  kept header, before which no cut string can be met; `LookupLost` the other, where an answer
  must be the one cut string.
- `VerdictRightHolds`: the verdict reads two or three lookups, which `LookupKept` makes those
  of the headers; without them 101 and upgrade are still asked for.
- `IteratorRightHolds`: `IterInv`. The iterator stands behind the headers it has returned
  (`Behind`), or, in a store that was cut, one entry further (`Beyond`), and then it has
  returned all that were kept and is done.
- `HandshakeTypes`: from `BufferInv`, which bounds the store, and `RestInv`, which has the types
  of the rest. Of the iterator it says only that it is a number: it may stand behind the buffer.

### The wire (`WicWire`)

- `FrameInvHolds`, `HeaderRightHolds`, `SizeRightHolds`: `FrameInv` says what is left of the
  header at each state of the parser and what the bytes read have said (`Stage`); sizes are
  split into bytes and put together again by lemmas about division, for two and for eight
  bytes, with all 16 bits of the sender's sizes and every size of the peer's.
- `ShaInvHolds`, `BlocksRightHolds`: `ShaInv` says that blocks and buffer are the first bytes
  of the message (`Hashed`). The padding is one case per side of 56 bytes.
- `Base64RightHolds`: the loop of `b64_encode` as an induction on the bytes read, with the two
  or four bits kept over at each remainder of three (`Runs`, `Encoded`), and the padding.

- `Utf8RightHolds`: `Utf8Inv` gives for each of the nine states of the table the bytes that
  RFC 3629 lets follow (`Rest`). The classes of all 256 bytes are a lemma about the table
  (`ClassIs`); `WithinCharacter` and `NextCharacter` are the steps of the automaton.

### The mbed client (`MbedClient`)

For every depth of the input queue, number of redirects, set of calls, peer, network
and both values of `Ranked`:

- `TypeCorrect` (of `MbedClient`): `TypeOK` with two facts it needs to be inductive.
  `HeldKept`: an item is held of an open websocket only; otherwise the parser could look
  into an empty chunk during the handshake. `BatchQueued`: what `dispatch` is
  to run is queued.
- `AgreementHolds`, `LastWordHolds`: the invariant is `States /\ Closing`. Each step either ends
  the connection, by one of two handlers that put the poison into a queue
  without one, or is a `SameEnd` step, which neither adds nor takes a poison nor
  moves a close frame behind it. `LastWord` holds first in, first out because the close frame
  is put before the poison, and by priority because 3 is more than 2.
- `NoLostWakeupHolds`: `Noticed` adds the moment between a reader's look and its wait: a
  message that arrives then has `waking` set, and the worker waits for the mutex.
- `ConveyorHolds`: `LineInv`. The messages in the input queue, the one the parser holds and
  those in the chunk are consecutive numbers, from the first the reader has not received to
  the last that was sent. It holds while the socket is open; a connection starts with
  nothing in the line.
- `ConnectionImplemented`: `KeepsConnection`, the refinement of `MbedSession`. `EveryStep` sorts the
  steps by what they do to the state and the messages (`Moved`, `Renewed`, `Arrived`, `Lined`,
  `Taken`), and each is an action of `MbedSession` or a stutter. `Line` speaks of an open socket
  only; `Received` is the part of it that outlives the close: what waits in the input queue
  is the messages after the last that was returned, and they were sent. The line
  gives it while the socket is open, and what closes a socket leaves it alone.
- `BuffersOwnedHolds`, `FreshStartHolds` (`LargeBuffer`): `alloc` reports `MAX_SIZE` of the user
  buffer as the largest size of every kind; with a smaller one `stream_put_frame` refuses
  a close frame or a pong it was given a buffer for, and keeps the buffer. `Whole` says
  that every taken buffer is queued or being written, that a closed client has nothing
  left (`Empty`), and that the rest of a chunk is consumed before the worker comes to the
  queue (`ChunkPassed`).

### Induction

The induction theorems of the library take an operator as a parameter, which the
provers at hand cannot instantiate. `SetInduction` states the same over a *set* of
numbers, from the library's theorem that < is well founded, and can be cited like
any other fact. With it the recursive functions of the models (the loop of
`b64_encode`, the run of the validator over a text) and the folds of the community
modules (`FlattenSeq`, the store of headers) are unfolded for all inputs, after a lemma that
shows each to be the function its definition says it is.

### Model-checked only

- Liveness: `ParseReturns`, `Delivered`, `PongSent`, `CallReturns`, `Unblocks` and the fair part
  of `KeepsSession`. TLAPS has no proof of these here (ENABLED and fairness).
- `RoundsRight`: its module uses Bitwise. The run compares chosen blocks, not all.
- The properties of the violated runs.

## 6. Plan

| | module | question | state |
|---|---|---|---|
| 1 | `WicInst` | lifecycle, parser, sender | modelled and checked; types and lifecycle proved |
| 2 | `WicSession` | the contract with the application | refined; safety part proved |
| 3 | `WicWire`, `WicSha1` | encodings, UTF-8, base64, SHA-1 | modelled and checked; all of `WicWire` proved |
| 4 | `WicHandshake` | header store, iteration, verdict | modelled and checked; all properties proved |
| 5 | `MbedOutputQueue`, `MbedClient` | threads, queues, redirects, closing | modelled and checked; safety proved |
| 6 | proofs about `WicInst` | frames, texts, messages, both directions | proved |
| 7 | proofs about `WicHandshake` and `WicWire` | request, store, lookup, iterator; headers, UTF-8, base64, blocks | proved |
| 8 | `MbedSession` | the client's contract with the application | refined by `MbedClient`; proved |
| 9 | the receive loop of `src/examples/transport/transport.c` | partial reads and a refusing application | not modelled: an example (section 7) |

## 7. Not modelled

- The http parser is third party code; its use is modelled as a choice.
- The bytes of frames on the mbed client's socket: a frame whose transmission
  fails half-way is dropped (`wic_client.cpp:459`), and what the peer makes of the rest is not
  in the model.
- The arguments and URLs that `wic_init` refuses (162-238), and the bounds of the buffers of
  `b64_encode` (1778), which both callers make large enough.
- What is in the bytes behind the store of a cut response: only that nothing is known of them.
- Byte order of the words of SHA-1, `stream_put_str` and the text of the request.
- More than one caller or reader at a time: both wait for a mutex that is held for
  the whole call (except while `recv` waits).
- The examples: read for how applications use the handlers; `transport_recv` is what
  the fairness of `WicInst` assumes.
- The server role: `wic_init` refuses it (234), so none of its code can run.
- `src/examples/autobahn/server.c` does not fit the current API.
- Build files, documentation, logging.
- Sizes: `RxMax` is below 65536, see the hazards about `uint16_t` in
  `PROJECT.json`, which lists the other hazards of the code as well.
