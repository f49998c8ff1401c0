--------------------------- MODULE MbedOutputQueue ---------------------------
(***************************************************************************)
(* The output queue of the mbed port (src/port/mbed/wic_output_queue.h):   *)
(* four static buffers, one per kind of frame, a flag for each that is     *)
(* taken, and a queue of the buffers that wait for the socket.  The null   *)
(* pointer is queued as well: it tells the worker to close the socket and  *)
(* is called poison here.                                                  *)
(*                                                                         *)
(* rtos::Queue is external.  The code passes each buffer's priority as the *)
(* second argument of its put, which some versions of the library read as  *)
(* a time to wait: Ranked says whether the queue orders by priority or     *)
(* first in, first out.                                                    *)
(***************************************************************************)
EXTENDS Naturals, Sequences

CONSTANTS
    Ranked,   \* whether rtos::Queue serves the highest priority first
    UserMax   \* MAX_SIZE, bytes in the user buffer

ASSUME QueueAssumption == Ranked \in BOOLEAN /\ UserMax \in Nat \ {0}

Buffer == {"user", "close", "ping", "pong"}
Item   == Buffer \cup {"poison"}

\* enum wic_buffer; on_buffer is asked for one of these.
BufferType == {"HTTP", "USER", "CLOSE", "CLOSE_RESPONSE", "PING", "PONG"}

TypeToBuf(type) ==
    CASE type \in {"HTTP", "USER"} -> "user"
      [] type \in {"CLOSE", "CLOSE_RESPONSE"} -> "close"
      [] type = "PONG" -> "pong"
      [] type = "PING" -> "ping"

\* Faulty: the buffers of ping and pong are mixed up.
CapacitySwapped(b) ==
    CASE b = "user" -> UserMax
      [] b \in {"close", "ping"} -> 131
      [] b = "pong" -> 2

Capacity(b) ==
    CASE b = "user" -> UserMax
      [] b \in {"close", "pong"} -> 131
      [] b = "ping" -> 2

\* Faulty: the close frame ranks below the poison.
PriorityLow(i) == IF i = "poison" THEN 2 ELSE 1

Priority(i) ==
    CASE i = "close" -> 3
      [] i = "poison" -> 2
      [] i = "pong" -> 1
      [] i \in {"user", "ping"} -> 0

\* flags is the set of buffers that are taken; items are in order of arrival.
OutZero == [flags |-> {}, items |-> <<>>]

Queued(out) == {out.items[i] : i \in DOMAIN out.items}

\* Faulty: a buffer that is taken is given out again.
MayAllocTaken(out, type, size) ==
    size = 0 \/ size <= Capacity(TypeToBuf(type))

\* alloc finds the type's buffer free and not too small.
MayAlloc(out, type, size) ==
    /\ size = 0 \/ size <= Capacity(TypeToBuf(type))
    /\ TypeToBuf(type) \notin out.flags

Alloc(out, type) == [out EXCEPT !.flags = @ \cup {TypeToBuf(type)}]
Free(out, b) == [out EXCEPT !.flags = @ \ {b}]
Put(out, i) == [out EXCEPT !.items = Append(@, i)]

\* Whether the queue serves position i of the items before position j.
Before(out, i, j) ==
    LET rank(k) == IF Ranked THEN Priority(out.items[k]) ELSE 0
    IN  rank(i) > rank(j) \/ (rank(i) = rank(j) /\ i < j)

\* Position i is the one that get takes.
IsNext(out, i) ==
    \A j \in DOMAIN out.items : j # i => Before(out, i, j)

\* get: the items without the one at position i.
Got(out, i) ==
    [out EXCEPT !.items =
        [k \in 1 .. Len(@) - 1 |-> IF k < i THEN @[k] ELSE @[k + 1]]]
=============================================================================
